-------------------------- MODULE CommandLineProofs -------------------------
(***************************************************************************)
(* What CommandLine's functions make of an argument list, for every list:  *)
(* a well-formed one is read as it is meant.                               *)
(*                                                                         *)
(* The loops of NormalizeArgs leave two lists of the arguments, each in    *)
(* their old order (SplitLists); a flag and its value, neighbours before,  *)
(* are so afterwards (Neighbours).  The parser reads a list of flags with  *)
(* their values and then stops (ParseReads).  Both are proved along the    *)
(* list; the rest is about which arguments are in which list.              *)
(***************************************************************************)
EXTENDS CommandLine, WellFoundedInduction, SequenceTheorems, TLAPS

-----------------------------------------------------------------------------
(* Loops.                                                                    *)

LEMMA LeastOf ==
  ASSUME NEW S, S \subseteq Nat, S # {}
  PROVE  \E i \in S : \A j \in S : i <= j
<1> DEFINE less == OpToRel(<, Nat)
<1>1. IsWellFoundedOn(less, Nat)
  BY NatLessThanWellFounded
<1>2. \A i, j \in Nat : j < i => <<j, i>> \in less
  BY DEF OpToRel
<1> HIDE DEF less
<1>3. PICK i \in S : \A j \in S : <<j, i>> \notin less
  BY <1>1, WFMin
<1>4. \A j \in S : ~(j < i)
  BY <1>2, <1>3
<1> QED BY <1>4

(* Induction along the steps of a loop, S being the steps of which something *)
(* holds.                                                                    *)
LEMMA EachStep ==
  ASSUME NEW N \in Nat, NEW S, 0 \in S, \A n \in 1..N : n - 1 \in S => n \in S
  PROVE  \A n \in 0..N : n \in S
<1> DEFINE bad == {n \in 0..N : n \notin S}
<1>1. SUFFICES ASSUME bad # {} PROVE FALSE
  OBVIOUS
<1>2. bad \subseteq Nat
  OBVIOUS
<1>3. PICK n \in bad : \A m \in bad : n <= m
  <2> HIDE DEF bad
  <2> QED BY <1>1, <1>2, LeastOf
<1>4. n \in 1..N /\ n - 1 \in 0..N /\ ~(n <= n - 1)
  BY <1>3
<1>5. n - 1 \in S
  BY <1>3, <1>4
<1> QED BY <1>3, <1>4, <1>5

SplitStart == [moved |-> << >>, others |-> << >>, open |-> FALSE]

SplitLoop(xs, M, O, m, f) ==
  f = [n \in 0..m |-> IF n = 0 THEN [moved |-> << >>, others |-> << >>, open |-> FALSE]
                      ELSE SplitStep(f[n - 1], xs[n], M, O)]

(* The loop of Split, step by step.                                          *)
LEMMA SplitSteps ==
  ASSUME NEW xs, Len(xs) \in Nat, NEW M, NEW O
  PROVE  \E f : /\ f[0] = SplitStart /\ Split(xs, M, O) = f[Len(xs)]
                /\ \A n \in 1..Len(xs) : f[n] = SplitStep(f[n - 1], xs[n], M, O)
<1> DEFINE N == Len(xs)
           S == {m \in 0..N : \E f : SplitLoop(xs, M, O, m, f)}
<1>1. 0 \in S
  <2> DEFINE e == [n \in 0..0 |-> SplitStart]
  <2>1. SplitLoop(xs, M, O, 0, e)
    BY DEF SplitLoop, SplitStart
  <2> QED BY <2>1
<1>2. ASSUME NEW m \in 1..N, m - 1 \in S PROVE m \in S
  <2>1. PICK f : SplitLoop(xs, M, O, m - 1, f)
    BY <1>2
  <2> DEFINE e == [n \in 0..m |-> IF n = m THEN SplitStep(f[m - 1], xs[m], M, O) ELSE f[n]]
  <2>2. \A n \in 0..(m - 1) : f[n] = IF n = 0 THEN SplitStart
                                     ELSE SplitStep(f[n - 1], xs[n], M, O)
    BY <2>1 DEF SplitLoop, SplitStart
  <2>3. \A n \in 0..m : e[n] = IF n = 0 THEN SplitStart ELSE SplitStep(e[n - 1], xs[n], M, O)
    <3> TAKE n \in 0..m
    <3>1. n # 0 => n - 1 \in 0..m /\ n - 1 # m
      OBVIOUS
    <3>2. n # m => n \in 0..(m - 1)
      OBVIOUS
    <3>3. n # 0 => e[n - 1] = f[n - 1]
      BY <3>1
    <3>4. m # 0
      OBVIOUS
    <3> QED BY <3>2, <3>3, <3>4, <2>2
  <2>4. SplitLoop(xs, M, O, m, e)
    <3>1. e = [n \in 0..m |-> e[n]]
      OBVIOUS
    <3> HIDE DEF e
    <3> QED BY <3>1, <2>3 DEF SplitLoop, SplitStart
  <2> HIDE DEF e
  <2> QED BY <2>4
<1>3. N \in 0..N /\ \A m \in 0..N : m \in S
  <2>1. N \in Nat
    OBVIOUS
  <2>2. \A m \in 1..N : m - 1 \in S => m \in S
    BY <1>2
  <2> HIDE DEF S, N
  <2>3. \A m \in 0..N : m \in S
    BY <1>1, <2>1, <2>2, EachStep
  <2> QED BY <2>1, <2>3
<1> DEFINE f == CHOOSE h : SplitLoop(xs, M, O, N, h)
<1>4. SplitLoop(xs, M, O, N, f)
  BY <1>3
<1>5. Split(xs, M, O) = f[N]
  BY Zenon DEF Split, SplitLoop
<1> HIDE DEF f
<1>6. \A n \in 0..N : f[n] = IF n = 0 THEN SplitStart ELSE SplitStep(f[n - 1], xs[n], M, O)
  BY <1>4 DEF SplitLoop, SplitStart
<1>7. f[0] = SplitStart /\ \A n \in 1..N : f[n] = SplitStep(f[n - 1], xs[n], M, O)
  BY <1>6
<1> QED BY <1>5, <1>7

ParseStart == Reader("flags", Empty, << >>, << >>)

ParseLoop(xs, known, bools, m, f) ==
  f = [n \in 0..m |-> IF n = 0 THEN Reader("flags", Empty, << >>, << >>)
                      ELSE ParseStep(f[n - 1], xs[n], known, bools)]

(* The loop of Parse, step by step.                                          *)
LEMMA ParseSteps ==
  ASSUME NEW xs, Len(xs) \in Nat, NEW known, NEW bools
  PROVE  \E f : /\ f[0] = ParseStart
                /\ Parse(xs, known, bools) = [ok |-> f[Len(xs)].at \in {"flags", "rest"},
                                              flags |-> f[Len(xs)].flags,
                                              rest |-> f[Len(xs)].rest]
                /\ \A n \in 1..Len(xs) : f[n] = ParseStep(f[n - 1], xs[n], known, bools)
<1> DEFINE N == Len(xs)
           S == {m \in 0..N : \E f : ParseLoop(xs, known, bools, m, f)}
<1>1. 0 \in S
  <2> DEFINE e == [n \in 0..0 |-> ParseStart]
  <2>1. ParseLoop(xs, known, bools, 0, e)
    BY DEF ParseLoop, ParseStart
  <2> QED BY <2>1
<1>2. ASSUME NEW m \in 1..N, m - 1 \in S PROVE m \in S
  <2>1. PICK f : ParseLoop(xs, known, bools, m - 1, f)
    BY <1>2
  <2> DEFINE e == [n \in 0..m |-> IF n = m THEN ParseStep(f[m - 1], xs[m], known, bools)
                                  ELSE f[n]]
  <2>2. \A n \in 0..(m - 1) : f[n] = IF n = 0 THEN ParseStart
                                     ELSE ParseStep(f[n - 1], xs[n], known, bools)
    BY <2>1 DEF ParseLoop, ParseStart
  <2>3. \A n \in 0..m : e[n] = IF n = 0 THEN ParseStart
                               ELSE ParseStep(e[n - 1], xs[n], known, bools)
    <3> TAKE n \in 0..m
    <3>1. n # 0 => n - 1 \in 0..m /\ n - 1 # m
      OBVIOUS
    <3>2. n # m => n \in 0..(m - 1)
      OBVIOUS
    <3>3. n # 0 => e[n - 1] = f[n - 1]
      BY <3>1
    <3>4. m # 0
      OBVIOUS
    <3> QED BY <3>2, <3>3, <3>4, <2>2
  <2>4. ParseLoop(xs, known, bools, m, e)
    <3>1. e = [n \in 0..m |-> e[n]]
      OBVIOUS
    <3> HIDE DEF e
    <3> QED BY <3>1, <2>3 DEF ParseLoop, ParseStart
  <2> HIDE DEF e
  <2> QED BY <2>4
<1>3. N \in 0..N /\ \A m \in 0..N : m \in S
  <2>1. N \in Nat
    OBVIOUS
  <2>2. \A m \in 1..N : m - 1 \in S => m \in S
    BY <1>2
  <2> HIDE DEF S, N
  <2>3. \A m \in 0..N : m \in S
    BY <1>1, <2>1, <2>2, EachStep
  <2> QED BY <2>1, <2>3
<1> DEFINE f == CHOOSE h : ParseLoop(xs, known, bools, N, h)
<1>4. ParseLoop(xs, known, bools, N, f)
  BY <1>3
<1>5. Parse(xs, known, bools) = [ok |-> f[N].at \in {"flags", "rest"},
                                 flags |-> f[N].flags, rest |-> f[N].rest]
  BY Zenon DEF Parse, ParseLoop
<1> HIDE DEF f
<1>6. \A n \in 0..N : f[n] = IF n = 0 THEN ParseStart
                             ELSE ParseStep(f[n - 1], xs[n], known, bools)
  BY <1>4 DEF ParseLoop, ParseStart
<1>7. f[0] = ParseStart /\ \A n \in 1..N : f[n] = ParseStep(f[n - 1], xs[n], known, bools)
  BY <1>6
<1> QED BY <1>5, <1>7

TakenLoop(xs, m, f) == f = [i \in 1..m |-> i > 1 /\ ~f[i - 1] /\ TakesNext(xs[i - 1])]

(* An argument is the value of the one before if that takes one and is no    *)
(* value itself.                                                             *)
LEMMA TakenSteps ==
  ASSUME NEW xs \in Seq(Argument)
  PROVE  \A i \in 1..Len(xs) :
           Taken(xs)[i] <=> i > 1 /\ ~Taken(xs)[i - 1] /\ TakesNext(xs[i - 1])
<1> DEFINE N == Len(xs)
           S == {m \in 0..N : \E f : TakenLoop(xs, m, f)}
<1>1. 0 \in S
  <2> DEFINE e == [i \in 1..0 |-> FALSE]
  <2>1. 1..0 = {}
    OBVIOUS
  <2>2. TakenLoop(xs, 0, e)
    BY <2>1 DEF TakenLoop
  <2> QED BY <2>2
<1>2. ASSUME NEW m \in 1..N, m - 1 \in S PROVE m \in S
  <2>1. PICK f : TakenLoop(xs, m - 1, f)
    BY <1>2
  <2> DEFINE last == m > 1 /\ ~f[m - 1] /\ TakesNext(xs[m - 1])
             e == [i \in 1..m |-> IF i = m THEN last ELSE f[i]]
  <2>2. \A i \in 1..(m - 1) : f[i] = (i > 1 /\ ~f[i - 1] /\ TakesNext(xs[i - 1]))
    BY <2>1, Zenon DEF TakenLoop
  <2>3. \A i \in 1..m : e[i] = (i > 1 /\ ~e[i - 1] /\ TakesNext(xs[i - 1]))
    <3> TAKE i \in 1..m
    <3>1. i > 1 => i - 1 \in 1..m /\ i - 1 # m
      OBVIOUS
    <3>2. i # m => i \in 1..(m - 1)
      OBVIOUS
    <3> HIDE DEF last
    <3>3. i > 1 => e[i - 1] = f[i - 1]
      BY <3>1, Zenon
    <3>4. e[i] = IF i = m THEN last ELSE f[i]
      BY Zenon
    <3>5. CASE i = m
      BY <3>3, <3>4, <3>5, Zenon DEF last
    <3>6. CASE i # m
      BY <3>2, <3>3, <3>4, <3>6, <2>2, Zenon
    <3> QED BY <3>5, <3>6
  <2>4. TakenLoop(xs, m, e)
    <3>1. e = [i \in 1..m |-> e[i]]
      BY Zenon
    <3> HIDE DEF e
    <3> QED BY <3>1, <2>3, Zenon DEF TakenLoop
  <2> HIDE DEF e
  <2> QED BY <2>4
<1>3. N \in 0..N /\ \A m \in 0..N : m \in S
  <2>1. N \in Nat
    OBVIOUS
  <2>2. \A m \in 1..N : m - 1 \in S => m \in S
    BY <1>2
  <2> HIDE DEF S, N
  <2>3. \A m \in 0..N : m \in S
    BY <1>1, <2>1, <2>2, EachStep
  <2> QED BY <2>1, <2>3
<1> DEFINE f == CHOOSE h : TakenLoop(xs, N, h)
<1>4. TakenLoop(xs, N, f)
  BY <1>3
<1>5. Taken(xs) = f
  BY Zenon DEF Taken, TakenLoop
<1> HIDE DEF f
<1>6. \A i \in 1..N : f[i] = (i > 1 /\ ~f[i - 1] /\ TakesNext(xs[i - 1]))
  BY <1>4, Zenon DEF TakenLoop
<1> QED BY <1>5, <1>6, Zenon

-----------------------------------------------------------------------------
(* Lists of arguments in their order.                                        *)

(* at says where in xs the members of s are, which are those at the places I *)
Places(s, xs, I, at) ==
  /\ at \in [1..Len(s) -> I]
  /\ \A j, k \in 1..Len(s) : j < k => at[j] < at[k]
  /\ \A i \in I : \E k \in 1..Len(s) : at[k] = i
  /\ \A k \in 1..Len(s) : s[k] = xs[at[k]]

LEMMA ListsPlaces ==
  ASSUME NEW s \in Seq(Argument), NEW xs, NEW I
  PROVE  Lists(s, xs, I) <=> \E at : Places(s, xs, I, at)
BY DEF Lists, Places

LEMMA ListsNothing == ASSUME NEW xs PROVE Lists(<< >>, xs, {})
<1>1. << >> \in Seq(Argument) /\ Len(<< >>) = 0 /\ 1..0 = {}
  OBVIOUS
<1>2. Places(<< >>, xs, {}, << >>)
  BY <1>1 DEF Places
<1> QED BY <1>1, <1>2, ListsPlaces

(* A list goes on with what is later.                                        *)
LEMMA ListsAppend ==
  ASSUME NEW xs \in Seq(Argument), NEW s \in Seq(Argument), NEW n \in 1..Len(xs),
         NEW I, I \subseteq 1..(n - 1), Lists(s, xs, I)
  PROVE  Append(s, xs[n]) \in Seq(Argument) /\ Lists(Append(s, xs[n]), xs, I \cup {n})
<1>1. PICK at : Places(s, xs, I, at)
  BY ListsPlaces
<1> DEFINE L == Len(s)
           t == Append(s, xs[n])
           to == [k \in 1..(L + 1) |-> IF k = L + 1 THEN n ELSE at[k]]
<1>2. /\ L \in Nat /\ t \in Seq(Argument) /\ Len(t) = L + 1 /\ t[L + 1] = xs[n]
      /\ \A k \in 1..L : t[k] = s[k]
  BY AppendProperties
<1>3. /\ at \in [1..L -> I] /\ \A i \in I : i \in Nat /\ i < n
      /\ \A k \in 1..L : at[k] \in I /\ at[k] < n /\ s[k] = xs[at[k]]
      /\ \A j, k \in 1..L : j < k => at[j] < at[k]
      /\ \A i \in I : \E k \in 1..L : at[k] = i
  <2>1. \A i \in I : i \in Nat /\ i < n
    OBVIOUS
  <2> HIDE DEF L
  <2> QED BY <1>1, <2>1 DEF Places, L
<1> HIDE DEF t, L
<1>4. to \in [1..(L + 1) -> I \cup {n}]
  BY <1>2, <1>3
<1>5. \A k \in 1..(L + 1) : (k = L + 1 /\ to[k] = n) \/ (k \in 1..L /\ to[k] = at[k])
  BY <1>2
<1>6. \A k \in 1..L : k \in 1..(L + 1) /\ to[k] = at[k]
  BY <1>2
<1>7. L + 1 \in 1..(L + 1) /\ to[L + 1] = n
  BY <1>2
<1> HIDE DEF to
<1>8. \A j, k \in 1..(L + 1) : j < k => to[j] < to[k]
  <2> TAKE j, k \in 1..(L + 1)
  <2> HAVE j < k
  <2>1. j \in 1..L /\ to[j] = at[j]
    BY <1>2, <1>5
  <2> QED BY <2>1, <1>3, <1>5
<1>9. \A i \in I \cup {n} : \E k \in 1..(L + 1) : to[k] = i
  BY <1>3, <1>6, <1>7
<1>10. \A k \in 1..(L + 1) : t[k] = xs[to[k]]
  BY <1>2, <1>3, <1>5
<1>11. Places(t, xs, I \cup {n}, to)
  BY <1>2, <1>4, <1>8, <1>9, <1>10 DEF Places
<1> QED BY <1>2, <1>11, ListsPlaces DEF t

(* A list begins with the first, ...                                         *)
LEMMA ListsCons ==
  ASSUME NEW xs \in Seq(Argument), NEW s \in Seq(Argument), NEW I \in SUBSET (1..Len(xs)),
         NEW first \in I, \A i \in I : first <= i, Lists(s, xs, I \ {first})
  PROVE  Lists(<<xs[first]>> \o s, xs, I)
<1>1. PICK at : Places(s, xs, I \ {first}, at)
  BY ListsPlaces
<1> DEFINE L == Len(s)
           t == <<xs[first]>> \o s
           to == [k \in 1..(L + 1) |-> IF k = 1 THEN first ELSE at[k - 1]]
<1>2. <<xs[first]>> \in Seq(Argument) /\ Len(<<xs[first]>>) = 1 /\ <<xs[first]>>[1] = xs[first]
  OBVIOUS
<1>3. /\ L \in Nat /\ t \in Seq(Argument) /\ Len(t) = L + 1 /\ t[1] = xs[first]
      /\ \A k \in 2..(L + 1) : t[k] = s[k - 1]
  BY <1>2, ConcatProperties
<1>4. /\ at \in [1..L -> I \ {first}] /\ \A i \in I \ {first} : i \in Nat /\ first < i
      /\ \A k \in 1..L : at[k] \in I \ {first} /\ first < at[k] /\ s[k] = xs[at[k]]
      /\ \A j, k \in 1..L : j < k => at[j] < at[k]
      /\ \A i \in I \ {first} : \E k \in 1..L : at[k] = i
  BY <1>1 DEF Places
<1> HIDE DEF t, L
<1>5. to \in [1..(L + 1) -> I]
  BY <1>3, <1>4
<1>6. \A k \in 1..(L + 1) : \/ k = 1 /\ to[k] = first
                            \/ k - 1 \in 1..L /\ k \in 2..(L + 1) /\ to[k] = at[k - 1]
  BY <1>3
<1>7. \A k \in 1..L : k + 1 \in 1..(L + 1) /\ to[k + 1] = at[k]
  BY <1>3
<1>8. 1 \in 1..(L + 1) /\ to[1] = first
  BY <1>3
<1> HIDE DEF to
<1>9. \A j, k \in 1..(L + 1) : j < k => to[j] < to[k]
  <2> TAKE j, k \in 1..(L + 1)
  <2> HAVE j < k
  <2>1. k - 1 \in 1..L /\ to[k] = at[k - 1]
    BY <1>3, <1>6
  <2> QED BY <2>1, <1>4, <1>6
<1>10. \A i \in I : \E k \in 1..(L + 1) : to[k] = i
  BY <1>4, <1>7, <1>8
<1>11. \A k \in 1..(L + 1) : t[k] = xs[to[k]]
  <2> TAKE k \in 1..(L + 1)
  <2>1. CASE k = 1
    BY <1>3, <1>8, <2>1
  <2>2. CASE k # 1
    BY <1>3, <1>4, <1>6, <2>2
  <2> QED BY <2>1, <2>2
<1>12. Places(t, xs, I, to)
  BY <1>3, <1>5, <1>9, <1>10, <1>11 DEF Places
<1> QED BY <1>3, <1>12, ListsPlaces DEF t

(* ... and goes on with the rest.                                            *)
LEMMA ListsTail ==
  ASSUME NEW xs \in Seq(Argument), NEW s \in Seq(Argument), NEW I \in SUBSET (1..Len(xs)),
         NEW first \in I, \A i \in I : first <= i, Lists(s, xs, I)
  PROVE  /\ s # << >> /\ Head(s) = xs[first] /\ Tail(s) \in Seq(Argument)
         /\ Lists(Tail(s), xs, I \ {first})
<1>1. PICK at : Places(s, xs, I, at)
  BY ListsPlaces
<1> DEFINE L == Len(s)
           t == Tail(s)
           to == [k \in 1..(L - 1) |-> at[k + 1]]
<1>2. /\ at \in [1..L -> I] /\ L \in Nat /\ \A i \in I : i \in Nat
      /\ \A k \in 1..L : at[k] \in I /\ first <= at[k] /\ s[k] = xs[at[k]]
      /\ \A j, k \in 1..L : j < k => at[j] < at[k]
      /\ \A i \in I : \E k \in 1..L : at[k] = i
  <2>1. \A i \in I : i \in Nat /\ first <= i
    OBVIOUS
  <2>2. L \in Nat
    OBVIOUS
  <2> HIDE DEF L
  <2> QED BY <1>1, <2>1, <2>2 DEF Places, L
<1>3. PICK k \in 1..L : at[k] = first
  BY <1>2
<1>4. L # 0 /\ 1 \in 1..L /\ at[1] = first
  <2> HIDE DEF L, t, to
  <2>1. L # 0 /\ 1 \in 1..L
    BY <1>2, <1>3
  <2>2. at[1] \in I /\ at[1] \in Nat /\ first \in Nat /\ first <= at[1]
    BY <1>2, <2>1
  <2>3. CASE k = 1
    BY <1>3, <2>1, <2>3
  <2>4. CASE k # 1
    <3>1. 1 < k
      BY <1>2, <1>3, <2>4
    <3>2. at[1] < first
      BY <1>2, <1>3, <2>1, <3>1
    <3> QED BY <2>2, <3>2
  <2> QED BY <2>1, <2>3, <2>4
<1>5. s # << >> /\ Head(s) = xs[first]
  BY <1>2, <1>4
<1>6. t \in Seq(Argument) /\ Len(t) = L - 1 /\ \A j \in 1..(L - 1) : t[j] = s[j + 1]
  BY <1>5, HeadTailProperties
<1> HIDE DEF t, L
<1>7. \A j \in 1..(L - 1) : j + 1 \in 1..L /\ to[j] = at[j + 1] /\ first < at[j + 1]
  BY <1>2, <1>4
<1>8. to \in [1..(L - 1) -> I \ {first}]
  BY <1>2, <1>7
<1> HIDE DEF to
<1>9. \A i, j \in 1..(L - 1) : i < j => to[i] < to[j]
  BY <1>2, <1>7
<1>10. \A i \in I \ {first} : \E j \in 1..(L - 1) : to[j] = i
  <2> TAKE i \in I \ {first}
  <2>1. PICK j \in 1..L : at[j] = i
    BY <1>2
  <2>2. j # 1
    BY <1>4, <2>1
  <2>3. j - 1 \in 1..(L - 1) /\ (j - 1) + 1 = j
    BY <1>2, <2>2
  <2> QED BY <1>7, <2>1, <2>3
<1>11. \A j \in 1..(L - 1) : t[j] = xs[to[j]]
  BY <1>2, <1>6, <1>7
<1>12. Places(t, xs, I \ {first}, to)
  BY <1>6, <1>8, <1>9, <1>10, <1>11 DEF Places
<1> QED BY <1>5, <1>6, <1>12, ListsPlaces DEF t

(* Where the members of t are that come from the places J.                   *)
From(t, at, J) == {k \in 1..Len(t) : at[k] \in J}

(* A list of some members of a list.                                         *)
LEMMA ListsAmong ==
  ASSUME NEW xs \in Seq(Argument), NEW t \in Seq(Argument), NEW s \in Seq(Argument),
         NEW I \in SUBSET (1..Len(xs)), NEW at, Places(t, xs, I, at), NEW J \in SUBSET I,
         Lists(s, t, From(t, at, J))
  PROVE  Lists(s, xs, J)
<1> DEFINE K == {k \in 1..Len(t) : at[k] \in J}
<1>1. PICK by : Places(s, t, K, by)
  BY ListsPlaces DEF From
<1> DEFINE to == [k \in 1..Len(s) |-> at[by[k]]]
<1>2. /\ \A k \in 1..Len(t) : t[k] = xs[at[k]]
      /\ \A j, k \in 1..Len(t) : j < k => at[j] < at[k]
      /\ \A i \in J : \E k \in K : at[k] = i
  BY DEF Places
<1>3. /\ \A k \in 1..Len(s) : by[k] \in 1..Len(t) /\ at[by[k]] \in J /\ s[k] = t[by[k]]
      /\ \A j, k \in 1..Len(s) : j < k => by[j] < by[k]
      /\ \A k \in K : \E j \in 1..Len(s) : by[j] = k
  BY <1>1 DEF Places
<1>4. to \in [1..Len(s) -> J]
  BY <1>3
<1>5. \A i \in J : \E j \in 1..Len(s) : to[j] = i
  <2>1. ASSUME NEW i \in J PROVE \E j \in 1..Len(s) : to[j] = i
    <3>1. PICK k \in K : at[k] = i
      BY <1>2
    <3>2. PICK j \in 1..Len(s) : by[j] = k
      BY <1>3
    <3> QED BY <3>1, <3>2
  <2> QED BY <2>1
<1>6. Places(s, xs, J, to)
  BY <1>2, <1>3, <1>4, <1>5 DEF Places
<1> QED BY <1>6, ListsPlaces

(* Neighbours that are both in a list are neighbours there.                  *)
LEMMA Neighbours ==
  ASSUME NEW xs \in Seq(Argument), NEW s \in Seq(Argument), NEW I \in SUBSET (1..Len(xs)),
         NEW at, Places(s, xs, I, at), NEW j \in 1..Len(s), at[j] + 1 \in I
  PROVE  j + 1 \in 1..Len(s) /\ at[j + 1] = at[j] + 1
<1>1. /\ \A k \in 1..Len(s) : at[k] \in Nat
      /\ \A i, k \in 1..Len(s) : i < k => at[i] < at[k]
      /\ \A i \in I : \E k \in 1..Len(s) : at[k] = i
  <2>1. \A i \in I : i \in Nat
    OBVIOUS
  <2>2. \A k \in 1..Len(s) : at[k] \in I
    BY DEF Places
  <2> QED BY <2>1, <2>2 DEF Places
<1>2. PICK k \in 1..Len(s) : at[k] = at[j] + 1
  BY <1>1
<1>3. j < k
  BY <1>1, <1>2
<1>4. j + 1 \in 1..Len(s) /\ (j + 1 < k \/ j + 1 = k)
  BY <1>3
<1>5. j + 1 # k => at[j] < at[j + 1] /\ at[j + 1] < at[k]
  BY <1>1, <1>4
<1> QED BY <1>1, <1>2, <1>4, <1>5

-----------------------------------------------------------------------------
(* Split.                                                                    *)

(* After n arguments: those at I are moved, in their order, the others are   *)
(* left, in theirs, and the next is a value if the last one is open.         *)
SplitAfter(acc, xs, O, I, n) ==
  /\ acc = [moved |-> acc.moved, others |-> acc.others, open |-> acc.open]
  /\ acc.moved \in Seq(Argument) /\ Lists(acc.moved, xs, I \cap (1..n))
  /\ acc.others \in Seq(Argument) /\ Lists(acc.others, xs, (1..n) \ I)
  /\ acc.open <=> n > 0 /\ xs[n] \in O

LEMMA SplitGoesOn ==
  ASSUME NEW xs \in Seq(Argument), NEW M, NEW O \in SUBSET M, NEW I \in SUBSET (1..Len(xs)),
         NEW n \in 1..Len(xs), NEW acc, SplitAfter(acc, xs, O, I, n - 1),
         n \in I <=> xs[n] \in M \/ (n > 1 /\ xs[n - 1] \in O),
         n > 1 /\ xs[n - 1] \in O => xs[n] \notin M
  PROVE  SplitAfter(SplitStep(acc, xs[n], M, O), xs, O, I, n)
<1> DEFINE new == SplitStep(acc, xs[n], M, O)
           in == I \cap (1..(n - 1))
           notIn == (1..(n - 1)) \ I
<1>1. /\ acc.moved \in Seq(Argument) /\ Lists(acc.moved, xs, in)
      /\ acc.others \in Seq(Argument) /\ Lists(acc.others, xs, notIn)
      /\ acc = [moved |-> acc.moved, others |-> acc.others, open |-> acc.open]
      /\ acc.open <=> n - 1 > 0 /\ xs[n - 1] \in O
  BY DEF SplitAfter
<1>2. in \subseteq 1..(n - 1) /\ notIn \subseteq 1..(n - 1)
  OBVIOUS
<1>3. n > 0 /\ (n - 1 > 0 <=> n > 1)
  OBVIOUS
<1>4. CASE n \in I
  <2>1. I \cap (1..n) = in \cup {n} /\ (1..n) \ I = notIn
    BY <1>4
  <2>2. /\ Append(acc.moved, xs[n]) \in Seq(Argument)
        /\ Lists(Append(acc.moved, xs[n]), xs, I \cap (1..n))
    <3> HIDE DEF in, notIn
    <3> DEFINE s == acc.moved
    <3>1. s \in Seq(Argument) /\ Lists(s, xs, in)
      BY <1>1
    <3> HIDE DEF s
    <3>2. /\ Append(s, xs[n]) \in Seq(Argument)
          /\ Lists(Append(s, xs[n]), xs, in \cup {n})
      BY <1>2, <3>1, ListsAppend
    <3> QED BY <2>1, <3>2 DEF s
  <2>3. CASE acc.open
    <3>1. new = [moved |-> Append(acc.moved, xs[n]), others |-> acc.others, open |-> FALSE]
      BY <1>1, <2>3 DEF SplitStep
    <3>2. xs[n] \notin O
      BY <1>1, <1>3, <2>3
    <3> HIDE DEF new, in, notIn
    <3>3. SplitAfter(new, xs, O, I, n)
      BY <1>1, <2>1, <2>2, <3>1, <3>2 DEF SplitAfter
    <3> QED BY <3>3 DEF new
  <2>4. CASE ~acc.open
    <3>1. xs[n] \in M
      BY <1>1, <1>3, <1>4, <2>4
    <3>2. new = [moved |-> Append(acc.moved, xs[n]), others |-> acc.others,
                 open |-> xs[n] \in O]
      BY <1>1, <2>4, <3>1 DEF SplitStep
    <3> HIDE DEF new
    <3>3. /\ new.moved = Append(acc.moved, xs[n]) /\ new.others = acc.others
          /\ new.open = (xs[n] \in O)
          /\ new = [moved |-> new.moved, others |-> new.others, open |-> new.open]
      BY <3>2
    <3> HIDE DEF in, notIn
    <3>4. SplitAfter(new, xs, O, I, n)
      BY <1>1, <1>3, <2>1, <2>2, <3>3 DEF SplitAfter
    <3> QED BY <3>4 DEF new
  <2> QED BY <2>3, <2>4
<1>5. CASE n \notin I
  <2>1. I \cap (1..n) = in /\ (1..n) \ I = notIn \cup {n}
    BY <1>5
  <2>2. /\ Append(acc.others, xs[n]) \in Seq(Argument)
        /\ Lists(Append(acc.others, xs[n]), xs, (1..n) \ I)
    <3> HIDE DEF in, notIn
    <3> DEFINE s == acc.others
    <3>1. s \in Seq(Argument) /\ Lists(s, xs, notIn)
      BY <1>1
    <3> HIDE DEF s
    <3>2. /\ Append(s, xs[n]) \in Seq(Argument)
          /\ Lists(Append(s, xs[n]), xs, notIn \cup {n})
      BY <1>2, <3>1, ListsAppend
    <3> QED BY <2>1, <3>2 DEF s
  <2>3. ~acc.open /\ xs[n] \notin M /\ xs[n] \notin O
    BY <1>1, <1>3, <1>5
  <2>4. new = [moved |-> acc.moved, others |-> Append(acc.others, xs[n]), open |-> acc.open]
    BY <1>1, <2>3 DEF SplitStep
  <2> HIDE DEF new, in, notIn
  <2>5. SplitAfter(new, xs, O, I, n)
    BY <1>1, <2>1, <2>2, <2>3, <2>4 DEF SplitAfter
  <2> QED BY <2>5 DEF new
<1> QED BY <1>4, <1>5

(* Split moves the arguments of M and what follows the open ones.            *)
LEMMA SplitLists ==
  ASSUME NEW xs \in Seq(Argument), NEW M, NEW O \in SUBSET M, NEW I \in SUBSET (1..Len(xs)),
         \A i \in 1..Len(xs) :
           /\ i \in I <=> xs[i] \in M \/ (i > 1 /\ xs[i - 1] \in O)
           /\ i > 1 /\ xs[i - 1] \in O => xs[i] \notin M
  PROVE  /\ Split(xs, M, O).moved \in Seq(Argument)
         /\ Lists(Split(xs, M, O).moved, xs, I)
         /\ Split(xs, M, O).others \in Seq(Argument)
         /\ Lists(Split(xs, M, O).others, xs, (1..Len(xs)) \ I)
<1> DEFINE N == Len(xs)
<1>1. N \in Nat
  OBVIOUS
<1>2. PICK f : /\ f[0] = SplitStart /\ Split(xs, M, O) = f[N]
               /\ \A n \in 1..N : f[n] = SplitStep(f[n - 1], xs[n], M, O)
  BY <1>1, SplitSteps
<1> DEFINE S == {n \in 0..N : SplitAfter(f[n], xs, O, I, n)}
<1>3. 0 \in S
  <2>1. I \cap (1..0) = {} /\ (1..0) \ I = {}
    OBVIOUS
  <2>2. << >> \in Seq(Argument)
    OBVIOUS
  <2>3. SplitAfter(f[0], xs, O, I, 0)
    BY <1>2, <2>1, <2>2, ListsNothing DEF SplitAfter, SplitStart
  <2> QED BY <1>1, <2>3
<1>4. \A n \in 1..N : n - 1 \in S => n \in S
  <2> TAKE n \in 1..N
  <2> HAVE n - 1 \in S
  <2>1. SplitAfter(f[n - 1], xs, O, I, n - 1)
    OBVIOUS
  <2>2. SplitAfter(f[n], xs, O, I, n)
    BY <1>2, <2>1, SplitGoesOn
  <2> QED BY <2>2
<1>5. SplitAfter(f[N], xs, O, I, N)
  <2> HIDE DEF S, N
  <2>1. \A n \in 0..N : n \in S
    BY <1>1, <1>3, <1>4, EachStep
  <2>2. N \in 0..N
    BY <1>1
  <2> QED BY <2>1, <2>2 DEF S
<1>6. I \cap (1..N) = I
  OBVIOUS
<1> QED BY <1>2, <1>5, <1>6 DEF SplitAfter

-----------------------------------------------------------------------------
(* Parse.                                                                    *)

(* Every flag has a value it can have.                                       *)
Converted(a) == \A k \in 1..Len(a) : a[k].flag # Empty => Converts(a[k].flag, ValueAt(a, k))

(* Flags of the known names, each followed by its value if it takes one.     *)
FlagList(a, known) ==
  Converted(a) /\ \A k \in 1..Len(a) :
    /\ a[k].flag \in known \/ (a[k].flag = Empty /\ k > 1 /\ TakesNext(a[k - 1]))
    /\ TakesNext(a[k]) => k < Len(a) /\ a[k + 1].flag = Empty

LastAt(a, f, k, m) ==
  k \in 1..m /\ a[k].flag = f /\ \A j \in 1..m : a[j].flag = f => j <= k

(* flags has the last value of each flag among the first m arguments.        *)
Recorded(flags, a, m) ==
  /\ DOMAIN flags = {a[k].flag : k \in 1..m} \ {Empty}
  /\ \A f \in DOMAIN flags : \E k \in 1..m : LastAt(a, f, k, m) /\ flags[f] = ValueAt(a, k)

(* One more flag, at m + 1, perhaps with a value behind it.                  *)
LEMMA RecordOne ==
  ASSUME NEW a \in Seq(Argument), NEW m \in Nat, NEW q \in Nat, q = m + 1 \/ q = m + 2, q <= Len(a),
         a[m + 1].flag # Empty, q = m + 2 => a[q].flag = Empty,
         NEW given, Recorded(given, a, m)
  PROVE  Recorded(With(given, a[m + 1].flag, ValueAt(a, m + 1)), a, q)
<1> DEFINE p == m + 1
           nm == a[p].flag
           v == ValueAt(a, p)
           new == With(given, nm, v)
<1>1. \A k \in 1..q : k \in 1..m \/ k = p \/ (k = q /\ a[k].flag = Empty)
  OBVIOUS
<1>2. \A k \in 1..m : k \in 1..q /\ k < p
  OBVIOUS
<1>3. p \in 1..q
  OBVIOUS
<1>4. DOMAIN given = {a[k].flag : k \in 1..m} \ {Empty}
  BY DEF Recorded
<1> HIDE DEF p, v
<1>5. {a[k].flag : k \in 1..q} \ {Empty} = ({a[k].flag : k \in 1..m} \ {Empty}) \cup {nm}
  <2>1. nm # Empty
    BY DEF p
  <2> QED BY <1>1, <1>2, <1>3, <2>1
<1> HIDE DEF nm
<1>6. DOMAIN new = {a[k].flag : k \in 1..q} \ {Empty}
  BY <1>4, <1>5 DEF With
<1>7. ASSUME NEW f \in DOMAIN new
      PROVE  \E k \in 1..q : LastAt(a, f, k, q) /\ new[f] = ValueAt(a, k)
  <2>1. f # Empty
    BY <1>6
  <2>2. CASE f = nm
    <3>1. new[f] = ValueAt(a, p)
      BY <1>7, <2>2 DEF With, v
    <3>2. a[p].flag = f
      BY <2>2 DEF nm
    <3>3. \A j \in 1..q : a[j].flag = f => j <= p
      <4>1. p \in Nat
        BY DEF p
      <4> QED BY <1>1, <1>2, <2>1, <4>1
    <3>4. LastAt(a, f, p, q)
      BY <1>3, <3>2, <3>3 DEF LastAt
    <3> QED BY <1>3, <3>1, <3>4
  <2>3. CASE f # nm
    <3>1. f \in DOMAIN given /\ new[f] = given[f]
      BY <1>7, <2>3 DEF With
    <3>2. PICK k \in 1..m : LastAt(a, f, k, m) /\ given[f] = ValueAt(a, k)
      BY <3>1 DEF Recorded
    <3>3. \A j \in 1..q : a[j].flag = f => j \in 1..m
      BY <1>1, <2>1, <2>3 DEF nm
    <3>4. LastAt(a, f, k, q)
      BY <1>2, <3>2, <3>3 DEF LastAt
    <3> QED BY <1>2, <3>1, <3>2, <3>4
  <2> QED BY <2>2, <2>3
<1>8. Recorded(new, a, q)
  <2> HIDE DEF new
  <2> QED BY <1>6, <1>7 DEF Recorded
<1> QED BY <1>8 DEF new, nm, v, p

Awaits(a, n) == n > 0 /\ TakesNext(a[n])

(* After n arguments of a list of flags: a flag that takes the next argument *)
(* is not recorded yet.                                                      *)
ParseAfter(acc, a, n) ==
  /\ acc = Reader(IF Awaits(a, n) THEN "value" ELSE "flags", acc.name, acc.flags, << >>)
  /\ Awaits(a, n) => acc.name = a[n].flag
  /\ Recorded(acc.flags, a, IF Awaits(a, n) THEN n - 1 ELSE n)

(* bools are the flags that take no value.                                   *)
BoolsOf(known, bools) == Empty \notin known /\ \A x \in known : x \in bools <=> x = "verbose"

LEMMA ReaderIs ==
  ASSUME NEW at, NEW name, NEW flags, NEW rest
  PROVE  /\ Reader(at, name, flags, rest).at = at /\ Reader(at, name, flags, rest).name = name
         /\ Reader(at, name, flags, rest).flags = flags /\ Reader(at, name, flags, rest).rest = rest
BY DEF Reader

LEMMA ParseGoesOn ==
  ASSUME NEW a \in Seq(Argument), NEW known, NEW bools, BoolsOf(known, bools),
         FlagList(a, known), NEW n \in 1..Len(a), NEW acc, ParseAfter(acc, a, n - 1)
  PROVE  ParseAfter(ParseStep(acc, a[n], known, bools), a, n)
<1> DEFINE x == a[n]
           new == ParseStep(acc, x, known, bools)
<1>1. /\ x.flag \in known \/ (x.flag = Empty /\ n > 1 /\ TakesNext(a[n - 1]))
      /\ TakesNext(x) => n < Len(a) /\ a[n + 1].flag = Empty
      /\ n > 1 /\ TakesNext(a[n - 1]) => x.flag = Empty
      /\ Converted(a)
  <2>1. n > 1 => n - 1 \in 1..Len(a) /\ (n - 1) + 1 = n
    OBVIOUS
  <2>2. Converted(a)
    BY DEF FlagList
  <2> HIDE DEF Converted
  <2> QED BY <2>1, <2>2 DEF FlagList
<1>2. n > 0 /\ (n - 1 > 0 <=> n > 1) /\ n \in Nat /\ Len(a) \in Nat /\ n <= Len(a)
  OBVIOUS
<1>3. Awaits(a, n) <=> TakesNext(x)
  BY <1>2 DEF Awaits
<1> HIDE DEF new
<1>4. CASE n > 1 /\ TakesNext(a[n - 1])
  <2>1. Awaits(a, n - 1)
    BY <1>2, <1>4 DEF Awaits
  <2>2. /\ acc = Reader("value", acc.name, acc.flags, << >>)
        /\ acc.name = a[n - 1].flag /\ Recorded(acc.flags, a, (n - 1) - 1)
    BY <2>1 DEF ParseAfter
  <2>3. x.flag = Empty /\ ~TakesNext(x) /\ ~Awaits(a, n)
    BY <1>1, <1>3, <1>4 DEF TakesNext
  <2>4. /\ (n - 1) - 1 \in Nat /\ ((n - 1) - 1) + 1 = n - 1 /\ ((n - 1) - 1) + 2 = n
        /\ (n - 1) + 1 = n
    BY <1>2, <1>4
  <2>5. a[n - 1].flag # Empty /\ ValueAt(a, n - 1) = x
    BY <1>4, <2>4 DEF TakesNext, ValueAt
  <2>6. new = Give(acc, acc.name, x)
    <3>1. acc.at = "value"
      BY <2>2, ReaderIs
    <3> QED BY <3>1 DEF ParseStep, new
  <2>7. new = Reader("flags", Empty, With(acc.flags, a[n - 1].flag, ValueAt(a, n - 1)), << >>)
    <3>1. acc.rest = << >>
      BY <2>2, ReaderIs
    <3>2. Converts(acc.name, x)
      <4>1. n - 1 \in 1..Len(a)
        BY <1>2, <1>4
      <4> QED BY <1>1, <2>2, <2>5, <4>1 DEF Converted
    <3> QED BY <2>2, <2>5, <2>6, <3>1, <3>2 DEF Give
  <2>8. Recorded(With(acc.flags, a[n - 1].flag, ValueAt(a, n - 1)), a, n)
    <3> DEFINE m == (n - 1) - 1
    <3>1. /\ m \in Nat /\ m + 1 = n - 1 /\ m + 2 = n /\ (n = m + 1 \/ n = m + 2)
          /\ Recorded(acc.flags, a, m)
      BY <2>2, <2>4
    <3> HIDE DEF m
    <3>2. Recorded(With(acc.flags, a[m + 1].flag, ValueAt(a, m + 1)), a, n)
      BY <1>2, <2>3, <2>5, <3>1, RecordOne
    <3> QED BY <3>1, <3>2
  <2>9. /\ new = Reader("flags", new.name, new.flags, << >>)
        /\ Recorded(new.flags, a, n)
    BY <2>7, <2>8, ReaderIs
  <2> QED BY <2>3, <2>9 DEF ParseAfter, new
<1>5. CASE ~(n > 1 /\ TakesNext(a[n - 1]))
  <2>1. ~Awaits(a, n - 1)
    BY <1>2, <1>5 DEF Awaits
  <2>2. /\ acc = Reader("flags", acc.name, acc.flags, << >>)
        /\ Recorded(acc.flags, a, n - 1)
    BY <2>1 DEF ParseAfter
  <2>3. acc.at = "flags" /\ x.flag \in known /\ x.flag # Empty
    <3>1. acc.at = "flags"
      BY <2>2, ReaderIs
    <3>2. x.flag \in known
      BY <1>1, <1>5
    <3> QED BY <3>1, <3>2 DEF BoolsOf
  <2>4. CASE TakesNext(x)
    <3>1. x.value = None /\ x.flag \in known \ bools
      BY <2>3, <2>4 DEF TakesNext, BoolsOf
    <3>2. new = Reader("value", x.flag, acc.flags, acc.rest)
      BY <2>3, <3>1 DEF ParseStep, new
    <3>3. new = Reader("value", x.flag, acc.flags, << >>)
      BY <2>2, <3>2, ReaderIs
    <3>4. /\ new = Reader("value", new.name, new.flags, << >>)
          /\ new.name = x.flag /\ Recorded(new.flags, a, n - 1)
      BY <2>2, <3>3, ReaderIs
    <3> QED BY <1>3, <2>4, <3>4 DEF ParseAfter, new
  <2>5. CASE ~TakesNext(x)
    <3>1. new = Give(acc, x.flag, ValueAt(a, n))
      <4>1. CASE x.value # None
        <5>1. new = Give(acc, x.flag, Word(x.value))
          BY <2>3, <4>1 DEF ParseStep, new
        <5> QED BY <4>1, <5>1 DEF ValueAt
      <4>2. CASE x.value = None
        <5>1. x.flag \in known \cap bools
          BY <2>3, <2>5, <4>2 DEF TakesNext, BoolsOf
        <5>2. new = Give(acc, x.flag, Word("true"))
          BY <2>3, <4>2, <5>1 DEF ParseStep, new
        <5> QED BY <2>5, <4>2, <5>2 DEF ValueAt
      <4> QED BY <4>1, <4>2
    <3>2. new = Reader("flags", Empty, With(acc.flags, a[n].flag, ValueAt(a, n)), << >>)
      <4>1. acc.rest = << >>
        BY <2>2, ReaderIs
      <4>2. Converts(x.flag, ValueAt(a, n))
        BY <1>1, <2>3 DEF Converted
      <4> QED BY <3>1, <4>1, <4>2 DEF Give
    <3>3. Recorded(With(acc.flags, a[n].flag, ValueAt(a, n)), a, n)
      <4> DEFINE m == n - 1
      <4>1. m \in Nat /\ m + 1 = n /\ (n = m + 1 \/ n = m + 2) /\ n # m + 2
        BY <1>2
      <4>2. Recorded(acc.flags, a, m)
        BY <2>2
      <4> HIDE DEF m
      <4>3. Recorded(With(acc.flags, a[m + 1].flag, ValueAt(a, m + 1)), a, n)
        BY <1>2, <2>3, <4>1, <4>2, RecordOne
      <4> QED BY <4>1, <4>3
    <3>4. /\ new = Reader("flags", new.name, new.flags, << >>)
          /\ Recorded(new.flags, a, n)
      BY <3>2, <3>3, ReaderIs
    <3> QED BY <1>3, <2>5, <3>4 DEF ParseAfter, new
  <2> QED BY <2>4, <2>5
<1> QED BY <1>4, <1>5

(* After the flags and k of the arguments behind them: those are what is     *)
(* left.                                                                     *)
RestAfter(acc, flags, b, k) ==
  /\ acc = Reader(IF k = 0 THEN "flags" ELSE "rest", acc.name, flags, acc.rest)
  /\ acc.rest \in Seq(Argument) /\ Len(acc.rest) = k
  /\ \A i \in 1..k : acc.rest[i] = b[i]

LEMMA RestGoesOn ==
  ASSUME NEW b \in Seq(Argument), b[1].flag = Empty, NEW known, NEW bools, BoolsOf(known, bools),
         NEW flags, NEW k \in 1..Len(b), NEW acc, RestAfter(acc, flags, b, k - 1)
  PROVE  RestAfter(ParseStep(acc, b[k], known, bools), flags, b, k)
<1> DEFINE new == ParseStep(acc, b[k], known, bools)
<1>1. b[k] \in Argument /\ k \in Nat /\ k > 0 /\ k - 1 \in Nat
  OBVIOUS
<1>2. CASE k = 1
  <2>1. acc.at = "flags" /\ acc.flags = flags
    <3>1. acc = Reader("flags", acc.name, flags, acc.rest)
      BY <1>2 DEF RestAfter
    <3> QED BY <3>1, ReaderIs
  <2>2. b[1].flag \notin known
    BY DEF BoolsOf
  <2>3. new = Reader("rest", Empty, flags, <<b[1]>>)
    <3>1. new = Reader("rest", Empty, acc.flags, <<b[1]>>)
      BY <1>2, <2>1, <2>2 DEF ParseStep
    <3> QED BY <2>1, <3>1
  <2>4. new.rest = <<b[1]>> /\ new = Reader("rest", new.name, flags, new.rest)
    <3> HIDE DEF new
    <3> QED BY <2>3, ReaderIs
  <2> HIDE DEF new
  <2>5. new.rest \in Seq(Argument) /\ Len(new.rest) = 1 /\ new.rest[1] = b[1]
    BY <1>1, <1>2, <2>4
  <2>6. RestAfter(new, flags, b, k)
    BY <1>2, <2>4, <2>5 DEF RestAfter
  <2> QED BY <2>6 DEF new
<1>3. CASE k # 1
  <2>1. acc = Reader("rest", acc.name, flags, acc.rest) /\ acc.at = "rest"
    <3>1. k - 1 # 0
      BY <1>3
    <3>2. acc = Reader("rest", acc.name, flags, acc.rest)
      BY <3>1 DEF RestAfter
    <3> QED BY <3>2, ReaderIs
  <2> DEFINE longer == Append(acc.rest, b[k])
  <2>2. acc.flags = flags
    BY <2>1, ReaderIs
  <2>3. new = Reader("rest", Empty, flags, longer)
    BY <2>1, <2>2 DEF ParseStep
  <2> HIDE DEF new, longer
  <2>4. new.rest = longer /\ new = Reader("rest", new.name, flags, new.rest)
    BY <2>3, ReaderIs
  <2>5. /\ acc.rest \in Seq(Argument) /\ Len(acc.rest) = k - 1
        /\ \A i \in 1..(k - 1) : acc.rest[i] = b[i]
    BY DEF RestAfter
  <2>6. /\ new.rest \in Seq(Argument) /\ Len(new.rest) = k
        /\ \A i \in 1..k : new.rest[i] = b[i]
    <3> DEFINE s == acc.rest
    <3>1. /\ s \in Seq(Argument) /\ Len(s) = k - 1 /\ \A i \in 1..(k - 1) : s[i] = b[i]
          /\ new.rest = Append(s, b[k])
      BY <2>4, <2>5 DEF longer
    <3> HIDE DEF s
    <3>2. /\ Append(s, b[k]) \in Seq(Argument) /\ Len(Append(s, b[k])) = k
          /\ \A i \in 1..k : Append(s, b[k])[i] = b[i]
      BY <1>1, <3>1, AppendProperties
    <3> QED BY <3>1, <3>2
  <2>7. RestAfter(new, flags, b, k)
    BY <1>1, <2>4, <2>6 DEF RestAfter
  <2> QED BY <2>7 DEF new
<1> QED BY <1>2, <1>3

(* The parser takes the flags and leaves what is behind them.                *)
LEMMA ParseReads ==
  ASSUME NEW a \in Seq(Argument), NEW b \in Seq(Argument), NEW known, NEW bools,
         BoolsOf(known, bools), FlagList(a, known), b # << >> => b[1].flag = Empty
  PROVE  /\ Parse(a \o b, known, bools).ok /\ Parse(a \o b, known, bools).rest = b
         /\ Recorded(Parse(a \o b, known, bools).flags, a, Len(a))
<1> DEFINE L == Len(a)
           N == Len(b)
           xs == a \o b
           r == Parse(xs, known, bools)
<1>1. /\ L \in Nat /\ N \in Nat /\ Len(xs) = L + N /\ \A n \in 1..L : xs[n] = a[n]
      /\ \A k \in 1..N : xs[L + k] = b[k]
  <2>1. \A k \in 1..N : L + k \in (L + 1)..(L + N) /\ (L + k) - L = k
    OBVIOUS
  <2> QED BY <2>1, ConcatProperties
<1>2. PICK f : /\ f[0] = ParseStart
               /\ Parse(xs, known, bools) = [ok |-> f[Len(xs)].at \in {"flags", "rest"},
                                             flags |-> f[Len(xs)].flags,
                                             rest |-> f[Len(xs)].rest]
               /\ \A n \in 1..Len(xs) : f[n] = ParseStep(f[n - 1], xs[n], known, bools)
  <2> HIDE DEF xs
  <2>1. Len(xs) \in Nat
    BY <1>1
  <2> QED BY <2>1, ParseSteps
<1>each. \A n \in 1..(L + N) : f[n] = ParseStep(f[n - 1], xs[n], known, bools)
  BY <1>1, <1>2
<1> DEFINE S == {n \in 0..L : ParseAfter(f[n], a, n)}
<1>3. ParseAfter(f[L], a, L)
  <2>1. 0 \in S
    <3>1. ~Awaits(a, 0)
      BY DEF Awaits
    <3>2. 1..0 = {}
      OBVIOUS
    <3>3. {a[k].flag : k \in {}} = {} /\ DOMAIN << >> = {}
      OBVIOUS
    <3>4. Recorded(<< >>, a, 0)
      BY <3>2, <3>3 DEF Recorded
    <3>5. f[0] = Reader("flags", Empty, << >>, << >>)
      BY <1>2 DEF ParseStart
    <3>6. ParseAfter(f[0], a, 0)
      BY <3>1, <3>4, <3>5, ReaderIs DEF ParseAfter
    <3> QED BY <1>1, <3>6
  <2>2. \A n \in 1..L : n - 1 \in S => n \in S
    <3> TAKE n \in 1..L
    <3> HAVE n - 1 \in S
    <3>1. ParseAfter(f[n - 1], a, n - 1)
      OBVIOUS
    <3>2. ParseAfter(ParseStep(f[n - 1], a[n], known, bools), a, n)
      BY <3>1, ParseGoesOn
    <3>3. n \in 1..(L + N) /\ xs[n] = a[n]
      BY <1>1
    <3>4. ParseAfter(f[n], a, n)
      BY <1>each, <3>2, <3>3
    <3> QED BY <3>4
  <2> HIDE DEF S, L
  <2>3. \A n \in 0..L : n \in S
    BY <1>1, <2>1, <2>2, EachStep
  <2>4. L \in 0..L
    BY <1>1
  <2> QED BY <2>3, <2>4 DEF S
<1>4. ~Awaits(a, L)
  BY <1>1 DEF Awaits, FlagList
<1> DEFINE flags == f[L].flags
<1>5. /\ f[L] = Reader("flags", f[L].name, flags, << >>) /\ Recorded(flags, a, L)
      /\ f[L].rest = << >>
  <2>1. f[L] = Reader("flags", f[L].name, flags, << >>) /\ Recorded(flags, a, L)
    BY <1>3, <1>4 DEF ParseAfter
  <2> QED BY <2>1, ReaderIs
<1> DEFINE T == {k \in 0..N : RestAfter(f[L + k], flags, b, k)}
<1>6. RestAfter(f[L + N], flags, b, N)
  <2>1. 0 \in T
    <3>1. L + 0 = L
      BY <1>1
    <3>2. << >> \in Seq(Argument) /\ Len(<< >>) = 0
      OBVIOUS
    <3>3. RestAfter(f[L], flags, b, 0)
      BY <1>5, <3>2 DEF RestAfter
    <3> QED BY <1>1, <3>1, <3>3
  <2>2. \A k \in 1..N : k - 1 \in T => k \in T
    <3> TAKE k \in 1..N
    <3> HAVE k - 1 \in T
    <3>1. RestAfter(f[L + (k - 1)], flags, b, k - 1)
      OBVIOUS
    <3>2. b[1].flag = Empty
      OBVIOUS
    <3> HIDE DEF flags
    <3>3. RestAfter(ParseStep(f[L + (k - 1)], b[k], known, bools), flags, b, k)
      BY <3>1, <3>2, RestGoesOn
    <3>4. L + k \in 1..(L + N) /\ (L + k) - 1 = L + (k - 1) /\ xs[L + k] = b[k]
      BY <1>1
    <3>5. f[L + k] = ParseStep(f[L + (k - 1)], b[k], known, bools)
      BY <1>each, <3>4
    <3>6. RestAfter(f[L + k], flags, b, k)
      BY <3>3, <3>5
    <3> QED BY <3>6
  <2> HIDE DEF T, N
  <2>3. \A k \in 0..N : k \in T
    BY <1>1, <2>1, <2>2, EachStep
  <2>4. N \in 0..N
    BY <1>1
  <2> QED BY <2>3, <2>4 DEF T
<1> HIDE DEF flags
<1>7. /\ f[L + N].at \in {"flags", "rest"} /\ f[L + N].flags = flags
      /\ f[L + N].rest \in Seq(Argument) /\ Len(f[L + N].rest) = N
      /\ \A i \in 1..N : f[L + N].rest[i] = b[i]
  BY <1>6, ReaderIs DEF RestAfter
<1>8. f[L + N].rest = b
  BY <1>7, SeqEqual
<1>9. r.ok /\ r.rest = b /\ r.flags = flags
  <2> DEFINE last == f[L + N]
  <2>1. r = [ok |-> last.at \in {"flags", "rest"}, flags |-> last.flags, rest |-> last.rest]
    BY <1>1, <1>2
  <2>2. last.at \in {"flags", "rest"} /\ last.flags = flags /\ last.rest = b
    BY <1>7, <1>8
  <2> HIDE DEF last, r
  <2> QED BY <2>1, <2>2
<1> QED BY <1>5, <1>9

-----------------------------------------------------------------------------
(* Well-formed lists.                                                        *)

(* What follows a flag that takes a value is no flag.                        *)
Tidy(xs) ==
  \A i \in 1..Len(xs) : TakesNext(xs[i]) => i < Len(xs) /\ xs[i + 1].flag = Empty

Behind(xs, i) == i > 1 /\ TakesNext(xs[i - 1])

(* In a tidy list what follows a flag with its value is taken, and only that *)
(* is.                                                                       *)
LEMMA WellFormedTidy ==
  ASSUME NEW xs \in Seq(Argument), WellFormed(xs)
  PROVE  /\ Tidy(xs) /\ \A i \in 1..Len(xs) : Taken(xs)[i] <=> Behind(xs, i)
         /\ Converted(xs)
<1> DEFINE N == Len(xs)
<1>1. N \in Nat /\ DOMAIN xs = 1..N
  OBVIOUS
<1>2. \A i \in 1..N : Taken(xs)[i] => xs[i].flag = Empty
  BY DEF WellFormed
<1>3. \A i \in 1..N : Taken(xs)[i] <=> Behind(xs, i)
  <2> TAKE i \in 1..N
  <2>1. Taken(xs)[i] <=> i > 1 /\ ~Taken(xs)[i - 1] /\ TakesNext(xs[i - 1])
    BY TakenSteps
  <2>2. i > 1 => i - 1 \in 1..N
    OBVIOUS
  <2>3. i > 1 /\ TakesNext(xs[i - 1]) => ~Taken(xs)[i - 1]
    BY <1>2, <2>2 DEF TakesNext
  <2> QED BY <2>1, <2>3 DEF Behind
<1>4. ASSUME NEW i \in 1..N, TakesNext(xs[i]) PROVE i < N /\ xs[i + 1].flag = Empty
  <2>1. CASE i < N
    <3>1. i + 1 \in 1..N /\ i + 1 > 1 /\ (i + 1) - 1 = i
      BY <2>1
    <3>2. Behind(xs, i + 1)
      BY <1>4, <3>1 DEF Behind
    <3> QED BY <1>2, <1>3, <2>1, <3>1, <3>2
  <2>2. CASE i = N
    <3>1. ~TakesNext(xs[N]) \/ Taken(xs)[N]
      BY DEF WellFormed, Last
    <3>2. Taken(xs)[N]
      BY <1>4, <2>2, <3>1
    <3>3. xs[N].flag = Empty
      BY <1>2, <2>2, <3>2
    <3> QED BY <1>4, <2>2, <3>3 DEF TakesNext
  <2>3. i < N \/ i = N
    OBVIOUS
  <2> QED BY <2>1, <2>2, <2>3
<1>5. Converted(xs)
  <2>1. \A i \in 1..N : xs[i].flag # Empty => ~Taken(xs)[i]
    BY <1>2
  <2>2. \A i \in 1..N : ~Taken(xs)[i] /\ xs[i].flag # Empty => Converts(xs[i].flag, ValueAt(xs, i))
    BY DEF WellFormed
  <2> QED BY <2>1, <2>2 DEF Converted
<1> QED BY <1>3, <1>4, <1>5 DEF Tidy

(* The words of such a list, and the names of its flags, the command's after *)
(* the command.                                                              *)
LEMMA WellFormedIs ==
  ASSUME NEW xs \in Seq(Argument), WellFormed(xs)
  PROVE  /\ Words(xs) = {i \in 1..Len(xs) : ~Behind(xs, i) /\ xs[i].flag = Empty}
         /\ \E first \in Words(xs) :
              /\ \A i \in Words(xs) : first <= i
              /\ Meant(xs) = xs[first]
              /\ \A i \in 1..Len(xs) : xs[i].flag # Empty =>
                   \/ xs[i].flag \in Globals /\ xs[i].value # Empty
                   \/ xs[i].flag \in KnownFlags(Meant(xs)) /\ first < i
<1>1. Words(xs) = {i \in 1..Len(xs) : ~Behind(xs, i) /\ xs[i].flag = Empty}
  BY WellFormedTidy DEF Words
<1>2. \E i \in Words(xs) : \A j \in Words(xs) : i <= j
  <2>1. Words(xs) \subseteq Nat /\ Words(xs) # {}
    BY <1>1 DEF WellFormed
  <2> QED BY <2>1, LeastOf
<1> DEFINE first == CHOOSE i \in Words(xs) : \A j \in Words(xs) : i <= j
<1>3. first \in Words(xs) /\ \A j \in Words(xs) : first <= j
  BY <1>2
<1>4. Meant(xs) = xs[first]
  BY DEF Meant
<1>5. ASSUME NEW i \in 1..Len(xs), xs[i].flag # Empty
      PROVE  \/ xs[i].flag \in Globals /\ xs[i].value # Empty
             \/ xs[i].flag \in KnownFlags(Meant(xs)) /\ first < i
  <2>1. ~Taken(xs)[i]
    BY <1>5 DEF WellFormed
  <2>2. \/ xs[i].flag \in Globals /\ xs[i].value # Empty
        \/ xs[i].flag \in KnownFlags(Meant(xs)) /\ \E j \in Words(xs) : j < i
    BY <1>5, <2>1 DEF WellFormed
  <2> HIDE DEF first
  <2>3. \A j \in Words(xs) : j \in Nat
    BY <1>1
  <2> QED BY <1>3, <2>2, <2>3
<1> HIDE DEF first
<1> QED BY <1>1, <1>3, <1>4, <1>5

(* The places of the flags of these names, and of their values.              *)
FlagsAt(xs, names) ==
  {i \in 1..Len(xs) : xs[i].flag \in names \/ (Behind(xs, i) /\ xs[i - 1].flag \in names)}

(* Flags and their values are on the same side.                              *)
Closed(xs, I) == \A i \in 1..Len(xs) : TakesNext(xs[i]) => (i \in I <=> i + 1 \in I)

LEMMA FlagsClosed ==
  ASSUME NEW xs \in Seq(Argument), Tidy(xs), NEW names, Empty \notin names
  PROVE  /\ Closed(xs, FlagsAt(xs, names))
         /\ Closed(xs, (1..Len(xs)) \ FlagsAt(xs, names))
         /\ \A i \in FlagsAt(xs, names) :
              \/ xs[i].flag \in names /\ ~Behind(xs, i)
              \/ xs[i].flag = Empty /\ Behind(xs, i) /\ xs[i - 1].flag \in names
<1>1. \A i \in 1..Len(xs) : Behind(xs, i) => xs[i].flag = Empty
  <2> TAKE i \in 1..Len(xs)
  <2>1. i > 1 => i - 1 \in 1..Len(xs) /\ (i - 1) + 1 = i
    OBVIOUS
  <2> QED BY <2>1 DEF Tidy, Behind
<1>2. ASSUME NEW i \in 1..Len(xs), TakesNext(xs[i])
      PROVE  /\ i + 1 \in 1..Len(xs)
             /\ i \in FlagsAt(xs, names) <=> xs[i].flag \in names
             /\ i + 1 \in FlagsAt(xs, names) <=> xs[i].flag \in names
  <2>1. i + 1 \in 1..Len(xs) /\ xs[i + 1].flag = Empty /\ (i + 1) - 1 = i /\ i + 1 > 1
    BY <1>2 DEF Tidy
  <2>2. ~Behind(xs, i)
    BY <1>1, <1>2 DEF TakesNext
  <2>3. Behind(xs, i + 1)
    BY <1>2, <2>1 DEF Behind
  <2> QED BY <2>1, <2>2, <2>3 DEF FlagsAt
<1>3. /\ Closed(xs, FlagsAt(xs, names))
      /\ Closed(xs, (1..Len(xs)) \ FlagsAt(xs, names))
  BY <1>2 DEF Closed
<1> QED BY <1>1, <1>3 DEF FlagsAt

(* A list of places that is closed is tidy, its flags have their values, and *)
(* what is behind a flag was there before.                                   *)
LEMMA Kept ==
  ASSUME NEW xs \in Seq(Argument), NEW s \in Seq(Argument), NEW I \in SUBSET (1..Len(xs)),
         NEW at, Places(s, xs, I, at), Tidy(xs), Closed(xs, I)
  PROVE  /\ Tidy(s)
         /\ \A k \in 1..Len(s) :
              /\ at[k] \in I /\ s[k] = xs[at[k]]
              /\ Behind(s, k) <=> Behind(xs, at[k])
              /\ Behind(s, k) => at[k - 1] = at[k] - 1
              /\ ValueAt(s, k) = ValueAt(xs, at[k])
<1> DEFINE N == Len(xs)
<1>1. /\ \A k \in 1..Len(s) : at[k] \in I /\ at[k] \in 1..N /\ s[k] = xs[at[k]]
      /\ \A i, k \in 1..Len(s) : i < k => at[i] < at[k]
      /\ \A i \in I : \E k \in 1..Len(s) : at[k] = i
      /\ Len(s) \in Nat /\ N \in Nat
  <2>1. \A k \in 1..Len(s) : at[k] \in I
    BY DEF Places
  <2>2. \A i \in I : i \in 1..N
    OBVIOUS
  <2> QED BY <2>1, <2>2 DEF Places
<1>2. ASSUME NEW k \in 1..Len(s), TakesNext(s[k])
      PROVE  k + 1 \in 1..Len(s) /\ at[k + 1] = at[k] + 1 /\ s[k + 1].flag = Empty
             /\ s[k + 1] = xs[at[k] + 1]
  <2>1. TakesNext(xs[at[k]]) /\ at[k] \in 1..N /\ at[k] \in I
    BY <1>1, <1>2
  <2>2. at[k] + 1 \in I /\ xs[at[k] + 1].flag = Empty
    BY <2>1 DEF Closed, Tidy
  <2>3. k + 1 \in 1..Len(s) /\ at[k + 1] = at[k] + 1
    BY <2>2, Neighbours
  <2> QED BY <1>1, <2>2, <2>3
<1>3. Tidy(s)
  <2>1. ASSUME NEW k \in 1..Len(s), TakesNext(s[k]) PROVE k < Len(s) /\ s[k + 1].flag = Empty
    BY <1>1, <1>2, <2>1
  <2> QED BY <2>1 DEF Tidy
<1>4. ASSUME NEW k \in 1..Len(s)
      PROVE  /\ Behind(s, k) <=> Behind(xs, at[k])
             /\ Behind(s, k) => at[k - 1] = at[k] - 1
  <2>1. ASSUME Behind(s, k) PROVE Behind(xs, at[k]) /\ at[k - 1] = at[k] - 1
    <3>1. k - 1 \in 1..Len(s) /\ TakesNext(s[k - 1]) /\ (k - 1) + 1 = k
      BY <2>1 DEF Behind
    <3>2. at[k] = at[k - 1] + 1 /\ at[k - 1] \in 1..N /\ s[k - 1] = xs[at[k - 1]]
      BY <1>1, <1>2, <3>1
    <3>3. at[k] > 1 /\ at[k] - 1 = at[k - 1]
      BY <3>2
    <3> QED BY <3>1, <3>2, <3>3 DEF Behind
  <2>2. ASSUME Behind(xs, at[k]) PROVE Behind(s, k)
    <3>1. at[k] \in I /\ at[k] \in 1..N /\ at[k] > 1 /\ TakesNext(xs[at[k] - 1])
      BY <1>1, <2>2 DEF Behind
    <3>2. at[k] - 1 \in 1..N /\ (at[k] - 1) + 1 = at[k]
      BY <3>1
    <3>3. at[k] - 1 \in I
      BY <3>1, <3>2 DEF Closed
    <3>4. PICK j \in 1..Len(s) : at[j] = at[k] - 1
      BY <1>1, <3>3
    <3>5. TakesNext(s[j])
      BY <1>1, <3>1, <3>4
    <3>6. j + 1 \in 1..Len(s) /\ at[j + 1] = at[k]
      BY <1>2, <3>2, <3>4, <3>5
    <3>7. j + 1 = k
      BY <1>1, <3>6
    <3>8. k > 1 /\ k - 1 = j
      BY <3>7
    <3> QED BY <3>5, <3>8 DEF Behind
  <2> QED BY <2>1, <2>2
<1>5. \A k \in 1..Len(s) : ValueAt(s, k) = ValueAt(xs, at[k])
  BY <1>1, <1>2 DEF ValueAt
<1> QED BY <1>1, <1>3, <1>4, <1>5

(* Split, told which flags are in names and take a value, moves those with   *)
(* their values.                                                             *)
LEMMA SplitFlags ==
  ASSUME NEW xs \in Seq(Argument), Tidy(xs), NEW names, Empty \notin names,
         NEW M, NEW O \in SUBSET M,
         \A i \in 1..Len(xs) : /\ xs[i] \in M <=> xs[i].flag \in names
                               /\ xs[i] \in O <=> xs[i].flag \in names /\ TakesNext(xs[i])
  PROVE  /\ Split(xs, M, O).moved \in Seq(Argument)
         /\ Lists(Split(xs, M, O).moved, xs, FlagsAt(xs, names))
         /\ Split(xs, M, O).others \in Seq(Argument)
         /\ Lists(Split(xs, M, O).others, xs, (1..Len(xs)) \ FlagsAt(xs, names))
<1> DEFINE I == FlagsAt(xs, names)
<1>1. I \in SUBSET (1..Len(xs))
  BY DEF FlagsAt
<1>2. ASSUME NEW i \in 1..Len(xs)
      PROVE  /\ i \in I <=> xs[i] \in M \/ (i > 1 /\ xs[i - 1] \in O)
             /\ i > 1 /\ xs[i - 1] \in O => xs[i] \notin M
  <2>1. i > 1 => i - 1 \in 1..Len(xs) /\ (i - 1) + 1 = i
    OBVIOUS
  <2>2. i > 1 /\ xs[i - 1] \in O <=> Behind(xs, i) /\ xs[i - 1].flag \in names
    BY <2>1 DEF Behind
  <2>3. Behind(xs, i) => xs[i].flag = Empty
    BY <2>1 DEF Behind, Tidy
  <2> QED BY <2>2, <2>3 DEF FlagsAt
<1> HIDE DEF I
<1>3. /\ Split(xs, M, O).moved \in Seq(Argument) /\ Lists(Split(xs, M, O).moved, xs, I)
      /\ Split(xs, M, O).others \in Seq(Argument)
      /\ Lists(Split(xs, M, O).others, xs, (1..Len(xs)) \ I)
  BY <1>1, <1>2, SplitLists
<1> QED BY <1>3 DEF I

(* The flags of a tidy list, moved out of it with their values, are a list   *)
(* the parser reads, ...                                                     *)
LEMMA FlagsListed ==
  ASSUME NEW xs \in Seq(Argument), NEW s \in Seq(Argument), NEW names, Tidy(xs),
         Converted(xs), Empty \notin names, NEW at, Places(s, xs, FlagsAt(xs, names), at)
  PROVE  FlagList(s, names)
<1> DEFINE I == FlagsAt(xs, names)
<1>1. I \in SUBSET (1..Len(xs)) /\ Closed(xs, I)
  BY FlagsClosed DEF FlagsAt
<1>2. /\ Tidy(s)
      /\ \A k \in 1..Len(s) : /\ at[k] \in I /\ s[k] = xs[at[k]]
                              /\ Behind(s, k) <=> Behind(xs, at[k])
                              /\ ValueAt(s, k) = ValueAt(xs, at[k])
  <2> HIDE DEF I
  <2>1. Places(s, xs, I, at)
    BY DEF I
  <2> QED BY <1>1, <2>1, Kept
<1>3. ASSUME NEW k \in 1..Len(s)
      PROVE  /\ s[k].flag \in names \/ (s[k].flag = Empty /\ k > 1 /\ TakesNext(s[k - 1]))
             /\ TakesNext(s[k]) => k < Len(s) /\ s[k + 1].flag = Empty
  <2>1. \/ xs[at[k]].flag \in names
        \/ xs[at[k]].flag = Empty /\ Behind(xs, at[k])
    BY <1>2, FlagsClosed
  <2> QED BY <1>2, <2>1 DEF Behind, Tidy
<1>4. Converted(s)
  <2>1. \A k \in 1..Len(s) : at[k] \in 1..Len(xs)
    BY <1>1, <1>2
  <2> QED BY <1>2, <2>1 DEF Converted
<1> QED BY <1>3, <1>4 DEF FlagList

(* The names of the flags of a list.                                         *)
NamesIn(xs) == {xs[i].flag : i \in 1..Len(xs)} \ {Empty}

(* flags are those of these names that were given, with their last values.   *)
GivenOnes(flags, xs, names) ==
  /\ DOMAIN flags = names \cap NamesIn(xs)
  /\ \A f \in names \cap NamesIn(xs) : flags[f] = Value(xs, f)

(* ... and what it reads are the values they had.                            *)
LEMMA FlagsRead ==
  ASSUME NEW xs \in Seq(Argument), NEW s \in Seq(Argument), NEW names, WellFormed(xs),
         Empty \notin names, Lists(s, xs, FlagsAt(xs, names)),
         NEW flags, Recorded(flags, s, Len(s))
  PROVE  GivenOnes(flags, xs, names)
<1> DEFINE I == FlagsAt(xs, names)
           L == Len(s)
<1>1. PICK at : Places(s, xs, I, at)
  BY ListsPlaces
<1>2. Tidy(xs) /\ \A i \in 1..Len(xs) : Taken(xs)[i] => xs[i].flag = Empty
  BY WellFormedTidy DEF WellFormed
<1>3. I \in SUBSET (1..Len(xs)) /\ Closed(xs, I)
  BY <1>2, FlagsClosed DEF FlagsAt
<1>4. \A k \in 1..L : /\ at[k] \in I /\ at[k] \in 1..Len(xs) /\ s[k] = xs[at[k]]
                      /\ ValueAt(s, k) = ValueAt(xs, at[k])
  <2> HIDE DEF I
  <2>1. \A k \in 1..L : at[k] \in I /\ s[k] = xs[at[k]] /\ ValueAt(s, k) = ValueAt(xs, at[k])
    BY <1>1, <1>2, <1>3, Kept
  <2> QED BY <1>3, <2>1
<1>5. /\ \A i \in I : \E k \in 1..L : at[k] = i
      /\ \A j, k \in 1..L : j < k => at[j] < at[k]
  BY <1>1 DEF Places
<1>6. \A i \in 1..Len(xs) : xs[i].flag \in names => i \in I
  BY DEF FlagsAt
<1>7. \A i \in I : xs[i].flag \in names \/ xs[i].flag = Empty
  BY <1>2, FlagsClosed
<1> HIDE DEF I
<1>8. \A f : f \in {s[k].flag : k \in 1..L} \ {Empty} <=> f \in names \cap NamesIn(xs)
  <2> TAKE f
  <2>1. ASSUME f \in names \cap NamesIn(xs) PROVE f \in {s[k].flag : k \in 1..L} \ {Empty}
    <3>1. PICK i \in 1..Len(xs) : xs[i].flag = f
      BY <2>1 DEF NamesIn
    <3>2. PICK k \in 1..L : at[k] = i
      BY <1>5, <1>6, <2>1, <3>1
    <3> QED BY <1>4, <2>1, <3>1, <3>2
  <2>2. ASSUME NEW k \in 1..L, s[k].flag = f, f # Empty PROVE f \in names \cap NamesIn(xs)
    BY <1>4, <1>7, <2>2 DEF NamesIn
  <2> QED BY <2>1, <2>2
<1>9. DOMAIN flags = names \cap NamesIn(xs)
  BY <1>8 DEF Recorded
<1>10. ASSUME NEW f \in names \cap NamesIn(xs) PROVE flags[f] = Value(xs, f)
  <2>1. PICK k \in 1..L : LastAt(s, f, k, L) /\ flags[f] = ValueAt(s, k)
    BY <1>9, <1>10 DEF Recorded
  <2>2. f # Empty
    BY <1>10
  <2>3. FlagsGiven(xs, f) = {i \in 1..Len(xs) : xs[i].flag = f}
    BY <1>2, <2>2 DEF FlagsGiven
  <2>4. at[k] \in FlagsGiven(xs, f)
    BY <1>4, <2>1, <2>3 DEF LastAt
  <2>5. ASSUME NEW i \in FlagsGiven(xs, f) PROVE i <= at[k]
    <3>1. i \in 1..Len(xs) /\ xs[i].flag = f
      BY <2>3, <2>5
    <3>2. PICK j \in 1..L : at[j] = i
      BY <1>5, <1>6, <1>10, <3>1
    <3>3. j <= k
      BY <1>4, <2>1, <3>1, <3>2 DEF LastAt
    <3>4. j = k \/ j < k
      BY <3>3
    <3> QED BY <1>4, <1>5, <3>1, <3>2, <3>4
  <2> DEFINE last == CHOOSE i \in FlagsGiven(xs, f) : \A j \in FlagsGiven(xs, f) : j <= i
  <2>6. last \in FlagsGiven(xs, f) /\ \A j \in FlagsGiven(xs, f) : j <= last
    BY <2>4, <2>5
  <2>7. Value(xs, f) = ValueAt(xs, last)
    BY DEF Value
  <2> HIDE DEF last
  <2>8. last = at[k]
    <3>1. last \in Nat /\ at[k] \in Nat
      BY <2>3, <2>4, <2>6
    <3> QED BY <2>4, <2>5, <2>6, <3>1
  <2> QED BY <1>4, <2>1, <2>7, <2>8
<1> QED BY <1>9, <1>10 DEF GivenOnes

-----------------------------------------------------------------------------
(* The whole of it.                                                          *)

LEMMA GlobalNames == Empty \notin Globals /\ "verbose" \notin Globals
BY Zenon DEF Empty, Globals

LEMMA CommandNames ==
  ASSUME NEW c
  PROVE  /\ Empty \notin KnownFlags(c) /\ "kubeconfig" \notin KnownFlags(c)
         /\ "verbose" \in KnownFlags(c) => c = Word("serve")
<1>1. /\ Empty \notin {"namespace"} /\ Empty \notin {"namespace", "render"}
      /\ Empty \notin {"listen", "mode", "request-timeout", "kube-api-budget", "verbose"}
  BY Zenon DEF Empty
<1>2. \/ KnownFlags(c) = {"namespace"} \/ KnownFlags(c) = {"namespace", "render"}
      \/ KnownFlags(c) = {}
      \/ c = Word("serve") /\ KnownFlags(c) = {"listen", "mode", "request-timeout",
                                               "kube-api-budget", "verbose"}
  BY DEF KnownFlags
<1> QED BY <1>1, <1>2

LEMMA ToolBools ==
  ASSUME NEW c
  PROVE  BoolsOf(Globals, {}) /\ BoolsOf(KnownFlags(c), {"verbose"})
BY GlobalNames, CommandNames DEF BoolsOf

(* The command is at first: apart from it, what is not at G is at H, or a    *)
(* word.                                                                     *)
CommandAt(xs, G, H, first) ==
  /\ \A i \in (1..Len(xs)) \ G : first <= i
  /\ Meant(xs) = xs[first] /\ xs[first].flag = Empty
  /\ first \in 1..Len(xs) /\ first \notin G /\ first \notin H
  /\ ((1..Len(xs)) \ G) \ {first} = H \cup (Words(xs) \ {first})
  /\ H \cap Words(xs) = {}
  /\ Closed(xs, ((1..Len(xs)) \ G) \ {first})

(* In a well-formed list every argument is a global flag or a value of one,  *)
(* a flag of the command or a value of one, or a word, of which the command  *)
(* is the first.                                                             *)
LEMMA ThreeParts ==
  ASSUME NEW xs \in Seq(Argument), WellFormed(xs),
         NEW G, G = FlagsAt(xs, Globals), NEW H, H = FlagsAt(xs, KnownFlags(Meant(xs)))
  PROVE  \E first \in Words(xs) : CommandAt(xs, G, H, first)
<1> DEFINE N == Len(xs)
           W == Words(xs)
           K == KnownFlags(Meant(xs))
<1>1. Tidy(xs)
  BY WellFormedTidy
<1>2. /\ W = {i \in 1..N : ~Behind(xs, i) /\ xs[i].flag = Empty}
      /\ \E first \in W :
           /\ \A i \in W : first <= i
           /\ Meant(xs) = xs[first]
           /\ \A i \in 1..N : xs[i].flag # Empty =>
                \/ xs[i].flag \in Globals /\ xs[i].value # Empty
                \/ xs[i].flag \in K /\ first < i
  BY WellFormedIs
<1>3. Empty \notin Globals /\ Empty \notin K /\ Globals \cap K = {}
  BY GlobalNames, CommandNames DEF Globals
<1>4. PICK first \in W :
        /\ \A i \in W : first <= i
        /\ Meant(xs) = xs[first]
        /\ \A i \in 1..N : xs[i].flag # Empty =>
             \/ xs[i].flag \in Globals /\ xs[i].value # Empty
             \/ xs[i].flag \in K /\ first < i
  BY <1>2
<1> HIDE DEF W, K
<1>5. first \in 1..N /\ ~Behind(xs, first) /\ xs[first].flag = Empty
  BY <1>2, <1>4
<1>6. H = FlagsAt(xs, K)
  BY DEF K
<1>7. /\ \A i \in G : \/ xs[i].flag \in Globals /\ ~Behind(xs, i)
                      \/ xs[i].flag = Empty /\ Behind(xs, i) /\ xs[i - 1].flag \in Globals
      /\ \A i \in H : \/ xs[i].flag \in K /\ ~Behind(xs, i)
                      \/ xs[i].flag = Empty /\ Behind(xs, i) /\ xs[i - 1].flag \in K
      /\ Closed(xs, (1..N) \ G)
  BY <1>1, <1>3, <1>6, FlagsClosed
<1>8. \A i \in 1..N : i \in G \/ i \in H \/ i \in W
  <2> TAKE i \in 1..N
  <2>1. CASE xs[i].flag # Empty
    BY <1>4, <1>6, <2>1 DEF FlagsAt
  <2>2. CASE Behind(xs, i)
    <3>1. i - 1 \in 1..N /\ xs[i - 1].flag # Empty
      BY <2>2 DEF Behind, TakesNext
    <3> QED BY <1>4, <1>6, <2>2, <3>1 DEF FlagsAt
  <2>3. CASE xs[i].flag = Empty /\ ~Behind(xs, i)
    BY <1>2, <2>3
  <2> QED BY <2>1, <2>2, <2>3
<1>9. G \cap H = {} /\ G \cap W = {} /\ H \cap W = {}
  BY <1>2, <1>3, <1>7
<1>10. /\ H \subseteq 1..N /\ W \subseteq 1..N /\ G \subseteq 1..N
  BY <1>2, <1>6 DEF FlagsAt
<1>11. \A i \in (1..N) \ G : first <= i
  <2> TAKE i \in (1..N) \ G
  <2>1. CASE i \in W
    BY <1>4, <2>1
  <2>2. CASE i \in H
    <3>1. CASE xs[i].flag \in K
      <4>1. xs[i].flag # Empty /\ xs[i].flag \notin Globals
        BY <1>3, <3>1
      <4> QED BY <1>4, <1>5, <4>1
    <3>2. CASE Behind(xs, i) /\ xs[i - 1].flag \in K
      <4>1. xs[i - 1].flag # Empty /\ xs[i - 1].flag \notin Globals /\ i - 1 \in 1..N
        BY <1>3, <3>2 DEF Behind
      <4>2. first < i - 1
        BY <1>4, <4>1
      <4> QED BY <1>5, <4>2
    <3> QED BY <1>7, <2>2, <3>1, <3>2
  <2> QED BY <1>8, <2>1, <2>2
<1>12. ((1..N) \ G) \ {first} = H \cup (W \ {first})
  BY <1>4, <1>8, <1>9, <1>10
<1>13. Closed(xs, ((1..N) \ G) \ {first})
  <2>1. ASSUME NEW i \in 1..N, TakesNext(xs[i])
        PROVE  i \in ((1..N) \ G) \ {first} <=> i + 1 \in ((1..N) \ G) \ {first}
    <3>1. i \in (1..N) \ G <=> i + 1 \in (1..N) \ G
      BY <1>7, <2>1 DEF Closed
    <3>2. i # first
      BY <1>5, <2>1 DEF TakesNext
    <3>3. i + 1 # first
      <4>1. i + 1 > 1 /\ (i + 1) - 1 = i
        OBVIOUS
      <4> QED BY <1>5, <2>1, <4>1 DEF Behind
    <3> QED BY <3>1, <3>2, <3>3
  <2> QED BY <2>1 DEF Closed
<1> QED BY <1>4, <1>5, <1>9, <1>11, <1>12, <1>13 DEF W, CommandAt

(* What NormalizeArgs leaves: the global flags, the command, its flags, its  *)
(* words.                                                                    *)
Normalized(xs, first, g, m, o) ==
  /\ g \in Seq(Argument) /\ m \in Seq(Argument) /\ o \in Seq(Argument)
  /\ NormalizeArgs(xs) = g \o (<<Meant(xs)>> \o m \o o)
  /\ Lists(g, xs, FlagsAt(xs, Globals)) /\ Lists(m, xs, FlagsAt(xs, KnownFlags(Meant(xs))))
  /\ Lists(o, xs, Words(xs) \ {first})
  /\ first \in Words(xs) /\ Meant(xs) = xs[first] /\ \A i \in Words(xs) : first <= i

LEMMA Normal ==
  ASSUME NEW xs \in Seq(Argument), WellFormed(xs)
  PROVE  \E first, g, m, o : Normalized(xs, first, g, m, o)
<1> DEFINE N == Len(xs)
           W == Words(xs)
           K == KnownFlags(Meant(xs))
           G == FlagsAt(xs, Globals)
           H == FlagsAt(xs, K)
           R == (1..N) \ G
           flags == {a \in ToSet(xs) : IsGlobalFlag(a)}
           open == {a \in flags : a.value = None}
           top == Split(xs, flags, open)
<1>1. Tidy(xs)
  BY WellFormedTidy
<1>2. PICK first \in W :
           /\ \A i \in R : first <= i
           /\ Meant(xs) = xs[first] /\ xs[first].flag = Empty
           /\ first \in 1..N /\ first \notin G /\ first \notin H
           /\ R \ {first} = H \cup (W \ {first})
           /\ H \cap W = {}
           /\ Closed(xs, R \ {first})
  <2> HIDE DEF G, H
  <2>1. G = FlagsAt(xs, Globals) /\ H = FlagsAt(xs, KnownFlags(Meant(xs)))
    BY DEF G, H
  <2>2. \E first \in Words(xs) : CommandAt(xs, G, H, first)
    BY <2>1, ThreeParts
  <2> QED BY <2>2 DEF CommandAt
<1>3. \A i \in 1..N : xs[i].flag \in Globals => xs[i].value # Empty
  <2>1. \A i \in 1..N : xs[i].flag # Empty =>
           \/ xs[i].flag \in Globals /\ xs[i].value # Empty
           \/ xs[i].flag \in KnownFlags(Meant(xs))
    BY WellFormedIs
  <2>2. Empty \notin Globals /\ Globals \cap KnownFlags(Meant(xs)) = {}
    BY GlobalNames, CommandNames DEF Globals
  <2> QED BY <2>1, <2>2
<1>4. \A i \in 1..N : /\ xs[i] \in flags <=> xs[i].flag \in Globals
                      /\ xs[i] \in open <=> xs[i].flag \in Globals /\ TakesNext(xs[i])
  <2>1. \A i \in 1..N : xs[i] \in ToSet(xs)
    BY DEF ToSet
  <2>2. \A i \in 1..N : xs[i].flag = "kubeconfig" => xs[i].flag # Empty /\ xs[i].flag # "verbose"
    BY GlobalNames DEF Globals
  <2> QED BY <1>3, <2>1, <2>2 DEF IsGlobalFlag, Globals, TakesNext
<1>5. /\ top.moved \in Seq(Argument) /\ Lists(top.moved, xs, G)
      /\ top.others \in Seq(Argument) /\ Lists(top.others, xs, R)
  <2>1. open \in SUBSET flags
    OBVIOUS
  <2> HIDE DEF flags, open
  <2> QED BY <1>1, <1>4, <2>1, GlobalNames, SplitFlags
<1>6. NormalizeArgs(xs) = top.moved \o IF top.others = << >> THEN << >>
                                       ELSE NormalizeCommand(top.others)
  BY DEF NormalizeArgs
<1> DEFINE t == Tail(top.others)
<1>7. /\ top.others # << >> /\ Head(top.others) = xs[first] /\ t \in Seq(Argument)
      /\ Lists(t, xs, R \ {first})
  <2> DEFINE s == top.others
  <2>1. s \in Seq(Argument) /\ Lists(s, xs, R) /\ first \in R /\ R \in SUBSET (1..N)
    BY <1>2, <1>5
  <2> HIDE DEF s, R
  <2>2. s # << >> /\ Head(s) = xs[first] /\ Tail(s) \in Seq(Argument)
        /\ Lists(Tail(s), xs, R \ {first})
    BY <1>2, <2>1, ListsTail
  <2> QED BY <2>2 DEF s
<1> DEFINE ownFlags == {a \in ToSet(t) : a.flag \in K}
           ownOpen == {a \in ownFlags : a.value = None /\ ~IsBoolFlag(Meant(xs), a.flag)}
           own == Split(t, ownFlags, ownOpen)
<1>8. NormalizeCommand(top.others) = <<Meant(xs)>> \o own.moved \o own.others
  BY <1>2, <1>7 DEF NormalizeCommand
<1> HIDE DEF t, G, H, W, top
<1>9. PICK at : Places(t, xs, R \ {first}, at)
  BY <1>7, ListsPlaces
<1>10. R \ {first} \in SUBSET (1..N)
  OBVIOUS
<1> HIDE DEF R
<1>11. /\ Tidy(t)
       /\ \A k \in 1..Len(t) :
            /\ at[k] \in R \ {first} /\ t[k] = xs[at[k]]
            /\ Behind(t, k) <=> Behind(xs, at[k])
            /\ Behind(t, k) => at[k - 1] = at[k] - 1
  <2> DEFINE I == R \ {first}
  <2>1. I \in SUBSET (1..N) /\ Places(t, xs, I, at) /\ Closed(xs, I) /\ t \in Seq(Argument)
    BY <1>2, <1>7, <1>9, <1>10
  <2> HIDE DEF I
  <2>2. /\ Tidy(t)
        /\ \A k \in 1..Len(t) :
            /\ at[k] \in I /\ t[k] = xs[at[k]]
            /\ Behind(t, k) <=> Behind(xs, at[k])
            /\ Behind(t, k) => at[k - 1] = at[k] - 1
    BY <1>1, <2>1, Kept
  <2> QED BY <2>2 DEF I
<1>12. \A k \in 1..Len(t) : /\ t[k] \in ownFlags <=> t[k].flag \in K
                            /\ t[k] \in ownOpen <=> t[k].flag \in K /\ TakesNext(t[k])
  <2>1. \A k \in 1..Len(t) : t[k] \in ToSet(t)
    BY <1>7 DEF ToSet
  <2>2. \A x \in K : x # Empty /\ (IsBoolFlag(Meant(xs), x) <=> x = "verbose")
    BY CommandNames DEF IsBoolFlag
  <2> HIDE DEF K
  <2> QED BY <2>1, <2>2 DEF TakesNext
<1>13. /\ own.moved \in Seq(Argument) /\ Lists(own.moved, t, FlagsAt(t, K))
       /\ own.others \in Seq(Argument) /\ Lists(own.others, t, (1..Len(t)) \ FlagsAt(t, K))
  <2>1. ownOpen \in SUBSET ownFlags /\ Empty \notin K
    BY CommandNames
  <2> HIDE DEF ownFlags, ownOpen, K
  <2> QED BY <1>7, <1>11, <1>12, <2>1, SplitFlags
<1>14. /\ FlagsAt(t, K) = From(t, at, H)
       /\ (1..Len(t)) \ FlagsAt(t, K) = From(t, at, W \ {first})
  <2>1. \A k \in 1..Len(t) : k \in FlagsAt(t, K) <=> at[k] \in H
    <3> TAKE k \in 1..Len(t)
    <3>1. at[k] \in 1..N /\ t[k] = xs[at[k]]
      BY <1>10, <1>11
    <3>2. ASSUME Behind(t, k)
          PROVE  Behind(xs, at[k]) /\ t[k - 1].flag = xs[at[k] - 1].flag
      <4>1. k - 1 \in 1..Len(t)
        BY <3>2 DEF Behind
      <4>2. at[k - 1] = at[k] - 1 /\ t[k - 1] = xs[at[k - 1]]
        BY <1>11, <3>2, <4>1
      <4> QED BY <1>11, <3>2, <4>2
    <3>3. Behind(t, k) <=> Behind(xs, at[k])
      BY <1>11
    <3> HIDE DEF K
    <3> QED BY <3>1, <3>2, <3>3 DEF FlagsAt, H
  <2>2. \A k \in 1..Len(t) : at[k] \in W \ {first} <=> at[k] \notin H
    BY <1>2, <1>11
  <2>3. FlagsAt(t, K) \subseteq 1..Len(t)
    BY DEF FlagsAt
  <2> HIDE DEF K
  <2> QED BY <2>1, <2>2, <2>3 DEF From
<1>15. /\ Lists(own.moved, xs, H) /\ Lists(own.others, xs, W \ {first})
  <2> DEFINE m == own.moved
             o == own.others
             I == R \ {first}
             w == W \ {first}
  <2>1. /\ m \in Seq(Argument) /\ Lists(m, t, From(t, at, H))
        /\ o \in Seq(Argument) /\ Lists(o, t, From(t, at, w))
    BY <1>13, <1>14
  <2>2. H \in SUBSET I /\ w \in SUBSET I
    BY <1>2
  <2>3. I \in SUBSET (1..N) /\ Places(t, xs, I, at) /\ t \in Seq(Argument)
    BY <1>7, <1>9, <1>10
  <2> HIDE DEF m, o, I, w
  <2>4. Lists(m, xs, H) /\ Lists(o, xs, w)
    BY <2>1, <2>2, <2>3, ListsAmong
  <2> QED BY <2>4 DEF m, o, w
<1>16. \A i \in W : first <= i
  <2>1. W \subseteq R
    BY <1>2 DEF R
  <2> QED BY <1>2, <2>1
<1>17. NormalizeArgs(xs) = top.moved \o (<<Meant(xs)>> \o own.moved \o own.others)
  BY <1>6, <1>7, <1>8
<1>18. Normalized(xs, first, top.moved, own.moved, own.others)
  <2> HIDE DEF own
  <2> QED BY <1>2, <1>5, <1>13, <1>15, <1>16, <1>17 DEF Normalized, G, H, W
<1> QED BY <1>18

FirstOf(c, b, rest) ==
  /\ b \in Seq(Argument) /\ b # << >> /\ b[1] = c /\ Head(b) = c
  /\ rest \in Seq(Argument) /\ Tail(b) = rest

(* What stands first in a list comes off it.                                 *)
LEMMA AfterFirst ==
  ASSUME NEW c \in Argument, NEW m \in Seq(Argument), NEW o \in Seq(Argument)
  PROVE  FirstOf(c, <<c>> \o m \o o, m \o o)
<1> DEFINE b == <<c>> \o m \o o
<1> DEFINE h == <<c>>
           d == h \o m
<1>1. h \in Seq(Argument) /\ Len(h) = 1 /\ h[1] = c
  OBVIOUS
<1> HIDE DEF h
<1>2. /\ d \in Seq(Argument) /\ Len(d) = 1 + Len(m)
      /\ \A i \in 1..(1 + Len(m)) : d[i] = IF i <= 1 THEN c ELSE m[i - 1]
  <2>1. /\ h \o m \in Seq(Argument) /\ Len(h \o m) = Len(h) + Len(m)
        /\ \A i \in 1..(Len(h) + Len(m)) :
             (h \o m)[i] = IF i <= Len(h) THEN h[i] ELSE m[i - Len(h)]
    BY <1>1, ConcatProperties
  <2>2. d \in Seq(Argument) /\ Len(d) = 1 + Len(m)
    BY <1>1, <2>1
  <2>3. ASSUME NEW i \in 1..(1 + Len(m)) PROVE d[i] = IF i <= 1 THEN c ELSE m[i - 1]
    <3>1. d[i] = IF i <= 1 THEN h[i] ELSE m[i - 1]
      BY <1>1, <2>1
    <3>2. i <= 1 => i = 1
      OBVIOUS
    <3> QED BY <1>1, <3>1, <3>2
  <2> QED BY <2>2, <2>3
<1> HIDE DEF d
<1>3. /\ d \o o \in Seq(Argument) /\ Len(d \o o) = 1 + Len(m) + Len(o)
      /\ \A i \in 1..(1 + Len(m) + Len(o)) :
           (d \o o)[i] = IF i <= 1 + Len(m) THEN d[i] ELSE o[i - (1 + Len(m))]
  <2>1. /\ d \o o \in Seq(Argument) /\ Len(d \o o) = Len(d) + Len(o)
        /\ \A i \in 1..(Len(d) + Len(o)) :
             (d \o o)[i] = IF i <= Len(d) THEN d[i] ELSE o[i - Len(d)]
    BY <1>2, ConcatProperties
  <2> QED BY <1>2, <2>1
<1>4. b = d \o o
  BY DEF d, h
<1> HIDE DEF b
<1>5. /\ m \o o \in Seq(Argument) /\ Len(m \o o) = Len(m) + Len(o)
      /\ \A i \in 1..(Len(m) + Len(o)) : (m \o o)[i] = IF i <= Len(m) THEN m[i] ELSE o[i - Len(m)]
  BY ConcatProperties
<1>6. Len(m) \in Nat /\ Len(o) \in Nat
  OBVIOUS
<1> DEFINE r == m \o o
<1>7. /\ b \in Seq(Argument) /\ b # << >> /\ Len(b) = 1 + Len(r) /\ b[1] = c
      /\ \A i \in 1..Len(r) : b[i + 1] = r[i]
  <2>1. b \in Seq(Argument) /\ Len(b) = 1 + Len(r) /\ b # << >>
    BY <1>3, <1>4, <1>5, <1>6
  <2>2. b[1] = c
    BY <1>2, <1>3, <1>4, <1>6
  <2>3. ASSUME NEW i \in 1..(Len(m) + Len(o)) PROVE b[i + 1] = (m \o o)[i]
    <3>1. CASE i <= Len(m)
      <4>1. b[i + 1] = d[i + 1]
        BY <1>3, <1>4, <1>6, <3>1
      <4>2. d[i + 1] = m[i]
        BY <1>2, <1>6, <3>1
      <4> QED BY <1>5, <3>1, <4>1, <4>2
    <3>2. CASE ~(i <= Len(m))
      <4>1. b[i + 1] = o[(i + 1) - (1 + Len(m))] /\ (i + 1) - (1 + Len(m)) = i - Len(m)
        BY <1>3, <1>4, <1>6, <3>2
      <4> QED BY <1>5, <3>2, <4>1
    <3> QED BY <3>1, <3>2
  <2> QED BY <1>5, <2>1, <2>2, <2>3
<1> HIDE DEF r
<1>8. /\ Head(b) = c /\ Tail(b) \in Seq(Argument) /\ Len(Tail(b)) = Len(r)
      /\ \A i \in 1..Len(r) : Tail(b)[i] = b[i + 1]
  BY <1>7, HeadTailProperties
<1>9. Tail(b) = r
  <2>1. r \in Seq(Argument)
    BY <1>5 DEF r
  <2> QED BY <1>7, <1>8, <2>1, SeqEqual
<1>10. FirstOf(c, b, m \o o)
  BY <1>5, <1>7, <1>8, <1>9 DEF r, FirstOf
<1> QED BY <1>10 DEF b

(* A well-formed argument list is read as it is meant, wherever its flags    *)
(* stand: NormalizeArgs and the flag package between them give the command,  *)
(* its words in their order, and every flag its own last value.              *)
THEOREM WellFormedReadAsMeant ==
  \A xs \in Seq(Argument) : WellFormed(xs) => ReadsAsMeant(xs, Read(xs))
<1> SUFFICES ASSUME NEW xs \in Seq(Argument), WellFormed(xs) PROVE ReadsAsMeant(xs, Read(xs))
  OBVIOUS
<1> DEFINE c == Meant(xs)
           K == KnownFlags(c)
           W == Words(xs)
<1>1. PICK first, g, m, o : Normalized(xs, first, g, m, o)
  BY Normal
<1>2. /\ g \in Seq(Argument) /\ m \in Seq(Argument) /\ o \in Seq(Argument)
      /\ NormalizeArgs(xs) = g \o (<<c>> \o m \o o)
      /\ Lists(g, xs, FlagsAt(xs, Globals)) /\ Lists(m, xs, FlagsAt(xs, K))
      /\ Lists(o, xs, W \ {first})
      /\ first \in W /\ c = xs[first] /\ \A i \in W : first <= i
  BY <1>1 DEF Normalized
<1>3. /\ Tidy(xs) /\ Converted(xs)
      /\ \A i \in 1..Len(xs) : Taken(xs)[i] => xs[i].flag = Empty
  BY WellFormedTidy DEF WellFormed
<1>4. W \in SUBSET (1..Len(xs)) /\ \A i \in W : xs[i].flag = Empty
  BY DEF Words
<1>5. c \in Argument /\ c.flag = Empty
  BY <1>2, <1>4
<1>6. Empty \notin Globals /\ Empty \notin K /\ BoolsOf(Globals, {}) /\ BoolsOf(K, {"verbose"})
  BY GlobalNames, CommandNames, ToolBools
<1>7. FlagList(g, Globals) /\ FlagList(m, K)
  <2> HIDE DEF K
  <2>1. PICK at : Places(g, xs, FlagsAt(xs, Globals), at)
    BY <1>2, ListsPlaces
  <2>2. PICK to : Places(m, xs, FlagsAt(xs, K), to)
    BY <1>2, ListsPlaces
  <2> QED BY <1>2, <1>3, <1>6, <2>1, <2>2, FlagsListed
<1>8. o # << >> => o[1].flag = Empty
  <2>1. PICK at : Places(o, xs, W \ {first}, at)
    BY <1>2, ListsPlaces
  <2>2. o # << >> => 1 \in 1..Len(o)
    BY <1>2
  <2>3. \A k \in 1..Len(o) : at[k] \in W /\ o[k] = xs[at[k]]
    BY <2>1 DEF Places
  <2> QED BY <1>4, <2>2, <2>3
<1> DEFINE b == <<c>> \o m \o o
<1>9. /\ b \in Seq(Argument) /\ b # << >> /\ b[1] = c /\ Head(b) = c
      /\ m \o o \in Seq(Argument) /\ Tail(b) = m \o o
  <2> HIDE DEF c
  <2>1. FirstOf(c, <<c>> \o m \o o, m \o o)
    BY <1>2, <1>5, AfterFirst
  <2> QED BY <2>1 DEF FirstOf
<1> DEFINE top == Parse(g \o b, Globals, {})
           own == Parse(m \o o, K, {"verbose"})
<1>10. top.ok /\ top.rest = b /\ Recorded(top.flags, g, Len(g))
  <2> HIDE DEF b
  <2> QED BY <1>2, <1>5, <1>6, <1>7, <1>9, ParseReads
<1>11. own.ok /\ own.rest = o /\ Recorded(own.flags, m, Len(m))
  <2> HIDE DEF K
  <2> QED BY <1>2, <1>6, <1>7, <1>8, ParseReads
<1>12. Read(xs) = [ok |-> own.ok, command |-> c, globals |-> top.flags, flags |-> own.flags,
                   words |-> own.rest]
  <2>1. Read(xs) = IF top.ok /\ top.rest # << >> THEN ReadCommand(top) ELSE [ok |-> FALSE]
    BY <1>2 DEF Read
  <2>2. Read(xs) = ReadCommand(top)
    BY <1>9, <1>10, <2>1
  <2> HIDE DEF b, top, c
  <2>3. Head(top.rest) = c /\ Tail(top.rest) = m \o o
    BY <1>9, <1>10
  <2> QED BY <2>2, <2>3 DEF ReadCommand
<1> HIDE DEF top, own, b, c
<1> DEFINE r == Read(xs)
           given == NamesIn(xs)
<1>13. /\ r.ok /\ r.command = c /\ r.globals = top.flags /\ r.flags = own.flags
       /\ r.words = o
  BY <1>11, <1>12
<1>14. Lists(<<c>> \o o, xs, W)
  <2> HIDE DEF W
  <2>1. Lists(<<xs[first]>> \o o, xs, W)
    BY <1>2, <1>4, ListsCons
  <2> QED BY <1>2, <2>1
<1>15. /\ DOMAIN top.flags = Globals \cap given
       /\ \A f \in Globals \cap given : top.flags[f] = Value(xs, f)
  <2> DEFINE flags == top.flags
  <2>1. Recorded(flags, g, Len(g)) /\ Lists(g, xs, FlagsAt(xs, Globals))
    BY <1>2, <1>10
  <2> HIDE DEF flags
  <2>2. GivenOnes(flags, xs, Globals)
    BY <1>2, <1>6, <2>1, FlagsRead
  <2> QED BY <2>2 DEF flags, GivenOnes
<1>16. /\ DOMAIN own.flags = K \cap given
       /\ \A f \in K \cap given : own.flags[f] = Value(xs, f)
  <2> DEFINE flags == own.flags
  <2>1. Recorded(flags, m, Len(m)) /\ Lists(m, xs, FlagsAt(xs, K))
    BY <1>2, <1>11
  <2> HIDE DEF flags, K
  <2>2. GivenOnes(flags, xs, K)
    BY <1>2, <1>6, <2>1, FlagsRead
  <2> QED BY <2>2 DEF flags, GivenOnes
<1>17. given \subseteq Globals \cup K /\ Globals \cap K = {}
  <2>1. \A i \in 1..Len(xs) : xs[i].flag # Empty => xs[i].flag \in Globals \cup K
    BY WellFormedIs DEF c
  <2>2. Globals \cap K = {}
    BY CommandNames DEF Globals
  <2> QED BY <2>1, <2>2 DEF NamesIn
<1>18. given = {xs[i].flag : i \in {i \in DOMAIN xs : ~Taken(xs)[i]}} \ {Empty}
  <2>1. \A i \in 1..Len(xs) : xs[i].flag # Empty => ~Taken(xs)[i]
    BY <1>3
  <2> QED BY <2>1 DEF NamesIn
<1> HIDE DEF given, K, W
<1>19. /\ DOMAIN r.globals = given \cap Globals /\ DOMAIN r.flags = given \ Globals
       /\ \A f \in given : Value(xs, f) = IF f \in Globals THEN r.globals[f] ELSE r.flags[f]
  <2> HIDE DEF r
  <2> QED BY <1>13, <1>15, <1>16, <1>17
<1>20. r.ok /\ Lists(<<r.command>> \o r.words, xs, Words(xs))
  <2> HIDE DEF r
  <2> QED BY <1>13, <1>14 DEF W
<1> HIDE DEF r
<1>21. ReadsAsMeant(xs, r)
  BY <1>18, <1>19, <1>20 DEF ReadsAsMeant
<1> QED BY <1>21 DEF r

=============================================================================
