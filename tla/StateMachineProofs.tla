------------------------- MODULE StateMachineProofs -------------------------
(***************************************************************************)
(* The inductive invariant of SubStateMachine, for any classes, triggers,  *)
(* timers and messages: its types, and what its lists and the messages to  *)
(* the modules amount to while a ChangeState is under way.                 *)
(***************************************************************************)
EXTENDS StateMachine, FiniteSetTheorems, TLAPS

Entry == [class : Class \cup {Gone}, on : Event, goto : Goto]
ModuleMsg == [module : UNION {Activates[c] : c \in Class}, state : BOOLEAN]

\* The fields that are functions of the thread or queues, and the rest.
StateFields ==
    /\ currentClasses \subseteq Name
    /\ list \in [Runner -> Seq(Entry)] /\ rest \in [Runner -> Seq(Entry)]
    /\ live \in [Runner -> BOOLEAN]
    /\ message \in [Runner -> {Due} \cup UNION {Messages[p] : p \in Topic}]
    /\ doing \in [Runner -> {"idle", "check", "remove", "add"}]
    /\ newState \in [Runner -> Name] /\ todo \in [Runner -> SUBSET Name]
    /\ moduleEnable \in Seq(ModuleMsg)
    /\ handled \in 0..MaxMessages /\ overlapped \in BOOLEAN

\* No timer names the state of a message, and who may fire a trigger has one.
Nameable ==
    /\ \A e \in ToSet(list["main"]) \cup ToSet(rest["main"]) : e.goto # Named
    /\ \A p \in Topic : doing[p] # "idle" => message[p] \in Messages[p]

\* A thread outside its loop, or outside ChangeState, has nothing left to do there.
Through ==
    \A t \in Runner : /\ doing[t] = "idle" => rest[t] = <<>>
                      /\ ~Changing(t) => todo[t] = {}

StateTypes == StateFields /\ Nameable /\ Through

\* P is the set of classes that are set up: those of the current state, or what a
\* change in the making has left of the old and added of the new one.
SetUp(P) ==
    /\ (\A t \in Runner : ~Changing(t)) => P = currentClasses
    /\ \A t \in Runner : doing[t] = "remove" =>
           /\ P = (currentClasses \cap Target(t)) \cup todo[t]
           /\ todo[t] \subseteq currentClasses \ Target(t)
    /\ \A t \in Runner : doing[t] = "add" =>
           P = Target(t) \ todo[t] /\ todo[t] \subseteq Target(t)
    /\ \A t, u \in Runner : Changing(t) /\ Changing(u) => t = u

\* The lists hold what the classes in P bring.
ListsHold(P) ==
    \A t \in Runner : /\ ToSet(list[t]) \subseteq Brought(P, t)
                      /\ t # "main" => ToSet(list[t]) = Brought(P, t)
                      /\ IsInjective(list[t])

\* Module m ends up enabled once its messages have arrived, being so or not before.
EndsOn(m, before) ==
    \/ \E i \in DOMAIN moduleEnable :
           /\ moduleEnable[i].module = m /\ moduleEnable[i].state
           /\ \A j \in DOMAIN moduleEnable : j > i => moduleEnable[j].module # m
    \/ before /\ \A i \in DOMAIN moduleEnable : moduleEnable[i].module # m

\* It does so only if one of the classes in P activates it.
OnFor(P, m, before) == EndsOn(m, before) => \E c \in P \cap Class : m \in Activates[c]

-----------------------------------------------------------------------------
\* A finite set of positions can be listed in order: each is sent to how many of
\* them come no later, and that is turned round.
LEMMA AscendingExists ==
    ASSUME NEW n \in Nat, NEW K \in SUBSET (1..n)
    PROVE  /\ Cardinality(K) \in Nat
           /\ \E f \in [1..Cardinality(K) -> K] :
                  \A i, j \in DOMAIN f : i < j => f[i] < f[j]
<1> DEFINE N == Cardinality(K)
           Upto(x) == K \cap (1..x)
           rank == [x \in K |-> Cardinality(Upto(x))]
<1>1. IsFiniteSet(K) /\ N \in Nat
  <2>1. IsFiniteSet(1..n)
    BY FS_Interval
  <2>2. IsFiniteSet(K)
    BY <2>1, FS_Subset
  <2> QED BY <2>2, FS_CardinalityType
<1>0. \A x \in K : x \in Int
  OBVIOUS
<1>2. ASSUME NEW x \in K
      PROVE  /\ IsFiniteSet(Upto(x)) /\ rank[x] \in 1..N
  <2>1. IsFiniteSet(Upto(x)) /\ Cardinality(Upto(x)) <= N
    BY <1>1, FS_Subset
  <2>2. Cardinality(Upto(x)) \in Nat /\ x \in Upto(x)
    BY <2>1, FS_CardinalityType
  <2>3. Cardinality(Upto(x)) # 0
    BY <2>1, <2>2, FS_EmptySet
  <2> QED BY <1>1, <2>1, <2>2, <2>3
<1>3. ASSUME NEW x \in K, NEW y \in K, x < y
      PROVE  rank[x] < rank[y]
  <2>1. Upto(x) \subseteq Upto(y) /\ Upto(x) # Upto(y)
    <3>1. y \in Upto(y) /\ y \notin Upto(x)
      BY <1>3
    <3> QED BY <1>3, <3>1
  <2>2. Cardinality(Upto(x)) <= Cardinality(Upto(y)) /\ Cardinality(Upto(x)) # Cardinality(Upto(y))
    BY <1>2, <2>1, FS_Subset
  <2>3. rank[x] = Cardinality(Upto(x)) /\ rank[y] = Cardinality(Upto(y))
    OBVIOUS
  <2>4. rank[x] \in Nat /\ rank[y] \in Nat
    BY <1>1, <1>2
  <2> HIDE DEF rank, Upto
  <2> QED BY <2>2, <2>3, <2>4
<1>4. rank \in [K -> 1..N]
  BY <1>2
<1>5. \A x, y \in K : rank[x] <= rank[y] => x <= y
  <2> SUFFICES ASSUME NEW x \in K, NEW y \in K, ~(x <= y)
               PROVE  ~(rank[x] <= rank[y])
    OBVIOUS
  <2>1. y < x
    OBVIOUS
  <2>2. rank[y] < rank[x]
    BY <1>3, <2>1
  <2>3. rank[x] \in Int /\ rank[y] \in Int
    BY <1>1, <1>2
  <2> HIDE DEF rank
  <2> QED BY <2>2, <2>3
<1>6. rank \in Surjection(K, 1..N)
  <2> HIDE DEF rank
  <2>1. IsInjective(rank)
    <3> SUFFICES ASSUME NEW x \in K, NEW y \in K, rank[x] = rank[y]
                 PROVE  x = y
      BY <1>4 DEF IsInjective
    <3>1. rank[x] \in Int /\ rank[y] \in Int
      BY <1>1, <1>4
    <3> QED BY <1>5, <3>1
  <2>2. rank \in Injection(K, 1..N)
    BY <1>4, <2>1 DEF Injection
  <2>3. IsFiniteSet(1..N) /\ Cardinality(1..N) = N
    BY <1>1, FS_Interval
  <2> QED BY <2>2, <2>3, FS_Injection
<1> DEFINE at == [k \in 1..N |-> CHOOSE x \in K : rank[x] = k]
<1>7. ASSUME NEW k \in 1..N
      PROVE  at[k] \in K /\ rank[at[k]] = k
  <2>1. \E x \in K : rank[x] = k
    BY <1>6 DEF Surjection
  <2> HIDE DEF rank
  <2> QED BY <2>1
<1>8. \A i, j \in 1..N : i < j => at[i] < at[j]
  <2> HIDE DEF rank, at
  <2> SUFFICES ASSUME NEW i \in 1..N, NEW j \in 1..N, i < j
               PROVE  at[i] < at[j]
    OBVIOUS
  <2>1. rank[at[i]] = i /\ rank[at[j]] = j /\ at[i] \in K /\ at[j] \in K
    BY <1>7
  <2>2. at[i] <= at[j] /\ at[i] # at[j]
    <3>1. i <= j /\ i # j
      BY <1>1
    <3>2. rank[at[i]] <= rank[at[j]] /\ rank[at[i]] # rank[at[j]]
      BY <2>1, <3>1
    <3> QED BY <1>5, <2>1, <3>2
  <2>3. at[i] \in Int /\ at[j] \in Int
    BY <1>0, <2>1
  <2> QED BY <2>2, <2>3
<1>9. at \in [1..N -> K] /\ DOMAIN at = 1..N
  BY <1>7
<1> QED BY <1>1, <1>8, <1>9

\* What Ascending names is such a list, and leaves no position out.
LEMMA AscendingIs ==
    ASSUME NEW n \in Nat, NEW K \in SUBSET (1..n)
    PROVE  /\ Cardinality(K) \in Nat
           /\ Ascending(K) \in [1..Cardinality(K) -> K]
           /\ \A i, j \in 1..Cardinality(K) : Ascending(K)[i] = Ascending(K)[j] => i = j
           /\ \A x \in K : \E i \in 1..Cardinality(K) : Ascending(K)[i] = x
<1> DEFINE N == Cardinality(K)
           f == Ascending(K)
<1>1. N \in Nat /\ f \in [1..N -> K] /\ \A i, j \in DOMAIN f : i < j => f[i] < f[j]
  BY AscendingExists DEF Ascending
<1>0. (\A x \in K : x \in Int) /\ IsFiniteSet(1..n)
  BY FS_Interval
<1> HIDE DEF f
<1>2. \A i, j \in 1..N : f[i] = f[j] => i = j
  <2> SUFFICES ASSUME NEW i \in 1..N, NEW j \in 1..N, i # j
               PROVE  f[i] # f[j]
    OBVIOUS
  <2>1. f[i] \in Int /\ f[j] \in Int
    BY <1>0, <1>1
  <2>2. CASE i < j
    BY <1>1, <2>1, <2>2
  <2>3. CASE j < i
    BY <1>1, <2>1, <2>3
  <2> QED BY <2>2, <2>3, <1>1
<1>3. f \in Injection(1..N, K)
  BY <1>1, <1>2 DEF Injection, IsInjective
<1>4. IsFiniteSet(K) /\ Cardinality(1..N) = N
  <2>1. IsFiniteSet(K)
    BY <1>0, FS_Subset
  <2> QED BY <1>1, <2>1, FS_Interval
<1>5. f \in Surjection(1..N, K)
  BY <1>3, <1>4, FS_Injection
<1> QED BY <1>1, <1>2, <1>5 DEF Surjection, f

\* Leaving the entries of a class out of a list.
LEMMA WithoutIs ==
    ASSUME NEW X, NEW c, NEW s \in Seq(X)
    PROVE  /\ Without(c, s) \in Seq(X)
           /\ ToSet(Without(c, s)) = {e \in ToSet(s) : e.class # c}
           /\ IsInjective(s) => IsInjective(Without(c, s))
<1> DEFINE K == {i \in DOMAIN s : s[i].class # c}
           N == Cardinality(K)
           f == Ascending(K)
           w == [k \in 1..N |-> s[f[k]]]
<1>1. Len(s) \in Nat /\ DOMAIN s = 1..Len(s) /\ K \in SUBSET (1..Len(s))
  OBVIOUS
<1>2. /\ N \in Nat /\ f \in [1..N -> K]
      /\ \A i, j \in 1..N : f[i] = f[j] => i = j
      /\ \A x \in K : \E i \in 1..N : f[i] = x
  BY <1>1, AscendingIs
<1> HIDE DEF f
<1>3. Without(c, s) = w
  BY <1>2 DEF Without, f
<1>4. \A k \in 1..N : f[k] \in K /\ w[k] = s[f[k]]
  BY <1>2
<1> HIDE DEF w
<1>5. w \in [1..N -> X]
  BY <1>1, <1>2, <1>4 DEF w
<1>6. w \in Seq(X)
  BY <1>2, <1>5
<1>7. ToSet(w) = {e \in ToSet(s) : e.class # c}
  <2>1. DOMAIN w = 1..N
    BY <1>5
  <2>2. ASSUME NEW k \in 1..N
        PROVE  w[k] \in ToSet(s) /\ w[k].class # c
    BY <1>4 DEF ToSet
  <2>3. ASSUME NEW i \in DOMAIN s, s[i].class # c
        PROVE  s[i] \in ToSet(w)
    <3>1. PICK k \in 1..N : f[k] = i
      BY <1>2, <2>3
    <3> QED BY <1>4, <2>1, <3>1 DEF ToSet
  <2> QED BY <2>1, <2>2, <2>3 DEF ToSet
<1>8. IsInjective(s) => IsInjective(w)
  BY <1>2, <1>4, <1>5 DEF IsInjective
<1> QED BY <1>3, <1>6, <1>7, <1>8

\* Removing one entry.
LEMMA RemoveFirstIs ==
    ASSUME NEW X, NEW e, NEW s \in Seq(X)
    PROVE  /\ RemoveFirst(s, e) \in Seq(X)
           /\ ToSet(RemoveFirst(s, e)) \subseteq ToSet(s)
           /\ IsInjective(s) => IsInjective(RemoveFirst(s, e))
<1> DEFINE I == {i \in 1..Len(s) : s[i] = e}
<1>1. CASE I = {}
  BY <1>1 DEF RemoveFirst
<1>2. CASE I # {}
  <2>1. PICK n \in I : \A i \in I : ~(<<i, n>> \in OpToRel(<, Nat))
    <3>1. I \subseteq Nat
      OBVIOUS
    <3> HIDE DEF I
    <3> QED BY <1>2, <3>1, NatLessThanWellFounded, WFMin, Zenon
  <2>2. n \in 1..Len(s) /\ \A i \in I : n <= i
    <3>1. n \in 1..Len(s) /\ n \in Nat /\ \A i \in I : i \in Nat
      OBVIOUS
    <3>2. \A i \in I : ~(i < n)
      BY <2>1, <3>1, Zenon DEF OpToRel
    <3> QED BY <3>1, <3>2
  <2>3. Min(I) \in I
    BY <2>1, <2>2 DEF Min
  <2> DEFINE at == Min(I)
             r == RemoveAt(s, at)
  <2>4. RemoveFirst(s, e) = r
    BY <1>2, <2>3 DEF RemoveFirst, SelectInSeq
  <2>5. at \in 1..Len(s)
    BY <2>3
  <2> HIDE DEF at, r
  <2>6. /\ r \in Seq(X) /\ Len(r) = Len(s) - 1
        /\ \A k \in 1..Len(r) : r[k] = s[IF k < at THEN k ELSE k + 1]
    <3> DEFINE a == SubSeq(s, 1, at - 1)
               b == SubSeq(s, at + 1, Len(s))
    <3>1. /\ a \in Seq(X) /\ Len(a) = at - 1
          /\ \A k \in 1..(at - 1) : a[k] = s[k]
      BY <2>5
    <3>2. /\ b \in Seq(X) /\ Len(b) = Len(s) - at
          /\ \A k \in 1..(Len(s) - at) : b[k] = s[at + k]
      BY <2>5
    <3>3. r = a \o b
      BY DEF RemoveAt, r
    <3> HIDE DEF a, b
    <3>4. r \in Seq(X) /\ Len(r) = Len(s) - 1
      BY <2>5, <3>1, <3>2, <3>3
    <3>5. ASSUME NEW k \in 1..Len(r), k < at
          PROVE  r[k] = s[k]
      <4>1. k \in 1..(at - 1)
        BY <2>5, <3>4, <3>5
      <4>2. r[k] = a[k]
        BY <2>5, <3>1, <3>2, <3>3, <4>1
      <4> QED BY <3>1, <4>1, <4>2
    <3>6. ASSUME NEW k \in 1..Len(r), ~(k < at)
          PROVE  r[k] = s[k + 1]
      <4>1. r[k] = b[k - (at - 1)]
        BY <2>5, <3>1, <3>2, <3>3, <3>6
      <4>2. k - (at - 1) \in 1..(Len(s) - at) /\ at + (k - (at - 1)) = k + 1
        BY <2>5, <3>4, <3>6
      <4> QED BY <3>2, <4>1, <4>2
    <3> QED BY <3>4, <3>5, <3>6
  <2>7. ToSet(r) \subseteq ToSet(s)
    BY <2>5, <2>6 DEF ToSet
  <2>8. ASSUME IsInjective(s)
        PROVE  IsInjective(r)
    <3> SUFFICES ASSUME NEW j \in 1..Len(r), NEW k \in 1..Len(r), r[j] = r[k]
                 PROVE  j = k
      BY <2>6 DEF IsInjective
    <3> DEFINE J == IF j < at THEN j ELSE j + 1
               L == IF k < at THEN k ELSE k + 1
    <3>1. J \in 1..Len(s) /\ L \in 1..Len(s)
      BY <2>5, <2>6
    <3>2. s[J] = s[L]
      BY <2>6
    <3>3. J = L
      BY <2>8, <3>1, <3>2 DEF IsInjective
    <3> QED BY <2>5, <3>3
  <2> QED BY <2>4, <2>6, <2>7, <2>8
<1> QED BY <1>1, <1>2

\* What is said of the modules a class activates: one message for each.
LEMMA ToldOrders ==
    ASSUME NEW c \in Class, NEW b \in BOOLEAN, NEW S, S = {[module |-> m, state |-> b] : m \in Activates[c]}
    PROVE  /\ Cardinality(S) \in Nat
           /\ Told(c, b) \in [1..Cardinality(S) -> S]
           /\ IsInjective(Told(c, b))
           /\ \A x \in S : \E i \in 1..Cardinality(S) : Told(c, b)[i] = x
<1> DEFINE Msg(m) == [module |-> m, state |-> b]
           N == Cardinality(S)
           f == SetToSeq(S)
<1>1. Told(c, b) = f
  BY DEF Told
<1>2. IsFiniteSet(S)
  <2>1. IsFiniteSet(Activates[c])
    BY StateAssumption
  <2> DEFINE says == [m \in Activates[c] |-> Msg(m)]
  <2>2. says \in Surjection(Activates[c], S)
    BY DEF Surjection
  <2> HIDE DEF says
  <2> QED BY <2>1, <2>2, FS_Surjection
<1>3. N \in Nat /\ ExistsBijection(1..N, S)
  BY <1>2, FS_CardinalityType
<1>4. f \in [1..N -> S] /\ IsInjective(f)
  <2>1. \E g \in [1..N -> S] : IsInjective(g)
    BY <1>3 DEF ExistsBijection, Bijection, Injection
  <2> QED BY <2>1 DEF SetToSeq
<1>5. f \in Surjection(1..N, S)
  <2> HIDE DEF f
  <2>1. f \in Injection(1..N, S)
    BY <1>4 DEF Injection
  <2>2. Cardinality(1..N) = N
    BY <1>3, FS_Interval
  <2> QED BY <1>2, <2>1, <2>2, FS_Injection
<1> HIDE DEF f
<1> QED BY <1>1, <1>3, <1>4, <1>5 DEF Surjection

\* They are messages to those modules, to each of them.
LEMMA ToldIs ==
    ASSUME NEW c \in Class, NEW b \in BOOLEAN
    PROVE  /\ Told(c, b) \in Seq(ModuleMsg)
           /\ \A i \in DOMAIN Told(c, b) :
                  Told(c, b)[i].module \in Activates[c] /\ Told(c, b)[i].state = b
           /\ \A m \in Activates[c] : \E i \in DOMAIN Told(c, b) : Told(c, b)[i].module = m
<1> DEFINE Msg(m) == [module |-> m, state |-> b]
           S == {Msg(m) : m \in Activates[c]}
           N == Cardinality(S)
           f == Told(c, b)
<1>1. /\ N \in Nat /\ f \in [1..N -> S]
      /\ \A x \in S : \E i \in 1..N : f[i] = x
  <2> HIDE DEF f
  <2> QED BY ToldOrders DEF f
<1>2. S \subseteq ModuleMsg /\ \A x \in S : x.module \in Activates[c] /\ x.state = b
  BY DEF ModuleMsg
<1>3. \A m \in Activates[c] : Msg(m) \in S /\ Msg(m).module = m
  OBVIOUS
<1> HIDE DEF f, S, Msg
<1>4. f \in Seq(ModuleMsg) /\ DOMAIN f = 1..N
  BY <1>1, <1>2
<1>5. ASSUME NEW m \in Activates[c]
      PROVE  \E i \in DOMAIN f : f[i].module = m
  <2>1. PICK i \in 1..N : f[i] = Msg(m)
    BY <1>1, <1>3
  <2> QED BY <1>3, <1>4, <2>1
<1> QED BY <1>1, <1>2, <1>4, <1>5 DEF f

\* What a class brings is of its own, one entry for each line of its file.
LEMMA NewIs ==
    ASSUME NEW c \in Class, NEW u \in Runner
    PROVE  /\ New(c, u) \in Seq(Entry) /\ IsInjective(New(c, u))
           /\ ToSet(New(c, u)) = Brought({c}, u)
           /\ \A e \in ToSet(New(c, u)) : e.class = c
           /\ u = "main" => \A e \in ToSet(New(c, u)) : e.goto # Named
<1> DEFINE B == Brings[c][u]
           N == New(c, u)
           Line == [on : Event, goto : Goto]
<1>1. /\ B \in Seq(Line) /\ IsInjective(B)
      /\ u = "main" => \A e \in ToSet(B) : e.goto # Named
  BY StateAssumption
<1>2. /\ DOMAIN B = 1..Len(B) /\ Len(B) \in Nat /\ DOMAIN N = DOMAIN B
      /\ \A i \in DOMAIN B : /\ B[i] \in Line
                             /\ N[i] = [class |-> c, on |-> B[i].on, goto |-> B[i].goto]
  <2>1. N = [i \in DOMAIN B |-> [class |-> c, on |-> B[i].on, goto |-> B[i].goto]]
    BY DEF New
  <2> HIDE DEF B, N, Line
  <2>2. DOMAIN B = 1..Len(B) /\ Len(B) \in Nat
    BY <1>1
  <2>3. \A i \in DOMAIN B : B[i] \in Line
    BY <1>1
  <2> QED BY <2>1, <2>2, <2>3
<1> HIDE DEF B, N
<1>3. \A i \in DOMAIN N : /\ N[i] \in Entry /\ N[i].class = c
                          /\ N[i].on = B[i].on /\ N[i].goto = B[i].goto
  BY <1>2 DEF Entry
<1>4. N \in Seq(Entry)
  <2>1. N = [i \in 1..Len(B) |-> N[i]]
    BY <1>2 DEF New, N, B
  <2> QED BY <1>2, <1>3, <2>1
<1>5. IsInjective(N)
  <2> SUFFICES ASSUME NEW i \in DOMAIN N, NEW j \in DOMAIN N, N[i] = N[j]
               PROVE  i = j
    BY DEF IsInjective
  <2>1. B[i].on = B[j].on /\ B[i].goto = B[j].goto
    BY <1>3
  <2>2. B[i] = B[j]
    BY <1>2, <2>1
  <2> QED BY <1>1, <1>2, <2>2 DEF IsInjective
<1>6. ToSet(N) = Brought({c}, u)
  <2>1. {c} \cap Class = {c}
    OBVIOUS
  <2> QED BY <1>2, <2>1 DEF ToSet, Brought, B, N
<1>7. u = "main" => \A e \in ToSet(N) : e.goto # Named
  BY <1>1, <1>2, <1>3 DEF ToSet
<1>8. \A e \in ToSet(N) : e.class = c
  BY <1>3 DEF ToSet
<1> QED BY <1>4, <1>5, <1>6, <1>7, <1>8 DEF N

\* What a loop forgets keeps its events and where they lead.
LEMMA ForgetIs ==
    ASSUME NEW c, NEW s \in Seq(Entry)
    PROVE  /\ Forget(c, s) \in Seq(Entry)
           /\ s = <<>> => Forget(c, s) = <<>>
           /\ (\A e \in ToSet(s) : e.goto # Named) => \A e \in ToSet(Forget(c, s)) : e.goto # Named
<1> DEFINE F == Forget(c, s)
<1>1. /\ DOMAIN s = 1..Len(s) /\ Len(s) \in Nat /\ DOMAIN F = DOMAIN s
      /\ \A i \in DOMAIN s :
             /\ s[i] \in Entry
             /\ F[i] = IF s[i].class = c THEN [s[i] EXCEPT !.class = Gone] ELSE s[i]
  BY DEF Forget
<1>2. \A i \in DOMAIN s : F[i] \in Entry /\ F[i].goto = s[i].goto
  BY <1>1 DEF Entry
<1>3. F \in Seq(Entry)
  BY <1>1, <1>2 DEF Forget
<1>4. s = <<>> => F = <<>>
  BY <1>1, <1>3
<1> QED BY <1>1, <1>2, <1>3, <1>4 DEF ToSet

\* What messages and transitions lead to is named, and so are a state's classes.
LEMMA Naming ==
    /\ Class \subseteq Name /\ Goto \ {Named} \subseteq Name
    /\ \A p \in Topic : Messages[p] \subseteq Name
BY DEF Name

\* A state is a set of names.
LEMMA AllClassesNamed ==
    ASSUME NEW name \in Name
    PROVE  getAllClasses[name] \subseteq Name
BY DEF getAllClasses, Name

\* What a sequence holds when its head goes.
LEMMA TailIs ==
    ASSUME NEW X, NEW s \in Seq(X), s # <<>>
    PROVE  /\ Head(s) \in X /\ Head(s) \in ToSet(s)
           /\ Tail(s) \in Seq(X) /\ ToSet(Tail(s)) \subseteq ToSet(s)
<1>1. Len(s) \in Nat /\ Len(s) # 0 /\ Head(s) = s[1] /\ 1 \in DOMAIN s
  OBVIOUS
<1>2. Tail(s) \in Seq(X) /\ Len(Tail(s)) = Len(s) - 1
  BY <1>1
<1>3. \A i \in 1..Len(Tail(s)) : Tail(s)[i] = s[i + 1] /\ i + 1 \in 1..Len(s)
  BY <1>1, <1>2
<1> QED BY <1>1, <1>2, <1>3 DEF ToSet

\* What a sequence holds when another is appended.
LEMMA ConcatIs ==
    ASSUME NEW X, NEW r \in Seq(X), NEW s \in Seq(X)
    PROVE  r \o s \in Seq(X) /\ ToSet(r \o s) = ToSet(r) \cup ToSet(s)
<1>1. /\ r \o s \in Seq(X) /\ Len(r) \in Nat /\ Len(s) \in Nat
      /\ Len(r \o s) = Len(r) + Len(s)
  OBVIOUS
<1>2. \A i \in 1..Len(r) : (r \o s)[i] = r[i] /\ i \in 1..Len(r \o s)
  BY <1>1
<1>3. \A i \in 1..Len(s) : (r \o s)[Len(r) + i] = s[i] /\ Len(r) + i \in 1..Len(r \o s)
  BY <1>1
<1>4. \A i \in 1..Len(r \o s) :
          i \in 1..Len(r) \/ (i - Len(r) \in 1..Len(s) /\ (r \o s)[i] = s[i - Len(r)])
  BY <1>1
<1>5. ToSet(r \o s) \subseteq ToSet(r) \cup ToSet(s)
  <2> SUFFICES ASSUME NEW i \in 1..Len(r \o s)
               PROVE  (r \o s)[i] \in ToSet(r) \cup ToSet(s)
    BY <1>1 DEF ToSet
  <2>1. CASE i \in 1..Len(r)
    BY <1>2, <2>1 DEF ToSet
  <2>2. CASE i \notin 1..Len(r)
    BY <1>4, <2>2 DEF ToSet
  <2> QED BY <2>1, <2>2
<1>6. ToSet(r) \cup ToSet(s) \subseteq ToSet(r \o s)
  <2>1. \A i \in 1..Len(r) : r[i] \in ToSet(r \o s)
    BY <1>1, <1>2 DEF ToSet
  <2>2. \A i \in 1..Len(s) : s[i] \in ToSet(r \o s)
    <3> SUFFICES ASSUME NEW i \in 1..Len(s)
                 PROVE  s[i] \in ToSet(r \o s)
      OBVIOUS
    <3>1. Len(r) + i \in DOMAIN (r \o s) /\ s[i] = (r \o s)[Len(r) + i]
      BY <1>1, <1>3
    <3> QED BY <3>1, Zenon DEF ToSet
  <2>3. DOMAIN r = 1..Len(r) /\ DOMAIN s = 1..Len(s)
    OBVIOUS
  <2> QED BY <2>1, <2>2, <2>3, Zenon DEF ToSet
<1> QED BY <1>1, <1>5, <1>6

\* Two lists without doubles that share nothing make one without doubles.
LEMMA ConcatInjective ==
    ASSUME NEW X, NEW r \in Seq(X), NEW s \in Seq(X), IsInjective(r), IsInjective(s),
           \A e \in ToSet(r) : e \notin ToSet(s)
    PROVE  IsInjective(r \o s)
<1> DEFINE q == r \o s
<1>1. Len(r) \in Nat /\ Len(s) \in Nat /\ DOMAIN q = 1..(Len(r) + Len(s))
  OBVIOUS
<1>2. \A i \in DOMAIN q :
          \/ i \in DOMAIN r /\ q[i] = r[i] /\ q[i] \in ToSet(r)
          \/ i - Len(r) \in DOMAIN s /\ q[i] = s[i - Len(r)] /\ q[i] \in ToSet(s)
  <2> SUFFICES ASSUME NEW i \in DOMAIN q
               PROVE  \/ i \in DOMAIN r /\ q[i] = r[i] /\ q[i] \in ToSet(r)
                      \/ i - Len(r) \in DOMAIN s /\ q[i] = s[i - Len(r)] /\ q[i] \in ToSet(s)
    OBVIOUS
  <2>1. CASE i <= Len(r)
    <3>1. i \in DOMAIN r /\ q[i] = r[i]
      BY <1>1, <2>1
    <3> QED BY <3>1 DEF ToSet
  <2>2. CASE ~(i <= Len(r))
    <3>1. i - Len(r) \in DOMAIN s /\ q[i] = s[i - Len(r)]
      BY <1>1, <2>2
    <3> QED BY <3>1 DEF ToSet
  <2> QED BY <2>1, <2>2
<1> HIDE DEF q
<1> SUFFICES ASSUME NEW i \in DOMAIN q, NEW j \in DOMAIN q, q[i] = q[j]
             PROVE  i = j
  BY DEF IsInjective, q
<1>3. CASE i \in DOMAIN r /\ q[i] = r[i] /\ q[i] \in ToSet(r)
  BY <1>1, <1>2, <1>3 DEF IsInjective
<1>4. CASE i - Len(r) \in DOMAIN s /\ q[i] = s[i - Len(r)] /\ q[i] \in ToSet(s)
  <2>1. j - Len(r) \in DOMAIN s /\ q[j] = s[j - Len(r)]
    BY <1>2, <1>4
  <2>2. i - Len(r) = j - Len(r)
    BY <1>4, <2>1 DEF IsInjective
  <2> QED BY <1>1, <2>2
<1> QED BY <1>2, <1>3, <1>4

-----------------------------------------------------------------------------
\* main() begins with nothing in any list, and changes to a class that has a file.
LEMMA StateTypesInit == StateInit => StateTypes
<1> SUFFICES ASSUME StateInit PROVE StateTypes
  OBVIOUS
<1>1. Initial \in Name /\ "main" \in Runner /\ MaxMessages \in Nat
  BY StateAssumption DEF Name, Runner
<1>2. StateFields
  <2>1. list \in [Runner -> Seq(Entry)] /\ rest \in [Runner -> Seq(Entry)]
    BY DEF StateInit
  <2>2. newState \in [Runner -> Name] /\ todo \in [Runner -> SUBSET Name]
    BY <1>1 DEF StateInit
  <2>3. /\ currentClasses \subseteq Name /\ live \in [Runner -> BOOLEAN]
        /\ message \in [Runner -> {Due} \cup UNION {Messages[p] : p \in Topic}]
        /\ doing \in [Runner -> {"idle", "check", "remove", "add"}]
    BY DEF StateInit
  <2>4. handled \in 0..MaxMessages
    BY <1>1 DEF StateInit
  <2>5. moduleEnable = <<>> /\ overlapped \in BOOLEAN
    BY DEF StateInit
  <2> QED BY <2>1, <2>2, <2>3, <2>4, <2>5 DEF StateFields
<1>3. Nameable
  BY StateAssumption DEF StateInit, Nameable, ToSet, Runner
<1>4. Through
  BY DEF StateInit, Through, Changing
<1> QED BY <1>2, <1>3, <1>4 DEF StateTypes

\* A loop over a list starts, with a message that may name a state.
LEMMA LoopStartsTypes ==
    ASSUME StateTypes, NEW t \in Runner, NEW m, LoopStarts(t, m), handled' \in 0..MaxMessages,
           t = "main" => m = Due, t # "main" => m \in Messages[t]
    PROVE  StateTypes'
<1>1. t # "main" => t \in Topic
  BY DEF Runner
<1>2. m \in {Due} \cup UNION {Messages[p] : p \in Topic}
  BY <1>1
<1>3. StateFields'
  BY <1>2 DEF StateTypes, StateFields, LoopStarts, changes
<1>4. Nameable'
  <2>1. /\ list' = list /\ rest' = [rest EXCEPT ![t] = list[t]]
        /\ message' = [message EXCEPT ![t] = m] /\ doing' = [doing EXCEPT ![t] = "check"]
        /\ "main" \in Runner /\ "main" \notin Topic /\ Topic \subseteq Runner
    BY StateAssumption DEF LoopStarts, Runner
  <2>2. ToSet(rest'["main"]) \subseteq ToSet(list["main"]) \cup ToSet(rest["main"])
    BY <2>1 DEF StateTypes, StateFields
  <2>3. \A p \in Topic : doing'[p] # "idle" => message'[p] \in Messages[p]
    BY <2>1 DEF StateTypes, StateFields, Nameable
  <2> QED BY <2>1, <2>2, <2>3 DEF StateTypes, Nameable
<1>5. Through'
  BY DEF StateTypes, StateFields, Through, LoopStarts, Changing, changes
<1> QED BY <1>3, <1>4, <1>5 DEF StateTypes

\* An entry that does not fire is left behind.
LEMMA PassesTypes ==
    ASSUME StateTypes, NEW t \in Runner, Passes(t)
    PROVE  StateTypes'
<1>1. /\ rest[t] \in Seq(Entry) /\ rest[t] # <<>> /\ doing[t] = "check"
      /\ rest' = [rest EXCEPT ![t] = Tail(rest[t])]
      /\ UNCHANGED <<currentClasses, list, live, message, doing, newState, todo,
                     moduleEnable, handled, overlapped>>
  BY DEF StateTypes, StateFields, Passes, changes
<1>2. Tail(rest[t]) \in Seq(Entry) /\ ToSet(Tail(rest[t])) \subseteq ToSet(rest[t])
  BY <1>1, TailIs
<1>3. StateFields'
  BY <1>1, <1>2 DEF StateTypes, StateFields
<1>4. Nameable'
  <2>1. ToSet(rest'["main"]) \subseteq ToSet(rest["main"])
    BY <1>1, <1>2 DEF StateTypes, StateFields
  <2> QED BY <1>1, <2>1 DEF StateTypes, Nameable
<1>5. Through'
  BY <1>1 DEF StateTypes, StateFields, Through, Changing
<1> QED BY <1>3, <1>4, <1>5 DEF StateTypes

\* A transition leads to something that is named.
LEMMA FiresTypes ==
    ASSUME StateTypes, NEW t \in Runner, Fires(t)
    PROVE  StateTypes'
<1> DEFINE e == Head(rest[t])
           goto == IF e.goto = Named THEN message[t] ELSE e.goto
<1>1. /\ rest[t] \in Seq(Entry) /\ list[t] \in Seq(Entry) /\ rest[t] # <<>> /\ doing[t] = "check"
      /\ rest' = [rest EXCEPT ![t] = Tail(rest[t])]
      /\ newState' = [newState EXCEPT ![t] = goto]
      /\ todo' = [todo EXCEPT ![t] = currentClasses \ getAllClasses[goto]]
      /\ list' = IF t = "main" THEN [list EXCEPT ![t] = RemoveFirst(list[t], e)] ELSE list
      /\ doing' = [doing EXCEPT ![t] = "remove"]
      /\ overlapped' = (overlapped \/ \E u \in Runner : Changing(u))
      /\ UNCHANGED <<currentClasses, live, message, moduleEnable, handled>>
  BY DEF StateTypes, StateFields, Fires
<1>2. /\ e \in Entry /\ e \in ToSet(rest[t])
      /\ Tail(rest[t]) \in Seq(Entry) /\ ToSet(Tail(rest[t])) \subseteq ToSet(rest[t])
  BY <1>1, TailIs
<1>3. RemoveFirst(list[t], e) \in Seq(Entry) /\ ToSet(RemoveFirst(list[t], e)) \subseteq ToSet(list[t])
  BY <1>1, RemoveFirstIs
<1> HIDE DEF e
<1>4. goto \in Name
  <2>1. CASE e.goto # Named
    <3>1. e.goto \in Goto
      BY <1>2 DEF Entry
    <3> QED BY <2>1, <3>1, Naming
  <2>2. CASE e.goto = Named
    <3>1. t # "main"
      BY <1>2, <2>2 DEF StateTypes, Nameable
    <3>2. t \in Topic /\ message[t] \in Messages[t]
      BY <1>1, <3>1 DEF StateTypes, Nameable, Runner
    <3> QED BY <2>2, <3>2, Naming
  <2> QED BY <2>1, <2>2
<1> HIDE DEF goto
<1>5. list' \in [Runner -> Seq(Entry)] /\ \A u \in Runner : ToSet(list'[u]) \subseteq ToSet(list[u])
  <2>1. list \in [Runner -> Seq(Entry)]
    BY DEF StateTypes, StateFields
  <2> QED BY <1>1, <1>3, <2>1
<1>6. StateFields'
  <2>1. todo' \in [Runner -> SUBSET Name]
    BY <1>1 DEF StateTypes, StateFields
  <2> QED BY <1>1, <1>2, <1>4, <1>5, <2>1 DEF StateTypes, StateFields
<1>7. Nameable'
  <2>1. "main" \in Runner /\ Topic \subseteq Runner
    BY DEF Runner
  <2>2. ToSet(rest'["main"]) \subseteq ToSet(rest["main"]) /\ ToSet(list'["main"]) \subseteq ToSet(list["main"])
    BY <1>1, <1>2, <1>5, <2>1 DEF StateTypes, StateFields
  <2>3. \A p \in Topic : doing'[p] # "idle" => doing[p] # "idle"
    BY <1>1, <2>1 DEF StateTypes, StateFields
  <2> QED BY <1>1, <2>2, <2>3 DEF StateTypes, Nameable
<1>8. Through'
  BY <1>1 DEF StateTypes, StateFields, Through, Changing
<1> QED BY <1>6, <1>7, <1>8 DEF StateTypes

\* A loop that is through has nothing in hand.
LEMMA LoopEndsTypes ==
    ASSUME StateTypes, NEW t \in Runner, LoopEnds(t)
    PROVE  StateTypes'
<1>1. /\ rest[t] = <<>> /\ doing[t] = "check"
      /\ doing' = [doing EXCEPT ![t] = "idle"]
      /\ message' = [message EXCEPT ![t] = Due] /\ live' = [live EXCEPT ![t] = FALSE]
      /\ UNCHANGED <<currentClasses, list, rest, newState, todo, moduleEnable, handled, overlapped>>
  BY DEF LoopEnds, changes
<1>2. StateFields'
  BY <1>1 DEF StateTypes, StateFields
<1>3. Nameable'
  <2>1. \A p \in Topic : doing'[p] # "idle" => doing[p] # "idle" /\ message'[p] = message[p]
    BY <1>1 DEF StateTypes, StateFields, Runner
  <2> QED BY <1>1, <2>1 DEF StateTypes, Nameable
<1>4. Through'
  BY <1>1 DEF StateTypes, StateFields, Through, Changing
<1> QED BY <1>2, <1>3, <1>4 DEF StateTypes

\* Removing a class filters the lists and keeps what loops still hold of it.
LEMMA RemoveClassTypes ==
    ASSUME StateTypes, NEW t \in Runner, NEW c \in todo[t], RemoveClass(t, c)
    PROVE  StateTypes'
<1>1. /\ doing[t] = "remove"
      /\ todo' = [todo EXCEPT ![t] = todo[t] \ {c}]
      /\ list' = [u \in Runner |-> Without(c, list[u])]
      /\ rest' = [u \in Runner |-> Forget(c, rest[u])]
      /\ live' = [u \in Runner |-> FALSE]
      /\ moduleEnable' = moduleEnable \o (IF c \in Class THEN Told(c, FALSE) ELSE <<>>)
      /\ UNCHANGED <<currentClasses, message, doing, newState, handled, overlapped>>
  BY DEF RemoveClass
<1>2. \A u \in Runner : list[u] \in Seq(Entry) /\ rest[u] \in Seq(Entry)
  BY DEF StateTypes, StateFields
<1>3. \A u \in Runner : list'[u] \in Seq(Entry) /\ ToSet(list'[u]) \subseteq ToSet(list[u])
  BY <1>1, <1>2, WithoutIs
<1>4. \A u \in Runner :
          /\ rest'[u] \in Seq(Entry)
          /\ rest[u] = <<>> => rest'[u] = <<>>
          /\ (\A e \in ToSet(rest[u]) : e.goto # Named) => \A e \in ToSet(rest'[u]) : e.goto # Named
  BY <1>1, <1>2, ForgetIs
<1>5. moduleEnable' \in Seq(ModuleMsg)
  <2>1. c \in Class => Told(c, FALSE) \in Seq(ModuleMsg)
    BY ToldIs
  <2>2. moduleEnable \in Seq(ModuleMsg)
    BY DEF StateTypes, StateFields
  <2>3. CASE c \in Class
    BY <1>1, <2>1, <2>2, <2>3, ConcatIs
  <2>4. CASE c \notin Class
    BY <1>1, <2>2, <2>4
  <2> QED BY <2>3, <2>4
<1>6. StateFields'
  <2>1. list' \in [Runner -> Seq(Entry)]
    BY <1>1, <1>3, Zenon
  <2>2. rest' \in [Runner -> Seq(Entry)]
    BY <1>1, <1>4, Zenon
  <2> QED BY <1>1, <1>5, <2>1, <2>2 DEF StateTypes, StateFields
<1>7. Nameable'
  <2>1. "main" \in Runner
    BY DEF Runner
  <2> QED BY <1>1, <1>3, <1>4, <2>1 DEF StateTypes, Nameable
<1>8. Through'
  <2>1. \A u \in Runner : doing[u] = "idle" => rest'[u] = <<>>
    BY <1>4 DEF StateTypes, Through
  <2>2. doing' = doing /\ \A u \in Runner : todo[u] = {} => todo'[u] = {}
    BY <1>1 DEF StateTypes, StateFields
  <2> QED BY <2>1, <2>2 DEF StateTypes, Through, Changing
<1> QED BY <1>6, <1>7, <1>8 DEF StateTypes

\* The classes to be added are named, as those of any state are.
LEMMA RemovedTypes ==
    ASSUME StateTypes, NEW t \in Runner, Removed(t)
    PROVE  StateTypes'
<1>1. /\ doing[t] = "remove"
      /\ todo' = [todo EXCEPT ![t] = getAllClasses[newState[t]] \ currentClasses]
      /\ doing' = [doing EXCEPT ![t] = "add"]
      /\ UNCHANGED <<currentClasses, list, rest, live, message, newState, moduleEnable, handled,
                     overlapped>>
  BY DEF Removed, loops
<1>2. getAllClasses[newState[t]] \subseteq Name
  BY AllClassesNamed DEF StateTypes, StateFields
<1>3. StateFields'
  BY <1>1, <1>2 DEF StateTypes, StateFields
<1>4. Nameable'
  <2>1. \A p \in Topic : doing'[p] # "idle" => doing[p] # "idle"
    BY <1>1 DEF StateTypes, StateFields, Runner
  <2> QED BY <1>1, <2>1 DEF StateTypes, Nameable
<1>5. Through'
  BY <1>1 DEF StateTypes, StateFields, Through, Changing
<1> QED BY <1>3, <1>4, <1>5 DEF StateTypes

\* Adding a class appends entries and messages of the right kind; a name without a
\* file adds nothing.
LEMMA AddClassTypes ==
    ASSUME StateTypes, NEW t \in Runner, NEW c \in todo[t], AddClass(t, c)
    PROVE  StateTypes'
<1>1. /\ doing[t] = "add"
      /\ todo' = [todo EXCEPT ![t] = todo[t] \ {c}]
      /\ UNCHANGED <<currentClasses, live, message, doing, newState, handled, overlapped>>
  BY DEF AddClass
<1>2. /\ list \in [Runner -> Seq(Entry)] /\ rest \in [Runner -> Seq(Entry)]
      /\ moduleEnable \in Seq(ModuleMsg)
      /\ \A u \in Runner : list[u] \in Seq(Entry) /\ rest[u] \in Seq(Entry)
  BY DEF StateTypes, StateFields
<1>3. /\ list' \in [Runner -> Seq(Entry)] /\ rest' \in [Runner -> Seq(Entry)]
      /\ moduleEnable' \in Seq(ModuleMsg)
      /\ \A e \in ToSet(list'["main"]) \cup ToSet(rest'["main"]) : e.goto # Named
      /\ \A u \in Runner : doing[u] = "idle" => rest'[u] = rest[u]
  <2>1. "main" \in Runner /\ \A e \in ToSet(list["main"]) \cup ToSet(rest["main"]) : e.goto # Named
    BY DEF StateTypes, Nameable, Runner
  <2>2. CASE c \notin Class
    <3>1. UNCHANGED <<list, rest, moduleEnable>>
      BY <2>2 DEF AddClass
    <3> QED BY <1>2, <2>1, <3>1
  <2>3. CASE c \in Class
    <3>1. /\ list' = [u \in Runner |-> list[u] \o New(c, u)]
          /\ rest' = [u \in Runner |-> IF doing[u] # "idle" /\ live[u]
                                       THEN rest[u] \o New(c, u) ELSE rest[u]]
          /\ moduleEnable' = moduleEnable \o Told(c, TRUE)
      BY <2>3 DEF AddClass
    <3>2. \A u \in Runner : New(c, u) \in Seq(Entry)
      BY <2>3, NewIs
    <3>3. \A e \in ToSet(New(c, "main")) : e.goto # Named
      BY <2>1, <2>3, NewIs
    <3>4. \A u \in Runner :
              /\ list'[u] \in Seq(Entry) /\ ToSet(list'[u]) = ToSet(list[u]) \cup ToSet(New(c, u))
              /\ rest'[u] \in Seq(Entry) /\ ToSet(rest'[u]) \subseteq ToSet(rest[u]) \cup ToSet(New(c, u))
              /\ doing[u] = "idle" => rest'[u] = rest[u]
      <4> SUFFICES ASSUME NEW u \in Runner
                   PROVE  /\ list'[u] \in Seq(Entry)
                          /\ ToSet(list'[u]) = ToSet(list[u]) \cup ToSet(New(c, u))
                          /\ rest'[u] \in Seq(Entry)
                          /\ ToSet(rest'[u]) \subseteq ToSet(rest[u]) \cup ToSet(New(c, u))
                          /\ doing[u] = "idle" => rest'[u] = rest[u]
        OBVIOUS
      <4>1. /\ list'[u] = list[u] \o New(c, u)
            /\ rest'[u] = IF doing[u] # "idle" /\ live[u] THEN rest[u] \o New(c, u) ELSE rest[u]
        BY <3>1
      <4>2. /\ list[u] \o New(c, u) \in Seq(Entry)
            /\ ToSet(list[u] \o New(c, u)) = ToSet(list[u]) \cup ToSet(New(c, u))
        BY <1>2, <3>2, ConcatIs
      <4>3. /\ rest[u] \o New(c, u) \in Seq(Entry)
            /\ ToSet(rest[u] \o New(c, u)) = ToSet(rest[u]) \cup ToSet(New(c, u))
        BY <1>2, <3>2, ConcatIs
      <4> QED BY <1>2, <4>1, <4>2, <4>3
    <3>5. Told(c, TRUE) \in Seq(ModuleMsg)
      BY <2>3, ToldIs
    <3>6. moduleEnable' \in Seq(ModuleMsg)
      BY <1>2, <3>1, <3>5, ConcatIs
    <3>7. list' \in [Runner -> Seq(Entry)] /\ rest' \in [Runner -> Seq(Entry)]
      BY <3>1, <3>4
    <3> QED BY <2>1, <3>3, <3>4, <3>6, <3>7
  <2> QED BY <2>2, <2>3
<1>4. StateFields'
  BY <1>1, <1>3 DEF StateTypes, StateFields
<1>5. Nameable'
  BY <1>1, <1>3 DEF StateTypes, Nameable
<1>6. Through'
  BY <1>1, <1>3 DEF StateTypes, StateFields, Through, Changing
<1> QED BY <1>4, <1>5, <1>6 DEF StateTypes

\* The new classes are named, and the thread is back in its loop with nothing to do.
LEMMA ChangedTypes ==
    ASSUME StateTypes, NEW t \in Runner, Changed(t)
    PROVE  StateTypes'
<1>1. /\ doing[t] = "add" /\ todo[t] = {}
      /\ currentClasses' = getAllClasses[newState[t]]
      /\ doing' = [doing EXCEPT ![t] = "check"]
      /\ newState' = [newState EXCEPT ![t] = Initial]
      /\ UNCHANGED <<list, rest, live, message, todo, moduleEnable, handled, overlapped>>
  BY DEF Changed, loops
<1>2. currentClasses' \subseteq Name /\ Initial \in Name
  BY <1>1, AllClassesNamed, Naming, StateAssumption DEF StateTypes, StateFields
<1>3. StateFields'
  BY <1>1, <1>2 DEF StateTypes, StateFields
<1>4. Nameable'
  <2>1. \A p \in Topic : doing'[p] # "idle" => doing[p] # "idle"
    BY <1>1 DEF StateTypes, StateFields, Runner
  <2> QED BY <1>1, <2>1 DEF StateTypes, Nameable
<1>5. Through'
  BY <1>1 DEF StateTypes, StateFields, Through, Changing
<1> QED BY <1>3, <1>4, <1>5 DEF StateTypes

\* A step of the machine keeps its types; so does a module that takes a message.
LEMMA StateTypesStep ==
    ASSUME StateTypes, StateNext
    PROVE  StateTypes'
<1> USE StateAssumption
<1>1. CASE CheckTimers
  <2>1. LoopStarts("main", Due) /\ handled' = handled /\ "main" \in Runner
    BY <1>1 DEF CheckTimers, Runner
  <2>2. handled' \in 0..MaxMessages
    BY <2>1 DEF StateTypes, StateFields
  <2> QED BY <2>1, <2>2, LoopStartsTypes
<1>2. ASSUME NEW p \in Topic, MessageArrives(p)
      PROVE  StateTypes'
  <2>1. PICK m \in Messages[p] : LoopStarts(p, m)
    BY <1>2 DEF MessageArrives
  <2>2. p \in Runner /\ p # "main"
    BY DEF Runner
  <2>3. handled < MaxMessages /\ handled' = handled + 1 /\ handled \in 0..MaxMessages
    BY <1>2 DEF MessageArrives, StateTypes, StateFields
  <2>4. handled' \in 0..MaxMessages
    BY <2>3
  <2> QED BY <2>1, <2>2, <2>4, LoopStartsTypes
<1>3. ASSUME NEW t \in Runner, StateStep(t)
      PROVE  StateTypes'
  <2>1. CASE Passes(t)
    BY <2>1, PassesTypes
  <2>2. CASE Fires(t)
    BY <2>2, FiresTypes
  <2>3. CASE LoopEnds(t)
    BY <2>3, LoopEndsTypes
  <2>4. ASSUME NEW c \in todo[t], RemoveClass(t, c)
        PROVE  StateTypes'
    BY <2>4, RemoveClassTypes
  <2>5. ASSUME NEW c \in todo[t], AddClass(t, c)
        PROVE  StateTypes'
    BY <2>5, AddClassTypes
  <2>6. CASE Removed(t)
    BY <2>6, RemovedTypes
  <2>7. CASE Changed(t)
    BY <2>7, ChangedTypes
  <2> QED BY <1>3, <2>1, <2>2, <2>3, <2>4, <2>5, <2>6, <2>7 DEF StateStep
<1> QED BY <1>1, <1>2, <1>3 DEF StateNext

\* A message that is taken leaves the others.
LEMMA StateTypesDelivered ==
    ASSUME StateTypes, Delivered,
           UNCHANGED <<currentClasses, list, loops, doing, changes, handled, overlapped>>
    PROVE  StateTypes'
<1>1. moduleEnable' \in Seq(ModuleMsg)
  BY TailIs DEF StateTypes, StateFields, Delivered
<1>2. UNCHANGED <<currentClasses, list, rest, live, message, doing, newState, todo, handled, overlapped>>
  BY DEF loops, changes
<1> QED BY <1>1, <1>2 DEF StateTypes, StateFields, Nameable, Through, Changing

\* What depends on the variables of the machine alone stays when they do.
LEMMA StateTypesStay ==
    ASSUME StateTypes, UNCHANGED stateVars
    PROVE  StateTypes'
BY DEF StateTypes, StateFields, Nameable, Through, Changing, stateVars, loops, changes

\* The invariant is stronger than the types that are checked.
LEMMA StateTypesOK == StateTypes => StateTypeOK
BY DEF StateTypes, StateFields, Through, StateTypeOK

-----------------------------------------------------------------------------
\* What classes bring, when one leaves them or is added.
LEMMA BroughtIs ==
    ASSUME NEW P, NEW c, NEW t \in Runner
    PROVE  /\ \A e \in Brought(P, t) : e.class \in P \cap Class
           /\ \A e : e \in Brought(P \ {c}, t) <=> e \in Brought(P, t) /\ e.class # c
           /\ Brought(P \cup {c}, t) = Brought(P, t) \cup Brought({c}, t)
<1>1. ASSUME NEW d \in Class, NEW i \in DOMAIN Brings[d][t]
      PROVE  New(d, t)[i].class = d
  BY DEF New
<1>2. \A e \in Brought(P, t) : e.class \in P \cap Class
  BY <1>1 DEF Brought
<1>3. \A e : e \in Brought(P \ {c}, t) <=> e \in Brought(P, t) /\ e.class # c
  BY <1>1 DEF Brought
<1>4. Brought(P \cup {c}, t) = Brought(P, t) \cup Brought({c}, t)
  BY DEF Brought
<1> QED BY <1>2, <1>3, <1>4

\* The word of a class is the last for the modules it names, and none for others.
LEMMA LastWord ==
    ASSUME moduleEnable \in Seq(ModuleMsg), NEW c \in Class, NEW s \in BOOLEAN,
           moduleEnable' = moduleEnable \o Told(c, s), NEW m, NEW b \in BOOLEAN
    PROVE  /\ m \in Activates[c] /\ ~s => ~EndsOn(m, b)'
           /\ m \notin Activates[c] /\ EndsOn(m, b)' => EndsOn(m, b)
<1> DEFINE q == Told(c, s)
           L == Len(moduleEnable)
<1>1. /\ q \in Seq(ModuleMsg)
      /\ \A i \in DOMAIN q : q[i].module \in Activates[c] /\ q[i].state = s
      /\ \A x \in Activates[c] : \E i \in DOMAIN q : q[i].module = x
  BY ToldIs
<1> HIDE DEF q
<1>2. moduleEnable' = moduleEnable \o q
  BY DEF q
<1>3. /\ L \in Nat /\ Len(q) \in Nat /\ DOMAIN q = 1..Len(q)
      /\ DOMAIN moduleEnable = 1..L /\ DOMAIN moduleEnable' = 1..(L + Len(q))
  BY <1>1, <1>2
<1>4. \A i \in 1..L : moduleEnable'[i] = moduleEnable[i] /\ i \in 1..(L + Len(q))
  BY <1>1, <1>2, <1>3
<1>5. \A i \in 1..Len(q) : moduleEnable'[L + i] = q[i] /\ L + i \in 1..(L + Len(q))
  BY <1>1, <1>2, <1>3
<1>6. \A i \in 1..(L + Len(q)) :
          i \in 1..L \/ (i - L \in 1..Len(q) /\ moduleEnable'[i] = q[i - L])
  BY <1>1, <1>2, <1>3
<1> HIDE DEF L
<1>7. ASSUME m \in Activates[c], ~s
      PROVE  ~EndsOn(m, b)'
  <2>1. PICK k \in 1..Len(q) : q[k].module = m
    BY <1>1, <1>3, <1>7
  <2>2. L + k \in DOMAIN moduleEnable' /\ moduleEnable'[L + k].module = m
    BY <1>3, <1>5, <2>1
  <2>3. ASSUME NEW i \in DOMAIN moduleEnable', moduleEnable'[i].module = m, moduleEnable'[i].state
        PROVE  L + k > i
    <3>1. i \in 1..L
      <4> SUFFICES ASSUME i \notin 1..L
                   PROVE  FALSE
        OBVIOUS
      <4>1. i - L \in DOMAIN q /\ moduleEnable'[i] = q[i - L]
        BY <1>3, <1>6
      <4>2. moduleEnable'[i].state = s
        BY <1>1, <4>1
      <4> QED BY <1>7, <2>3, <4>2, Zenon
    <3> QED BY <1>3, <3>1
  <2> QED BY <2>2, <2>3 DEF EndsOn
<1>8. ASSUME m \notin Activates[c], EndsOn(m, b)'
      PROVE  EndsOn(m, b)
  <2>1. \A i \in DOMAIN moduleEnable : i \in DOMAIN moduleEnable' /\ moduleEnable'[i] = moduleEnable[i]
    BY <1>3, <1>4
  <2>2. CASE b /\ \A i \in DOMAIN moduleEnable' : moduleEnable'[i].module # m
    BY <2>1, <2>2 DEF EndsOn
  <2>3. ASSUME NEW i \in DOMAIN moduleEnable', moduleEnable'[i].module = m, moduleEnable'[i].state,
               \A j \in DOMAIN moduleEnable' : j > i => moduleEnable'[j].module # m
        PROVE  EndsOn(m, b)
    <3>1. i \in DOMAIN moduleEnable
      BY <1>1, <1>3, <1>6, <1>8, <2>3
    <3> QED BY <2>1, <2>3, <3>1 DEF EndsOn
  <2> QED BY <1>8, <2>2, <2>3 DEF EndsOn
<1> QED BY <1>7, <1>8

-----------------------------------------------------------------------------
\* Until two changes overlap, some set of classes is set up, and the lists and the
\* messages on their way agree on it.  A step keeps this for one such set, which it
\* changes by the class it removes or adds.
Agree(P, m, before) == SetUp(P) /\ ListsHold(P) /\ OnFor(P, m, before)
Kept(m, before) == ~overlapped => \E P \in SUBSET Name : Agree(P, m, before)

\* At first no class is set up, no list holds a thing and nothing was said.
LEMMA KeptInit == ASSUME StateInit, NEW m PROVE Kept(m, FALSE)
<1>1. SetUp({})
  BY DEF StateInit, SetUp, Changing
<1>2. ListsHold({})
  BY DEF StateInit, ListsHold, ToSet, Brought, IsInjective
<1>3. OnFor({}, m, FALSE)
  BY DEF StateInit, OnFor, EndsOn
<1> QED BY <1>1, <1>2, <1>3 DEF Kept, Agree

\* Steps of a loop that neither start nor go on with a change.
LoopStep ==
    /\ UNCHANGED <<currentClasses, list, newState, todo, moduleEnable, overlapped>>
    /\ \A t \in Runner : doing'[t] = doing[t] \/ (~Changing(t) /\ ~Changing(t)')

\* The machine takes such a step, or one of a change.
LEMMA StateKinds ==
    ASSUME StateTypes, StateNext
    PROVE  \/ LoopStep
           \/ \E t \in Runner : Fires(t) \/ Removed(t) \/ Changed(t)
           \/ \E t \in Runner : \E c \in todo[t] : RemoveClass(t, c) \/ AddClass(t, c)
<1>1. ASSUME NEW t \in Runner, NEW x, LoopStarts(t, x)
      PROVE  LoopStep
  <2>1. /\ UNCHANGED <<currentClasses, list, newState, todo, moduleEnable, overlapped>>
        /\ doing[t] = "idle" /\ doing' = [doing EXCEPT ![t] = "check"]
    BY <1>1 DEF LoopStarts, changes
  <2> QED BY <2>1 DEF StateTypes, StateFields, Changing, LoopStep
<1>2. CASE CheckTimers
  BY <1>1, <1>2 DEF CheckTimers, Runner
<1>3. CASE \E p \in Topic : MessageArrives(p)
  BY <1>1, <1>3 DEF MessageArrives, Runner
<1>4. ASSUME NEW t \in Runner, Passes(t)
      PROVE  LoopStep
  BY <1>4 DEF Passes, changes, LoopStep
<1>5. ASSUME NEW t \in Runner, LoopEnds(t)
      PROVE  LoopStep
  <2>1. /\ UNCHANGED <<currentClasses, list, newState, todo, moduleEnable, overlapped>>
        /\ doing[t] = "check" /\ doing' = [doing EXCEPT ![t] = "idle"]
    BY <1>5 DEF LoopEnds, changes
  <2> QED BY <2>1 DEF StateTypes, StateFields, Changing, LoopStep
<1> QED BY <1>2, <1>3, <1>4, <1>5 DEF StateNext, StateStep

\* What only moves the loops keeps the invariant.
LEMMA LoopsKeep ==
    ASSUME NEW m, NEW b \in BOOLEAN, NEW P \in SUBSET Name, Agree(P, m, b), LoopStep
    PROVE  Agree(P, m, b)'
<1>1. \A t \in Runner : /\ Changing(t)' = Changing(t)
                        /\ doing'[t] = "remove" => doing[t] = "remove"
                        /\ doing'[t] = "add" => doing[t] = "add"
                        /\ Target(t)' = Target(t)
  BY DEF LoopStep, Changing, Target
<1>2. SetUp(P)'
  BY <1>1 DEF LoopStep, SetUp, Agree
<1>3. ListsHold(P)'
  BY DEF LoopStep, ListsHold, Agree
<1>4. OnFor(P, m, b)'
  BY DEF LoopStep, OnFor, EndsOn, Agree
<1> QED BY <1>2, <1>3, <1>4 DEF Agree

\* A change starts when none is under way: what is set up are the current classes.
LEMMA FiresKeep ==
    ASSUME StateTypes, NEW m, NEW b \in BOOLEAN, NEW P \in SUBSET Name, Agree(P, m, b),
           NEW t \in Runner, Fires(t), ~overlapped'
    PROVE  Agree(P, m, b)'
<1> DEFINE e == Head(rest[t])
           goto == IF e.goto = Named THEN message[t] ELSE e.goto
           cs == getAllClasses[goto]
<1>1. /\ doing' = [doing EXCEPT ![t] = "remove"] /\ newState' = [newState EXCEPT ![t] = goto]
      /\ todo' = [todo EXCEPT ![t] = currentClasses \ cs]
      /\ UNCHANGED <<currentClasses, moduleEnable>>
      /\ list' = IF t = "main" THEN [list EXCEPT ![t] = RemoveFirst(list[t], e)] ELSE list
      /\ \A u \in Runner : ~Changing(u)
  BY DEF Fires
<1>2. /\ doing \in [Runner -> {"idle", "check", "remove", "add"}]
      /\ newState \in [Runner -> Name] /\ todo \in [Runner -> SUBSET Name]
      /\ list \in [Runner -> Seq(Entry)]
  BY DEF StateTypes, StateFields
<1>3. P = currentClasses
  BY <1>1 DEF SetUp, Agree
<1>4. \A u \in Runner : doing[u] # "remove" /\ doing[u] # "add"
  BY <1>1 DEF Changing
<1> HIDE DEF cs
<1>5. SetUp(P)'
  <2>1. doing'[t] = "remove" /\ todo'[t] = currentClasses \ cs /\ Target(t)' = cs
    BY <1>1, <1>2 DEF Target, cs
  <2>2. \A u \in Runner : u # t => doing'[u] # "remove" /\ doing'[u] # "add"
    BY <1>1, <1>2, <1>4
  <2>3. currentClasses' = currentClasses
    BY <1>1
  <2> QED BY <1>3, <2>1, <2>2, <2>3 DEF SetUp, Changing
<1>6. ListsHold(P)'
  <2> SUFFICES ASSUME NEW u \in Runner
               PROVE  /\ ToSet(list'[u]) \subseteq Brought(P, u)
                      /\ u # "main" => ToSet(list'[u]) = Brought(P, u)
                      /\ IsInjective(list'[u])
    BY DEF ListsHold, Brought, New
  <2>1. /\ ToSet(list[u]) \subseteq Brought(P, u)
        /\ u # "main" => ToSet(list[u]) = Brought(P, u)
        /\ IsInjective(list[u])
    BY DEF ListsHold, Agree
  <2>2. CASE u = "main" /\ t = "main"
    <3>1. list'[u] = RemoveFirst(list[u], e) /\ list[u] \in Seq(Entry)
      BY <1>1, <1>2, <2>2
    <3> QED BY <2>1, <2>2, <3>1, RemoveFirstIs
  <2>3. CASE ~(u = "main" /\ t = "main")
    <3>1. list'[u] = list[u]
      BY <1>1, <1>2, <2>3
    <3> QED BY <2>1, <3>1
  <2> QED BY <2>2, <2>3
<1>7. OnFor(P, m, b)'
  BY <1>1 DEF OnFor, EndsOn, Agree
<1> QED BY <1>5, <1>6, <1>7 DEF Agree

\* A class that is removed is torn down: its entries leave the lists, and the last
\* that is said to its modules is that they stop.
LEMMA RemoveClassKeeps ==
    ASSUME StateTypes, NEW m, NEW b \in BOOLEAN, NEW P \in SUBSET Name, Agree(P, m, b),
           NEW t \in Runner, NEW c \in todo[t], RemoveClass(t, c)
    PROVE  Agree(P \ {c}, m, b)'
<1> DEFINE Q == P \ {c}
<1>1. /\ doing[t] = "remove"
      /\ todo' = [todo EXCEPT ![t] = todo[t] \ {c}]
      /\ list' = [u \in Runner |-> Without(c, list[u])]
      /\ moduleEnable' = moduleEnable \o (IF c \in Class THEN Told(c, FALSE) ELSE <<>>)
      /\ UNCHANGED <<currentClasses, doing, newState>>
  BY DEF RemoveClass
<1>2. /\ todo \in [Runner -> SUBSET Name] /\ list \in [Runner -> Seq(Entry)]
      /\ moduleEnable \in Seq(ModuleMsg)
  BY DEF StateTypes, StateFields
<1>3. SetUp(Q)'
  <2>1. /\ P = (currentClasses \cap Target(t)) \cup todo[t]
        /\ todo[t] \subseteq currentClasses \ Target(t)
        /\ \A u \in Runner : Changing(u) => u = t
    BY <1>1 DEF SetUp, Agree, Changing
  <2>2. todo'[t] = todo[t] \ {c} /\ c \notin Target(t) /\ Target(t)' = Target(t)
    BY <1>1, <1>2, <2>1 DEF Target
  <2>3. \A u \in Runner : doing'[u] \in {"remove", "add"} => u = t
    BY <1>1, <2>1 DEF Changing
  <2>4. Q = (currentClasses \cap Target(t)) \cup todo'[t]
    BY <2>1, <2>2
  <2> QED BY <1>1, <2>1, <2>2, <2>3, <2>4 DEF SetUp, Changing
<1>4. ListsHold(Q)'
  <2> SUFFICES ASSUME NEW u \in Runner
               PROVE  /\ ToSet(list'[u]) \subseteq Brought(Q, u)
                      /\ u # "main" => ToSet(list'[u]) = Brought(Q, u)
                      /\ IsInjective(list'[u])
    BY DEF ListsHold, Brought, New
  <2>1. /\ ToSet(list[u]) \subseteq Brought(P, u)
        /\ u # "main" => ToSet(list[u]) = Brought(P, u)
        /\ IsInjective(list[u])
    BY DEF ListsHold, Agree
  <2>2. /\ ToSet(list'[u]) = {x \in ToSet(list[u]) : x.class # c}
        /\ IsInjective(list'[u])
    BY <1>1, <1>2, <2>1, WithoutIs
  <2>3. Brought(Q, u) = {x \in Brought(P, u) : x.class # c}
    <3>1. \A x : x \in Brought(P \ {c}, u) <=> x \in Brought(P, u) /\ x.class # c
      BY BroughtIs
    <3> QED BY <3>1
  <2> QED BY <2>1, <2>2, <2>3
<1>5. OnFor(Q, m, b)'
  <2>1. CASE c \in Class
    <3>1. moduleEnable' = moduleEnable \o Told(c, FALSE)
      BY <1>1, <2>1
    <3>2. EndsOn(m, b)' => m \notin Activates[c] /\ EndsOn(m, b)
      BY <1>2, <2>1, <3>1, LastWord
    <3> QED BY <3>2 DEF OnFor, Agree
  <2>2. CASE c \notin Class
    <3>1. moduleEnable' = moduleEnable
      BY <1>1, <1>2, <2>2
    <3>2. EndsOn(m, b)' => EndsOn(m, b)
      BY <3>1 DEF EndsOn
    <3> QED BY <2>2, <3>2 DEF OnFor, Agree
  <2> QED BY <2>1, <2>2
<1> QED BY <1>3, <1>4, <1>5 DEF Agree

\* The second loop starts with what is left of the old state: nothing changes hands.
LEMMA RemovedKeeps ==
    ASSUME StateTypes, NEW m, NEW b \in BOOLEAN, NEW P \in SUBSET Name, Agree(P, m, b),
           NEW t \in Runner, Removed(t)
    PROVE  Agree(P, m, b)'
<1>1. /\ doing[t] = "remove" /\ todo[t] = {}
      /\ todo' = [todo EXCEPT ![t] = Target(t) \ currentClasses]
      /\ doing' = [doing EXCEPT ![t] = "add"]
      /\ UNCHANGED <<currentClasses, list, newState, moduleEnable>>
  BY DEF Removed, Target
<1>2. /\ todo \in [Runner -> SUBSET Name]
      /\ doing \in [Runner -> {"idle", "check", "remove", "add"}]
  BY DEF StateTypes, StateFields
<1>3. SetUp(P)'
  <2>1. /\ P = currentClasses \cap Target(t)
        /\ \A u \in Runner : doing[u] \in {"remove", "add"} => u = t
    BY <1>1 DEF SetUp, Agree, Changing
  <2>2. /\ doing'[t] = "add" /\ todo'[t] = Target(t) \ currentClasses
        /\ Target(t)' = Target(t) /\ currentClasses' = currentClasses
    BY <1>1, <1>2 DEF Target
  <2>3. \A u \in Runner : doing'[u] \in {"remove", "add"} => u = t
    BY <1>1, <1>2, <2>1
  <2> QED BY <2>1, <2>2, <2>3 DEF SetUp, Changing
<1>4. ListsHold(P)'
  BY <1>1 DEF ListsHold, Agree
<1>5. OnFor(P, m, b)'
  BY <1>1 DEF OnFor, EndsOn, Agree
<1> QED BY <1>3, <1>4, <1>5 DEF Agree

\* A class that is added was not set up: what it brings is new to the lists, and the
\* last that is said to its modules is that they start.
LEMMA AddClassKeeps ==
    ASSUME StateTypes, NEW m, NEW b \in BOOLEAN, NEW P \in SUBSET Name, Agree(P, m, b),
           NEW t \in Runner, NEW c \in todo[t], AddClass(t, c)
    PROVE  c \notin P /\ P \cup {c} \in SUBSET Name /\ Agree(P \cup {c}, m, b)'
<1> DEFINE Q == P \cup {c}
<1>1. /\ doing[t] = "add"
      /\ todo' = [todo EXCEPT ![t] = todo[t] \ {c}]
      /\ UNCHANGED <<currentClasses, doing, newState>>
  BY DEF AddClass
<1>2. /\ todo \in [Runner -> SUBSET Name] /\ list \in [Runner -> Seq(Entry)]
      /\ moduleEnable \in Seq(ModuleMsg)
  BY DEF StateTypes, StateFields
<1>3. /\ P = Target(t) \ todo[t] /\ todo[t] \subseteq Target(t) /\ c \notin P
      /\ \A u \in Runner : doing[u] \in {"remove", "add"} => u = t
  BY <1>1 DEF SetUp, Agree, Changing
<1>4. Q \in SUBSET Name
  BY <1>2
<1>5. SetUp(Q)'
  <2>1. todo'[t] = todo[t] \ {c} /\ Target(t)' = Target(t)
    BY <1>1, <1>2 DEF Target
  <2>2. Q = Target(t)' \ todo'[t] /\ todo'[t] \subseteq Target(t)'
    BY <1>3, <2>1
  <2> QED BY <1>1, <1>3, <2>2 DEF SetUp, Changing
<1>6. CASE c \notin Class
  <2>1. UNCHANGED <<list, moduleEnable>>
    BY <1>6 DEF AddClass
  <2>2. Q \cap Class = P \cap Class
    BY <1>6
  <2>3. ListsHold(Q)'
    BY <2>1, <2>2 DEF ListsHold, Brought, Agree
  <2>4. EndsOn(m, b)' => EndsOn(m, b)
    BY <2>1 DEF EndsOn
  <2>5. OnFor(Q, m, b)'
    BY <2>4 DEF OnFor, Agree
  <2> QED BY <1>3, <1>4, <1>5, <2>3, <2>5 DEF Agree
<1>7. CASE c \in Class
  <2>1. /\ list' = [u \in Runner |-> list[u] \o New(c, u)]
        /\ moduleEnable' = moduleEnable \o Told(c, TRUE)
    BY <1>7 DEF AddClass
  <2>2. ListsHold(Q)'
    <3> SUFFICES ASSUME NEW u \in Runner
                 PROVE  /\ ToSet(list'[u]) \subseteq Brought(Q, u)
                        /\ u # "main" => ToSet(list'[u]) = Brought(Q, u)
                        /\ IsInjective(list'[u])
      BY DEF ListsHold, Brought, New
    <3>1. /\ ToSet(list[u]) \subseteq Brought(P, u)
          /\ u # "main" => ToSet(list[u]) = Brought(P, u)
          /\ IsInjective(list[u])
      BY DEF ListsHold, Agree
    <3>2. /\ New(c, u) \in Seq(Entry) /\ IsInjective(New(c, u))
          /\ ToSet(New(c, u)) = Brought({c}, u)
          /\ \A e \in ToSet(New(c, u)) : e.class = c
      BY <1>7, NewIs
    <3>3. /\ list'[u] = list[u] \o New(c, u)
          /\ ToSet(list'[u]) = ToSet(list[u]) \cup ToSet(New(c, u))
      BY <1>2, <2>1, <3>2, ConcatIs
    <3>4. \A e \in ToSet(list[u]) : e \notin ToSet(New(c, u))
      <4>1. \A e \in Brought(P, u) : e.class \in P
        BY BroughtIs
      <4> QED BY <1>3, <3>1, <3>2, <4>1
    <3>5. Brought(Q, u) = Brought(P, u) \cup Brought({c}, u)
      BY BroughtIs
    <3>6. IsInjective(list'[u])
      <4>1. list[u] \in Seq(Entry)
        BY <1>2
      <4>2. IsInjective(list[u] \o New(c, u))
        BY <3>1, <3>2, <3>4, <4>1, ConcatInjective, Zenon
      <4> QED BY <3>3, <4>2
    <3> QED BY <3>1, <3>2, <3>3, <3>5, <3>6
  <2>3. OnFor(Q, m, b)'
    <3>1. m \notin Activates[c] /\ EndsOn(m, b)' => EndsOn(m, b)
      BY <1>2, <1>7, <2>1, LastWord
    <3> QED BY <1>7, <3>1 DEF OnFor, Agree
  <2> QED BY <1>3, <1>4, <1>5, <2>2, <2>3 DEF Agree
<1> QED BY <1>6, <1>7

\* The new classes are the current ones once all are set up.
LEMMA ChangedKeeps ==
    ASSUME StateTypes, NEW m, NEW b \in BOOLEAN, NEW P \in SUBSET Name, Agree(P, m, b),
           NEW t \in Runner, Changed(t)
    PROVE  Agree(P, m, b)'
<1>1. /\ doing[t] = "add" /\ todo[t] = {} /\ currentClasses' = Target(t)
      /\ doing' = [doing EXCEPT ![t] = "check"]
      /\ UNCHANGED <<list, moduleEnable>>
  BY DEF Changed, Target
<1>2. SetUp(P)'
  <2>1. P = currentClasses' /\ \A u \in Runner : doing[u] \in {"remove", "add"} => u = t
    BY <1>1 DEF SetUp, Agree, Changing
  <2>2. \A u \in Runner : doing'[u] # "remove" /\ doing'[u] # "add"
    BY <1>1, <2>1 DEF StateTypes, StateFields
  <2> QED BY <2>1, <2>2 DEF SetUp, Changing
<1>3. ListsHold(P)'
  BY <1>1 DEF ListsHold, Agree
<1>4. OnFor(P, m, b)'
  BY <1>1 DEF OnFor, EndsOn, Agree
<1> QED BY <1>2, <1>3, <1>4 DEF Agree

\* Whatever the machine does next, some set of classes stays set up.
LEMMA StateNextKeeps ==
    ASSUME StateTypes, NEW m, NEW b \in BOOLEAN, Kept(m, b), StateNext
    PROVE  Kept(m, b)'
<1>1. PICK P \in SUBSET Name : Agree(P, m, b)
  BY DEF Kept, StateNext
<1>2. CASE LoopStep
  BY <1>1, <1>2, LoopsKeep DEF Kept
<1>3. ASSUME NEW t \in Runner, Fires(t)
      PROVE  Kept(m, b)'
  BY <1>1, <1>3, FiresKeep DEF Kept
<1>4. ASSUME NEW t \in Runner, Removed(t)
      PROVE  Kept(m, b)'
  BY <1>1, <1>4, RemovedKeeps DEF Kept
<1>5. ASSUME NEW t \in Runner, Changed(t)
      PROVE  Kept(m, b)'
  BY <1>1, <1>5, ChangedKeeps DEF Kept
<1>6. ASSUME NEW t \in Runner, NEW c \in todo[t], RemoveClass(t, c)
      PROVE  Kept(m, b)'
  <2>1. P \ {c} \in SUBSET Name /\ Agree(P \ {c}, m, b)'
    BY <1>1, <1>6, RemoveClassKeeps
  <2> QED BY <2>1 DEF Kept
<1>7. ASSUME NEW t \in Runner, NEW c \in todo[t], AddClass(t, c)
      PROVE  Kept(m, b)'
  <2>1. P \cup {c} \in SUBSET Name /\ Agree(P \cup {c}, m, b)'
    BY <1>1, <1>7, AddClassKeeps
  <2> QED BY <2>1 DEF Kept
<1> QED BY <1>2, <1>3, <1>4, <1>5, <1>6, <1>7, StateKinds

\* A module takes a message: what it then is, b, is what the message says if it is
\* for that module.
LEMMA DeliveredKeeps ==
    ASSUME StateTypes, NEW m, NEW a \in BOOLEAN, NEW b \in BOOLEAN, Kept(m, a), Delivered,
           UNCHANGED <<currentClasses, list, loops, doing, changes, handled, overlapped>>,
           b => IF Head(moduleEnable).module = m THEN Head(moduleEnable).state ELSE a
    PROVE  Kept(m, b)'
<1> SUFFICES ASSUME ~overlapped, NEW P \in SUBSET Name, Agree(P, m, a)
             PROVE  Agree(P, m, b)'
  BY DEF Kept
<1>1. UNCHANGED <<currentClasses, list, doing, newState, todo>>
  BY DEF changes
<1>2. SetUp(P)'
  BY <1>1 DEF SetUp, Agree, Changing, Target
<1>3. ListsHold(P)'
  BY <1>1 DEF ListsHold, Agree
<1>4. EndsOn(m, b)' => EndsOn(m, a)
  <2> DEFINE q == moduleEnable
  <2>1. /\ Len(q) \in Nat /\ Len(q) # 0 /\ Head(q) = q[1] /\ moduleEnable' = Tail(q)
        /\ DOMAIN q = 1..Len(q) /\ DOMAIN moduleEnable' = 1..(Len(q) - 1)
    BY DEF StateTypes, StateFields, Delivered
  <2>2. \A i \in DOMAIN moduleEnable' : moduleEnable'[i] = q[i + 1] /\ i + 1 \in DOMAIN q
    BY <2>1 DEF StateTypes, StateFields
  <2>3. \A i \in DOMAIN q : i = 1 \/ (i - 1 \in DOMAIN moduleEnable' /\ moduleEnable'[i - 1] = q[i])
    BY <2>1 DEF StateTypes, StateFields
  <2>4. ASSUME NEW i \in DOMAIN moduleEnable', moduleEnable'[i].module = m, moduleEnable'[i].state,
               \A j \in DOMAIN moduleEnable' : j > i => moduleEnable'[j].module # m
        PROVE  EndsOn(m, a)
    <3>1. i + 1 \in DOMAIN q /\ q[i + 1].module = m /\ q[i + 1].state
      BY <2>2, <2>4
    <3>2. ASSUME NEW j \in DOMAIN q, j > i + 1
          PROVE  q[j].module # m
      <4>1. j - 1 \in DOMAIN moduleEnable' /\ moduleEnable'[j - 1] = q[j] /\ j - 1 > i
        BY <2>1, <2>3, <3>2
      <4> QED BY <2>4, <4>1
    <3> QED BY <3>1, <3>2 DEF EndsOn
  <2>5. ASSUME b, \A i \in DOMAIN moduleEnable' : moduleEnable'[i].module # m
        PROVE  EndsOn(m, a)
    <3>1. \A j \in DOMAIN q : j # 1 => q[j].module # m
      BY <2>3, <2>5
    <3>2. 1 \in DOMAIN q /\ \A j \in DOMAIN q : j > 1 => j # 1
      BY <2>1
    <3>3. CASE q[1].module = m
      <4>1. q[1].state
        BY <2>1, <2>5, <3>3
      <4> QED BY <3>1, <3>2, <3>3, <4>1 DEF EndsOn
    <3>4. CASE q[1].module # m
      <4>1. a
        BY <2>1, <2>5, <3>4
      <4>2. \A j \in DOMAIN q : q[j].module # m
        BY <3>1, <3>4
      <4> QED BY <4>1, <4>2 DEF EndsOn
    <3> QED BY <3>3, <3>4
  <2> QED BY <2>4, <2>5 DEF EndsOn
<1>5. OnFor(P, m, b)'
  BY <1>4 DEF OnFor, Agree
<1> QED BY <1>2, <1>3, <1>5 DEF Agree

\* A module that stays as it is, or stops, while the machine rests.
LEMMA RestingKeeps ==
    ASSUME NEW m, NEW a \in BOOLEAN, NEW b \in BOOLEAN, Kept(m, a), UNCHANGED stateVars, b => a
    PROVE  Kept(m, b)'
<1>1. UNCHANGED <<currentClasses, list, doing, newState, todo, moduleEnable, overlapped>>
  BY DEF stateVars, changes
<1> SUFFICES ASSUME ~overlapped, NEW P \in SUBSET Name, Agree(P, m, a)
             PROVE  Agree(P, m, b)'
  BY <1>1 DEF Kept
<1>2. SetUp(P)'
  BY <1>1 DEF SetUp, Agree, Changing, Target
<1>3. ListsHold(P)'
  BY <1>1 DEF ListsHold, Agree
<1>4. OnFor(P, m, b)'
  BY <1>1 DEF OnFor, EndsOn, Agree
<1> QED BY <1>2, <1>3, <1>4 DEF Agree

\* When no change is under way the classes that are set up are the current ones.
LEMMA KeptCurrent ==
    ASSUME NEW m, NEW b \in BOOLEAN, Kept(m, b)
    PROVE  /\ ListsAreCurrent
           /\ ~overlapped /\ moduleEnable = <<>> /\ b /\ (\A t \in Runner : ~Changing(t))
                  => \E c \in currentClasses \cap Class : m \in Activates[c]
<1> SUFFICES ASSUME ~overlapped, \A t \in Runner : ~Changing(t)
             PROVE  /\ ListsAreCurrent
                    /\ moduleEnable = <<>> /\ b
                           => \E c \in currentClasses \cap Class : m \in Activates[c]
  BY DEF ListsAreCurrent
<1>1. Agree(currentClasses, m, b)
  BY DEF Kept, Agree, SetUp
<1>2. moduleEnable = <<>> /\ b => EndsOn(m, b)
  BY DEF EndsOn
<1> QED BY <1>1, <1>2 DEF Agree, ListsHold, OnFor, ListsAreCurrent

-----------------------------------------------------------------------------
\* What is set up, and the state that is aimed at, as States has them; now, and in
\* the same words after a step.
LEMMA NowIs ==
    ASSUME NEW P, SetUp(P)
    PROVE  /\ UpNow = P
           /\ Resting => TargetNow = currentClasses
           /\ \A t \in Runner : Changing(t) => TargetNow = Target(t)
<1>1. CASE Resting
  BY <1>1 DEF SetUp, UpNow, TargetNow, Resting
<1>2. ASSUME NEW t \in Runner, Changing(t)
      PROVE  UpNow = P /\ TargetNow = Target(t)
  <2>1. \A u \in Runner : Changing(u) => u = t
    BY <1>2 DEF SetUp
  <2>2. Who = t /\ ~Resting
    BY <1>2, <2>1 DEF Who, Resting
  <2> QED BY <1>2, <2>2 DEF SetUp, UpNow, TargetNow, Changing
<1> QED BY <1>1, <1>2 DEF Resting

\* The same of the state after a step.
LEMMA ThenIs ==
    ASSUME NEW P, SetUp(P)'
    PROVE  /\ UpNow' = P
           /\ Resting' => TargetNow' = currentClasses'
           /\ \A t \in Runner : Changing(t)' => TargetNow' = Target(t)'
<1>1. CASE Resting'
  BY <1>1 DEF SetUp, UpNow, TargetNow, Resting
<1>2. ASSUME NEW t \in Runner, Changing(t)'
      PROVE  UpNow' = P /\ TargetNow' = Target(t)'
  <2>1. \A u \in Runner : Changing(u)' => u = t
    BY <1>2 DEF SetUp
  <2>2. Who' = t /\ ~Resting'
    BY <1>2, <2>1 DEF Who, Resting
  <2> QED BY <1>2, <2>2 DEF SetUp, UpNow, TargetNow, Changing
<1> QED BY <1>1, <1>2 DEF Resting

\* main() changes to a state from none.
LEMMA StatesInitially == StateInit => Abstract!StatesInit
<1> SUFFICES ASSUME StateInit PROVE Abstract!StatesInit
  OBVIOUS
<1>1. SetUp({}) /\ "main" \in Runner /\ Changing("main") /\ Target("main") = getAllClasses[Initial]
  BY DEF StateInit, SetUp, Changing, Runner, Target
<1>2. UpNow = {} /\ TargetNow = getAllClasses[Initial] /\ Initial \in Name
  BY <1>1, NowIs, Naming, StateAssumption
<1> QED BY <1>2 DEF StateInit, Abstract!StatesInit

\* The instance counts as this module does.
LEMMA CountsAlike == ASSUME NEW S PROVE Abstract!SetToSeqs(S) = SetToSeqs(S)
<1>1. Abstract!Cardinality(S) = Cardinality(S)
  BY DEF Abstract!Cardinality, Cardinality
<1> QED BY <1>1 DEF Abstract!SetToSeqs, SetToSeqs

\* What a class tells its modules is its word to them, in some order.
LEMMA ToldSays ==
    ASSUME moduleEnable \in Seq(ModuleMsg), NEW c, NEW s \in BOOLEAN,
           moduleEnable' = moduleEnable \o (IF c \in Class THEN Told(c, s) ELSE <<>>)
    PROVE  Abstract!Says(c, s)
<1> DEFINE S == Abstract!Word(c, s)
           order == IF c \in Class THEN Told(c, s) ELSE <<>>
<1>1. ASSUME c \in Class PROVE order \in Abstract!SetToSeqs(S)
  <2>1. S = {[module |-> m, state |-> s] : m \in Activates[c]}
    BY <1>1 DEF Abstract!Word
  <2> HIDE DEF S
  <2>2. /\ Told(c, s) \in [1..Cardinality(S) -> S]
        /\ IsInjective(Told(c, s))
    BY <1>1, <2>1, ToldOrders
  <2>3. Told(c, s) \in Abstract!SetToSeqs(S)
    BY <2>2, CountsAlike DEF SetToSeqs, IsInjective
  <2> QED BY <1>1, <2>3
<1>2. ASSUME c \notin Class PROVE order \in Abstract!SetToSeqs(S)
  <2>1. S = {} /\ Cardinality({}) = 0
    BY <1>2, FS_EmptySet DEF Abstract!Word
  <2>2. <<>> \in [1..0 -> {}] /\ 1..0 = {}
    OBVIOUS
  <2>3. <<>> \in SetToSeqs({})
    BY <2>1, <2>2 DEF SetToSeqs
  <2> QED BY <1>2, <2>1, <2>3, CountsAlike
<1>3. order \in Abstract!SetToSeqs(S)
  BY <1>1, <1>2
<1>4. moduleEnable' = moduleEnable \o order
  OBVIOUS
<1> HIDE DEF S, order
<1>5. \E o \in Abstract!SetToSeqs(S) : moduleEnable' = moduleEnable \o o
  BY <1>3, <1>4
<1> QED BY <1>5 DEF Abstract!Says, S

\* Every step of the machine is one of States, or none.
LEMMA StatesStep ==
    ASSUME StateTypes, NEW m, NEW b \in BOOLEAN, Kept(m, b), StateNext
    PROVE  [Abstract!StatesNext]_(Abstract!statesVars)
<1>1. ~overlapped
  BY DEF StateNext
<1>2. PICK P \in SUBSET Name : Agree(P, m, b)
  BY <1>1 DEF Kept
<1>3. UpNow = P
  BY <1>2, NowIs DEF Agree
<1>4. \A Q : Agree(Q, m, b)' => UpNow' = Q
  BY ThenIs DEF Agree
<1>5. CASE LoopStep
  <2>1. Agree(P, m, b)' /\ overlapped' = overlapped /\ moduleEnable' = moduleEnable
    BY <1>2, <1>5, LoopsKeep DEF LoopStep
  <2>2. TargetNow' = TargetNow
    <3>1. currentClasses' = currentClasses /\ \A t \in Runner : Changing(t)' = Changing(t) /\ Target(t)' = Target(t)
      BY <1>5 DEF LoopStep, Changing, Target
    <3>2. CASE Resting
      BY <1>2, <2>1, <3>1, <3>2, NowIs, ThenIs DEF Resting, Agree
    <3>3. ASSUME NEW t \in Runner, Changing(t)
          PROVE  TargetNow' = TargetNow
      BY <1>2, <2>1, <3>1, <3>3, NowIs, ThenIs DEF Agree
    <3> QED BY <3>2, <3>3 DEF Resting
  <2> QED BY <1>3, <1>4, <2>1, <2>2 DEF Abstract!statesVars
<1>6. ASSUME NEW t \in Runner, Fires(t), overlapped'
      PROVE  Abstract!Lose
  BY <1>1, <1>6 DEF Fires, Abstract!Lose
<1>7. ASSUME NEW t \in Runner, Fires(t), ~overlapped'
      PROVE  Abstract!Begin
  <2>1. Agree(P, m, b)'
    BY <1>2, <1>7, FiresKeep
  <2>2. Resting /\ Changing(t)' /\ moduleEnable' = moduleEnable /\ overlapped' = overlapped
    BY <1>1, <1>7 DEF Fires, Resting, Changing, StateTypes, StateFields
  <2>3. UpNow = TargetNow
    BY <1>2, <1>3, <2>2, NowIs DEF Agree, SetUp, Resting
  <2>4. TargetNow' = getAllClasses[newState'[t]] /\ newState'[t] \in Name
    BY <1>7, <2>1, <2>2, ThenIs, FiresTypes DEF Agree, Target, StateTypes, StateFields
  <2>5. UpNow' = UpNow
    BY <1>3, <1>4, <2>1
  <2> QED BY <1>1, <1>7, <2>2, <2>3, <2>4, <2>5 DEF Abstract!Begin
<1>8. ASSUME NEW t \in Runner, NEW c \in todo[t], RemoveClass(t, c)
      PROVE  c \in UpNow /\ Abstract!Leave(c)
  <2>1. Agree(P \ {c}, m, b)'
    BY <1>2, <1>8, RemoveClassKeeps
  <2>2. /\ doing[t] = "remove" /\ Changing(t) /\ Changing(t)' /\ Target(t)' = Target(t)
        /\ moduleEnable' = moduleEnable \o (IF c \in Class THEN Told(c, FALSE) ELSE <<>>)
        /\ overlapped' = overlapped
    BY <1>8 DEF RemoveClass, Changing, Target
  <2>3. TargetNow = Target(t) /\ TargetNow' = Target(t)
    BY <1>2, <2>1, <2>2, NowIs, ThenIs DEF Agree
  <2>4. c \in P \ TargetNow
    BY <1>2, <2>2, <2>3 DEF Agree, SetUp
  <2>5. Abstract!Says(c, FALSE)
    BY <2>2, ToldSays DEF StateTypes, StateFields
  <2> QED BY <1>1, <1>3, <1>4, <2>1, <2>2, <2>3, <2>4, <2>5 DEF Abstract!Leave
<1>9. ASSUME NEW t \in Runner, NEW c \in todo[t], AddClass(t, c)
      PROVE  c \in TargetNow /\ Abstract!Enter(c)
  <2>1. c \notin P /\ Agree(P \cup {c}, m, b)'
    BY <1>2, <1>9, AddClassKeeps
  <2>2. /\ doing[t] = "add" /\ Changing(t) /\ Changing(t)' /\ Target(t)' = Target(t)
        /\ overlapped' = overlapped
    BY <1>9 DEF AddClass, Changing, Target
  <2>3. TargetNow = Target(t) /\ TargetNow' = Target(t)
    BY <1>2, <2>1, <2>2, NowIs, ThenIs DEF Agree
  <2>4. P \subseteq TargetNow /\ c \in TargetNow \ P
    BY <1>2, <2>1, <2>2, <2>3 DEF Agree, SetUp
  <2>5. moduleEnable' = moduleEnable \o (IF c \in Class THEN Told(c, TRUE) ELSE <<>>)
    <3>1. moduleEnable' = IF c \in Class THEN moduleEnable \o Told(c, TRUE) ELSE moduleEnable
      BY <1>9 DEF AddClass
    <3>2. moduleEnable \o <<>> = moduleEnable
      BY DEF StateTypes, StateFields
    <3> QED BY <3>1, <3>2
  <2>6. Abstract!Says(c, TRUE)
    BY <2>5, ToldSays DEF StateTypes, StateFields
  <2> QED BY <1>1, <1>3, <1>4, <2>1, <2>2, <2>3, <2>4, <2>6 DEF Abstract!Enter
<1>10. ASSUME NEW t \in Runner, Removed(t)
       PROVE  UNCHANGED Abstract!statesVars
  <2>1. Agree(P, m, b)'
    BY <1>2, <1>10, RemovedKeeps
  <2>2. Changing(t) /\ Changing(t)' /\ UNCHANGED <<Target(t), moduleEnable, overlapped>>
    BY <1>10 DEF Removed, Changing, Target, StateTypes, StateFields
  <2>3. TargetNow' = TargetNow
    BY <1>2, <2>1, <2>2, NowIs, ThenIs DEF Agree
  <2> QED BY <1>3, <1>4, <2>1, <2>2, <2>3 DEF Abstract!statesVars
<1>11. ASSUME NEW t \in Runner, Changed(t)
       PROVE  UNCHANGED Abstract!statesVars
  <2>1. Agree(P, m, b)'
    BY <1>2, <1>11, ChangedKeeps
  <2>2. Changing(t) /\ currentClasses' = Target(t) /\ UNCHANGED <<moduleEnable, overlapped>>
    BY <1>11 DEF Changed, Changing, Target
  <2>3. Resting'
    BY <1>2, <1>11 DEF Changed, Agree, SetUp, Resting, Changing, StateTypes, StateFields
  <2>4. TargetNow' = TargetNow
    BY <1>2, <2>1, <2>2, <2>3, NowIs, ThenIs DEF Agree
  <2> QED BY <1>3, <1>4, <2>1, <2>2, <2>4 DEF Abstract!statesVars
<1>12. ASSUME NEW c \in UpNow, Abstract!Leave(c)
       PROVE  Abstract!StatesNext
  BY <1>1, <1>12 DEF Abstract!StatesNext
<1>13. ASSUME NEW c \in TargetNow, Abstract!Enter(c)
       PROVE  Abstract!StatesNext
  BY <1>1, <1>13 DEF Abstract!StatesNext
<1>14. (\E t \in Runner : Fires(t)) => Abstract!StatesNext
  BY <1>6, <1>7 DEF Abstract!StatesNext
<1> QED
  BY <1>5, <1>8, <1>9, <1>10, <1>11, <1>12, <1>13, <1>14, StateKinds

\* A message that is taken is one of States, and what leaves the machine alone none.
LEMMA StatesHear ==
    ASSUME StateTypes, NEW m, NEW b \in BOOLEAN, Kept(m, b), Delivered,
           UNCHANGED <<currentClasses, list, loops, doing, changes, handled, overlapped>>
    PROVE  Abstract!StatesNext
<1>1. UpNow' = UpNow /\ TargetNow' = TargetNow
  BY DEF UpNow, TargetNow, Target, Who, Resting, Changing, changes
<1> QED BY <1>1 DEF Abstract!StatesNext, Abstract!Hear, Delivered

\* What leaves the machine alone is no step of States.
LEMMA StatesRest == UNCHANGED stateVars => UNCHANGED Abstract!statesVars
BY DEF stateVars, changes, Abstract!statesVars, UpNow, TargetNow, Target, Who, Resting, Changing
=============================================================================
