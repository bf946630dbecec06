------------------------- MODULE ObjectPool_proofs --------------------------
(***************************************************************************)
(* Proofs about the object pool, for every number of items and every       *)
(* finite set of variables: counts are exact, nothing is lost, and what    *)
(* the interpreter sees of the items is an abstract heap of lists.         *)
(***************************************************************************)
EXTENDS ObjectPoolProps, FiniteSetTheorems, TLAPS

-----------------------------------------------------------------------------
(* What can be reached *)

\* Induction over numbers: a set of numbers has a least element.
LEMMA LeastNumber ==
  ASSUME NEW T \in SUBSET Nat, T # {}
  PROVE  \E m \in T : \A k \in T : m <= k
<1> DEFINE Initial == {0..k : k \in T}
<1>1. Initial \subseteq FiniteSubsetsOf(Nat) /\ Initial # {}
  <2>1. \A k \in T : IsFiniteSet(0..k) /\ 0..k \subseteq Nat
    BY FS_Interval
  <2>2. QED  BY <2>1 DEF FiniteSubsetsOf
<1>2. PICK x \in Initial : \A y \in Initial : ~(<<y, x>> \in StrictSubsetOrdering(Nat))
  <2> HIDE DEF Initial
  <2>1. QED  BY <1>1, FS_StrictSubsetOrderingWellFounded, WFMin
<1>3. PICK m \in T : x = 0..m
  BY <1>2
<1>4. ASSUME NEW k \in T, ~(m <= k)
      PROVE  FALSE
  <2>1. k \in Nat /\ m \in Nat /\ 0..k \in Initial
    BY <1>3
  <2>2. 0..k \subseteq 0..m /\ 0..k # 0..m
    <3>1. m \in 0..m /\ m \notin 0..k
      BY <2>1, <1>4
    <3>2. QED  BY <3>1, <2>1, <1>4
  <2>3. <<0..k, 0..m>> \in StrictSubsetOrdering(Nat)
    BY <2>2, <2>1 DEF StrictSubsetOrdering
  <2>4. QED  BY <2>1, <2>3, <1>2, <1>3
<1>5. QED  BY <1>4

\* within, up to n steps, for a bound m on n.
Stages(f, m, S, next) ==
  f = [n \in 0..m |-> IF n = 0 THEN S
                      ELSE f[n - 1] \cup UNION {next[i] : i \in f[n - 1]}]

\* The recursion of Within defines a function.
LEMMA StagesExist ==
  ASSUME NEW S, NEW next, NEW m \in Nat
  PROVE  \E f : Stages(f, m, S, next)
<1> DEFINE Bad == {k \in Nat : ~\E f : Stages(f, k, S, next)}
<1>1. SUFFICES ASSUME Bad # {} PROVE FALSE
  OBVIOUS
<1>2. PICK k \in Bad : \A l \in Bad : k <= l
  BY <1>1, LeastNumber
<1>3. CASE k = 0
  <2>1. Stages([n \in 0..0 |-> S], 0, S, next)
    BY DEF Stages
  <2>2. QED  BY <2>1, <1>2, <1>3
<1>4. CASE k # 0
  <2>1. k - 1 \in Nat /\ k - 1 \notin Bad
    BY <1>2, <1>4
  <2>2. PICK g : Stages(g, k - 1, S, next)
    BY <2>1
  <2> DEFINE f == [n \in 0..k |-> IF n = k THEN g[k - 1] \cup UNION {next[i] : i \in g[k - 1]}
                                  ELSE g[n]]
  <2>3. \A n \in 0..(k - 1) : f[n] = g[n]
    BY <1>2
  <2>4. ASSUME NEW n \in 0..k
        PROVE  f[n] = IF n = 0 THEN S ELSE f[n - 1] \cup UNION {next[i] : i \in f[n - 1]}
    <3>1. CASE n = k
      <4>1. f[n - 1] = g[k - 1]
        BY <2>1, <2>3, <3>1
      <4>2. QED  BY <4>1, <3>1, <1>4
    <3>2. CASE n # k
      <4>1. n \in 0..(k - 1) /\ f[n] = g[n]
        BY <1>2, <3>2
      <4>2. n # 0 => f[n - 1] = g[n - 1]
        BY <4>1, <2>3, <1>2
      <4>3. g[n] = IF n = 0 THEN S ELSE g[n - 1] \cup UNION {next[i] : i \in g[n - 1]}
        BY <2>2, <4>1 DEF Stages
      <4>4. QED  BY <4>1, <4>2, <4>3
    <3>3. QED  BY <3>1, <3>2
  <2>5. f = [n \in 0..k |-> IF n = 0 THEN S
                            ELSE f[n - 1] \cup UNION {next[i] : i \in f[n - 1]}]
    <3> HIDE DEF f
    <3>1. f = [n \in 0..k |-> f[n]]
      BY DEF f
    <3>2. QED  BY <3>1, <2>4
  <2>6. QED  BY <2>5, <1>2 DEF Stages
<1>5. QED  BY <1>3, <1>4

\* Within is what its recursion says.
LEMMA WithinSteps ==
  ASSUME NEW S, NEW next
  PROVE  /\ Within(S, next)[0] = S
         /\ \A n \in 0..(MaxItems - 1) :
              Within(S, next)[n + 1]
                = Within(S, next)[n] \cup UNION {next[i] : i \in Within(S, next)[n]}
<1> DEFINE w == Within(S, next)
<1>1. Stages(w, MaxItems, S, next)
  <2>1. \E f : Stages(f, MaxItems, S, next)
    BY StagesExist, MaxItemsAssumption
  <2>2. QED  BY <2>1 DEF Stages, Within
<1>2. w = [n \in 0..MaxItems |-> IF n = 0 THEN S
                                 ELSE w[n - 1] \cup UNION {next[i] : i \in w[n - 1]}]
  BY <1>1 DEF Stages
<1> HIDE DEF w
<1>3. w[0] = S
  BY <1>2, MaxItemsAssumption
<1>4. ASSUME NEW n \in 0..(MaxItems - 1)
      PROVE  w[n + 1] = w[n] \cup UNION {next[i] : i \in w[n]}
  <2>1. n + 1 \in 0..MaxItems /\ n + 1 # 0 /\ (n + 1) - 1 = n
    BY MaxItemsAssumption
  <2>2. w[n + 1] = w[(n + 1) - 1] \cup UNION {next[i] : i \in w[(n + 1) - 1]}
    BY <1>2, <2>1
  <2>3. QED  BY <2>1, <2>2
<1>5. QED  BY <1>3, <1>4 DEF w

Closed(C, next) == \A i \in C : next[i] \subseteq C
Graphs == [Items -> SUBSET Items]

\* Each stage has the items it started from, and is a part of every closed
\* set that has them.
LEMMA StageBounds ==
  ASSUME NEW S \in SUBSET Items, NEW next \in Graphs, NEW n \in 0..MaxItems,
         NEW C \in SUBSET Items, S \subseteq C, Closed(C, next)
  PROVE  S \subseteq Within(S, next)[n] /\ Within(S, next)[n] \subseteq C
<1> DEFINE w == Within(S, next)
           Good(k) == S \subseteq w[k] /\ w[k] \subseteq C
           Bad == {k \in 0..MaxItems : ~Good(k)}
<1>1. SUFFICES ASSUME Bad # {} PROVE FALSE
  OBVIOUS
<1>2. PICK k \in Bad : \A l \in Bad : k <= l
  <2>1. Bad \in SUBSET Nat
    OBVIOUS
  <2> HIDE DEF Bad
  <2>2. QED  BY <1>1, <2>1, LeastNumber
<1>3. CASE k = 0
  BY <1>2, <1>3, WithinSteps
<1>4. CASE k # 0
  <2>1. k - 1 \in 0..(MaxItems - 1) /\ k - 1 \notin Bad /\ (k - 1) + 1 = k
    BY <1>2, <1>4, MaxItemsAssumption
  <2>2. w[k] = w[k - 1] \cup UNION {next[i] : i \in w[k - 1]}
    BY <2>1, WithinSteps
  <2>3. Good(k - 1)
    BY <2>1, MaxItemsAssumption
  <2> HIDE DEF w
  <2>4. Good(k)
    BY <2>2, <2>3 DEF Closed
  <2>5. QED  BY <2>4, <1>2
<1>5. QED  BY <1>3, <1>4

\* The pool is finite, with MaxItems items.
LEMMA ItemsFinite == IsFiniteSet(Items) /\ Cardinality(Items) = MaxItems
BY FS_Interval, MaxItemsAssumption DEF Items

\* The whole pool is closed.
LEMMA PoolClosed == ASSUME NEW next \in Graphs PROVE Closed(Items, next)
BY DEF Closed, Graphs

\* A stage that is not closed yet has more items than steps.
LEMMA StageGrows ==
  ASSUME NEW S \in SUBSET Items, NEW next \in Graphs, NEW n \in 0..MaxItems
  PROVE  Closed(Within(S, next)[n], next) \/ Cardinality(Within(S, next)[n]) > n
<1> DEFINE w == Within(S, next)
           Good(k) == Closed(w[k], next) \/ Cardinality(w[k]) > k
           Bad == {k \in 0..MaxItems : ~Good(k)}
<1>1. SUFFICES ASSUME Bad # {} PROVE FALSE
  OBVIOUS
<1>2. PICK k \in Bad : \A l \in Bad : k <= l
  <2>1. Bad \in SUBSET Nat
    OBVIOUS
  <2> HIDE DEF Bad
  <2>2. QED  BY <1>1, <2>1, LeastNumber
<1>3. \A l \in 0..MaxItems : w[l] \subseteq Items /\ IsFiniteSet(w[l]) /\ Cardinality(w[l]) \in Nat
  BY StageBounds, PoolClosed, ItemsFinite, FS_Subset, FS_CardinalityType
<1>4. CASE k = 0
  <2>1. w[0] = S
    BY WithinSteps
  <2>2. S # {}
    BY <2>1, <1>2, <1>4 DEF Closed
  <2>3. Cardinality(w[0]) # 0
    BY <2>1, <2>2, <1>3, MaxItemsAssumption, FS_EmptySet
  <2>4. QED  BY <2>3, <1>3, <1>2, <1>4, MaxItemsAssumption
<1>5. CASE k # 0
  <2>1. k - 1 \in 0..(MaxItems - 1) /\ k - 1 \in 0..MaxItems /\ k - 1 \notin Bad /\ (k - 1) + 1 = k
    BY <1>2, <1>5, MaxItemsAssumption
  <2>2. w[k] = w[k - 1] \cup UNION {next[i] : i \in w[k - 1]}
    BY <2>1, WithinSteps
  <2>3. Good(k - 1)
    BY <2>1
  <2>4. w[k - 1] \subseteq Items
    BY <2>1, <1>3
  <2>5. CASE Closed(w[k - 1], next)
    <3> HIDE DEF w
    <3>1. w[k] = w[k - 1]
      BY <2>2, <2>5 DEF Closed
    <3>2. QED  BY <3>1, <2>5, <1>2
  <2>6. CASE ~Closed(w[k - 1], next) /\ Cardinality(w[k - 1]) > k - 1
    <3>1. w[k - 1] \subseteq w[k] /\ w[k - 1] # w[k]
      <4> HIDE DEF w
      <4>1. PICK i \in w[k - 1] : ~(next[i] \subseteq w[k - 1])
        BY <2>6 DEF Closed
      <4>2. next[i] \subseteq w[k]
        BY <4>1, <2>2
      <4>3. QED  BY <4>1, <4>2, <2>2
    <3>2. Cardinality(w[k - 1]) < Cardinality(w[k])
      <4>1. k \in 0..MaxItems
        BY <1>2
      <4>2. IsFiniteSet(w[k]) /\ Cardinality(w[k]) \in Nat /\ Cardinality(w[k - 1]) \in Nat
        BY <1>3, <4>1, <2>1
      <4> HIDE DEF w
      <4>3. QED  BY <3>1, <4>2, FS_Subset
    <3>3. Cardinality(w[k]) \in Nat /\ Cardinality(w[k - 1]) \in Nat
      BY <1>2, <1>3, <2>1
    <3> HIDE DEF w
    <3>4. Good(k)
      BY <3>2, <3>3, <2>6, <1>2
    <3>5. QED  BY <3>4, <1>2
  <2>7. QED  BY <2>3, <2>5, <2>6
<1>6. QED  BY <1>4, <1>5

\* Closure is the least closed set with the items it starts from.
LEMMA ClosureLeast ==
  ASSUME NEW S \in SUBSET Items, NEW next \in Graphs
  PROVE  /\ Closure(S, next) \in SUBSET Items
         /\ S \subseteq Closure(S, next)
         /\ Closed(Closure(S, next), next)
         /\ \A C \in SUBSET Items : S \subseteq C /\ Closed(C, next) => Closure(S, next) \subseteq C
<1> DEFINE w == Within(S, next)
<1>1. MaxItems \in 0..MaxItems
  BY MaxItemsAssumption
<1>2. w[MaxItems] \subseteq Items /\ S \subseteq w[MaxItems]
  BY <1>1, StageBounds, PoolClosed
<1>3. \A C \in SUBSET Items : S \subseteq C /\ Closed(C, next) => w[MaxItems] \subseteq C
  BY <1>1, StageBounds
<1>4. Cardinality(w[MaxItems]) <= MaxItems /\ Cardinality(w[MaxItems]) \in Nat
  BY <1>2, ItemsFinite, FS_Subset, FS_CardinalityType
<1>5. Closed(w[MaxItems], next)
  BY <1>1, <1>4, StageGrows, MaxItemsAssumption
<1>6. QED  BY <1>2, <1>3, <1>5 DEF Closure

\* The part of ClosureLeast that is needed most.
LEMMA ClosureWithin ==
  ASSUME NEW S \in SUBSET Items, NEW next \in Graphs,
         NEW C \in SUBSET Items, S \subseteq C, Closed(C, next)
  PROVE  Closure(S, next) \subseteq C
BY ClosureLeast

\* What is in it is there from the beginning or a step away from what is.
LEMMA ClosureOrigin ==
  ASSUME NEW S \in SUBSET Items, NEW next \in Graphs, NEW x \in Closure(S, next)
  PROVE  x \in S \/ \E y \in Closure(S, next) : x \in next[y]
<1> DEFINE C == Closure(S, next)
<1>1. SUFFICES ASSUME x \notin S, \A y \in C : x \notin next[y] PROVE FALSE
  OBVIOUS
<1>2. C \in SUBSET Items /\ S \subseteq C /\ Closed(C, next)
  BY ClosureLeast
<1>3. C \ {x} \in SUBSET Items /\ S \subseteq C \ {x} /\ Closed(C \ {x}, next)
  BY <1>1, <1>2 DEF Closed
<1>4. C \subseteq C \ {x}
  BY <1>3, ClosureLeast
<1>5. QED  BY <1>4

\* It does not change with what is outside.
LEMMA ClosureFrame ==
  ASSUME NEW S \in SUBSET Items, NEW next \in Graphs, NEW new \in Graphs,
         \A i \in Closure(S, next) : new[i] = next[i]
  PROVE  Closure(S, new) = Closure(S, next)
<1> DEFINE C == Closure(S, next)
           D == Closure(S, new)
<1>1. /\ C \in SUBSET Items /\ S \subseteq C /\ Closed(C, next)
      /\ D \in SUBSET Items /\ S \subseteq D /\ Closed(D, new)
  BY ClosureLeast
<1>2. Closed(C, new)
  BY <1>1 DEF Closed
<1>3. D \subseteq C
  BY <1>1, <1>2, ClosureLeast
<1>4. Closed(D, next)
  BY <1>1, <1>3 DEF Closed
<1>5. C \subseteq D
  BY <1>1, <1>4, ClosureLeast
<1>6. QED  BY <1>3, <1>5

-----------------------------------------------------------------------------
(* The inductive invariant *)

Ops == {"drop", "forwarders", "remove", "free"}
Tasks == [op : Ops, item : Items, lst : Seq(Items)]

Types ==
  /\ target \in [Slots -> Pointers]
  /\ refCount \in [Items -> Nat]
  /\ forwarder \in [Items -> Pointers]
  /\ size \in 0..MaxItems /\ available \in Pointers
  /\ todo \in Seq(Tasks)

\* The three places of a reference to i: a slot, the forwarder of an item in
\* use, and a task of a removal for a pointer that has been dropped.
Pointing(D, f, i) == {d \in D : f[d] = i}
DropsOf(s, i) == {k \in DOMAIN s : s[k].op = "drop" /\ s[k].item = i}

Counts ==
  \A i \in Items :
    refCount[i] = Cardinality(Pointing(Slots, target, i))
                  + Cardinality(Pointing(InUse, forwarder, i))
                  + Cardinality(DropsOf(todo, i))

\* The items that are available are a chain from available on, without a fork.
Chain ==
  /\ Available \subseteq 1..size
  /\ \A i \in Available : forwarder[i] # available
  /\ \A i, j \in Available : forwarder[i] = forwarder[j] /\ forwarder[i] # NULL => i = j

\* An item that is not in use has no reference and refers to nothing but, by
\* its forwarder, the next available one.
Blank ==
  \A i \in Items \ InUse :
    refCount[i] = 0 /\ target[First(i)] = NULL /\ target[Rest(i)] = NULL

\* The items a task is going to clear: they are in use without a reference,
\* each is cleared once, and every item like that is among them.
Doomed(t) ==
  {i \in Items : \/ t.op \in {"remove", "free"} /\ t.item = i
                 \/ t.op = "forwarders" /\ \E n \in DOMAIN t.lst : t.lst[n] = i}

Condemned ==
  /\ \A k \in DOMAIN todo : \A i \in Doomed(todo[k]) : i \in InUse /\ refCount[i] = 0
  /\ \A k, l \in DOMAIN todo : k # l => Doomed(todo[k]) \cap Doomed(todo[l]) = {}
  /\ \A i \in InUse : refCount[i] = 0 => \E k \in DOMAIN todo : i \in Doomed(todo[k])

\* The walk along a chain of forwarders is the first task; it begins at an
\* item that the next task clears and goes on at the last one it has collected.
Walking ==
  /\ \A k \in DOMAIN todo : todo[k].op = "forwarders" => k = 1
  /\ Current("forwarders") =>
       LET lst == Head(todo).lst
       IN  /\ \A m, n \in DOMAIN lst : lst[m] = lst[n] => m = n
           /\ IF lst = <<>> THEN 2 \in DOMAIN todo /\ todo[2] = Task("remove", Item, <<>>)
                            ELSE lst[Len(lst)] = Item

\* What a task clears has no forwarder any more, but where the walk is; what
\* waits to be available has nothing in it.
Emptied ==
  /\ \A k \in DOMAIN todo : \A i \in Doomed(todo[k]) :
       forwarder[i] = NULL \/ (Current("forwarders") /\ i = Item)
  /\ \A k \in DOMAIN todo : todo[k].op = "free" =>
       target[First(todo[k].item)] = NULL /\ target[Rest(todo[k].item)] = NULL

\* References do not go round: among any items of D there is one from which
\* no step leads to another of them, and one to which none leads.
Acyclic(D, next) ==
  /\ \A U \in SUBSET D : U # {} => \E u \in U : \A v \in U : v \notin next[u]
  /\ \A U \in SUBSET D : U # {} => \E u \in U : \A v \in U : u \notin next[v]

Inv ==
  /\ Types /\ Counts /\ Chain /\ Blank
  /\ Condemned /\ Walking /\ Emptied
  /\ Acyclic(InUse, Referred)

-----------------------------------------------------------------------------
(* Graphs and sets of items *)

\* The graphs and the sets of the model, of any values of the variables.
Forwarders == [Items -> Pointers]
Targets == [Slots -> Pointers]
ForwardedBy(fwd) == [i \in Items |-> {fwd[i]} \ {NULL}]
ReferredBy(t, fwd) == [i \in Items |-> {t[First(i)], t[Rest(i)], fwd[i]} \ {NULL}]
AvailableFrom(a, fwd) == Closure({a} \ {NULL}, ForwardedBy(fwd))

\* The fields of an item are slots.
LEMMA SlotsOfItem == \A i \in Items : First(i) \in Slots /\ Rest(i) \in Slots
BY DEF First, Rest, Slots, Fields

\* Forwarders lead from items to items.
LEMMA ForwardedGraph ==
  ASSUME NEW fwd \in Forwarders
  PROVE  ForwardedBy(fwd) \in Graphs
<1>1. \A i \in Items : {fwd[i]} \ {NULL} \in SUBSET Items
  BY DEF Forwarders, Pointers
<1>2. QED  BY <1>1 DEF ForwardedBy, Graphs

\* So do fields and forwarders together.
LEMMA ReferredGraph ==
  ASSUME NEW t \in Targets, NEW fwd \in Forwarders
  PROVE  ReferredBy(t, fwd) \in Graphs
<1>1. ASSUME NEW i \in Items
      PROVE  {t[First(i)], t[Rest(i)], fwd[i]} \ {NULL} \in SUBSET Items
  <2>1. t[First(i)] \in Pointers /\ t[Rest(i)] \in Pointers /\ fwd[i] \in Pointers
    BY SlotsOfItem DEF Forwarders, Targets
  <2>2. QED  BY <2>1 DEF Pointers
<1>2. QED  BY <1>1 DEF ReferredBy, Graphs

\* The items that are available: available itself, and with each the next.
LEMMA AvailableChain ==
  ASSUME NEW a \in Pointers, NEW fwd \in Forwarders
  PROVE  /\ AvailableFrom(a, fwd) \in SUBSET Items
         /\ a # NULL => a \in AvailableFrom(a, fwd)
         /\ a = NULL => AvailableFrom(a, fwd) = {}
         /\ \A i \in AvailableFrom(a, fwd) :
              /\ fwd[i] # NULL => fwd[i] \in AvailableFrom(a, fwd)
              /\ i = a \/ \E j \in AvailableFrom(a, fwd) : fwd[j] = i
<1> DEFINE A == AvailableFrom(a, fwd)
           S == {a} \ {NULL}
           next == ForwardedBy(fwd)
<1>1. S \in SUBSET Items /\ next \in Graphs
  <2>1. next \in Graphs
    BY ForwardedGraph
  <2>2. QED  BY <2>1 DEF Pointers
<1>2. \A i \in Items : next[i] = {fwd[i]} \ {NULL}
  BY DEF ForwardedBy
<1>3. A = Closure(S, next)
  BY DEF AvailableFrom
<1> HIDE DEF A, next
<1>4. A \in SUBSET Items /\ S \subseteq A /\ Closed(A, next)
  BY <1>1, <1>3, ClosureLeast
<1>5. a = NULL => A = {}
  <2>1. SUFFICES ASSUME a = NULL PROVE A \subseteq {}
    OBVIOUS
  <2>2. {} \in SUBSET Items /\ S \subseteq {} /\ Closed({}, next)
    BY <2>1 DEF Closed
  <2>3. QED  BY <2>2, <1>1, <1>3, ClosureLeast
<1>6. ASSUME NEW i \in A
      PROVE  /\ fwd[i] # NULL => fwd[i] \in A
             /\ i = a \/ \E j \in A : fwd[j] = i
  <2>1. fwd[i] # NULL => fwd[i] \in A
    BY <1>2, <1>4 DEF Closed
  <2>2. i \in S \/ \E j \in A : i \in next[j]
    BY <1>1, <1>3, ClosureOrigin
  <2>3. QED  BY <2>1, <2>2, <1>2, <1>4
<1>7. QED  BY <1>4, <1>5, <1>6 DEF A

\* They do not change with what is outside of the chain.
LEMMA AvailableFrame ==
  ASSUME NEW a \in Pointers, NEW fwd \in Forwarders, NEW new \in Forwarders,
         \A i \in AvailableFrom(a, fwd) : new[i] = fwd[i]
  PROVE  AvailableFrom(a, new) = AvailableFrom(a, fwd)
<1>1. ForwardedBy(fwd) \in Graphs /\ ForwardedBy(new) \in Graphs /\ {a} \ {NULL} \in SUBSET Items
  BY ForwardedGraph DEF Pointers
<1>2. AvailableFrom(a, fwd) \subseteq Items
  BY AvailableChain
<1>3. \A i \in AvailableFrom(a, fwd) : ForwardedBy(new)[i] = ForwardedBy(fwd)[i]
  BY <1>2 DEF ForwardedBy
<1>4. QED  BY <1>1, <1>3, ClosureFrame DEF AvailableFrom

\* An item of which nothing else leads to it is taken from the front.
LEMMA AvailableTaken ==
  ASSUME NEW a \in Items, NEW fwd \in Forwarders, NEW new \in Forwarders,
         \A i \in AvailableFrom(a, fwd) : fwd[i] # a,
         \A i \in AvailableFrom(a, fwd) \ {a} : new[i] = fwd[i]
  PROVE  AvailableFrom(fwd[a], new) = AvailableFrom(a, fwd) \ {a}
<1> DEFINE A == AvailableFrom(a, fwd)
           B == AvailableFrom(fwd[a], new)
           b == fwd[a]
<1>0. a \in Pointers /\ a # NULL /\ b \in Pointers
  BY MaxItemsAssumption DEF Pointers, Forwarders, Items, NULL
<1>1. /\ A \in SUBSET Items /\ a \in A /\ \A i \in A : fwd[i] # NULL => fwd[i] \in A
      /\ B \in SUBSET Items /\ (b # NULL => b \in B) /\ \A i \in B : new[i] # NULL => new[i] \in B
  BY <1>0, AvailableChain
<1>2. ForwardedBy(fwd) \in Graphs /\ ForwardedBy(new) \in Graphs
      /\ {a} \ {NULL} \in SUBSET Items /\ {b} \ {NULL} \in SUBSET Items
  BY <1>0, ForwardedGraph DEF Pointers
<1>3. B \subseteq A \ {a}
  <2>1. Closed(A \ {a}, ForwardedBy(new))
    <3>1. ASSUME NEW i \in A \ {a} PROVE ForwardedBy(new)[i] \subseteq A \ {a}
      <4>1. ForwardedBy(new)[i] = {fwd[i]} \ {NULL}
        BY <1>1 DEF ForwardedBy
      <4>2. QED  BY <4>1, <1>1
    <3>2. QED  BY <3>1 DEF Closed
  <2>2. {b} \ {NULL} \subseteq A \ {a} /\ A \ {a} \in SUBSET Items
    BY <1>1
  <2>3. B = Closure({b} \ {NULL}, ForwardedBy(new))
    BY DEF AvailableFrom
  <2> HIDE DEF A, B, b
  <2>4. QED  BY <2>1, <2>2, <2>3, <1>2, ClosureLeast
<1>4. A \subseteq B \cup {a}
  <2>1. Closed(B \cup {a}, ForwardedBy(fwd))
    <3>1. ASSUME NEW i \in B \cup {a} PROVE ForwardedBy(fwd)[i] \subseteq B \cup {a}
      <4>1. ForwardedBy(fwd)[i] = {fwd[i]} \ {NULL}
        BY <1>1 DEF ForwardedBy
      <4>2. CASE i = a
        BY <4>1, <4>2, <1>1
      <4>3. CASE i # a
        BY <4>1, <4>3, <1>1, <1>3
      <4>4. QED  BY <4>2, <4>3
    <3>2. QED  BY <3>1 DEF Closed
  <2>2. {a} \ {NULL} \subseteq B \cup {a} /\ B \cup {a} \in SUBSET Items
    BY <1>1
  <2>3. QED  BY <2>1, <2>2, <1>2, ClosureLeast DEF AvailableFrom
<1>5. QED  BY <1>3, <1>4, <1>1

\* An item that was not among them is put in front.
LEMMA AvailablePut ==
  ASSUME NEW a \in Pointers, NEW fwd \in Forwarders, NEW new \in Forwarders,
         NEW i \in Items, i \notin AvailableFrom(a, fwd), new[i] = a,
         \A j \in AvailableFrom(a, fwd) : new[j] = fwd[j]
  PROVE  AvailableFrom(i, new) = AvailableFrom(a, fwd) \cup {i}
<1> DEFINE A == AvailableFrom(a, fwd)
           B == AvailableFrom(i, new)
<1>0. i \in Pointers /\ i # NULL
  BY MaxItemsAssumption DEF Pointers, Items, NULL
<1>1. A = AvailableFrom(a, new)
  BY AvailableFrame
<1>2. /\ A \in SUBSET Items /\ (a # NULL => a \in A)
      /\ \A j \in A : new[j] # NULL => new[j] \in A
  BY <1>1, AvailableChain
<1>3. /\ B \in SUBSET Items /\ i \in B
      /\ \A j \in B : new[j] # NULL => new[j] \in B
  BY <1>0, AvailableChain
<1>4. ForwardedBy(new) \in Graphs
      /\ {a} \ {NULL} \in SUBSET Items /\ {i} \ {NULL} \in SUBSET Items
  BY <1>0, ForwardedGraph DEF Pointers
<1>5. \A j \in Items : ForwardedBy(new)[j] = {new[j]} \ {NULL}
  BY DEF ForwardedBy
<1>6. Closed(A \cup {i}, ForwardedBy(new)) /\ A \cup {i} \in SUBSET Items
  BY <1>2, <1>5 DEF Closed
<1>7. B \subseteq A \cup {i}
  <2>1. B = Closure({i} \ {NULL}, ForwardedBy(new)) /\ {i} \ {NULL} \subseteq A \cup {i}
    BY DEF AvailableFrom
  <2> HIDE DEF A, B
  <2>2. QED  BY <2>1, <1>6, <1>4, ClosureLeast
<1>8. Closed(B, ForwardedBy(new)) /\ {a} \ {NULL} \subseteq B
  BY <1>3, <1>5 DEF Closed
<1>9. A \subseteq B
  <2>1. AvailableFrom(a, new) \subseteq B
    BY <1>8, <1>3, <1>4, ClosureLeast DEF AvailableFrom
  <2>2. QED  BY <2>1, <1>1
<1>10. QED  BY <1>3, <1>7, <1>9

-----------------------------------------------------------------------------
(* Counting *)

One(x, i) == IF x = i THEN 1 ELSE 0

\* There are finitely many slots, so pointers can be counted.
LEMMA SlotsFinite == IsFiniteSet(Slots)
<1>1. IsFiniteSet({"first", "rest"})
  <2>1. {"first", "rest"} = {"first"} \cup {"rest"}
    OBVIOUS
  <2>2. IsFiniteSet({"first"}) /\ IsFiniteSet({"rest"})
    BY FS_Singleton
  <2>3. QED  BY <2>1, <2>2, FS_Union
<1>2. IsFiniteSet(Fields)
  BY <1>1, ItemsFinite, FS_Product DEF Fields
<1>3. QED  BY <1>2, HandlesAssumption, FS_Union DEF Slots

\* The places that point to i have a number.
LEMMA PointingFinite ==
  ASSUME NEW D, IsFiniteSet(D), NEW f, NEW i
  PROVE  IsFiniteSet(Pointing(D, f, i)) /\ Cardinality(Pointing(D, f, i)) \in Nat
BY FS_Subset, FS_CardinalityType DEF Pointing

\* The pointers to i when the one at s becomes another one.
LEMMA PointingMoves ==
  ASSUME NEW D, IsFiniteSet(D), NEW f, NEW g, NEW s \in D, NEW i,
         \A d \in D : d # s => g[d] = f[d]
  PROVE  Cardinality(Pointing(D, g, i))
           = Cardinality(Pointing(D, f, i)) + One(g[s], i) - One(f[s], i)
<1> DEFINE F == Pointing(D, f, i)
           G == Pointing(D, g, i)
<1>1. /\ IsFiniteSet(F) /\ Cardinality(F) \in Nat
      /\ IsFiniteSet(G) /\ Cardinality(G) \in Nat
  BY PointingFinite
<1>2. s \in F <=> f[s] = i
  BY DEF Pointing
<1>3. s \in G <=> g[s] = i
  BY DEF Pointing
<1>4. F \ {s} = G \ {s}
  BY DEF Pointing
<1> HIDE DEF F, G
<1>5. Cardinality(F \ {s}) = IF f[s] = i THEN Cardinality(F) - 1 ELSE Cardinality(F)
  <2>1. Cardinality(F \ {s}) = IF s \in F THEN Cardinality(F) - 1 ELSE Cardinality(F)
    BY <1>1, FS_RemoveElement
  <2>2. QED  BY <2>1, <1>2
<1>6. Cardinality(G \ {s}) = IF g[s] = i THEN Cardinality(G) - 1 ELSE Cardinality(G)
  <2>1. Cardinality(G \ {s}) = IF s \in G THEN Cardinality(G) - 1 ELSE Cardinality(G)
    BY <1>1, FS_RemoveElement
  <2>2. QED  BY <2>1, <1>3
<1>7. Cardinality(F \ {s}) = Cardinality(G \ {s})
  BY <1>4
<1> DEFINE x == Cardinality(F)
           y == Cardinality(G)
<1>8. y = x + One(g[s], i) - One(f[s], i)
  <2>1. x \in Nat /\ y \in Nat
    BY <1>1
  <2>2. (IF f[s] = i THEN x - 1 ELSE x) = (IF g[s] = i THEN y - 1 ELSE y)
    BY <1>5, <1>6, <1>7
  <2> HIDE DEF x, y
  <2>3. QED  BY <2>1, <2>2 DEF One
<1>9. QED  BY <1>8 DEF F, G

\* One pointer is cleared, or two.
ClearedOne(D, f, h, s) == h[s] = NULL /\ \A d \in D : d # s => h[d] = f[d]
ClearedAt(D, f, g, s, r) ==
  g[s] = NULL /\ g[r] = NULL /\ \A d \in D : d # s /\ d # r => g[d] = f[d]

\* The pointers to i when those at s and at r are cleared.
LEMMA PointingCleared ==
  ASSUME NEW D, IsFiniteSet(D), NEW f, NEW g, NEW s \in D, NEW r \in D, s # r,
         ClearedAt(D, f, g, s, r), NEW i \in Items
  PROVE  Cardinality(Pointing(D, g, i))
           = Cardinality(Pointing(D, f, i)) - One(f[s], i) - One(f[r], i)
<1>1. PICK h : ClearedOne(D, f, h, s)
  <2> DEFINE e == [d \in D |-> IF d = s THEN NULL ELSE f[d]]
  <2>1. e[s] = NULL /\ \A d \in D : d # s => e[d] = f[d]
    OBVIOUS
  <2> HIDE DEF e
  <2>2. QED  BY <2>1 DEF ClearedOne
<1>2. h[s] = NULL /\ h[r] = f[r] /\ \A d \in D : d # s => h[d] = f[d]
  BY <1>1 DEF ClearedOne
<1>3. \A d \in D : d # r => h[d] = g[d]
  BY <1>2 DEF ClearedAt
<1>4. Cardinality(Pointing(D, h, i)) = Cardinality(Pointing(D, f, i)) + One(h[s], i) - One(f[s], i)
  BY <1>2, PointingMoves
<1>5. Cardinality(Pointing(D, h, i)) = Cardinality(Pointing(D, g, i)) + One(h[r], i) - One(g[r], i)
  BY <1>3, PointingMoves
<1>6. NULL # i
  BY MaxItemsAssumption DEF Items, NULL
<1>7. One(g[r], i) = 0 /\ One(h[s], i) = 0 /\ One(f[s], i) \in Int /\ One(f[r], i) \in Int
  BY <1>2, <1>6 DEF One, ClearedAt
<1>8. /\ Cardinality(Pointing(D, f, i)) \in Nat /\ Cardinality(Pointing(D, g, i)) \in Nat
      /\ Cardinality(Pointing(D, h, i)) \in Nat
  BY PointingFinite
<1>9. QED  BY <1>2, <1>4, <1>5, <1>7, <1>8

\* The pointers to i when there is one more place for them.
LEMMA PointingGrows ==
  ASSUME NEW D, IsFiniteSet(D), NEW f, NEW g, NEW s, s \notin D, NEW i,
         \A d \in D : g[d] = f[d]
  PROVE  Cardinality(Pointing(D \cup {s}, g, i)) = Cardinality(Pointing(D, f, i)) + One(g[s], i)
<1> DEFINE F == Pointing(D, f, i)
           G == Pointing(D \cup {s}, g, i)
<1>1. IsFiniteSet(F) /\ Cardinality(F) \in Nat
  BY PointingFinite
<1>2. s \notin F
  BY DEF Pointing
<1>3. G = IF g[s] = i THEN F \cup {s} ELSE F
  BY DEF Pointing
<1> HIDE DEF F, G
<1>4. Cardinality(F \cup {s}) = Cardinality(F) + 1
  BY <1>1, <1>2, FS_AddElement
<1>5. Cardinality(G) = Cardinality(F) + One(g[s], i)
  BY <1>1, <1>3, <1>4 DEF One
<1>6. QED  BY <1>5 DEF F, G

\* So have the tasks that drop a pointer to i.
LEMMA DropsFinite ==
  ASSUME NEW s \in Seq(Tasks), NEW i
  PROVE  IsFiniteSet(DropsOf(s, i)) /\ Cardinality(DropsOf(s, i)) \in Nat
<1>1. IsFiniteSet(1..Len(s)) /\ DropsOf(s, i) \subseteq 1..Len(s)
  BY FS_Interval DEF DropsOf
<1>2. QED  BY <1>1, FS_Subset, FS_CardinalityType

\* Dropped pointers in one list of tasks after another.
LEMMA DropsJoined ==
  ASSUME NEW s \in Seq(Tasks), NEW r \in Seq(Tasks), NEW i
  PROVE  Cardinality(DropsOf(s \o r, i)) = Cardinality(DropsOf(s, i)) + Cardinality(DropsOf(r, i))
<1> DEFINE A == DropsOf(s, i)
           B == DropsOf(r, i)
           C == {k \in (Len(s) + 1)..(Len(s) + Len(r)) : r[k - Len(s)].op = "drop" /\ r[k - Len(s)].item = i}
<1>1. IsFiniteSet(A) /\ IsFiniteSet(B) /\ Cardinality(A) \in Nat /\ Cardinality(B) \in Nat
  BY DropsFinite
<1>2. DropsOf(s \o r, i) = A \cup C
  <2>1. /\ DOMAIN (s \o r) = 1..(Len(s) + Len(r)) /\ DOMAIN s = 1..Len(s) /\ Len(s) \in Nat /\ Len(r) \in Nat
        /\ \A k \in 1..(Len(s) + Len(r)) : (s \o r)[k] = IF k <= Len(s) THEN s[k] ELSE r[k - Len(s)]
    OBVIOUS
  <2>2. QED  BY <2>1 DEF DropsOf
<1>3. A \cap C = {}
  <2>1. A \subseteq 1..Len(s) /\ Len(s) \in Nat
    BY DEF DropsOf
  <2>2. QED  BY <2>1
<1>4. ExistsBijection(B, C)
  <2> DEFINE f == [k \in B |-> k + Len(s)]
  <2>1. B \subseteq 1..Len(r) /\ Len(s) \in Nat /\ Len(r) \in Nat
    BY DEF DropsOf
  <2>2. \A k \in 1..Len(r) : k \in B <=> r[k].op = "drop" /\ r[k].item = i
    BY DEF DropsOf
  <2>3. f \in [B -> C]
    <3>1. ASSUME NEW k \in B PROVE k + Len(s) \in C
      <4>1. k \in 1..Len(r) /\ (k + Len(s)) - Len(s) = k
        BY <2>1
      <4>2. QED  BY <4>1, <2>1, <2>2
    <3> HIDE DEF C, B
    <3>2. QED  BY <3>1
  <2>4. \A k, l \in B : f[k] = f[l] => k = l
    <3> HIDE DEF B
    <3>1. QED  BY <2>1
  <2>5. \A c \in C : \E k \in B : f[k] = c
    <3>1. ASSUME NEW c \in C PROVE \E k \in B : f[k] = c
      <4>1. c - Len(s) \in 1..Len(r) /\ (c - Len(s)) + Len(s) = c
        BY <2>1
      <4>2. c - Len(s) \in B
        BY <4>1, <2>2
      <4> HIDE DEF B, C
      <4>3. QED  BY <4>1, <4>2
    <3>2. QED  BY <3>1
  <2> HIDE DEF f, B, C
  <2>6. QED  BY <2>3, <2>4, <2>5 DEF ExistsBijection, Bijection, Injection, Surjection, IsInjective
<1>5. IsFiniteSet(C) /\ Cardinality(C) = Cardinality(B)
  BY <1>1, <1>4, FS_Bijection
<1> HIDE DEF A, B, C
<1>6. Cardinality(A \cup C) = Cardinality(A) + Cardinality(C)
  <2>1. Cardinality(A \cup C) = Cardinality(A) + Cardinality(C) - Cardinality(A \cap C)
    BY <1>1, <1>5, FS_Union
  <2>2. Cardinality(A \cap C) = 0
    BY <1>3, FS_EmptySet
  <2>3. QED  BY <2>1, <2>2, <1>1, <1>5
<1>7. QED  BY <1>2, <1>5, <1>6 DEF A, B

-----------------------------------------------------------------------------
(* References do not go round *)

\* Fewer items and fewer references do not go round either.
LEMMA AcyclicLess ==
  ASSUME NEW D, NEW next, Acyclic(D, next), NEW E \in SUBSET D, NEW new,
         \A u \in E : new[u] \subseteq next[u]
  PROVE  Acyclic(E, new)
<1>1. ASSUME NEW U \in SUBSET E, U # {}
      PROVE  \E u \in U : \A v \in U : v \notin new[u]
  <2>1. PICK u \in U : \A v \in U : v \notin next[u]
    BY <1>1 DEF Acyclic
  <2>2. QED  BY <2>1
<1>2. ASSUME NEW U \in SUBSET E, U # {}
      PROVE  \E u \in U : \A v \in U : u \notin new[v]
  <2>1. PICK u \in U : \A v \in U : u \notin next[v]
    BY <1>2 DEF Acyclic
  <2>2. QED  BY <2>1
<1>3. QED  BY <1>1, <1>2 DEF Acyclic

\* A new item, to which nothing refers.
LEMMA AcyclicMore ==
  ASSUME NEW D, NEW next, Acyclic(D, next), NEW i, NEW new,
         \A u \in D : new[u] \subseteq next[u],
         \A u \in D \cup {i} : i \notin new[u]
  PROVE  Acyclic(D \cup {i}, new)
<1>1. ASSUME NEW U \in SUBSET (D \cup {i}), U # {}
      PROVE  \E u \in U : \A v \in U : v \notin new[u]
  <2>1. CASE U \subseteq {i}
    BY <1>1, <2>1
  <2>2. CASE ~(U \subseteq {i})
    <3>1. U \ {i} \in SUBSET D /\ U \ {i} # {}
      BY <2>2
    <3>2. PICK u \in U \ {i} : \A v \in U \ {i} : v \notin next[u]
      BY <3>1 DEF Acyclic
    <3>3. QED  BY <3>1, <3>2
  <2>3. QED  BY <2>1, <2>2
<1>2. ASSUME NEW U \in SUBSET (D \cup {i}), U # {}
      PROVE  \E u \in U : \A v \in U : u \notin new[v]
  <2>1. CASE i \in U
    BY <2>1
  <2>2. CASE i \notin U
    <3>1. U \in SUBSET D
      BY <2>2
    <3>2. PICK u \in U : \A v \in U : u \notin next[v]
      BY <3>1, <1>2 DEF Acyclic
    <3>3. QED  BY <3>1, <3>2
  <2>3. QED  BY <2>1, <2>2
<1>3. QED  BY <1>1, <1>2 DEF Acyclic

\* A step from g to h when g cannot be reached from h.
LEMMA AcyclicEdge ==
  ASSUME NEW D, NEW next, Acyclic(D, next), NEW R, Closed(R, next),
         NEW g, NEW h \in R, g \notin R, NEW new,
         \A u \in D : u # g => new[u] \subseteq next[u],
         g \in D => new[g] \subseteq next[g] \cup {h}
  PROVE  Acyclic(D, new)
<1>1. ASSUME NEW U \in SUBSET D, U # {}
      PROVE  \E u \in U : \A v \in U : v \notin new[u]
  <2>1. CASE U \cap R # {}
    <3>1. PICK u \in U \cap R : \A v \in U \cap R : v \notin next[u]
      BY <2>1 DEF Acyclic
    <3>2. \A v \in U : v \notin new[u]
      BY <3>1 DEF Closed
    <3>3. QED  BY <3>2
  <2>2. CASE U \cap R = {}
    <3>1. PICK u \in U : \A v \in U : v \notin next[u]
      BY <1>1 DEF Acyclic
    <3>2. QED  BY <3>1, <2>2
  <2>3. QED  BY <2>1, <2>2
<1>2. ASSUME NEW U \in SUBSET D, U # {}
      PROVE  \E u \in U : \A v \in U : u \notin new[v]
  <2>1. CASE U \ R # {}
    <3>1. PICK u \in U \ R : \A v \in U \ R : u \notin next[v]
      BY <2>1 DEF Acyclic
    <3>2. ASSUME NEW v \in U PROVE u \notin new[v]
      <4>1. u \notin next[v]
        BY <3>1 DEF Closed
      <4>2. QED  BY <4>1, <3>1
    <3>3. QED  BY <3>2
  <2>2. CASE U \ R = {}
    <3>1. PICK u \in U : \A v \in U : u \notin next[v]
      BY <1>2 DEF Acyclic
    <3>2. QED  BY <3>1, <2>2
  <2>3. QED  BY <2>1, <2>2
<1>3. QED  BY <1>1, <1>2 DEF Acyclic

\* A step from j over x and a chain C from there to e is shortened to one.
LEMMA AcyclicShortcut ==
  ASSUME NEW D, NEW next, Acyclic(D, next), NEW j \in D, NEW C \in SUBSET D,
         NEW x \in C, x \in next[j], NEW e \in C,
         \A c \in C : c # e => \E d \in C : d \in next[c],
         \A c \in C : c # x => \E d \in C : c \in next[d],
         NEW new,
         \A u \in D : u # j => new[u] \subseteq next[u],
         new[j] \subseteq next[j] \cup {e}
  PROVE  Acyclic(D, new)
<1>1. ASSUME NEW U \in SUBSET D, U # {}, \A u \in U : \E v \in U : v \in new[u]
      PROVE  FALSE
  <2>1. CASE j \in U /\ e \in U
    <3>1. ASSUME NEW u \in U \cup C PROVE \E v \in U \cup C : v \in next[u]
      <4>1. CASE u = j
        BY <4>1
      <4>2. CASE u \in U /\ u # j
        BY <4>2, <1>1
      <4>3. CASE u \in C /\ u # e
        BY <4>3
      <4>4. QED  BY <4>1, <4>2, <4>3, <2>1
    <3>2. U \cup C \in SUBSET D /\ U \cup C # {}
      BY <1>1
    <3>3. QED  BY <3>1, <3>2 DEF Acyclic
  <2>2. CASE ~(j \in U /\ e \in U)
    <3>1. ASSUME NEW u \in U PROVE \E v \in U : v \in next[u]
      BY <1>1, <2>2
    <3>2. QED  BY <3>1, <1>1 DEF Acyclic
  <2>3. QED  BY <2>1, <2>2
<1>2. ASSUME NEW U \in SUBSET D, U # {}, \A u \in U : \E v \in U : u \in new[v]
      PROVE  FALSE
  <2>1. CASE j \in U /\ e \in U
    <3>1. ASSUME NEW u \in U \cup C PROVE \E v \in U \cup C : u \in next[v]
      <4>1. CASE u = x
        BY <4>1, <2>1
      <4>2. CASE u \in C /\ u # x
        BY <4>2
      <4>3. CASE u \in U /\ u # e
        <5>1. PICK v \in U : u \in new[v]
          BY <4>3, <1>2
        <5>2. u \in next[v]
          BY <5>1, <4>3
        <5>3. QED  BY <5>2
      <4>4. QED  BY <4>1, <4>2, <4>3
    <3>2. U \cup C \in SUBSET D /\ U \cup C # {}
      BY <1>2
    <3>3. PICK u \in U \cup C : \A v \in U \cup C : u \notin next[v]
      BY <3>2 DEF Acyclic
    <3>4. QED  BY <3>1, <3>3
  <2>2. CASE ~(j \in U /\ e \in U)
    <3>1. ASSUME NEW u \in U PROVE \E v \in U : u \in next[v]
      BY <1>2, <2>2
    <3>2. PICK u \in U : \A v \in U : u \notin next[v]
      BY <1>2 DEF Acyclic
    <3>3. QED  BY <3>1, <3>2
  <2>3. QED  BY <2>1, <2>2
<1>3. QED  BY <1>1, <1>2 DEF Acyclic

\* A chain of forwarders has one end.
LEMMA OneEnd ==
  ASSUME NEW fwd \in Forwarders, NEW x \in Items,
         NEW c \in Closure({x}, ForwardedBy(fwd)), fwd[c] = NULL,
         NEW e \in Closure({x}, ForwardedBy(fwd)), fwd[e] = NULL
  PROVE  c = e
<1> DEFINE next == ForwardedBy(fwd)
           From(i) == Closure({i}, next)
           D == {d \in From(x) : c \in From(d)}
<1>1. next \in Graphs /\ \A i \in Items : next[i] = {fwd[i]} \ {NULL}
  BY ForwardedGraph DEF ForwardedBy
<1> HIDE DEF next
<1>2. ASSUME NEW i \in Items PROVE From(i) \in SUBSET Items /\ i \in From(i) /\ Closed(From(i), next)
  BY <1>1, ClosureLeast
<1>3. x \in D /\ D \in SUBSET Items
  BY <1>2 DEF next
<1>4. ASSUME NEW d \in D, fwd[d] # NULL PROVE fwd[d] \in D
  <2>1. d \in Items /\ fwd[d] \in Items
    BY <1>3, <1>4 DEF Forwarders, Pointers
  <2>2. fwd[d] \in From(x)
    BY <1>2, <1>1, <1>4, <2>1 DEF Closed
  <2>3. From(d) \subseteq {d} \cup From(fwd[d])
    <3>1. Closed({d} \cup From(fwd[d]), next) /\ {d} \cup From(fwd[d]) \in SUBSET Items
      <4>1. next[d] = {fwd[d]}
        BY <1>1, <1>4, <2>1
      <4>2. fwd[d] \in From(fwd[d]) /\ Closed(From(fwd[d]), next) /\ From(fwd[d]) \in SUBSET Items
        BY <1>2, <2>1
      <4> HIDE DEF From
      <4>3. QED  BY <4>1, <4>2, <2>1 DEF Closed
    <3>2. {d} \in SUBSET Items /\ {d} \subseteq {d} \cup From(fwd[d])
      BY <2>1
    <3>3. QED  BY <3>1, <3>2, <1>1, ClosureWithin
  <2>4. c # d
    BY <1>4
  <2>5. c \in From(fwd[d])
    BY <2>3, <2>4
  <2>6. QED  BY <2>2, <2>5
<1>5. Closed(D, next)
  <2>1. ASSUME NEW d \in D PROVE next[d] \subseteq D
    <3>1. next[d] = {fwd[d]} \ {NULL}
      BY <1>1, <1>3
    <3> HIDE DEF D
    <3>2. QED  BY <3>1, <1>4
  <2>2. QED  BY <2>1 DEF Closed
<1>6. From(x) \subseteq D
  <2> HIDE DEF D
  <2>1. QED  BY <1>1, <1>3, <1>5, ClosureWithin
<1>7. c \in From(e) /\ e \in Items
  BY <1>6, <1>2 DEF next
<1>8. From(e) \subseteq {e}
  <2>1. Closed({e}, next) /\ {e} \in SUBSET Items
    BY <1>1, <1>7 DEF Closed
  <2>2. QED  BY <2>1, <1>1, ClosureLeast
<1>9. QED  BY <1>7, <1>8

-----------------------------------------------------------------------------
(* What the invariant says of a state *)

\* The model's sets and graphs, before and after a step.
LEMMA Views ==
  /\ Available = AvailableFrom(available, forwarder)
  /\ Available' = AvailableFrom(available', forwarder')
  /\ Forwarded = ForwardedBy(forwarder)
  /\ Referred = ReferredBy(target, forwarder)
  /\ Referred' = ReferredBy(target', forwarder')
BY DEF Available, AvailableFrom, Forwarded, ForwardedBy, Referred, ReferredBy

\* The null pointer is told from every item.
LEMMA NullIsNoItem == NULL \notin Items
BY MaxItemsAssumption DEF Items, NULL

\* What the types say of the sets and graphs of the model.
LEMMA PoolTypes ==
  ASSUME Types
  PROVE  /\ Available \in SUBSET Items /\ InUse \in SUBSET Items /\ IsFiniteSet(InUse)
         /\ Forwarded \in Graphs /\ Referred \in Graphs
         /\ 1..size \in SUBSET Items
         /\ forwarder \in Forwarders /\ target \in Targets
<1>1. forwarder \in Forwarders /\ target \in Targets /\ available \in Pointers
  BY DEF Types, Forwarders, Targets
<1>2. 1..size \in SUBSET Items /\ IsFiniteSet(1..size)
  BY MaxItemsAssumption, FS_Interval DEF Types, Items
<1>3. InUse \in SUBSET (1..size)
  BY DEF InUse
<1>4. QED  BY <1>1, <1>2, <1>3, Views, AvailableChain, ForwardedGraph, ReferredGraph, FS_Subset

\* The three numbers whose sum is a count.
LEMMA CountTypes ==
  ASSUME Types, NEW i \in Items
  PROVE  /\ Cardinality(Pointing(Slots, target, i)) \in Nat
         /\ Cardinality(Pointing(InUse, forwarder, i)) \in Nat
         /\ Cardinality(DropsOf(todo, i)) \in Nat
BY PoolTypes, SlotsFinite, PointingFinite, DropsFinite DEF Types

\* Whatever a reference leads to has a count and is in use.
LEMMA Counted ==
  ASSUME Inv, NEW i \in Items,
         \/ \E s \in Slots : target[s] = i
         \/ \E j \in InUse : forwarder[j] = i
         \/ \E k \in DOMAIN todo : todo[k].op = "drop" /\ todo[k].item = i
  PROVE  refCount[i] > 0 /\ i \in InUse
<1> DEFINE S == Pointing(Slots, target, i)
           F == Pointing(InUse, forwarder, i)
           D == DropsOf(todo, i)
<1>1. IsFiniteSet(S) /\ IsFiniteSet(F) /\ IsFiniteSet(D)
  BY PoolTypes, SlotsFinite, PointingFinite, DropsFinite DEF Inv, Types
<1>2. Cardinality(S) \in Nat /\ Cardinality(F) \in Nat /\ Cardinality(D) \in Nat
  BY CountTypes DEF Inv
<1>3. S # {} \/ F # {} \/ D # {}
  BY DEF Pointing, DropsOf
<1>4. refCount[i] = Cardinality(S) + Cardinality(F) + Cardinality(D)
  BY DEF Inv, Counts
<1> HIDE DEF S, F, D
<1>5. Cardinality(S) # 0 \/ Cardinality(F) # 0 \/ Cardinality(D) # 0
  BY <1>1, <1>3, FS_EmptySet
<1>6. refCount[i] > 0
  BY <1>2, <1>4, <1>5
<1>7. QED  BY <1>6 DEF Inv, Blank

\* What is in use refers only to what is in use.
LEMMA InUseClosed ==
  ASSUME Inv
  PROVE  Closed(InUse, Referred)
<1>1. ASSUME NEW i \in InUse, NEW x \in Referred[i] PROVE x \in InUse
  <2>1. i \in Items
    BY PoolTypes DEF Inv
  <2>2. Referred[i] = {target[First(i)], target[Rest(i)], forwarder[i]} \ {NULL}
    BY <2>1 DEF Referred
  <2>3. target[First(i)] \in Pointers /\ target[Rest(i)] \in Pointers /\ forwarder[i] \in Pointers
    BY <2>1, SlotsOfItem DEF Inv, Types
  <2>4. x \in Items
    BY <1>1, <2>2, <2>3 DEF Pointers
  <2>5. (\E s \in Slots : target[s] = x) \/ (\E j \in InUse : forwarder[j] = x)
    BY <1>1, <2>1, <2>2, SlotsOfItem
  <2>6. QED  BY <2>4, <2>5, Counted
<1>2. QED  BY <1>1 DEF Closed

\* From an item in use the forwarders lead to their end, and over nothing that
\* is not in use.
LEMMA EndFound ==
  ASSUME Inv, NEW x \in InUse
  PROVE  /\ Closure({x}, Forwarded) \in SUBSET InUse
         /\ x \in Closure({x}, Forwarded)
         /\ End(x) \in Closure({x}, Forwarded)
         /\ forwarder[End(x)] = NULL
         /\ \A c \in Closure({x}, Forwarded) :
              c # End(x) => forwarder[c] \in Closure({x}, Forwarded)
         /\ \A c \in Closure({x}, Forwarded) :
              c # x => \E d \in Closure({x}, Forwarded) : forwarder[d] = c
<1> DEFINE C == Closure({x}, Forwarded)
<1>1. /\ Forwarded \in Graphs /\ InUse \in SUBSET Items /\ {x} \in SUBSET Items
      /\ \A i \in Items : Forwarded[i] = {forwarder[i]} \ {NULL}
      /\ \A i \in Items : Forwarded[i] \subseteq Referred[i]
      /\ \A i \in Items : forwarder[i] \in Pointers
      /\ forwarder \in Forwarders
  BY PoolTypes DEF Inv, Types, Forwarded, Referred
<1>2. C \in SUBSET Items /\ x \in C /\ Closed(C, Forwarded)
  BY <1>1, ClosureLeast
<1>3. Closed(InUse, Forwarded)
  BY <1>1, InUseClosed DEF Closed
<1>4. C \subseteq InUse
  BY <1>1, <1>3, ClosureWithin
<1> HIDE DEF C
<1>5. \A c \in C : forwarder[c] # NULL => forwarder[c] \in C
  BY <1>1, <1>2 DEF Closed
<1>6. \E e \in C : forwarder[e] = NULL
  <2>1. PICK e \in C : \A v \in C : v \notin Referred[e]
    BY <1>2, <1>4 DEF Inv, Acyclic
  <2>2. Forwarded[e] = {forwarder[e]} \ {NULL} /\ Forwarded[e] \subseteq Referred[e]
    BY <1>1, <1>2
  <2>3. forwarder[e] = NULL
    BY <1>5, <2>1, <2>2
  <2>4. QED  BY <2>3
<1>7. End(x) \in C /\ forwarder[End(x)] = NULL
  <2>1. x # NULL
    BY <1>1, NullIsNoItem
  <2>2. QED  BY <1>6, <2>1 DEF End, C
<1>8. \A c \in C : c # End(x) => forwarder[c] \in C
  <2>1. C = Closure({x}, ForwardedBy(forwarder)) /\ x \in Items
    BY <1>1, Views DEF C
  <2>2. ASSUME NEW c \in C, forwarder[c] = NULL PROVE c = End(x)
    BY <1>1, <1>7, <2>1, <2>2, OneEnd
  <2>3. QED  BY <1>5, <2>2
<1>9. ASSUME NEW c \in C, c # x PROVE \E d \in C : forwarder[d] = c
  <2>1. PICK d \in C : c \in Forwarded[d]
    BY <1>1, <1>9, ClosureOrigin DEF C
  <2>2. QED  BY <2>1, <1>1, <1>2
<1>10. QED  BY <1>2, <1>4, <1>7, <1>8, <1>9 DEF C

-----------------------------------------------------------------------------
(* Pointers that are set and dropped *)

\* addRef adds one for the item it is given, whose count is not 0.
LEMMA AddRefCount ==
  ASSUME NEW count \in [Items -> Nat], NEW x \in Pointers, x # NULL => count[x] # 0
  PROVE  /\ addRef(count, x) \in [Items -> Nat]
         /\ \A i \in Items : addRef(count, x)[i] = count[i] + One(x, i)
<1>1. CASE x = NULL
  <2>1. \A i \in Items : One(x, i) = 0
    BY <1>1, NullIsNoItem DEF One
  <2>2. addRef(count, x) = count
    BY <1>1 DEF addRef
  <2>3. QED  BY <2>1, <2>2
<1>2. CASE x # NULL
  <2>1. addRef(count, x) = [count EXCEPT ![x] = @ + 1] /\ x \in Items
    BY <1>2 DEF addRef, Pointers
  <2>2. QED  BY <2>1 DEF One
<1>3. QED  BY <1>1, <1>2

\* The task for a dropped pointer.
LEMMA DropTask ==
  ASSUME NEW x \in Pointers
  PROVE  /\ removeTarget(x) \in Seq(Tasks)
         /\ \A i \in Items : Cardinality(DropsOf(removeTarget(x), i)) = One(x, i)
         /\ \A k \in DOMAIN removeTarget(x) : removeTarget(x)[k].op = "drop"
<1>1. CASE x = NULL
  <2>1. removeTarget(x) = <<>>
    BY <1>1 DEF removeTarget
  <2>2. \A i \in Items : DropsOf(removeTarget(x), i) = {} /\ One(x, i) = 0
    BY <2>1, <1>1, NullIsNoItem DEF DropsOf, One
  <2>3. QED  BY <2>1, <2>2, FS_EmptySet
<1>2. CASE x # NULL
  <2>1. x \in Items /\ removeTarget(x) = <<Task("drop", x, <<>>)>>
    BY <1>2 DEF removeTarget, Pointers
  <2>2. Task("drop", x, <<>>) \in Tasks
    BY <2>1 DEF Task, Tasks, Ops
  <2>3. DOMAIN removeTarget(x) = {1} /\ removeTarget(x)[1].op = "drop" /\ removeTarget(x)[1].item = x
    BY <2>1 DEF Task
  <2>4. ASSUME NEW i \in Items PROVE Cardinality(DropsOf(removeTarget(x), i)) = One(x, i)
    <3>1. CASE x = i
      <4>1. DropsOf(removeTarget(x), i) = {1}
        BY <2>3, <3>1 DEF DropsOf
      <4>2. QED  BY <4>1, <3>1, FS_Singleton DEF One
    <3>2. CASE x # i
      <4>1. DropsOf(removeTarget(x), i) = {}
        BY <2>3, <3>2 DEF DropsOf
      <4>2. QED  BY <4>1, <3>2, FS_EmptySet DEF One
    <3>3. QED  BY <3>1, <3>2
  <2>5. QED  BY <2>1, <2>2, <2>3, <2>4
<1>3. QED  BY <1>1, <1>2

\* Nothing to do means that no pointer is being dropped.
LEMMA NoDrops == \A i : Cardinality(DropsOf(<<>>, i)) = 0
<1>1. \A i : DropsOf(<<>>, i) = {}
  BY DEF DropsOf
<1>2. QED  BY <1>1, FS_EmptySet

\* With no removal going on, every item in use has a reference.
LEMMA IdleCounts ==
  ASSUME Inv, Idle
  PROVE  /\ todo = <<>>
         /\ \A i \in InUse : refCount[i] # 0
         /\ \A i \in Items : refCount[i] = Cardinality(Pointing(Slots, target, i))
                                           + Cardinality(Pointing(InUse, forwarder, i))
<1>1. todo = <<>> /\ DOMAIN todo = {}
  BY DEF Idle
<1>2. ASSUME NEW i \in Items
      PROVE  refCount[i] = Cardinality(Pointing(Slots, target, i))
                           + Cardinality(Pointing(InUse, forwarder, i))
  <2>1. Cardinality(DropsOf(todo, i)) = 0
    BY <1>1, NoDrops
  <2>2. QED  BY <2>1, CountTypes DEF Inv, Counts
<1>3. QED  BY <1>1, <1>2 DEF Inv, Condemned

\* The parts of the invariant about tasks hold when there is nothing but a drop.
LEMMA OnlyDrops ==
  ASSUME Inv, Idle, \A k \in DOMAIN todo' : todo'[k].op = "drop",
         todo' \in Seq(Tasks),
         \A i \in InUse' : refCount'[i] # 0
  PROVE  Condemned' /\ Walking' /\ Emptied'
<1>1. \A k \in DOMAIN todo' : Doomed(todo'[k]) = {}
  BY DEF Doomed
<1>2. Condemned'
  BY <1>1 DEF Condemned
<1>3. ~Current("forwarders")'
  <2>1. todo' # <<>> => 1 \in DOMAIN todo' /\ Head(todo') = todo'[1]
    OBVIOUS
  <2>2. QED  BY <2>1 DEF Current
<1>4. Walking'
  BY <1>3 DEF Walking
<1>5. Emptied'
  BY <1>1 DEF Emptied
<1>6. QED  BY <1>2, <1>4, <1>5

\* doSet, on a slot that is not a field of an item that is available.
LEMMA DoSetStep ==
  ASSUME Inv, Idle, NEW s \in Slots, NEW x \in Pointers,
         x # NULL => refCount[x] # 0,
         \A i \in Items \ InUse : s # First(i) /\ s # Rest(i),
         doSet(s, x),
         Acyclic(InUse, ReferredBy(target', forwarder))
  PROVE  Inv'
<1>1. /\ target' = [target EXCEPT ![s] = x] /\ refCount' = addRef(refCount, x)
      /\ todo' = removeTarget(target[s])
      /\ forwarder' = forwarder /\ size' = size /\ available' = available
  BY DEF doSet
<1>2. target[s] \in Pointers /\ refCount \in [Items -> Nat] /\ target \in [Slots -> Pointers]
  BY DEF Inv, Types
<1>3. refCount' \in [Items -> Nat] /\ \A i \in Items : refCount'[i] = refCount[i] + One(x, i)
  BY <1>1, <1>2, AddRefCount
<1>4. /\ todo' \in Seq(Tasks) /\ \A k \in DOMAIN todo' : todo'[k].op = "drop"
      /\ \A i \in Items : Cardinality(DropsOf(todo', i)) = One(target[s], i)
  BY <1>1, <1>2, DropTask
<1>5. Types'
  BY <1>1, <1>2, <1>3, <1>4 DEF Inv, Types
<1>6. Available' = Available /\ InUse' = InUse
  BY <1>1, Views DEF InUse
<1>7. Counts'
  <2>1. ASSUME NEW i \in Items
        PROVE  refCount'[i] = Cardinality(Pointing(Slots, target', i))
                              + Cardinality(Pointing(InUse, forwarder', i))
                              + Cardinality(DropsOf(todo', i))
    <3>1. Cardinality(Pointing(Slots, target', i))
            = Cardinality(Pointing(Slots, target, i)) + One(x, i) - One(target[s], i)
      <4>1. target'[s] = x /\ \A d \in Slots : d # s => target'[d] = target[d]
        BY <1>1, <1>2
      <4>2. QED  BY <4>1, SlotsFinite, PointingMoves
    <3>2. refCount[i] = Cardinality(Pointing(Slots, target, i))
                        + Cardinality(Pointing(InUse, forwarder, i))
      BY IdleCounts
    <3>3. Cardinality(Pointing(Slots, target, i)) \in Nat
          /\ Cardinality(Pointing(InUse, forwarder, i)) \in Nat
      BY CountTypes DEF Inv
    <3>4. One(x, i) \in Int /\ One(target[s], i) \in Int
      BY DEF One
    <3>5. refCount'[i] = refCount[i] + One(x, i) /\ Cardinality(DropsOf(todo', i)) = One(target[s], i)
          /\ forwarder' = forwarder
      BY <1>1, <1>3, <1>4
    <3>6. QED  BY <3>1, <3>2, <3>3, <3>4, <3>5
  <2>2. QED  BY <2>1, <1>6 DEF Counts
<1>8. Chain'
  BY <1>1, <1>6 DEF Inv, Chain
<1>9. Blank'
  <2>1. ASSUME NEW i \in Items \ InUse
        PROVE  refCount'[i] = 0 /\ target'[First(i)] = NULL /\ target'[Rest(i)] = NULL
    <3>1. refCount[i] = 0 /\ target[First(i)] = NULL /\ target[Rest(i)] = NULL
      BY DEF Inv, Blank
    <3>2. x # i
      BY <3>1, NullIsNoItem
    <3>3. refCount'[i] = 0
      BY <3>1, <3>2, <1>2, <1>3 DEF One
    <3>4. QED  BY <3>1, <3>3, <1>1, <1>2, SlotsOfItem
  <2>2. QED  BY <2>1, <1>6 DEF Blank
<1>10. \A i \in InUse' : refCount'[i] # 0
  <2>1. ASSUME NEW i \in InUse PROVE refCount'[i] # 0
    <3>1. refCount[i] # 0 /\ refCount[i] \in Nat /\ One(x, i) \in Nat /\ i \in Items
      BY IdleCounts, <1>2, PoolTypes DEF Inv, One
    <3>2. QED  BY <3>1, <1>3
  <2>2. QED  BY <2>1, <1>6
<1>11. Condemned' /\ Walking' /\ Emptied'
  BY <1>4, <1>10, OnlyDrops
<1>12. Acyclic(InUse, Referred)'
  BY <1>1, <1>6, Views
<1>13. QED  BY <1>5, <1>7, <1>8, <1>9, <1>11, <1>12 DEF Inv

-----------------------------------------------------------------------------
(* Operations that set a variable or a field *)

\* No slot has two names.
LEMMA SlotsDiffer ==
  /\ \A h \in Handles : h \in Slots /\ \A i \in Items : h # First(i) /\ h # Rest(i)
  /\ \A i, j \in Items : /\ First(i) = First(j) => i = j
                         /\ Rest(i) = Rest(j) => i = j
                         /\ First(i) # Rest(j)
<1>1. \A i \in Items : First(i) \in Fields /\ Rest(i) \in Fields
  BY DEF First, Rest, Fields
<1>2. QED  BY <1>1, HandlesAssumption DEF Slots, First, Rest

\* doSet on a variable keeps the invariant.
LEMMA HandleSet ==
  ASSUME Inv, Idle, NEW h \in Handles, NEW x \in Pointers, x # NULL => refCount[x] # 0,
         doSet(h, x)
  PROVE  Inv'
<1>1. target' = [target EXCEPT ![h] = x] /\ target \in [Slots -> Pointers]
  BY DEF doSet, Inv, Types
<1>2. ReferredBy(target', forwarder) = Referred
  <2>1. \A i \in Items : target'[First(i)] = target[First(i)] /\ target'[Rest(i)] = target[Rest(i)]
    BY <1>1, SlotsDiffer, SlotsOfItem
  <2>2. QED  BY <2>1, Views DEF ReferredBy
<1>3. h \in Slots /\ \A i \in Items \ InUse : h # First(i) /\ h # Rest(i)
  BY SlotsDiffer
<1>4. QED  BY <1>2, <1>3, DoSetStep DEF Inv

\* What an item refers to when one of its fields is set.
LEMMA FieldSet ==
  ASSUME Inv, NEW j \in InUse, NEW s \in {First(j), Rest(j)}, NEW x \in Pointers, doSet(s, x)
  PROVE  /\ s \in Slots /\ \A i \in Items \ InUse : s # First(i) /\ s # Rest(i)
         /\ \A u \in InUse : u # j => ReferredBy(target', forwarder)[u] \subseteq Referred[u]
         /\ ReferredBy(target', forwarder)[j] \subseteq Referred[j] \cup ({x} \ {NULL})
<1>1. target' = [target EXCEPT ![s] = x] /\ target \in [Slots -> Pointers]
  BY DEF doSet, Inv, Types
<1>2. InUse \subseteq Items /\ j \in Items
  BY PoolTypes DEF Inv
<1>3. s \in Slots /\ \A i \in Items : i # j => s # First(i) /\ s # Rest(i)
  BY <1>2, SlotsDiffer, SlotsOfItem
<1>4. \A i \in Items : i # j => target'[First(i)] = target[First(i)] /\ target'[Rest(i)] = target[Rest(i)]
  BY <1>1, <1>3, SlotsOfItem
<1>5. /\ target'[First(j)] = target[First(j)] \/ target'[First(j)] = x
      /\ target'[Rest(j)] = target[Rest(j)] \/ target'[Rest(j)] = x
  BY <1>1, <1>2, SlotsOfItem
<1>6. \A u \in InUse : u # j => ReferredBy(target', forwarder)[u] = Referred[u]
  BY <1>2, <1>4, Views DEF ReferredBy
<1>7. /\ ReferredBy(target', forwarder)[j] = {target'[First(j)], target'[Rest(j)], forwarder[j]} \ {NULL}
      /\ Referred[j] = {target[First(j)], target[Rest(j)], forwarder[j]} \ {NULL}
  BY <1>2, Views DEF ReferredBy
<1>8. ReferredBy(target', forwarder)[j] \subseteq Referred[j] \cup ({x} \ {NULL})
  BY <1>5, <1>7
<1>9. QED  BY <1>2, <1>3, <1>6, <1>8

\* What the pointer in a slot leads to.
LEMMA TargetInUse ==
  ASSUME Inv, NEW s \in Slots, target[s] # NULL
  PROVE  target[s] \in InUse /\ refCount[target[s]] # 0 /\ target[s] \in Items
<1>1. target[s] \in Items
  BY DEF Inv, Types, Pointers
<1>2. QED  BY <1>1, Counted

\* -> on a variable keeps it,
LEMMA GetTargetOfHandle ==
  ASSUME Inv, NEW h \in Handles, getTarget(h)
  PROVE  Inv'
<1>1. Idle /\ target[h] # NULL /\ doSet(h, End(target[h])) /\ h \in Slots
  BY SlotsDiffer DEF getTarget
<1>2. target[h] \in InUse
  BY <1>1, TargetInUse
<1>3. End(target[h]) \in InUse
  BY <1>2, EndFound
<1>4. End(target[h]) \in Pointers /\ refCount[End(target[h])] # 0
  BY <1>1, <1>3, IdleCounts, PoolTypes DEF Inv, Pointers
<1>5. QED  BY <1>1, <1>4, HandleSet

\* and on a field, which then skips the chain of forwarders behind it.
LEMMA GetTargetOfFirst ==
  ASSUME Inv, NEW j \in InUse, getTarget(First(j))
  PROVE  Inv'
<1> DEFINE x == target[First(j)]
           e == End(x)
           C == Closure({x}, Forwarded)
<1>1. j \in Items /\ InUse \subseteq Items /\ First(j) \in Slots
  BY PoolTypes, SlotsOfItem DEF Inv
<1>2. Idle /\ x # NULL /\ doSet(First(j), e)
  BY DEF getTarget
<1>3. x \in InUse
  BY <1>1, <1>2, TargetInUse
<1>4. /\ C \in SUBSET InUse /\ x \in C /\ e \in C
      /\ \A c \in C : c # e => forwarder[c] \in C
      /\ \A c \in C : c # x => \E d \in C : forwarder[d] = c
  BY <1>3, EndFound
<1>5. e \in Pointers /\ refCount[e] # 0 /\ e # NULL
  BY <1>1, <1>2, <1>4, IdleCounts, NullIsNoItem DEF Pointers
<1> DEFINE new == ReferredBy(target', forwarder)
<1>6. /\ First(j) \in Slots /\ \A i \in Items \ InUse : First(j) # First(i) /\ First(j) # Rest(i)
      /\ \A u \in InUse : u # j => new[u] \subseteq Referred[u]
      /\ new[j] \subseteq Referred[j] \cup ({e} \ {NULL})
  BY <1>2, <1>5, FieldSet
<1>7. Acyclic(InUse, new)
  <2>1. \A i \in Items : /\ forwarder[i] # NULL => forwarder[i] \in Referred[i]
                         /\ target[First(i)] # NULL => target[First(i)] \in Referred[i]
    BY DEF Referred
  <2>2. x \in Referred[j]
    BY <1>1, <1>2, <2>1
  <2>3. \A c \in C : c # e => \E d \in C : d \in Referred[c]
    <3> HIDE DEF C, e
    <3>1. QED  BY <1>1, <1>4, <2>1, NullIsNoItem
  <2>4. \A c \in C : c # x => \E d \in C : c \in Referred[d]
    <3> HIDE DEF C, x
    <3>1. QED  BY <1>1, <1>4, <2>1, NullIsNoItem
  <2>5. Acyclic(InUse, Referred)
    BY DEF Inv
  <2>6. new[j] \subseteq Referred[j] \cup {e}
    BY <1>6
  <2>7. \A u \in InUse : u # j => new[u] \subseteq Referred[u]
    BY <1>6
  <2>8. C \in SUBSET InUse /\ x \in C /\ e \in C
    BY <1>4
  <2> HIDE DEF new, C, x, e
  <2>9. QED  BY <2>2, <2>3, <2>4, <2>5, <2>6, <2>7, <2>8, AcyclicShortcut
<1>8. QED  BY <1>2, <1>5, <1>6, <1>7, DoSetStep

\* Dereference keeps the invariant.
LEMMA DereferenceStep == Inv /\ Dereference => Inv'
<1> SUFFICES ASSUME Inv, Dereference PROVE Inv'
  OBVIOUS
<1>1. CASE \E h \in Handles : getTarget(h)
  BY <1>1, GetTargetOfHandle
<1>2. ASSUME NEW h \in Handles, Evaluated(h), getTarget(First(target[h])) PROVE Inv'
  <2>1. target[h] \in InUse
    BY <1>2, TargetInUse, SlotsDiffer DEF Evaluated
  <2>2. QED  BY <1>2, <2>1, GetTargetOfFirst
<1>3. QED  BY <1>1, <1>2 DEF Dereference

\* Assign keeps the invariant: what is assigned has a count.
LEMMA AssignStep == Inv /\ Assign => Inv'
<1> SUFFICES ASSUME Inv, Assign PROVE Inv'
  OBVIOUS
<1>1. PICK h \in Handles, g \in Handles :
        \/ doSet(h, target[g])
        \/ Evaluated(g) /\ \E s \in {First(target[g]), Rest(target[g])} : doSet(h, target[s])
  BY DEF Assign
<1>2. PICK s \in Slots : doSet(h, target[s])
  <2>1. CASE doSet(h, target[g])
    BY <2>1, SlotsDiffer
  <2>2. CASE Evaluated(g) /\ \E s \in {First(target[g]), Rest(target[g])} : doSet(h, target[s])
    <3>1. target[g] \in Items
      BY <2>2, TargetInUse, SlotsDiffer DEF Evaluated
    <3>2. QED  BY <2>2, <3>1, SlotsOfItem
  <2>3. QED  BY <1>1, <2>1, <2>2
<1>3. target[s] \in Pointers /\ (target[s] # NULL => refCount[target[s]] # 0)
  BY TargetInUse DEF Inv, Types
<1>4. QED  BY <1>2, <1>3, HandleSet DEF Assign

\* Clear keeps the invariant.
LEMMA ClearStep == Inv /\ Clear => Inv'
<1>1. NULL \in Pointers
  BY DEF Pointers
<1>2. QED  BY <1>1, HandleSet DEF Clear

\* setRest keeps it: the list cannot be reached from its new rest.
LEMMA SetRestStep == Inv /\ setRest => Inv'
<1> SUFFICES ASSUME Inv, setRest PROVE Inv'
  OBVIOUS
<1>1. PICK gg \in Handles, hh \in Handles :
        /\ Evaluated(gg) /\ target[hh] # NULL
        /\ target[gg] \notin Reachable({target[hh]})
        /\ doSet(Rest(target[gg]), target[hh])
  BY DEF setRest
<1> DEFINE g == target[gg]
           h == target[hh]
           R == Reachable({h})
           new == ReferredBy(target', forwarder)
<1>2. g \in InUse /\ h \in InUse /\ refCount[h] # 0 /\ h # NULL
  BY <1>1, TargetInUse, SlotsDiffer DEF Evaluated
<1>3. h \in Items /\ h \in Pointers /\ Idle
  BY <1>2, PoolTypes DEF Inv, setRest, Pointers
<1>4. Closed(R, Referred) /\ h \in R
  <2>0. {h} \ {NULL} = {h}
    BY <1>2
  <2>1. R = Closure({h}, Referred) /\ {h} \in SUBSET Items /\ Referred \in Graphs
    BY <1>3, <2>0, PoolTypes DEF Reachable, Inv
  <2> HIDE DEF R, h
  <2>2. QED  BY <2>1, ClosureLeast
<1>5. /\ Rest(g) \in Slots /\ \A i \in Items \ InUse : Rest(g) # First(i) /\ Rest(g) # Rest(i)
      /\ \A u \in InUse : u # g => new[u] \subseteq Referred[u]
      /\ new[g] \subseteq Referred[g] \cup ({h} \ {NULL})
  BY <1>1, <1>2, <1>3, FieldSet
<1>6. Acyclic(InUse, new)
  <2>1. Acyclic(InUse, Referred) /\ g \notin R
    BY <1>1 DEF Inv
  <2>2. new[g] \subseteq Referred[g] \cup {h}
    BY <1>5
  <2> HIDE DEF new, R, g, h
  <2>3. QED  BY <1>4, <1>5, <2>1, <2>2, AcyclicEdge
<1>7. QED  BY <1>1, <1>2, <1>3, <1>5, <1>6, DoSetStep

\* The same items are in use when the forwarder of one of them changes.
LEMMA SameInUse ==
  ASSUME Inv, size' = size, available' = available, NEW g \in InUse, forwarder' \in Forwarders,
         \A i \in Items : i # g => forwarder'[i] = forwarder[i]
  PROVE  Available' = Available /\ InUse' = InUse
<1>1. g \notin Available /\ available \in Pointers
  BY DEF InUse, Inv, Types
<1>2. \A i \in AvailableFrom(available, forwarder) : forwarder'[i] = forwarder[i]
  BY <1>1, PoolTypes, Views DEF Inv
<1>3. AvailableFrom(available, forwarder') = AvailableFrom(available, forwarder)
  BY <1>1, <1>2, PoolTypes, AvailableFrame DEF Inv
<1>4. QED  BY <1>3, Views DEF InUse

\* setForwarder keeps it: the list cannot be reached from its value.
LEMMA SetForwarderStep == Inv /\ setForwarder => Inv'
<1> SUFFICES ASSUME Inv, setForwarder PROVE Inv'
  OBVIOUS
<1>1. PICK gg \in Handles, hh \in Handles :
        /\ Evaluated(gg) /\ Evaluated(hh)
        /\ target[gg] \notin Reachable({target[hh]})
        /\ refCount' = addRef(refCount, target[hh])
        /\ forwarder' = [forwarder EXCEPT ![target[gg]] = target[hh]]
  BY DEF setForwarder
<1> DEFINE g == target[gg]
           h == target[hh]
           R == Reachable({h})
<1>2. /\ Idle /\ target' = target /\ size' = size /\ available' = available /\ todo' = todo
  BY DEF setForwarder
<1>3. g \in InUse /\ h \in InUse /\ refCount[h] # 0 /\ h # NULL /\ forwarder[g] = NULL
  BY <1>1, TargetInUse, SlotsDiffer DEF Evaluated
<1>4. g \in Items /\ h \in Items /\ h \in Pointers /\ InUse \subseteq Items
  BY <1>3, PoolTypes DEF Inv, Pointers
<1>5. refCount \in [Items -> Nat] /\ forwarder \in [Items -> Pointers] /\ available \in Pointers
  BY DEF Inv, Types
<1>6. refCount' \in [Items -> Nat] /\ \A i \in Items : refCount'[i] = refCount[i] + One(h, i)
  BY <1>1, <1>3, <1>4, <1>5, AddRefCount
<1>7. forwarder' \in [Items -> Pointers] /\ forwarder'[g] = h
      /\ \A i \in Items : i # g => forwarder'[i] = forwarder[i]
  BY <1>1, <1>4, <1>5
<1>8. Types'
  BY <1>2, <1>6, <1>7 DEF Inv, Types
<1>9. Available' = Available /\ InUse' = InUse
  <2>1. g \in InUse /\ forwarder' \in Forwarders /\ size' = size /\ available' = available
    BY <1>2, <1>3, <1>7 DEF Forwarders
  <2>2. \A i \in Items : i # g => forwarder'[i] = forwarder[i]
    BY <1>7
  <2> HIDE DEF g
  <2>3. QED  BY <2>1, <2>2, SameInUse
<1>10. Counts'
  <2>1. ASSUME NEW i \in Items
        PROVE  refCount'[i] = Cardinality(Pointing(Slots, target', i))
                              + Cardinality(Pointing(InUse, forwarder', i))
                              + Cardinality(DropsOf(todo', i))
    <3>1. Cardinality(Pointing(InUse, forwarder', i))
            = Cardinality(Pointing(InUse, forwarder, i)) + One(h, i) - One(NULL, i)
      <4>1. IsFiniteSet(InUse)
        BY PoolTypes DEF Inv
      <4>2. \A d \in InUse : d # g => forwarder'[d] = forwarder[d]
        BY <1>4, <1>7
      <4>3. Cardinality(Pointing(InUse, forwarder', i))
              = Cardinality(Pointing(InUse, forwarder, i)) + One(forwarder'[g], i) - One(forwarder[g], i)
        BY <4>1, <4>2, <1>3, PointingMoves
      <4>4. QED  BY <4>3, <1>3, <1>7
    <3>2. One(NULL, i) = 0 /\ One(h, i) \in Int
      BY NullIsNoItem DEF One
    <3>3. refCount[i] = Cardinality(Pointing(Slots, target, i))
                        + Cardinality(Pointing(InUse, forwarder, i))
      BY <1>2, IdleCounts
    <3>4. Cardinality(Pointing(Slots, target, i)) \in Nat
          /\ Cardinality(Pointing(InUse, forwarder, i)) \in Nat
      BY CountTypes DEF Inv
    <3>5. Cardinality(DropsOf(todo', i)) = 0
      BY <1>2, IdleCounts, NoDrops
    <3>6. QED  BY <3>1, <3>2, <3>3, <3>4, <3>5, <1>2, <1>6
  <2>2. QED  BY <2>1, <1>9 DEF Counts
<1>11. Chain'
  <2>1. \A i \in Available : forwarder'[i] = forwarder[i]
    BY <1>3, <1>7, PoolTypes DEF Inv, InUse
  <2>2. QED  BY <2>1, <1>2, <1>9 DEF Inv, Chain
<1>12. Blank'
  <2>1. \A i \in Items \ InUse : refCount'[i] = refCount[i]
    BY <1>3, <1>5, <1>6 DEF One
  <2>2. QED  BY <2>1, <1>2, <1>9 DEF Inv, Blank
<1>13. Condemned' /\ Walking' /\ Emptied'
  <2>1. \A i \in InUse : refCount'[i] # 0
    <3>1. ASSUME NEW i \in InUse PROVE refCount'[i] # 0
      <4>1. refCount[i] # 0 /\ refCount[i] \in Nat /\ One(h, i) \in Nat /\ i \in Items
        BY <1>2, <1>4, <1>5, IdleCounts DEF One
      <4>2. QED  BY <4>1, <1>6
    <3>2. QED  BY <3>1
  <2>2. todo' = <<>> /\ DOMAIN todo' = {} /\ todo' \in Seq(Tasks)
    BY <1>2, IdleCounts
  <2>3. QED  BY <2>1, <2>2, <1>2, <1>9, OnlyDrops
<1>14. Acyclic(InUse, Referred)'
  <2> DEFINE new == ReferredBy(target', forwarder')
  <2>1. R = Closure({h}, Referred) /\ {h} \in SUBSET Items /\ Referred \in Graphs
    <3>1. {h} \ {NULL} = {h}
      BY <1>3
    <3>2. QED  BY <1>4, <3>1, PoolTypes DEF Reachable, Inv
  <2>2. Closed(R, Referred) /\ h \in R /\ g \notin R
    <3>1. g \notin R
      BY <1>1
    <3> HIDE DEF R, h, g
    <3>2. QED  BY <2>1, <3>1, ClosureLeast
  <2>3. \A u \in InUse : u # g => new[u] \subseteq Referred[u]
    BY <1>2, <1>4, <1>7, Views DEF ReferredBy
  <2>4. new[g] \subseteq Referred[g] \cup {h}
    <3>1. new[g] = {target[First(g)], target[Rest(g)], h} \ {NULL}
      BY <1>2, <1>4, <1>7 DEF ReferredBy
    <3>2. Referred[g] = {target[First(g)], target[Rest(g)], forwarder[g]} \ {NULL}
      BY <1>4 DEF Referred
    <3>3. QED  BY <3>1, <3>2
  <2>5. Acyclic(InUse, Referred)
    BY DEF Inv
  <2>6. Acyclic(InUse, new)
    <3> HIDE DEF new, R, g, h
    <3>1. QED  BY <2>2, <2>3, <2>4, <2>5, AcyclicEdge
  <2>7. QED  BY <2>6, <1>9, Views
<1>15. QED  BY <1>8, <1>10, <1>11, <1>12, <1>13, <1>14 DEF Inv

-----------------------------------------------------------------------------
(* Items that are made *)

\* An item that is available, or else a new one, comes into use.
LEMMA FreshTaken ==
  ASSUME Inv, NEW i \in Items, i = Fresh,
         size' = IF available # NULL THEN size ELSE i,
         available' = IF available # NULL THEN forwarder[available] ELSE NULL,
         forwarder' = [forwarder EXCEPT ![i] = NULL]
  PROVE  /\ i \notin InUse /\ refCount[i] = 0
         /\ target[First(i)] = NULL /\ target[Rest(i)] = NULL
         /\ InUse' = InUse \cup {i} /\ Available' \subseteq Available
         /\ Chain' /\ size' \in 0..MaxItems /\ available' \in Pointers
<1>1. /\ forwarder \in Forwarders /\ forwarder' \in Forwarders /\ available \in Pointers
      /\ size \in 0..MaxItems /\ NULL \in Pointers
  BY DEF Inv, Types, Forwarders, Pointers
<1>2. \A j \in Items : j # i => forwarder'[j] = forwarder[j]
  BY <1>1 DEF Forwarders
<1>3. /\ Available \in SUBSET Items /\ Available \subseteq 1..size
      /\ \A j \in Available : forwarder[j] # available
      /\ \A j, k \in Available : forwarder[j] = forwarder[k] /\ forwarder[j] # NULL => j = k
  BY PoolTypes DEF Inv, Chain
<1>4. CASE available # NULL
  <2>1. i = available /\ i \in Available /\ available' = forwarder[i] /\ size' = size
    BY <1>1, <1>4, AvailableChain, Views DEF Fresh
  <2>2. Available' = Available \ {i}
    <3>1. /\ \A j \in AvailableFrom(i, forwarder) : forwarder[j] # i
          /\ \A j \in AvailableFrom(i, forwarder) \ {i} : forwarder'[j] = forwarder[j]
      BY <2>1, <1>2, <1>3, Views
    <3>2. AvailableFrom(forwarder[i], forwarder') = AvailableFrom(i, forwarder) \ {i}
      BY <3>1, <1>1, AvailableTaken
    <3>3. QED  BY <3>2, <2>1, Views
  <2>3. InUse' = InUse \cup {i} /\ i \notin InUse
    BY <2>1, <2>2, <1>3 DEF InUse
  <2>4. available' \in Pointers
    BY <2>1, <1>1 DEF Forwarders
  <2>5. Chain'
    <3>1. \A j \in Available' : j # i /\ j \in Available /\ forwarder'[j] = forwarder[j]
      BY <2>2, <1>2, <1>3
    <3>2. \A j \in Available' : forwarder'[j] # available'
      <4>1. CASE available' = NULL
        BY <4>1, <1>1, <2>4, AvailableChain, Views
      <4>2. CASE available' # NULL
        BY <4>2, <3>1, <2>1, <1>3
      <4>3. QED  BY <4>1, <4>2
    <3>3. QED  BY <3>1, <3>2, <2>1, <2>2, <1>3 DEF Chain
  <2>6. QED  BY <1>1, <2>1, <2>2, <2>3, <2>4, <2>5 DEF Inv, Blank
<1>5. CASE available = NULL
  <2>1. i = size + 1 /\ size' = i /\ available' = NULL
    BY <1>5 DEF Fresh
  <2>2. Available = {} /\ Available' = {}
    BY <1>1, <1>5, <2>1, AvailableChain, Views
  <2>3. InUse' = InUse \cup {i} /\ i \notin InUse
    BY <1>1, <2>1, <2>2 DEF InUse
  <2>4. Chain'
    BY <2>2 DEF Chain
  <2>5. size' \in 0..MaxItems
    BY <2>1, MaxItemsAssumption DEF Items
  <2>6. QED  BY <1>1, <2>1, <2>2, <2>3, <2>4, <2>5 DEF Inv, Blank
<1>6. QED  BY <1>4, <1>5

\* The pointers to x when a new item gets the parts a and b and is put into h.
LEMMA NewItemSlots ==
  ASSUME NEW t \in Targets, NEW u \in Targets, NEW i \in Items, NEW h \in Handles,
         NEW a, NEW b, NEW x \in Items,
         t[First(i)] = NULL, t[Rest(i)] = NULL,
         u[First(i)] = a, u[Rest(i)] = b, u[h] = i,
         \A s \in Slots : s \notin {First(i), Rest(i), h} => u[s] = t[s]
  PROVE  Cardinality(Pointing(Slots, u, x))
           = Cardinality(Pointing(Slots, t, x)) + One(a, x) + One(b, x) + One(i, x) - One(t[h], x)
<1> DEFINE f == First(i)
           r == Rest(i)
           t1 == [t EXCEPT ![f] = a]
           t2 == [t1 EXCEPT ![r] = b]
<1>1. f \in Slots /\ r \in Slots /\ h \in Slots /\ f # r /\ h # f /\ h # r /\ t[f] = NULL /\ t[r] = NULL
  BY SlotsDiffer, SlotsOfItem
<1>2. t \in [Slots -> Pointers]
  BY DEF Targets
<1>3. \A s \in Slots : s \notin {f, r, h} => u[s] = t[s]
  OBVIOUS
<1>4. u[r] = b /\ u[f] = a
  OBVIOUS
<1> HIDE DEF f, r
<1>5. t1[f] = a /\ \A s \in Slots : s # f => t1[s] = t[s]
  BY <1>1, <1>2
<1>6. t2[r] = b /\ t1[r] = NULL /\ \A s \in Slots : s # r => t2[s] = t1[s]
  BY <1>1, <1>2
<1>7. t2[h] = t[h] /\ \A s \in Slots : s # h => u[s] = t2[s]
  BY <1>1, <1>2, <1>3, <1>4
<1> HIDE DEF t1, t2
<1>8. Cardinality(Pointing(Slots, t1, x)) = Cardinality(Pointing(Slots, t, x)) + One(t1[f], x) - One(t[f], x)
  BY <1>1, <1>5, SlotsFinite, PointingMoves
<1>9. Cardinality(Pointing(Slots, t2, x)) = Cardinality(Pointing(Slots, t1, x)) + One(t2[r], x) - One(t1[r], x)
  BY <1>1, <1>6, SlotsFinite, PointingMoves
<1>10. Cardinality(Pointing(Slots, u, x)) = Cardinality(Pointing(Slots, t2, x)) + One(u[h], x) - One(t2[h], x)
  <2>1. h \in Slots /\ \A d \in Slots : d # h => u[d] = t2[d]
    BY <1>1, <1>7
  <2>2. QED  BY <2>1, SlotsFinite, PointingMoves
<1>11. One(NULL, x) = 0 /\ One(a, x) \in Int /\ One(b, x) \in Int /\ One(i, x) \in Int /\ One(t[h], x) \in Int
  BY NullIsNoItem DEF One
<1>12. Cardinality(Pointing(Slots, t, x)) \in Nat
  BY SlotsFinite, PointingFinite
<1>13. t1[f] = a /\ t[f] = NULL /\ t2[r] = b /\ t1[r] = NULL /\ u[h] = i /\ t2[h] = t[h]
  BY <1>1, <1>5, <1>6, <1>7
<1>14. QED  BY <1>8, <1>9, <1>10, <1>11, <1>12, <1>13

\* The forwarders of items in use when a new item has none.
LEMMA NewItemForwarder ==
  ASSUME NEW D \in SUBSET Items, IsFiniteSet(D), NEW i \in Items, i \notin D,
         NEW fwd, NEW new, new[i] = NULL, \A j \in Items : j # i => new[j] = fwd[j],
         NEW x \in Items
  PROVE  Cardinality(Pointing(D \cup {i}, new, x)) = Cardinality(Pointing(D, fwd, x))
<1>1. \A j \in D : new[j] = fwd[j]
  OBVIOUS
<1>2. Cardinality(Pointing(D \cup {i}, new, x)) = Cardinality(Pointing(D, fwd, x)) + One(new[i], x)
  BY <1>1, PointingGrows
<1>3. One(NULL, x) = 0 /\ Cardinality(Pointing(D, fwd, x)) \in Nat
  BY NullIsNoItem, PointingFinite DEF One
<1>4. QED  BY <1>2, <1>3

\* A new item i with the parts a and b is put into h.
Allocated(h, i, a, b) ==
  /\ i = Fresh
  /\ size' = IF available # NULL THEN size ELSE i
  /\ available' = IF available # NULL THEN forwarder[available] ELSE NULL
  /\ forwarder' = [forwarder EXCEPT ![i] = NULL]
  /\ target' = [target EXCEPT ![First(i)] = a, ![Rest(i)] = b, ![h] = i]
  /\ refCount' = addRef(addRef([refCount EXCEPT ![i] = 1], a), b)
  /\ todo' = removeTarget(target[h])

\* Taking an item, with any first and rest, keeps the invariant.
LEMMA AllocStep ==
  ASSUME Inv, Idle, NEW h \in Handles, NEW i \in Items,
         NEW a \in Pointers, a # NULL => refCount[a] # 0,
         NEW b \in Pointers, b # NULL => refCount[b] # 0,
         Allocated(h, i, a, b)
  PROVE  Inv'
<1>1. /\ i \notin InUse /\ refCount[i] = 0
      /\ target[First(i)] = NULL /\ target[Rest(i)] = NULL
      /\ InUse' = InUse \cup {i} /\ Available' \subseteq Available
      /\ Chain' /\ size' \in 0..MaxItems /\ available' \in Pointers
  BY FreshTaken DEF Allocated
<1>2. /\ target \in [Slots -> Pointers] /\ refCount \in [Items -> Nat]
      /\ forwarder \in [Items -> Pointers] /\ target[h] \in Pointers
      /\ i \in Pointers /\ i # NULL /\ NULL \in Pointers
      /\ InUse \in SUBSET Items /\ IsFiniteSet(InUse)
  BY PoolTypes, SlotsDiffer, NullIsNoItem DEF Inv, Types, Pointers
<1>3. /\ h \in Slots /\ First(i) \in Slots /\ Rest(i) \in Slots
      /\ h # First(i) /\ h # Rest(i) /\ First(i) # Rest(i)
  BY SlotsDiffer, SlotsOfItem
<1>4. refCount' \in [Items -> Nat]
      /\ \A x \in Items : refCount'[x] = refCount[x] + One(i, x) + One(a, x) + One(b, x)
  <2> DEFINE fresh == [refCount EXCEPT ![i] = 1]
             one == addRef(fresh, a)
  <2>1. fresh \in [Items -> Nat] /\ \A x \in Items : fresh[x] = refCount[x] + One(i, x)
    BY <1>1, <1>2 DEF One
  <2>2. (a # NULL => fresh[a] # 0) /\ (b # NULL => fresh[b] # 0)
    BY <1>1, <1>2 DEF Pointers
  <2> HIDE DEF fresh
  <2>3. one \in [Items -> Nat] /\ \A x \in Items : one[x] = fresh[x] + One(a, x)
    BY <2>1, <2>2, AddRefCount
  <2>4. \A x \in Items : One(a, x) \in Nat /\ One(b, x) \in Nat /\ One(i, x) \in Nat
    BY DEF One
  <2>5. b # NULL => one[b] # 0
    <3>1. SUFFICES ASSUME b # NULL PROVE one[b] # 0
      OBVIOUS
    <3>2. b \in Items
      BY <3>1 DEF Pointers
    <3>3. fresh[b] \in Nat /\ fresh[b] # 0 /\ one[b] = fresh[b] + One(a, b) /\ One(a, b) \in Nat
      BY <2>1, <2>2, <2>3, <2>4, <3>1, <3>2
    <3>4. QED  BY <3>3
  <2> HIDE DEF one
  <2>6. /\ addRef(one, b) \in [Items -> Nat]
        /\ \A x \in Items : addRef(one, b)[x] = one[x] + One(b, x)
    BY <2>3, <2>5, AddRefCount
  <2>7. refCount' = addRef(one, b)
    BY DEF one, fresh, Allocated
  <2>8. ASSUME NEW x \in Items
        PROVE  refCount'[x] = refCount[x] + One(i, x) + One(a, x) + One(b, x)
    <3>1. /\ refCount'[x] = one[x] + One(b, x) /\ one[x] = fresh[x] + One(a, x)
          /\ fresh[x] = refCount[x] + One(i, x)
      BY <2>1, <2>3, <2>6, <2>7
    <3>2. QED  BY <3>1
  <2>9. QED  BY <2>6, <2>7, <2>8
<1>5. /\ target' \in [Slots -> Pointers]
      /\ target'[First(i)] = a /\ target'[Rest(i)] = b /\ target'[h] = i
      /\ \A s \in Slots : s \notin {First(i), Rest(i), h} => target'[s] = target[s]
  BY <1>2, <1>3 DEF Allocated
<1>6. forwarder' \in [Items -> Pointers] /\ forwarder'[i] = NULL
      /\ \A j \in Items : j # i => forwarder'[j] = forwarder[j]
  BY <1>2 DEF Allocated
<1>7. /\ todo' \in Seq(Tasks) /\ \A k \in DOMAIN todo' : todo'[k].op = "drop"
      /\ \A x \in Items : Cardinality(DropsOf(todo', x)) = One(target[h], x)
  BY <1>2, DropTask DEF Allocated
<1>8. Types'
  BY <1>1, <1>4, <1>5, <1>6, <1>7 DEF Types
<1>9. Counts'
  <2>1. ASSUME NEW x \in Items
        PROVE  refCount'[x] = Cardinality(Pointing(Slots, target', x))
                              + Cardinality(Pointing(InUse \cup {i}, forwarder', x))
                              + Cardinality(DropsOf(todo', x))
    <3>1. Cardinality(Pointing(Slots, target', x))
            = Cardinality(Pointing(Slots, target, x))
                + One(a, x) + One(b, x) + One(i, x) - One(target[h], x)
      <4>1. target \in Targets /\ target' \in Targets
        BY <1>2, <1>5 DEF Targets
      <4>2. \A s \in Slots : s \notin {First(i), Rest(i), h} => target'[s] = target[s]
        BY <1>5
      <4>3. target[First(i)] = NULL /\ target[Rest(i)] = NULL
        BY <1>1
      <4>4. target'[First(i)] = a /\ target'[Rest(i)] = b /\ target'[h] = i
        BY <1>5
      <4>5. QED  BY <4>1, <4>2, <4>3, <4>4, NewItemSlots
    <3>4. Cardinality(Pointing(InUse \cup {i}, forwarder', x)) = Cardinality(Pointing(InUse, forwarder, x))
      <4>1. InUse \in SUBSET Items /\ IsFiniteSet(InUse) /\ i \notin InUse
        BY <1>1, <1>2
      <4>2. forwarder'[i] = NULL /\ \A j \in Items : j # i => forwarder'[j] = forwarder[j]
        BY <1>6
      <4>3. QED  BY <4>1, <4>2, NewItemForwarder
    <3>6. /\ One(a, x) \in Int /\ One(b, x) \in Int /\ One(i, x) \in Int /\ One(target[h], x) \in Int
      BY DEF One
    <3>7. /\ Cardinality(Pointing(Slots, target, x)) \in Nat
          /\ Cardinality(Pointing(InUse, forwarder, x)) \in Nat
      BY CountTypes DEF Inv
    <3>8. refCount[x] = Cardinality(Pointing(Slots, target, x))
                        + Cardinality(Pointing(InUse, forwarder, x))
      BY IdleCounts
    <3>9. /\ refCount'[x] = refCount[x] + One(i, x) + One(a, x) + One(b, x)
          /\ Cardinality(DropsOf(todo', x)) = One(target[h], x)
      BY <1>4, <1>7
    <3>10. QED  BY <3>1, <3>4, <3>6, <3>7, <3>8, <3>9
  <2>2. QED  BY <2>1, <1>1 DEF Counts
<1>10. Blank'
  <2>1. ASSUME NEW j \in Items \ (InUse \cup {i})
        PROVE  refCount'[j] = 0 /\ target'[First(j)] = NULL /\ target'[Rest(j)] = NULL
    <3>1. refCount[j] = 0 /\ target[First(j)] = NULL /\ target[Rest(j)] = NULL
      BY DEF Inv, Blank
    <3>2. j # a /\ j # b /\ j # i
      BY <3>1, NullIsNoItem
    <3>3. One(i, j) = 0 /\ One(a, j) = 0 /\ One(b, j) = 0
      BY <3>2 DEF One
    <3>4. refCount'[j] = 0
      <4>1. j \in Items /\ refCount'[j] = refCount[j] + One(i, j) + One(a, j) + One(b, j)
        BY <1>4
      <4>2. QED  BY <4>1, <3>1, <3>3
    <3>5. First(j) \notin {First(i), Rest(i), h} /\ Rest(j) \notin {First(i), Rest(i), h}
      BY <3>2, SlotsDiffer
    <3>6. QED  BY <3>1, <3>4, <3>5, <1>5, SlotsOfItem
  <2>2. QED  BY <2>1, <1>1 DEF Blank
<1>11. Condemned' /\ Walking' /\ Emptied'
  <2>1. ASSUME NEW j \in InUse \cup {i} PROVE refCount'[j] # 0
    <3>1. j \in Items /\ refCount[j] \in Nat
      BY <1>2
    <3>2. One(i, j) \in Nat /\ One(a, j) \in Nat /\ One(b, j) \in Nat
      BY DEF One
    <3>3. refCount[j] # 0 \/ One(i, j) # 0
      BY IdleCounts DEF One
    <3>4. refCount'[j] = refCount[j] + One(i, j) + One(a, j) + One(b, j)
      BY <3>1, <1>4
    <3>5. QED  BY <3>1, <3>2, <3>3, <3>4
  <2>2. \A j \in InUse' : refCount'[j] # 0
    BY <2>1, <1>1
  <2>3. QED  BY <2>2, <1>7, OnlyDrops
<1>12. Acyclic(InUse, Referred)'
  <2> DEFINE new == ReferredBy(target', forwarder')
  <2>1. ASSUME NEW u \in InUse PROVE new[u] = Referred[u] /\ i \notin Referred[u]
    <3>1. u \in Items /\ u # i
      BY <1>1, <1>2
    <3>2. First(u) \notin {First(i), Rest(i), h} /\ Rest(u) \notin {First(i), Rest(i), h}
      BY <3>1, SlotsDiffer
    <3>3. target'[First(u)] = target[First(u)] /\ target'[Rest(u)] = target[Rest(u)] /\ forwarder'[u] = forwarder[u]
      BY <3>1, <3>2, <1>5, <1>6, SlotsOfItem
    <3>4. new[u] = Referred[u]
      BY <3>1, <3>3, Views DEF ReferredBy
    <3>5. QED  BY <3>4, <1>1, InUseClosed DEF Closed
  <2>2. i \notin new[i]
    <3>1. new[i] = {a, b, NULL} \ {NULL}
      BY <1>5, <1>6 DEF ReferredBy
    <3>2. QED  BY <3>1, <1>1, <1>2
  <2>3. \A u \in InUse \cup {i} : i \notin new[u]
    BY <2>1, <2>2
  <2>4. Acyclic(InUse, Referred)
    BY DEF Inv
  <2>5. Acyclic(InUse \cup {i}, new)
    <3>1. \A u \in InUse : new[u] \subseteq Referred[u]
      BY <2>1
    <3> HIDE DEF new
    <3>2. QED  BY <3>1, <2>3, <2>4, AcyclicMore
  <2>6. QED  BY <2>5, <1>1, Views
<1>13. QED  BY <1>1, <1>8, <1>9, <1>10, <1>11, <1>12 DEF Inv

\* makeAtom allocates an item without parts,
LEMMA AtomAllocated ==
  ASSUME Inv, NEW h \in Handles, makeAtom(h)
  PROVE  Idle /\ Fresh \in Items /\ Allocated(h, Fresh, NULL, NULL)
<1> DEFINE i == Fresh
<1>1. Idle /\ i \in Items
  BY DEF makeAtom
<1>2. /\ size' = IF available # NULL THEN size ELSE i
      /\ available' = IF available # NULL THEN forwarder[available] ELSE NULL
      /\ forwarder' = [forwarder EXCEPT ![i] = NULL]
      /\ target' = [target EXCEPT ![h] = i]
      /\ refCount' = [refCount EXCEPT ![i] = 1]
      /\ todo' = removeTarget(target[h])
  BY DEF makeAtom
<1> HIDE DEF i
<1>3. target[First(i)] = NULL /\ target[Rest(i)] = NULL
  BY <1>1, <1>2, FreshTaken DEF i
<1>4. target \in [Slots -> Pointers] /\ First(i) \in Slots /\ Rest(i) \in Slots
  BY <1>1, SlotsOfItem DEF Inv, Types
<1>5. [target EXCEPT ![h] = i] = [target EXCEPT ![First(i)] = NULL, ![Rest(i)] = NULL, ![h] = i]
  BY <1>3, <1>4
<1>6. addRef(addRef([refCount EXCEPT ![i] = 1], NULL), NULL) = [refCount EXCEPT ![i] = 1]
  BY DEF addRef
<1>7. Allocated(h, i, NULL, NULL)
  BY <1>2, <1>5, <1>6 DEF Allocated, i
<1>8. QED  BY <1>1, <1>7 DEF i

\* and cons one with the two it is given.
LEMMA ConsAllocated ==
  ASSUME NEW h \in Handles, NEW f \in Handles, NEW r \in Handles, cons(h, f, r)
  PROVE  Idle /\ Fresh \in Items /\ Allocated(h, Fresh, target[f], target[r])
BY DEF cons, Allocated

\* Allocate, cons or makeAtom, keeps the invariant.
LEMMA AllocateStep == Inv /\ Allocate => Inv'
<1> SUFFICES ASSUME Inv, Allocate PROVE Inv'
  OBVIOUS
<1>1. PICK h \in Handles :
        \/ makeAtom(h)
        \/ \E f, r \in Handles : target[f] # NULL /\ target[r] # NULL /\ cons(h, f, r)
  BY DEF Allocate
<1>2. CASE makeAtom(h)
  <2>1. Idle /\ Fresh \in Items /\ Allocated(h, Fresh, NULL, NULL) /\ NULL \in Pointers
    BY <1>2, AtomAllocated DEF Pointers
  <2>2. QED  BY <2>1, AllocStep
<1>3. ASSUME NEW f \in Handles, NEW r \in Handles,
             target[f] # NULL, target[r] # NULL, cons(h, f, r)
      PROVE  Inv'
  <2>1. target[f] \in Pointers /\ refCount[target[f]] # 0
    BY <1>3, TargetInUse, SlotsDiffer DEF Pointers
  <2>2. target[r] \in Pointers /\ refCount[target[r]] # 0
    BY <1>3, TargetInUse, SlotsDiffer DEF Pointers
  <2>3. Idle /\ Fresh \in Items /\ Allocated(h, Fresh, target[f], target[r])
    BY <1>3, ConsAllocated
  <2>4. QED  BY <2>1, <2>2, <2>3, AllocStep
<1>4. QED  BY <1>1, <1>2, <1>3

-----------------------------------------------------------------------------
(* Removal *)

\* The tasks behind the current one.
Later == DOMAIN todo \ {1}

\* The first task and those behind it.
LEMMA Ahead ==
  ASSUME todo \in Seq(Tasks), todo # <<>>
  PROVE  /\ 1 \in DOMAIN todo /\ Head(todo) = todo[1] /\ Head(todo) \in Tasks
         /\ Item = todo[1].item /\ Item \in Items
         /\ todo = <<Head(todo)>> \o Tail(todo) /\ Tail(todo) \in Seq(Tasks)
<1>1. 1 \in DOMAIN todo /\ Head(todo) = todo[1] /\ Head(todo) \in Tasks
      /\ todo = <<Head(todo)>> \o Tail(todo) /\ Tail(todo) \in Seq(Tasks)
  OBVIOUS
<1>2. QED  BY <1>1 DEF Item, Tasks

\* Where the tasks of two lists are in the one made of both.
LEMMA TasksJoined ==
  ASSUME NEW s \in Seq(Tasks), NEW r \in Seq(Tasks)
  PROVE  /\ s \o r \in Seq(Tasks) /\ DOMAIN (s \o r) = 1..(Len(s) + Len(r))
         /\ \A k \in 1..(Len(s) + Len(r)) : (s \o r)[k] = IF k <= Len(s) THEN s[k] ELSE r[k - Len(s)]
OBVIOUS

\* Where the tasks are when others have taken the place of the first.
LEMMA InsteadOf ==
  ASSUME todo \in Seq(Tasks), todo # <<>>, NEW tasks \in Seq(Tasks), Instead(tasks)
  PROVE  /\ todo' \in Seq(Tasks)
         /\ \A k \in DOMAIN todo' :
              \/ k \in DOMAIN tasks /\ todo'[k] = tasks[k]
              \/ k - Len(tasks) + 1 \in Later /\ todo'[k] = todo[k - Len(tasks) + 1]
         /\ \A k \in DOMAIN tasks : k \in DOMAIN todo' /\ todo'[k] = tasks[k]
         /\ \A l \in Later : l - 1 + Len(tasks) \in DOMAIN todo'
                             /\ todo'[l - 1 + Len(tasks)] = todo[l]
         /\ \A k \in DOMAIN todo' : k = 1 /\ tasks # <<>> => 1 \in DOMAIN tasks
         /\ todo' # <<>> => 1 \in DOMAIN todo' /\ Head(todo') = todo'[1]
<1> DEFINE t == Tail(todo)
           n == Len(tasks)
<1>1. /\ t \in Seq(Tasks) /\ Len(t) = Len(todo) - 1 /\ Len(todo) \in Nat \ {0} /\ n \in Nat
      /\ \A k \in 1..Len(t) : t[k] = todo[k + 1]
      /\ DOMAIN tasks = 1..n /\ DOMAIN todo = 1..Len(todo)
  OBVIOUS
<1>2. todo' = tasks \o t
  BY DEF Instead
<1> HIDE DEF t
<1>3. /\ todo' \in Seq(Tasks) /\ DOMAIN todo' = 1..(n + Len(t))
      /\ \A k \in 1..(n + Len(t)) : todo'[k] = IF k <= n THEN tasks[k] ELSE t[k - n]
  BY <1>1, <1>2, TasksJoined
<1> HIDE DEF n
<1>4. ASSUME NEW k \in DOMAIN todo'
      PROVE  \/ k \in DOMAIN tasks /\ todo'[k] = tasks[k]
             \/ k - n + 1 \in Later /\ todo'[k] = todo[k - n + 1]
  <2>1. CASE k <= n
    BY <1>1, <1>3, <2>1
  <2>2. CASE ~(k <= n)
    <3>1. k - n \in 1..Len(t) /\ k - n + 1 \in 1..Len(todo) /\ k - n + 1 # 1
      BY <1>1, <1>3, <2>2
    <3>2. todo'[k] = t[k - n] /\ t[k - n] = todo[k - n + 1]
      BY <1>1, <1>3, <2>2, <3>1
    <3>3. QED  BY <1>1, <3>1, <3>2 DEF Later
  <2>3. QED  BY <2>1, <2>2
<1>5. ASSUME NEW l \in Later
      PROVE  l - 1 + n \in DOMAIN todo' /\ todo'[l - 1 + n] = todo[l]
  <2>1. l - 1 \in 1..Len(t) /\ l - 1 + n \in 1..(n + Len(t)) /\ ~(l - 1 + n <= n) /\ (l - 1 + n) - n = l - 1
    BY <1>1 DEF Later
  <2>2. t[l - 1] = todo[l]
    BY <1>1, <2>1 DEF Later
  <2>3. QED  BY <1>3, <2>1, <2>2
<1>6. \A k \in DOMAIN tasks : k \in DOMAIN todo' /\ todo'[k] = tasks[k]
  BY <1>1, <1>3
<1>7. tasks # <<>> => 1 \in DOMAIN tasks
  BY <1>1 DEF n
<1>8. todo' # <<>> => 1 \in DOMAIN todo' /\ Head(todo') = todo'[1]
  <2>1. todo' \in Seq(Tasks)
    BY <1>3
  <2>2. QED  BY <2>1
<1>9. QED  BY <1>3, <1>4, <1>5, <1>6, <1>7, <1>8 DEF n

\* How many pointers are then dropped.
LEMMA InsteadDrops ==
  ASSUME todo \in Seq(Tasks), todo # <<>>, NEW tasks \in Seq(Tasks), Instead(tasks),
         NEW i \in Items
  PROVE  Cardinality(DropsOf(todo', i))
           = Cardinality(DropsOf(tasks, i)) + Cardinality(DropsOf(todo, i))
               - (IF Head(todo).op = "drop" THEN One(Item, i) ELSE 0)
<1> DEFINE h == <<Head(todo)>>
           t == Tail(todo)
<1>1. /\ h \in Seq(Tasks) /\ t \in Seq(Tasks) /\ todo = h \o t /\ todo' = tasks \o t
      /\ DOMAIN h = {1} /\ h[1] = Head(todo)
  BY Ahead DEF Instead
<1>2. Cardinality(DropsOf(h, i)) = IF Head(todo).op = "drop" THEN One(Item, i) ELSE 0
  <2>1. CASE Head(todo).op = "drop" /\ Item = i
    <3>1. DropsOf(h, i) = {1}
      BY <1>1, <2>1 DEF DropsOf, Item
    <3>2. QED  BY <3>1, <2>1, FS_Singleton DEF One
  <2>2. CASE ~(Head(todo).op = "drop" /\ Item = i)
    <3>1. DropsOf(h, i) = {}
      BY <1>1, <2>2 DEF DropsOf, Item
    <3>2. QED  BY <3>1, <2>2, FS_EmptySet DEF One
  <2>3. QED  BY <2>1, <2>2
<1> HIDE DEF h, t
<1>3. Cardinality(DropsOf(todo, i)) = Cardinality(DropsOf(h, i)) + Cardinality(DropsOf(t, i))
  BY <1>1, DropsJoined
<1>4. Cardinality(DropsOf(todo', i)) = Cardinality(DropsOf(tasks, i)) + Cardinality(DropsOf(t, i))
  BY <1>1, DropsJoined
<1>5. /\ Cardinality(DropsOf(h, i)) \in Nat /\ Cardinality(DropsOf(t, i)) \in Nat
      /\ Cardinality(DropsOf(tasks, i)) \in Nat
  BY <1>1, DropsFinite
<1> DEFINE x == Cardinality(DropsOf(h, i))
           y == Cardinality(DropsOf(t, i))
           z == Cardinality(DropsOf(tasks, i))
<1>6. Cardinality(DropsOf(todo', i)) = z + Cardinality(DropsOf(todo, i)) - x
  <2>1. x \in Nat /\ y \in Nat /\ z \in Nat
    BY <1>5
  <2>2. Cardinality(DropsOf(todo', i)) = z + y /\ Cardinality(DropsOf(todo, i)) = x + y
    BY <1>3, <1>4
  <2> HIDE DEF x, y, z
  <2>3. QED  BY <2>1, <2>2
<1>7. QED  BY <1>2, <1>6

\* What the new tasks must fulfil for the invariant of all of them.
LEMMA InsteadCondemned ==
  ASSUME Inv, todo # <<>>, NEW tasks \in Seq(Tasks), Instead(tasks),
         \A k \in DOMAIN tasks : \A i \in Doomed(tasks[k]) :
           i \in InUse' /\ refCount'[i] = 0 /\ \A l \in Later : i \notin Doomed(todo[l]),
         \A k, l \in DOMAIN tasks : k # l => Doomed(tasks[k]) \cap Doomed(tasks[l]) = {},
         \A l \in Later : \A i \in Doomed(todo[l]) : i \in InUse' /\ refCount'[i] = 0,
         \A i \in InUse' : refCount'[i] = 0 =>
           (\E k \in DOMAIN tasks : i \in Doomed(tasks[k])) \/ (\E l \in Later : i \in Doomed(todo[l]))
  PROVE  Condemned'
<1> DEFINE n == Len(tasks)
<1>1. todo \in Seq(Tasks) /\ n \in Nat /\ DOMAIN todo \subseteq Nat /\ DOMAIN todo' \subseteq Nat
      /\ Later \subseteq DOMAIN todo
  <2>1. todo' \in Seq(Tasks)
    BY InsteadOf DEF Inv, Types
  <2>2. QED  BY <2>1 DEF Inv, Types, Later
<1>2. /\ \A k \in DOMAIN todo' :
           \/ k \in DOMAIN tasks /\ todo'[k] = tasks[k]
           \/ k - n + 1 \in Later /\ todo'[k] = todo[k - n + 1]
      /\ \A k \in DOMAIN tasks : k \in DOMAIN todo' /\ todo'[k] = tasks[k]
      /\ \A l \in Later : l - 1 + n \in DOMAIN todo' /\ todo'[l - 1 + n] = todo[l]
  BY <1>1, InsteadOf
<1> HIDE DEF n
<1>3. ASSUME NEW k \in DOMAIN todo', NEW i \in Doomed(todo'[k]) PROVE i \in InUse' /\ refCount'[i] = 0
  BY <1>2
<1>4. ASSUME NEW k \in DOMAIN todo', NEW l \in DOMAIN todo', k # l
      PROVE  Doomed(todo'[k]) \cap Doomed(todo'[l]) = {}
  <2>1. \A a, b \in Later : a # b => Doomed(todo[a]) \cap Doomed(todo[b]) = {}
    BY <1>1 DEF Inv, Condemned
  <2>2. k - n + 1 # l - n + 1
    BY <1>1, <1>4
  <2>3. CASE k \in DOMAIN tasks /\ todo'[k] = tasks[k] /\ l \in DOMAIN tasks /\ todo'[l] = tasks[l]
    BY <2>3, <1>4
  <2>4. CASE /\ k \in DOMAIN tasks /\ todo'[k] = tasks[k]
             /\ l - n + 1 \in Later /\ todo'[l] = todo[l - n + 1]
    BY <2>4
  <2>5. CASE /\ l \in DOMAIN tasks /\ todo'[l] = tasks[l]
             /\ k - n + 1 \in Later /\ todo'[k] = todo[k - n + 1]
    BY <2>5
  <2>6. CASE /\ l - n + 1 \in Later /\ todo'[l] = todo[l - n + 1]
             /\ k - n + 1 \in Later /\ todo'[k] = todo[k - n + 1]
    <3>1. Doomed(todo[k - n + 1]) \cap Doomed(todo[l - n + 1]) = {}
      BY <2>1, <2>2, <2>6
    <3>2. QED  BY <3>1, <2>6
  <2>7. QED  BY <1>2, <2>3, <2>4, <2>5, <2>6
<1>5. ASSUME NEW i \in InUse', refCount'[i] = 0 PROVE \E k \in DOMAIN todo' : i \in Doomed(todo'[k])
  BY <1>2, <1>5
<1>6. QED  BY <1>3, <1>4, <1>5 DEF Condemned

\* Without a walk the other parts are simple.
LEMMA InsteadNoWalk ==
  ASSUME Inv, todo # <<>>, NEW tasks \in Seq(Tasks), Instead(tasks),
         \A k \in DOMAIN tasks : tasks[k].op # "forwarders",
         \A k \in DOMAIN tasks : \A i \in Doomed(tasks[k]) : forwarder'[i] = NULL,
         \A l \in Later : \A i \in Doomed(todo[l]) : forwarder'[i] = NULL,
         \A k \in DOMAIN tasks : tasks[k].op = "free" =>
           target'[First(tasks[k].item)] = NULL /\ target'[Rest(tasks[k].item)] = NULL,
         \A l \in Later : todo[l].op = "free" =>
           target'[First(todo[l].item)] = NULL /\ target'[Rest(todo[l].item)] = NULL
  PROVE  Walking' /\ Emptied'
<1>1. todo \in Seq(Tasks) /\ \A l \in Later : todo[l].op # "forwarders"
  BY DEF Inv, Types, Walking, Later
<1>2. /\ \A k \in DOMAIN todo' :
           \/ k \in DOMAIN tasks /\ todo'[k] = tasks[k]
           \/ \E l \in Later : todo'[k] = todo[l]
      /\ todo' # <<>> => 1 \in DOMAIN todo' /\ Head(todo') = todo'[1]
  <2>1. /\ \A k \in DOMAIN todo' :
             \/ k \in DOMAIN tasks /\ todo'[k] = tasks[k]
             \/ k - Len(tasks) + 1 \in Later /\ todo'[k] = todo[k - Len(tasks) + 1]
        /\ todo' # <<>> => 1 \in DOMAIN todo' /\ Head(todo') = todo'[1]
    BY <1>1, InsteadOf
  <2>2. QED  BY <2>1
<1>3. \A k \in DOMAIN todo' : todo'[k].op # "forwarders"
  BY <1>1, <1>2
<1>4. ~Current("forwarders")'
  BY <1>2, <1>3 DEF Current
<1>5. Walking'
  BY <1>3, <1>4 DEF Walking
<1>6. Emptied'
  <2>1. \A k \in DOMAIN todo' : \A i \in Doomed(todo'[k]) : forwarder'[i] = NULL
    BY <1>2
  <2>2. \A k \in DOMAIN todo' : todo'[k].op = "free" =>
          target'[First(todo'[k].item)] = NULL /\ target'[Rest(todo'[k].item)] = NULL
    BY <1>2
  <2>3. QED  BY <2>1, <2>2 DEF Emptied
<1>7. QED  BY <1>5, <1>6

\* Tasks that are no drops drop nothing.
LEMMA OtherTasks ==
  ASSUME NEW s \in Seq(Tasks), \A k \in DOMAIN s : s[k].op # "drop", NEW i
  PROVE  Cardinality(DropsOf(s, i)) = 0
<1>1. DropsOf(s, i) = {}
  BY DEF DropsOf
<1>2. QED  BY <1>1, FS_EmptySet

\* Drop keeps the invariant: the last reference condemns the item.
LEMMA DropStep == Inv /\ Drop => Inv'
<1> SUFFICES ASSUME Inv, Drop PROVE Inv'
  OBVIOUS
<1> DEFINE i == Item
           tasks == IF refCount[i] # 1 THEN <<>>
                    ELSE <<Task("forwarders", i, <<>>), Task("remove", i, <<>>)>>
<1>1. /\ todo # <<>> /\ todo \in Seq(Tasks) /\ Head(todo).op = "drop"
      /\ Instead(tasks) /\ target' = target /\ forwarder' = forwarder
      /\ size' = size /\ available' = available
      /\ IF refCount[i] = 0 THEN refCount' = refCount ELSE refCount' = [refCount EXCEPT ![i] = @ - 1]
  BY DEF Drop, Current, removeRef, Inv, Types
<1>2. /\ 1 \in DOMAIN todo /\ Head(todo) = todo[1] /\ i = todo[1].item /\ i \in Items
  BY <1>1, Ahead
<1>3. refCount[i] > 0 /\ i \in InUse
  BY <1>1, <1>2, Counted
<1>4. refCount \in [Items -> Nat] /\ InUse \subseteq Items
  BY PoolTypes DEF Inv, Types
<1>5. /\ refCount' \in [Items -> Nat] /\ refCount'[i] = refCount[i] - 1
      /\ \A x \in Items : x # i => refCount'[x] = refCount[x]
  BY <1>1, <1>2, <1>3, <1>4
<1>6. tasks \in Seq(Tasks) /\ \A k \in DOMAIN tasks : tasks[k].op # "drop"
  <2>1. <<>> \in Seq(Tasks) /\ DOMAIN <<>> = {}
    OBVIOUS
  <2>2. Task("forwarders", i, <<>>) \in Tasks /\ Task("remove", i, <<>>) \in Tasks
    BY <1>2 DEF Task, Tasks, Ops
  <2>3. Task("forwarders", i, <<>>).op # "drop" /\ Task("remove", i, <<>>).op # "drop"
    BY DEF Task
  <2>4. QED  BY <2>1, <2>2, <2>3
<1> HIDE DEF tasks, i
<1>7. todo' \in Seq(Tasks)
  BY <1>1, <1>6, InsteadOf
<1>8. Types'
  BY <1>1, <1>5, <1>7 DEF Inv, Types
<1>9. Available' = Available /\ InUse' = InUse
  BY <1>1, Views DEF InUse
<1>10. Counts'
  <2>1. ASSUME NEW x \in Items
        PROVE  refCount'[x] = Cardinality(Pointing(Slots, target, x))
                              + Cardinality(Pointing(InUse, forwarder, x))
                              + Cardinality(DropsOf(todo', x))
    <3>1. Cardinality(DropsOf(todo', x))
            = Cardinality(DropsOf(tasks, x)) + Cardinality(DropsOf(todo, x)) - One(i, x)
      BY <1>1, <1>6, InsteadDrops DEF i
    <3>2. Cardinality(DropsOf(tasks, x)) = 0
      BY <1>6, OtherTasks
    <3>3. refCount'[x] = refCount[x] - One(i, x)
      BY <1>4, <1>5 DEF One
    <3>4. refCount[x] = Cardinality(Pointing(Slots, target, x))
                        + Cardinality(Pointing(InUse, forwarder, x))
                        + Cardinality(DropsOf(todo, x))
      BY DEF Inv, Counts
    <3>5. /\ Cardinality(Pointing(Slots, target, x)) \in Nat
          /\ Cardinality(Pointing(InUse, forwarder, x)) \in Nat
          /\ Cardinality(DropsOf(todo, x)) \in Nat /\ One(i, x) \in Int
      BY CountTypes DEF Inv, One
    <3>6. QED  BY <3>1, <3>2, <3>3, <3>4, <3>5
  <2>2. QED  BY <2>1, <1>1, <1>9 DEF Counts
<1>11. Chain'
  BY <1>1, <1>9 DEF Inv, Chain
<1>12. Blank'
  <2>1. \A x \in Items \ InUse : refCount'[x] = refCount[x]
    BY <1>3, <1>5
  <2>2. QED  BY <2>1, <1>1, <1>9 DEF Inv, Blank
<1>13. Acyclic(InUse, Referred)'
  BY <1>1, <1>9, Views DEF Inv
<1>14. \A l \in Later : \A x \in Doomed(todo[l]) : x \in InUse /\ refCount[x] = 0 /\ x # i /\ refCount'[x] = 0
  <2>1. \A l \in Later : \A x \in Doomed(todo[l]) : x \in InUse /\ refCount[x] = 0
    BY DEF Inv, Condemned, Later
  <2>2. QED  BY <2>1, <1>3, <1>4, <1>5
<1>15. Doomed(todo[1]) = {}
  BY <1>1, <1>2 DEF Doomed
<1>16. \A x \in InUse : refCount[x] = 0 => \E l \in Later : x \in Doomed(todo[l])
  BY <1>15 DEF Inv, Condemned, Later
<1>17. ~Current("forwarders")
  BY <1>1 DEF Current
<1>18. /\ \A l \in Later : \A x \in Doomed(todo[l]) : forwarder'[x] = NULL
       /\ \A l \in Later : todo[l].op = "free" =>
            target'[First(todo[l].item)] = NULL /\ target'[Rest(todo[l].item)] = NULL
  BY <1>1, <1>17 DEF Inv, Emptied, Later
<1>19. CASE refCount[i] # 1
  <2>1. tasks = <<>> /\ DOMAIN tasks = {}
    BY <1>19 DEF tasks
  <2>2. refCount'[i] # 0
    BY <1>3, <1>4, <1>5, <1>2, <1>19
  <2>3. Condemned'
    <3>1. \A x \in InUse' : refCount'[x] = 0 => \E l \in Later : x \in Doomed(todo[l])
      BY <2>2, <1>4, <1>5, <1>9, <1>16
    <3>2. QED  BY <3>1, <2>1, <1>1, <1>6, <1>9, <1>14, InsteadCondemned
  <2>4. Walking' /\ Emptied'
    <3>1. /\ \A k \in DOMAIN tasks : tasks[k].op # "forwarders"
          /\ \A k \in DOMAIN tasks : \A x \in Doomed(tasks[k]) : forwarder'[x] = NULL
          /\ \A k \in DOMAIN tasks : tasks[k].op = "free" =>
               target'[First(tasks[k].item)] = NULL /\ target'[Rest(tasks[k].item)] = NULL
      BY <2>1
    <3>2. \A l \in Later : \A x \in Doomed(todo[l]) : forwarder'[x] = NULL
      BY <1>18
    <3>3. \A l \in Later : todo[l].op = "free" =>
            target'[First(todo[l].item)] = NULL /\ target'[Rest(todo[l].item)] = NULL
      BY <1>18
    <3>4. todo # <<>> /\ tasks \in Seq(Tasks) /\ Instead(tasks)
      BY <1>1, <1>6
    <3>5. QED  BY <3>1, <3>2, <3>3, <3>4, InsteadNoWalk
  <2>5. QED  BY <2>3, <2>4, <1>8, <1>10, <1>11, <1>12, <1>13 DEF Inv
<1>20. CASE refCount[i] = 1
  <2>1. tasks = <<Task("forwarders", i, <<>>), Task("remove", i, <<>>)>>
    BY <1>20 DEF tasks
  <2>2. /\ DOMAIN tasks = {1, 2} /\ tasks[1] = Task("forwarders", i, <<>>)
        /\ tasks[2] = Task("remove", i, <<>>)
    BY <2>1
  <2>3. Doomed(tasks[1]) = {} /\ Doomed(tasks[2]) = {i}
    BY <2>2, <1>2 DEF Doomed, Task
  <2>4. refCount'[i] = 0
    BY <1>5, <1>20
  <2>5. Condemned'
    <3>1. \A k \in DOMAIN tasks : \A x \in Doomed(tasks[k]) :
            x \in InUse' /\ refCount'[x] = 0 /\ \A l \in Later : x \notin Doomed(todo[l])
      BY <2>2, <2>3, <2>4, <1>3, <1>9, <1>14
    <3>2. \A k, l \in DOMAIN tasks : k # l => Doomed(tasks[k]) \cap Doomed(tasks[l]) = {}
      BY <2>2, <2>3
    <3>3. \A x \in InUse' : refCount'[x] = 0 =>
            (\E k \in DOMAIN tasks : x \in Doomed(tasks[k])) \/ (\E l \in Later : x \in Doomed(todo[l]))
      BY <2>2, <2>3, <1>4, <1>5, <1>9, <1>16
    <3>4. QED  BY <3>1, <3>2, <3>3, <1>1, <1>6, <1>9, <1>14, InsteadCondemned
  <2>6. /\ 1 \in DOMAIN todo' /\ todo'[1] = tasks[1] /\ 2 \in DOMAIN todo' /\ todo'[2] = tasks[2]
        /\ Head(todo') = todo'[1]
        /\ \A k \in DOMAIN todo' : k \in {1, 2} \/ \E l \in Later : todo'[k] = todo[l]
    <3>1. /\ \A k \in DOMAIN todo' :
               \/ k \in DOMAIN tasks /\ todo'[k] = tasks[k]
               \/ k - Len(tasks) + 1 \in Later /\ todo'[k] = todo[k - Len(tasks) + 1]
          /\ \A k \in DOMAIN tasks : k \in DOMAIN todo' /\ todo'[k] = tasks[k]
          /\ todo' # <<>> => Head(todo') = todo'[1]
      BY <1>1, <1>6, InsteadOf
    <3>2. 1 \in DOMAIN todo' /\ 2 \in DOMAIN todo'
      BY <3>1, <2>2
    <3>3. todo' # <<>>
      BY <3>2
    <3>4. QED  BY <3>1, <3>2, <3>3, <2>2
  <2>7. /\ Item' = i /\ Head(todo').lst = <<>> /\ Current("forwarders")'
        /\ todo'[1].op = "forwarders" /\ todo'[2] = Task("remove", i, <<>>)
        /\ todo'[2].op = "remove"
    <3>1. todo' # <<>>
      BY <2>6
    <3>2. QED  BY <3>1, <2>2, <2>6 DEF Item, Current, Task
  <2>8. \A l \in Later : todo[l].op # "forwarders"
    BY DEF Inv, Walking, Later
  <2>9. Walking'
    <3>1. \A k \in DOMAIN todo' : todo'[k].op = "forwarders" => k = 1
      BY <2>6, <2>7, <2>8
    <3>2. \A m, n \in DOMAIN <<>> : <<>>[m] = <<>>[n] => m = n
      OBVIOUS
    <3>3. QED  BY <3>1, <3>2, <2>6, <2>7 DEF Walking
  <2>10. Emptied'
    <3>1. ASSUME NEW k \in DOMAIN todo', NEW x \in Doomed(todo'[k]) PROVE forwarder'[x] = NULL \/ x = i
      <4>1. CASE k = 1
        BY <4>1, <3>1, <2>3, <2>6
      <4>3. CASE k = 2
        BY <4>3, <3>1, <2>3, <2>6
      <4>2. CASE \E l \in Later : todo'[k] = todo[l]
        <5>1. PICK l \in Later : todo'[k] = todo[l]
          BY <4>2
        <5>2. x \in Doomed(todo[l])
          BY <5>1, <3>1
        <5>3. QED  BY <5>2, <1>18
      <4>4. QED  BY <4>1, <4>2, <4>3, <2>6
    <3>2. ASSUME NEW k \in DOMAIN todo', todo'[k].op = "free"
          PROVE  target'[First(todo'[k].item)] = NULL /\ target'[Rest(todo'[k].item)] = NULL
      <4>1. k \notin {1, 2}
        BY <3>2, <2>7
      <4>2. PICK l \in Later : todo'[k] = todo[l]
        BY <4>1, <2>6
      <4>3. todo[l].op = "free"
        BY <4>2, <3>2
      <4>4. target'[First(todo[l].item)] = NULL /\ target'[Rest(todo[l].item)] = NULL
        BY <4>3, <1>18
      <4>5. QED  BY <4>2, <4>4
    <3>3. \A k \in DOMAIN todo' : \A x \in Doomed(todo'[k]) :
            forwarder'[x] = NULL \/ (Current("forwarders")' /\ x = Item')
      BY <3>1, <2>7
    <3>4. QED  BY <3>2, <3>3 DEF Emptied
  <2>11. QED  BY <2>5, <2>9, <2>10, <1>8, <1>10, <1>11, <1>12, <1>13 DEF Inv
<1>21. QED  BY <1>19, <1>20

-----------------------------------------------------------------------------
(* The walk along a chain of forwarders *)

Collected(s) == {s[n] : n \in DOMAIN s}

\* What is known when the first task is a walk.
LEMMA WalkFacts ==
  ASSUME Inv, Current("forwarders")
  PROVE  /\ todo # <<>> /\ todo \in Seq(Tasks) /\ Head(todo).op = "forwarders"
         /\ Item \in InUse /\ refCount[Item] = 0 /\ Item \in Items
         /\ Head(todo).lst \in Seq(Items)
         /\ \A m, n \in DOMAIN Head(todo).lst : Head(todo).lst[m] = Head(todo).lst[n] => m = n
         /\ \A x \in Collected(Head(todo).lst) :
              x \in InUse /\ refCount[x] = 0 /\ (forwarder[x] = NULL \/ x = Item)
         /\ \A l \in Later : \A x \in Doomed(todo[l]) :
              /\ x \in InUse /\ refCount[x] = 0 /\ (forwarder[x] = NULL \/ x = Item)
              /\ x \notin Collected(Head(todo).lst)
         /\ \A x \in InUse : refCount[x] = 0 =>
              x \in Collected(Head(todo).lst) \/ \E l \in Later : x \in Doomed(todo[l])
<1> DEFINE lst == Head(todo).lst
<1>1. todo # <<>> /\ todo \in Seq(Tasks) /\ Head(todo).op = "forwarders"
  BY DEF Current, Inv, Types
<1>2. 1 \in DOMAIN todo /\ Head(todo) = todo[1] /\ Head(todo) \in Tasks
  BY <1>1, Ahead
<1>3. Item \in Items /\ lst \in Seq(Items)
  BY <1>2 DEF Tasks, Item
<1>4. Doomed(todo[1]) = Collected(lst)
  <2>1. \A n \in DOMAIN lst : lst[n] \in Items
    BY <1>3
  <2>2. QED  BY <1>1, <1>2, <2>1 DEF Doomed, Collected
<1>5. /\ \A m, n \in DOMAIN lst : lst[m] = lst[n] => m = n
      /\ IF lst = <<>> THEN 2 \in DOMAIN todo /\ todo[2] = Task("remove", Item, <<>>)
                       ELSE lst[Len(lst)] = Item
  BY DEF Inv, Walking
<1>6. \A k \in DOMAIN todo : \A x \in Doomed(todo[k]) :
        x \in InUse /\ refCount[x] = 0 /\ (forwarder[x] = NULL \/ x = Item)
  BY DEF Inv, Condemned, Emptied
<1>7. \A l \in Later : l \in DOMAIN todo /\ Doomed(todo[l]) \cap Doomed(todo[1]) = {}
  BY <1>2 DEF Inv, Condemned, Later
<1>8. \A x \in InUse : refCount[x] = 0 =>
        x \in Collected(lst) \/ \E l \in Later : x \in Doomed(todo[l])
  BY <1>4 DEF Inv, Condemned, Later
<1>9. \E k \in DOMAIN todo : Item \in Doomed(todo[k])
  <2>1. CASE lst = <<>>
    <3>1. todo[2].op = "remove" /\ todo[2].item = Item /\ 2 \in DOMAIN todo
      BY <1>5, <2>1 DEF Task
    <3>2. QED  BY <3>1, <1>3 DEF Doomed
  <2>2. CASE lst # <<>>
    <3>1. Len(lst) \in DOMAIN lst /\ lst[Len(lst)] = Item
      BY <1>3, <1>5, <2>2
    <3>2. Item \in Doomed(todo[1])
      BY <3>1, <1>4 DEF Collected
    <3>3. QED  BY <3>2, <1>2
  <2>3. QED  BY <2>1, <2>2
<1>10. Item \in InUse /\ refCount[Item] = 0
  BY <1>6, <1>9
<1>11. \A x \in Collected(lst) : x \in InUse /\ refCount[x] = 0 /\ (forwarder[x] = NULL \/ x = Item)
  BY <1>2, <1>4, <1>6
<1>12. \A l \in Later : \A x \in Doomed(todo[l]) :
         /\ x \in InUse /\ refCount[x] = 0 /\ (forwarder[x] = NULL \/ x = Item)
         /\ x \notin Collected(lst)
  BY <1>4, <1>6, <1>7
<1> HIDE DEF lst
<1>13. QED  BY <1>1, <1>3, <1>5, <1>8, <1>10, <1>11, <1>12 DEF lst

\* The tasks for the items that have been collected.
LEMMA RemovesTasks ==
  ASSUME NEW lst \in Seq(Items)
  PROVE  /\ Removes(lst) \in Seq(Tasks) /\ DOMAIN Removes(lst) = DOMAIN lst
         /\ \A k \in DOMAIN lst : Removes(lst)[k].op = "remove" /\ Doomed(Removes(lst)[k]) = {lst[k]}
<1>1. DOMAIN lst = 1..Len(lst) /\ Len(lst) \in Nat /\ \A k \in DOMAIN lst : lst[k] \in Items
  OBVIOUS
<1>2. DOMAIN Removes(lst) = DOMAIN lst
      /\ \A k \in DOMAIN lst : Removes(lst)[k] = Task("remove", lst[k], <<>>)
  BY DEF Removes
<1>3. \A k \in DOMAIN lst : Task("remove", lst[k], <<>>) \in Tasks
  BY <1>1 DEF Task, Tasks, Ops
<1>4. Removes(lst) \in Seq(Tasks)
  <2>1. Removes(lst) \in [1..Len(lst) -> Tasks]
    BY <1>1, <1>2, <1>3 DEF Removes
  <2>2. QED  BY <2>1, <1>1
<1>5. ASSUME NEW k \in DOMAIN lst
      PROVE  Removes(lst)[k].op = "remove" /\ Doomed(Removes(lst)[k]) = {lst[k]}
  <2>1. Removes(lst)[k].op = "remove" /\ Removes(lst)[k].item = lst[k]
    BY <1>2 DEF Task
  <2>2. QED  BY <2>1, <1>1 DEF Doomed
<1>6. QED  BY <1>2, <1>4, <1>5

\* The walk ends: what it has collected is cleared.
LEMMA WalkEnds ==
  ASSUME Inv, Current("forwarders"), Instead(Removes(Head(todo).lst)),
         InUse' = InUse, target' = target,
         \A x \in InUse : refCount'[x] = 0 <=> refCount[x] = 0,
         \A x \in Items : x # Item => forwarder'[x] = forwarder[x],
         forwarder'[Item] = NULL
  PROVE  /\ todo' \in Seq(Tasks)
         /\ \A x \in Items : Cardinality(DropsOf(todo', x)) = Cardinality(DropsOf(todo, x))
         /\ Condemned' /\ Walking' /\ Emptied'
<1> DEFINE lst == Head(todo).lst
           tasks == Removes(lst)
<1>1. /\ todo # <<>> /\ todo \in Seq(Tasks) /\ Head(todo).op = "forwarders"
      /\ lst \in Seq(Items) /\ \A m, n \in DOMAIN lst : lst[m] = lst[n] => m = n
  BY WalkFacts
<1>2. \A x \in Collected(lst) : x \in InUse /\ refCount[x] = 0 /\ (forwarder[x] = NULL \/ x = Item)
  BY WalkFacts
<1>3. \A l \in Later : \A x \in Doomed(todo[l]) :
        /\ x \in InUse /\ refCount[x] = 0 /\ (forwarder[x] = NULL \/ x = Item)
        /\ x \notin Collected(lst)
  BY WalkFacts
<1>4. \A x \in InUse : refCount[x] = 0 =>
        x \in Collected(lst) \/ \E l \in Later : x \in Doomed(todo[l])
  BY WalkFacts
<1> HIDE DEF lst
<1>5. /\ tasks \in Seq(Tasks) /\ DOMAIN tasks = DOMAIN lst
      /\ \A k \in DOMAIN lst : tasks[k].op = "remove" /\ Doomed(tasks[k]) = {lst[k]}
  BY <1>1, RemovesTasks
<1> HIDE DEF tasks
<1>6. Instead(tasks)
  BY DEF tasks, lst
<1>7. todo' \in Seq(Tasks)
  BY <1>1, <1>5, <1>6, InsteadOf
<1>8. ASSUME NEW x \in Items
      PROVE  Cardinality(DropsOf(todo', x)) = Cardinality(DropsOf(todo, x))
  <2>1. Cardinality(DropsOf(todo', x)) = Cardinality(DropsOf(tasks, x)) + Cardinality(DropsOf(todo, x)) - 0
    BY <1>1, <1>5, <1>6, InsteadDrops
  <2>2. Cardinality(DropsOf(tasks, x)) = 0
    BY <1>5, OtherTasks
  <2>3. Cardinality(DropsOf(todo, x)) \in Nat
    BY <1>1, DropsFinite
  <2>4. QED  BY <2>1, <2>2, <2>3
<1>9. \A k \in DOMAIN lst : lst[k] \in Collected(lst)
  BY DEF Collected
<1>10. Condemned'
  <2>1. \A k \in DOMAIN tasks : \A x \in Doomed(tasks[k]) :
          x \in InUse' /\ refCount'[x] = 0 /\ \A l \in Later : x \notin Doomed(todo[l])
    BY <1>2, <1>3, <1>5, <1>9
  <2>2. \A k, l \in DOMAIN tasks : k # l => Doomed(tasks[k]) \cap Doomed(tasks[l]) = {}
    BY <1>1, <1>5
  <2>3. \A l \in Later : \A x \in Doomed(todo[l]) : x \in InUse' /\ refCount'[x] = 0
    BY <1>3
  <2>4. ASSUME NEW x \in InUse', refCount'[x] = 0
        PROVE  (\E k \in DOMAIN tasks : x \in Doomed(tasks[k])) \/ (\E l \in Later : x \in Doomed(todo[l]))
    <3>1. x \in Collected(lst) \/ \E l \in Later : x \in Doomed(todo[l])
      BY <1>4, <2>4
    <3>2. x \in Collected(lst) => \E k \in DOMAIN tasks : x \in Doomed(tasks[k])
      BY <1>5 DEF Collected
    <3>3. QED  BY <3>1, <3>2
  <2>5. todo # <<>>
    BY <1>1
  <2>6. QED  BY <2>1, <2>2, <2>3, <2>4, <2>5, <1>5, <1>6, InsteadCondemned
<1>11. \A x \in InUse : forwarder[x] = NULL \/ x = Item => forwarder'[x] = NULL
  BY PoolTypes DEF Inv
<1>12. Walking' /\ Emptied'
  <2>1. /\ \A k \in DOMAIN tasks : tasks[k].op # "forwarders"
        /\ \A k \in DOMAIN tasks : tasks[k].op = "free" =>
             target'[First(tasks[k].item)] = NULL /\ target'[Rest(tasks[k].item)] = NULL
    BY <1>5
  <2>2. \A k \in DOMAIN tasks : \A x \in Doomed(tasks[k]) : forwarder'[x] = NULL
    BY <1>2, <1>5, <1>9, <1>11
  <2>3. \A l \in Later : \A x \in Doomed(todo[l]) : forwarder'[x] = NULL
    BY <1>3, <1>11
  <2>4. \A l \in Later : todo[l].op = "free" =>
          target'[First(todo[l].item)] = NULL /\ target'[Rest(todo[l].item)] = NULL
    <3>1. \A l \in Later : todo[l].op = "free" =>
            target[First(todo[l].item)] = NULL /\ target[Rest(todo[l].item)] = NULL
      BY DEF Inv, Emptied, Later
    <3>2. QED  BY <3>1
  <2>5. todo # <<>>
    BY <1>1
  <2>6. QED  BY <2>1, <2>2, <2>3, <2>4, <2>5, <1>5, <1>6, InsteadNoWalk
<1>13. QED  BY <1>7, <1>8, <1>10, <1>12

\* The end of a chain of forwarders keeps the invariant.
LEMMA EndOfForwardersStep == Inv /\ EndOfForwarders => Inv'
<1> SUFFICES ASSUME Inv, EndOfForwarders PROVE Inv'
  OBVIOUS
<1>1. /\ Current("forwarders") /\ forwarder[Item] = NULL /\ Instead(Removes(Head(todo).lst))
      /\ target' = target /\ refCount' = refCount /\ forwarder' = forwarder
      /\ size' = size /\ available' = available
  BY DEF EndOfForwarders
<1>2. Available' = Available /\ InUse' = InUse
  BY <1>1, Views DEF InUse
<1>3. /\ todo' \in Seq(Tasks)
      /\ \A x \in Items : Cardinality(DropsOf(todo', x)) = Cardinality(DropsOf(todo, x))
      /\ Condemned' /\ Walking' /\ Emptied'
  BY <1>1, <1>2, WalkEnds
<1>4. Types'
  BY <1>1, <1>3 DEF Inv, Types
<1>5. Counts'
  BY <1>1, <1>2, <1>3 DEF Inv, Counts
<1>6. Chain' /\ Blank'
  BY <1>1, <1>2 DEF Inv, Chain, Blank
<1>7. Acyclic(InUse, Referred)'
  BY <1>1, <1>2, Views DEF Inv
<1>8. QED  BY <1>3, <1>4, <1>5, <1>6, <1>7 DEF Inv

\* The walk goes on at the next item, whose last reference this was.
LEMMA WalkGoesOn ==
  ASSUME Inv, Current("forwarders"), NEW next \in InUse, refCount[next] = 1,
         Instead(<<Task("forwarders", next, Append(Head(todo).lst, next))>>),
         InUse' = InUse, target' = target,
         refCount'[next] = 0,
         \A x \in InUse : x # next => refCount'[x] = refCount[x],
         \A x \in Items : x # Item => forwarder'[x] = forwarder[x],
         forwarder'[Item] = NULL
  PROVE  /\ todo' \in Seq(Tasks)
         /\ \A x \in Items : Cardinality(DropsOf(todo', x)) = Cardinality(DropsOf(todo, x))
         /\ Condemned' /\ Walking' /\ Emptied'
<1> DEFINE lst == Head(todo).lst
           longer == Append(lst, next)
           tasks == <<Task("forwarders", next, longer)>>
<1>1. /\ todo # <<>> /\ todo \in Seq(Tasks) /\ Head(todo).op = "forwarders"
      /\ lst \in Seq(Items) /\ \A m, n \in DOMAIN lst : lst[m] = lst[n] => m = n
  BY WalkFacts
<1>2. \A x \in Collected(lst) : x \in InUse /\ refCount[x] = 0 /\ (forwarder[x] = NULL \/ x = Item)
  BY WalkFacts
<1>3. \A l \in Later : \A x \in Doomed(todo[l]) :
        /\ x \in InUse /\ refCount[x] = 0 /\ (forwarder[x] = NULL \/ x = Item)
        /\ x \notin Collected(lst)
  BY WalkFacts
<1>4. \A x \in InUse : refCount[x] = 0 =>
        x \in Collected(lst) \/ \E l \in Later : x \in Doomed(todo[l])
  BY WalkFacts
<1>5. next \in Items /\ InUse \subseteq Items
  BY PoolTypes DEF Inv
<1> HIDE DEF lst
<1>6. /\ longer \in Seq(Items) /\ DOMAIN longer = DOMAIN lst \cup {Len(lst) + 1}
      /\ Len(longer) = Len(lst) + 1 /\ longer # <<>> /\ Len(lst) + 1 \notin DOMAIN lst
      /\ longer[Len(lst) + 1] = next /\ \A n \in DOMAIN lst : longer[n] = lst[n]
  BY <1>1, <1>5
<1>7. Collected(longer) = Collected(lst) \cup {next} /\ next \notin Collected(lst)
  BY <1>2, <1>6 DEF Collected
<1> HIDE DEF longer
<1>8. tasks \in Seq(Tasks) /\ DOMAIN tasks = {1} /\ tasks[1] = Task("forwarders", next, longer)
  <2>1. Task("forwarders", next, longer) \in Tasks
    BY <1>5, <1>6 DEF Task, Tasks, Ops
  <2>2. QED  BY <2>1
<1>9. tasks[1].op = "forwarders" /\ tasks[1].item = next /\ tasks[1].lst = longer
  BY <1>8 DEF Task
<1>10. Doomed(tasks[1]) = Collected(longer)
  <2>1. \A n \in DOMAIN longer : longer[n] \in Items
    BY <1>6
  <2>2. QED  BY <1>9, <2>1 DEF Doomed, Collected
<1> HIDE DEF tasks
<1>11. Instead(tasks)
  BY DEF tasks, longer, lst
<1>12. /\ todo' \in Seq(Tasks) /\ 1 \in DOMAIN todo' /\ todo'[1] = tasks[1]
       /\ \A k \in DOMAIN todo' : k = 1 \/ \E l \in Later : todo'[k] = todo[l]
       /\ Head(todo') = todo'[1] /\ todo' # <<>>
  <2>1. /\ todo' \in Seq(Tasks)
        /\ \A k \in DOMAIN todo' :
             \/ k \in DOMAIN tasks /\ todo'[k] = tasks[k]
             \/ k - Len(tasks) + 1 \in Later /\ todo'[k] = todo[k - Len(tasks) + 1]
        /\ \A k \in DOMAIN tasks : k \in DOMAIN todo' /\ todo'[k] = tasks[k]
        /\ todo' # <<>> => Head(todo') = todo'[1]
    BY <1>1, <1>8, <1>11, InsteadOf
  <2>2. 1 \in DOMAIN todo' /\ todo'[1] = tasks[1]
    BY <2>1, <1>8
  <2>3. todo' # <<>>
    BY <2>2
  <2>4. QED  BY <2>1, <2>2, <2>3, <1>8
<1>13. ASSUME NEW x \in Items
       PROVE  Cardinality(DropsOf(todo', x)) = Cardinality(DropsOf(todo, x))
  <2>1. Cardinality(DropsOf(todo', x)) = Cardinality(DropsOf(tasks, x)) + Cardinality(DropsOf(todo, x)) - 0
    BY <1>1, <1>8, <1>11, InsteadDrops
  <2>2. \A k \in DOMAIN tasks : tasks[k].op # "drop"
    BY <1>8, <1>9
  <2>3. Cardinality(DropsOf(tasks, x)) = 0
    BY <1>8, <2>2, OtherTasks
  <2>4. Cardinality(DropsOf(todo, x)) \in Nat
    BY <1>1, DropsFinite
  <2>5. QED  BY <2>1, <2>3, <2>4
<1>14. \A l \in Later : \A x \in Doomed(todo[l]) : x \in InUse /\ x # next /\ refCount'[x] = 0
  BY <1>3
<1>15. \A x \in Collected(lst) : x \in InUse /\ x # next /\ refCount'[x] = 0
  BY <1>2
<1>16. Condemned'
  <2>1. \A k \in DOMAIN tasks : \A x \in Doomed(tasks[k]) :
          x \in InUse' /\ refCount'[x] = 0 /\ \A l \in Later : x \notin Doomed(todo[l])
    BY <1>3, <1>7, <1>8, <1>10, <1>14, <1>15
  <2>2. \A k, l \in DOMAIN tasks : k # l => Doomed(tasks[k]) \cap Doomed(tasks[l]) = {}
    BY <1>8
  <2>3. \A l \in Later : \A x \in Doomed(todo[l]) : x \in InUse' /\ refCount'[x] = 0
    BY <1>14
  <2>4. \A x \in InUse' : refCount'[x] = 0 =>
          (\E k \in DOMAIN tasks : x \in Doomed(tasks[k])) \/ (\E l \in Later : x \in Doomed(todo[l]))
    BY <1>4, <1>7, <1>8, <1>10
  <2>5. todo # <<>>
    BY <1>1
  <2>6. QED  BY <2>1, <2>2, <2>3, <2>4, <2>5, <1>8, <1>11, InsteadCondemned
<1>17. Item' = next /\ Head(todo').lst = longer /\ Current("forwarders")'
  BY <1>9, <1>12 DEF Item, Current
<1>18. Walking'
  <2>1. \A k \in DOMAIN todo' : todo'[k].op = "forwarders" => k = 1
    <3>1. \A l \in Later : todo[l].op # "forwarders"
      BY DEF Inv, Walking, Later
    <3>2. QED  BY <3>1, <1>12
  <2>2. ASSUME NEW m \in DOMAIN longer, NEW n \in DOMAIN longer, longer[m] = longer[n] PROVE m = n
    <3>1. \A k \in DOMAIN lst : longer[k] # next
      BY <1>6, <1>7 DEF Collected
    <3>2. QED  BY <3>1, <2>2, <1>1, <1>6
  <2>3. longer[Len(longer)] = Item' /\ longer # <<>>
    BY <1>6, <1>17
  <2>4. QED  BY <2>1, <2>2, <2>3, <1>17 DEF Walking
<1>19. Emptied'
  <2>1. \A x \in InUse : forwarder[x] = NULL \/ x = Item => forwarder'[x] = NULL
    BY <1>5
  <2>2. ASSUME NEW k \in DOMAIN todo', NEW x \in Doomed(todo'[k]) PROVE forwarder'[x] = NULL \/ x = next
    <3>1. CASE k = 1
      BY <3>1, <2>1, <2>2, <1>2, <1>7, <1>10, <1>12
    <3>2. CASE \E l \in Later : todo'[k] = todo[l]
      <4>1. PICK l \in Later : todo'[k] = todo[l]
        BY <3>2
      <4>2. x \in Doomed(todo[l])
        BY <4>1, <2>2
      <4>3. QED  BY <4>2, <2>1, <1>3
    <3>3. QED  BY <3>1, <3>2, <1>12
  <2>3. ASSUME NEW k \in DOMAIN todo', todo'[k].op = "free"
        PROVE  target'[First(todo'[k].item)] = NULL /\ target'[Rest(todo'[k].item)] = NULL
    <3>1. k # 1
      BY <2>3, <1>9, <1>12
    <3>2. PICK l \in Later : todo'[k] = todo[l]
      BY <3>1, <1>12
    <3>3. target[First(todo[l].item)] = NULL /\ target[Rest(todo[l].item)] = NULL
      BY <3>2, <2>3 DEF Inv, Emptied, Later
    <3>4. QED  BY <3>2, <3>3
  <2>4. \A k \in DOMAIN todo' : \A x \in Doomed(todo'[k]) :
          forwarder'[x] = NULL \/ (Current("forwarders")' /\ x = Item')
    BY <2>2, <1>17
  <2>5. QED  BY <2>3, <2>4 DEF Emptied
<1>20. QED  BY <1>12, <1>13, <1>16, <1>18, <1>19

\* A step of the walk keeps the invariant, whether it goes on or ends.
LEMMA NextForwarderStep == Inv /\ NextForwarder => Inv'
<1> SUFFICES ASSUME Inv, NextForwarder PROVE Inv'
  OBVIOUS
<1> DEFINE i == Item
           next == forwarder[i]
           lst == Head(todo).lst
<1>1. /\ Current("forwarders") /\ next # NULL
      /\ target' = target /\ size' = size /\ available' = available
      /\ forwarder' = [forwarder EXCEPT ![i] = NULL]
      /\ IF refCount[next] = 0 THEN refCount' = refCount
                               ELSE refCount' = [refCount EXCEPT ![next] = @ - 1]
      /\ Instead(IF refCount[next] = 1 THEN <<Task("forwarders", next, Append(lst, next))>>
                 ELSE Removes(lst))
  BY DEF NextForwarder, removeRef, LastReference
<1>2. i \in InUse /\ refCount[i] = 0 /\ i \in Items
  BY <1>1, WalkFacts
<1>3. /\ refCount \in [Items -> Nat] /\ forwarder \in [Items -> Pointers]
      /\ InUse \subseteq Items /\ IsFiniteSet(InUse)
  BY PoolTypes DEF Inv, Types
<1>4. next \in Items
  BY <1>1, <1>2, <1>3 DEF Pointers
<1>5. refCount[next] > 0 /\ next \in InUse
  BY <1>2, <1>4, Counted
<1> HIDE DEF next, lst
<1>6. /\ refCount' \in [Items -> Nat] /\ refCount'[next] = refCount[next] - 1
      /\ \A x \in Items : x # next => refCount'[x] = refCount[x]
  BY <1>1, <1>3, <1>4, <1>5
<1>7. /\ forwarder' \in [Items -> Pointers] /\ forwarder'[i] = NULL
      /\ \A x \in Items : x # i => forwarder'[x] = forwarder[x]
  BY <1>1, <1>2, <1>3 DEF Pointers
<1>8. Available' = Available /\ InUse' = InUse /\ i \notin Available /\ Available \subseteq Items
  <2>1. i \notin Available /\ Available \subseteq Items
    BY <1>2, PoolTypes DEF InUse, Inv
  <2>2. \A x \in AvailableFrom(available, forwarder) : forwarder'[x] = forwarder[x]
    BY <2>1, <1>7, Views
  <2>3. available \in Pointers /\ forwarder \in Forwarders /\ forwarder' \in Forwarders
    BY <1>3, <1>7 DEF Inv, Types, Forwarders
  <2>4. AvailableFrom(available, forwarder') = AvailableFrom(available, forwarder)
    BY <2>2, <2>3, AvailableFrame
  <2>5. Available' = Available
    BY <2>4, <1>1, Views
  <2>6. QED  BY <2>1, <2>5, <1>1 DEF InUse
<1>9. /\ todo' \in Seq(Tasks)
      /\ \A x \in Items : Cardinality(DropsOf(todo', x)) = Cardinality(DropsOf(todo, x))
      /\ Condemned' /\ Walking' /\ Emptied'
  <2>1. CASE refCount[next] = 1
    <3>1. Instead(<<Task("forwarders", next, Append(Head(todo).lst, next))>>)
      BY <1>1, <2>1 DEF lst
    <3>2. refCount'[next] = 0 /\ \A x \in InUse : x # next => refCount'[x] = refCount[x]
      BY <1>3, <1>6, <2>1
    <3>3. QED  BY <3>1, <3>2, <2>1, <1>1, <1>5, <1>7, <1>8, WalkGoesOn
  <2>2. CASE refCount[next] # 1
    <3>1. Instead(Removes(Head(todo).lst))
      BY <1>1, <2>2 DEF lst
    <3>2. \A x \in InUse : refCount'[x] = 0 <=> refCount[x] = 0
      <4>1. refCount'[next] # 0 /\ refCount[next] # 0
        BY <1>3, <1>4, <1>5, <1>6, <2>2
      <4>2. QED  BY <4>1, <1>3, <1>6
    <3>3. QED  BY <3>1, <3>2, <1>1, <1>7, <1>8, WalkEnds
  <2>3. QED  BY <2>1, <2>2
<1>10. Types'
  BY <1>1, <1>6, <1>7, <1>9 DEF Inv, Types
<1>11. Counts'
  <2>1. ASSUME NEW x \in Items
        PROVE  refCount'[x] = Cardinality(Pointing(Slots, target, x))
                              + Cardinality(Pointing(InUse, forwarder', x))
                              + Cardinality(DropsOf(todo', x))
    <3>1. Cardinality(Pointing(InUse, forwarder', x))
            = Cardinality(Pointing(InUse, forwarder, x)) + One(NULL, x) - One(next, x)
      <4>1. forwarder'[i] = NULL /\ forwarder[i] = next
            /\ \A d \in InUse : d # i => forwarder'[d] = forwarder[d]
        BY <1>3, <1>7 DEF next
      <4>2. Cardinality(Pointing(InUse, forwarder', x))
              = Cardinality(Pointing(InUse, forwarder, x)) + One(forwarder'[i], x) - One(forwarder[i], x)
        <5> HIDE DEF i
        <5>1. QED  BY <4>1, <1>2, <1>3, PointingMoves
      <4>3. QED  BY <4>1, <4>2
    <3>2. One(NULL, x) = 0 /\ One(next, x) \in Int
      BY NullIsNoItem DEF One
    <3>3. refCount'[x] = refCount[x] - One(next, x)
      BY <1>3, <1>6 DEF One
    <3>4. refCount[x] = Cardinality(Pointing(Slots, target, x))
                        + Cardinality(Pointing(InUse, forwarder, x))
                        + Cardinality(DropsOf(todo, x))
      BY DEF Inv, Counts
    <3>5. /\ Cardinality(Pointing(Slots, target, x)) \in Nat
          /\ Cardinality(Pointing(InUse, forwarder, x)) \in Nat
          /\ Cardinality(DropsOf(todo, x)) \in Nat
      BY CountTypes DEF Inv
    <3>6. Cardinality(DropsOf(todo', x)) = Cardinality(DropsOf(todo, x))
      BY <1>9
    <3>7. QED  BY <3>1, <3>2, <3>3, <3>4, <3>5, <3>6
  <2>2. QED  BY <2>1, <1>1, <1>8 DEF Counts
<1>12. Chain'
  <2>1. \A x \in Available : forwarder'[x] = forwarder[x]
    BY <1>7, <1>8
  <2>2. QED  BY <2>1, <1>1, <1>8 DEF Inv, Chain
<1>13. Blank'
  <2>1. \A x \in Items \ InUse : refCount'[x] = refCount[x]
    BY <1>5, <1>6
  <2>2. QED  BY <2>1, <1>1, <1>8 DEF Inv, Blank
<1>14. Acyclic(InUse, Referred)'
  <2>1. \A u \in InUse : ReferredBy(target', forwarder')[u] \subseteq Referred[u]
    <3>1. ASSUME NEW u \in InUse PROVE ReferredBy(target', forwarder')[u] \subseteq Referred[u]
      <4>1. u \in Items
        BY <1>3
      <4>2. /\ ReferredBy(target', forwarder')[u] = {target'[First(u)], target'[Rest(u)], forwarder'[u]} \ {NULL}
            /\ Referred[u] = {target[First(u)], target[Rest(u)], forwarder[u]} \ {NULL}
        BY <4>1 DEF ReferredBy, Referred
      <4>3. forwarder'[u] = forwarder[u] \/ forwarder'[u] = NULL
        BY <4>1, <1>7
      <4>4. QED  BY <4>2, <4>3, <1>1
    <3>2. QED  BY <3>1
  <2>2. Acyclic(InUse, Referred)
    BY DEF Inv
  <2>3. Acyclic(InUse, ReferredBy(target', forwarder'))
    BY <2>1, <2>2, AcyclicLess
  <2>4. QED  BY <2>3, <1>8, Views
<1>15. QED  BY <1>9, <1>10, <1>11, <1>12, <1>13, <1>14 DEF Inv

-----------------------------------------------------------------------------
(* An item is cleared and made available *)

\* What is known when the first task clears an item.
LEMMA ClearedFacts ==
  ASSUME Inv, Current("remove") \/ Current("free")
  PROVE  /\ todo # <<>> /\ todo \in Seq(Tasks) /\ Head(todo).op # "drop"
         /\ Item \in InUse /\ refCount[Item] = 0 /\ Item \in Items /\ forwarder[Item] = NULL
         /\ Current("free") => target[First(Item)] = NULL /\ target[Rest(Item)] = NULL
         /\ \A l \in Later : \A x \in Doomed(todo[l]) :
              x \in InUse /\ refCount[x] = 0 /\ forwarder[x] = NULL /\ x # Item
         /\ \A l \in Later : todo[l].op = "free" =>
              target[First(todo[l].item)] = NULL /\ target[Rest(todo[l].item)] = NULL
         /\ \A x \in InUse : refCount[x] = 0 =>
              x = Item \/ \E l \in Later : x \in Doomed(todo[l])
<1>1. todo # <<>> /\ todo \in Seq(Tasks) /\ Head(todo).op \in {"remove", "free"}
  BY DEF Current, Inv, Types
<1>2. 1 \in DOMAIN todo /\ Head(todo) = todo[1] /\ Item = todo[1].item /\ Item \in Items
  BY <1>1, Ahead
<1>3. Head(todo).op # "drop" /\ ~Current("forwarders")
  BY <1>1 DEF Current
<1>4. Doomed(todo[1]) = {Item}
  BY <1>1, <1>2 DEF Doomed
<1>5. \A k \in DOMAIN todo : \A x \in Doomed(todo[k]) :
        x \in InUse /\ refCount[x] = 0 /\ forwarder[x] = NULL
  BY <1>3 DEF Inv, Condemned, Emptied
<1>6. Item \in InUse /\ refCount[Item] = 0 /\ forwarder[Item] = NULL
  BY <1>2, <1>4, <1>5
<1>7. \A l \in Later : l \in DOMAIN todo /\ Doomed(todo[l]) \cap Doomed(todo[1]) = {}
  BY <1>2 DEF Inv, Condemned, Later
<1>8. \A l \in Later : \A x \in Doomed(todo[l]) :
        x \in InUse /\ refCount[x] = 0 /\ forwarder[x] = NULL /\ x # Item
  BY <1>4, <1>5, <1>7
<1>9. /\ Current("free") => target[First(Item)] = NULL /\ target[Rest(Item)] = NULL
      /\ \A l \in Later : todo[l].op = "free" =>
           target[First(todo[l].item)] = NULL /\ target[Rest(todo[l].item)] = NULL
  <2>1. \A k \in DOMAIN todo : todo[k].op = "free" =>
          target[First(todo[k].item)] = NULL /\ target[Rest(todo[k].item)] = NULL
    BY DEF Inv, Emptied
  <2>2. Current("free") => todo[1].op = "free"
    BY <1>2 DEF Current
  <2>3. QED  BY <2>1, <2>2, <1>2, <1>7
<1>10. \A x \in InUse : refCount[x] = 0 => x = Item \/ \E l \in Later : x \in Doomed(todo[l])
  BY <1>4 DEF Inv, Condemned, Later
<1>11. QED  BY <1>1, <1>2, <1>3, <1>6, <1>8, <1>9, <1>10

\* The tasks of a removal: what the fields referred to, then the item itself.
Clearing(a, b, i) == removeTarget(a) \o removeTarget(b) \o <<Task("free", i, <<>>)>>

Clears(tasks, a, b, i) ==
  /\ tasks \in Seq(Tasks)
  /\ \A x \in Items : Cardinality(DropsOf(tasks, x)) = One(a, x) + One(b, x)
  /\ \A k \in DOMAIN tasks :
       \/ tasks[k].op = "drop" /\ Doomed(tasks[k]) = {}
       \/ tasks[k].op = "free" /\ tasks[k].item = i /\ Doomed(tasks[k]) = {i}
  /\ \A k, l \in DOMAIN tasks : k # l => Doomed(tasks[k]) \cap Doomed(tasks[l]) = {}
  /\ \E k \in DOMAIN tasks : Doomed(tasks[k]) = {i}

\* They drop both fields and clear the item once.
LEMMA ClearingTasks ==
  ASSUME NEW a \in Pointers, NEW b \in Pointers, NEW i \in Items
  PROVE  Clears(Clearing(a, b, i), a, b, i)
<1> DEFINE tasks == Clearing(a, b, i)
           p == removeTarget(a)
           q == removeTarget(b)
           drops == p \o q
           free == <<Task("free", i, <<>>)>>
<1>1. /\ p \in Seq(Tasks) /\ q \in Seq(Tasks)
      /\ \A k \in DOMAIN p : p[k].op = "drop"
      /\ \A k \in DOMAIN q : q[k].op = "drop"
      /\ \A x \in Items : Cardinality(DropsOf(p, x)) = One(a, x) /\ Cardinality(DropsOf(q, x)) = One(b, x)
  BY DropTask
<1>2. free \in Seq(Tasks) /\ Len(free) = 1 /\ DOMAIN free = {1} /\ free[1] = Task("free", i, <<>>)
  <2>1. Task("free", i, <<>>) \in Tasks
    BY DEF Task, Tasks, Ops
  <2>2. QED  BY <2>1
<1>3. free[1].op = "free" /\ free[1].item = i
  BY <1>2 DEF Task
<1>4. tasks = drops \o free
  BY DEF Clearing
<1> HIDE DEF p, q, tasks
<1>5. /\ drops \in Seq(Tasks) /\ Len(p) \in Nat /\ Len(q) \in Nat
      /\ DOMAIN drops = 1..(Len(p) + Len(q)) /\ DOMAIN p = 1..Len(p) /\ DOMAIN q = 1..Len(q)
      /\ \A k \in 1..(Len(p) + Len(q)) : drops[k] = IF k <= Len(p) THEN p[k] ELSE q[k - Len(p)]
  BY <1>1, TasksJoined
<1>6. \A k \in DOMAIN drops : drops[k].op = "drop"
  <2>1. ASSUME NEW k \in DOMAIN drops PROVE drops[k].op = "drop"
    <3>1. CASE k <= Len(p)
      BY <3>1, <1>1, <1>5
    <3>2. CASE ~(k <= Len(p))
      <4>1. k - Len(p) \in DOMAIN q
        BY <3>2, <1>5
      <4>2. drops[k] = q[k - Len(p)]
        BY <3>2, <1>5
      <4>3. QED  BY <4>1, <4>2, <1>1
    <3>3. QED  BY <3>1, <3>2
  <2>2. QED  BY <2>1
<1>7. ASSUME NEW x \in Items
      PROVE  Cardinality(DropsOf(tasks, x)) = One(a, x) + One(b, x)
  <2>1. Cardinality(DropsOf(drops, x)) = One(a, x) + One(b, x)
    BY <1>1, DropsJoined
  <2>2. \A k \in DOMAIN free : free[k].op # "drop"
    BY <1>2, <1>3
  <2> HIDE DEF free, drops
  <2>3. Cardinality(DropsOf(free, x)) = 0
    BY <1>2, <2>2, OtherTasks
  <2>4. Cardinality(DropsOf(tasks, x)) = Cardinality(DropsOf(drops, x)) + Cardinality(DropsOf(free, x))
    BY <1>2, <1>4, <1>5, DropsJoined
  <2>5. One(a, x) \in Int /\ One(b, x) \in Int
    BY DEF One
  <2>6. QED  BY <2>1, <2>3, <2>4, <2>5
<1> HIDE DEF drops, free
<1>8. /\ tasks \in Seq(Tasks) /\ Len(drops) \in Nat /\ DOMAIN drops = 1..Len(drops)
      /\ DOMAIN tasks = 1..(Len(drops) + 1)
      /\ \A k \in 1..(Len(drops) + 1) : tasks[k] = IF k <= Len(drops) THEN drops[k] ELSE free[k - Len(drops)]
  <2>1. /\ drops \o free \in Seq(Tasks) /\ DOMAIN (drops \o free) = 1..(Len(drops) + Len(free))
        /\ \A k \in 1..(Len(drops) + Len(free)) :
             (drops \o free)[k] = IF k <= Len(drops) THEN drops[k] ELSE free[k - Len(drops)]
    BY <1>2, <1>5, TasksJoined
  <2>2. Len(drops) \in Nat /\ DOMAIN drops = 1..Len(drops)
    BY <1>5
  <2>3. QED  BY <2>1, <2>2, <1>2, <1>4
<1>9. ASSUME NEW k \in DOMAIN tasks
      PROVE  \/ k # Len(drops) + 1 /\ tasks[k].op = "drop" /\ Doomed(tasks[k]) = {}
             \/ /\ k = Len(drops) + 1
                /\ tasks[k].op = "free" /\ tasks[k].item = i /\ Doomed(tasks[k]) = {i}
  <2>1. CASE k <= Len(drops)
    <3>1. k \in DOMAIN drops /\ tasks[k] = drops[k] /\ k # Len(drops) + 1
      BY <1>8, <2>1
    <3>2. tasks[k].op = "drop"
      BY <3>1, <1>6
    <3>3. Doomed(tasks[k]) = {}
      BY <3>2 DEF Doomed
    <3>4. QED  BY <3>1, <3>2, <3>3
  <2>2. CASE ~(k <= Len(drops))
    <3>1. k = Len(drops) + 1 /\ k - Len(drops) = 1 /\ tasks[k] = free[k - Len(drops)]
      BY <1>8, <2>2
    <3>2. tasks[k] = free[1]
      BY <3>1
    <3>3. tasks[k].op = "free" /\ tasks[k].item = i
      BY <3>2, <1>3
    <3>4. Doomed(tasks[k]) = {i}
      BY <3>3 DEF Doomed
    <3>5. QED  BY <3>1, <3>3, <3>4
  <2>3. QED  BY <2>1, <2>2
<1>10. Len(drops) + 1 \in DOMAIN tasks
  BY <1>8
<1>11. \A k, l \in DOMAIN tasks : k # l => Doomed(tasks[k]) \cap Doomed(tasks[l]) = {}
  <2>1. \A k \in DOMAIN tasks : k # Len(drops) + 1 => Doomed(tasks[k]) = {}
    BY <1>9
  <2>2. QED  BY <2>1
<1>12. Doomed(tasks[Len(drops) + 1]) = {i}
  BY <1>9, <1>10
<1>13. QED  BY <1>7, <1>8, <1>9, <1>10, <1>11, <1>12 DEF Clears, tasks

\* Remove keeps the invariant: the two fields become two drops.
LEMMA RemoveStep == Inv /\ Remove => Inv'
<1> SUFFICES ASSUME Inv, Remove PROVE Inv'
  OBVIOUS
<1> DEFINE i == Item
           a == target[First(i)]
           b == target[Rest(i)]
           tasks == Clearing(a, b, i)
<1>1. /\ Current("remove") /\ Instead(tasks)
      /\ target' = [target EXCEPT ![First(i)] = NULL, ![Rest(i)] = NULL]
      /\ refCount' = refCount /\ forwarder' = forwarder
      /\ size' = size /\ available' = available
  BY DEF Remove, Clearing
<1>2. /\ todo # <<>> /\ todo \in Seq(Tasks) /\ Head(todo).op # "drop"
      /\ i \in InUse /\ refCount[i] = 0 /\ i \in Items /\ forwarder[i] = NULL
  BY <1>1, ClearedFacts
<1>3. /\ \A l \in Later : \A x \in Doomed(todo[l]) :
           x \in InUse /\ refCount[x] = 0 /\ forwarder[x] = NULL /\ x # i
      /\ \A l \in Later : todo[l].op = "free" =>
           target[First(todo[l].item)] = NULL /\ target[Rest(todo[l].item)] = NULL
      /\ \A x \in InUse : refCount[x] = 0 => x = i \/ \E l \in Later : x \in Doomed(todo[l])
  BY <1>1, ClearedFacts
<1>4. /\ target \in [Slots -> Pointers] /\ First(i) \in Slots /\ Rest(i) \in Slots /\ First(i) # Rest(i)
      /\ a \in Pointers /\ b \in Pointers /\ NULL \in Pointers
  BY <1>2, SlotsOfItem, SlotsDiffer DEF Inv, Types, Pointers
<1>5. /\ tasks \in Seq(Tasks)
      /\ \A x \in Items : Cardinality(DropsOf(tasks, x)) = One(a, x) + One(b, x)
      /\ \A k \in DOMAIN tasks :
           \/ tasks[k].op = "drop" /\ Doomed(tasks[k]) = {}
           \/ tasks[k].op = "free" /\ tasks[k].item = i /\ Doomed(tasks[k]) = {i}
      /\ \A k, l \in DOMAIN tasks : k # l => Doomed(tasks[k]) \cap Doomed(tasks[l]) = {}
      /\ \E k \in DOMAIN tasks : Doomed(tasks[k]) = {i}
  <2>1. Clears(tasks, a, b, i)
    BY <1>2, <1>4, ClearingTasks
  <2> HIDE DEF i, a, b, tasks
  <2>2. QED  BY <2>1 DEF Clears
<1>6. /\ target' \in [Slots -> Pointers] /\ target'[First(i)] = NULL /\ target'[Rest(i)] = NULL
      /\ \A s \in Slots : target'[s] = target[s] \/ target'[s] = NULL
  BY <1>1, <1>4
<1> HIDE DEF tasks, i
<1>7. todo' \in Seq(Tasks)
  BY <1>1, <1>2, <1>5, InsteadOf
<1>8. Types'
  BY <1>1, <1>6, <1>7 DEF Inv, Types
<1>9. Available' = Available /\ InUse' = InUse
  BY <1>1, Views DEF InUse
<1>10. Counts'
  <2>1. ASSUME NEW x \in Items
        PROVE  refCount[x] = Cardinality(Pointing(Slots, target', x))
                             + Cardinality(Pointing(InUse, forwarder, x))
                             + Cardinality(DropsOf(todo', x))
    <3>1. /\ target'[First(i)] = NULL /\ target'[Rest(i)] = NULL
          /\ \A s \in Slots : s # First(i) /\ s # Rest(i) => target'[s] = target[s]
      BY <1>1, <1>4
    <3>10. ClearedAt(Slots, target, target', First(i), Rest(i))
      BY <3>1 DEF ClearedAt
    <3>2. First(i) \in Slots /\ Rest(i) \in Slots /\ First(i) # Rest(i)
      BY <1>4
    <3>3. Cardinality(Pointing(Slots, target', x))
            = Cardinality(Pointing(Slots, target, x)) - One(a, x) - One(b, x)
      BY <3>10, <3>2, SlotsFinite, PointingCleared
    <3>4. Cardinality(DropsOf(todo', x))
            = Cardinality(DropsOf(tasks, x)) + Cardinality(DropsOf(todo, x)) - 0
      BY <1>1, <1>2, <1>5, InsteadDrops
    <3>5. Cardinality(DropsOf(tasks, x)) = One(a, x) + One(b, x)
      BY <1>5
    <3>6. One(a, x) \in Int /\ One(b, x) \in Int
      BY DEF One
    <3>7. refCount[x] = Cardinality(Pointing(Slots, target, x))
                        + Cardinality(Pointing(InUse, forwarder, x))
                        + Cardinality(DropsOf(todo, x))
      BY DEF Inv, Counts
    <3>8. /\ Cardinality(Pointing(Slots, target, x)) \in Nat
          /\ Cardinality(Pointing(InUse, forwarder, x)) \in Nat
          /\ Cardinality(DropsOf(todo, x)) \in Nat
      BY CountTypes DEF Inv
    <3>9. QED  BY <3>3, <3>4, <3>5, <3>6, <3>7, <3>8
  <2>2. QED  BY <2>1, <1>1, <1>9 DEF Counts
<1>11. Chain'
  BY <1>1, <1>9 DEF Inv, Chain
<1>12. Blank'
  <2>1. ASSUME NEW x \in Items \ InUse
        PROVE  refCount[x] = 0 /\ target'[First(x)] = NULL /\ target'[Rest(x)] = NULL
    <3>1. refCount[x] = 0 /\ target[First(x)] = NULL /\ target[Rest(x)] = NULL
      BY DEF Inv, Blank
    <3>2. QED  BY <3>1, <1>6, SlotsOfItem
  <2>2. QED  BY <2>1, <1>1, <1>9 DEF Blank
<1>13. Condemned'
  <2>1. \A k \in DOMAIN tasks : \A x \in Doomed(tasks[k]) :
          x \in InUse' /\ refCount'[x] = 0 /\ \A l \in Later : x \notin Doomed(todo[l])
    BY <1>1, <1>2, <1>3, <1>5, <1>9
  <2>2. \A l \in Later : \A x \in Doomed(todo[l]) : x \in InUse' /\ refCount'[x] = 0
    BY <1>1, <1>3, <1>9
  <2>3. \A x \in InUse' : refCount'[x] = 0 =>
          (\E k \in DOMAIN tasks : x \in Doomed(tasks[k])) \/ (\E l \in Later : x \in Doomed(todo[l]))
    <3>1. \E k \in DOMAIN tasks : i \in Doomed(tasks[k])
      BY <1>5
    <3>2. QED  BY <3>1, <1>1, <1>3, <1>9
  <2>4. \A k, l \in DOMAIN tasks : k # l => Doomed(tasks[k]) \cap Doomed(tasks[l]) = {}
    BY <1>5
  <2>5. todo # <<>> /\ tasks \in Seq(Tasks) /\ Instead(tasks)
    BY <1>1, <1>2, <1>5
  <2>6. QED  BY <2>1, <2>2, <2>3, <2>4, <2>5, InsteadCondemned
<1>14. Walking' /\ Emptied'
  <2>1. \A k \in DOMAIN tasks : tasks[k].op # "forwarders"
    <3>1. \A k \in DOMAIN tasks : tasks[k].op = "drop" \/ tasks[k].op = "free"
      BY <1>5
    <3>2. QED  BY <3>1
  <2>2. \A k \in DOMAIN tasks : \A x \in Doomed(tasks[k]) : forwarder'[x] = NULL
    BY <1>1, <1>2, <1>5
  <2>3. \A l \in Later : \A x \in Doomed(todo[l]) : forwarder'[x] = NULL
    BY <1>1, <1>3
  <2>4. \A k \in DOMAIN tasks : tasks[k].op = "free" =>
          target'[First(tasks[k].item)] = NULL /\ target'[Rest(tasks[k].item)] = NULL
    <3>1. \A k \in DOMAIN tasks : tasks[k].op = "free" => tasks[k].item = i
      BY <1>5
    <3>2. QED  BY <3>1, <1>6
  <2>5. \A l \in Later : todo[l].op = "free" =>
          target'[First(todo[l].item)] = NULL /\ target'[Rest(todo[l].item)] = NULL
    <3>1. \A l \in Later : todo[l].item \in Items
      <4>1. \A l \in DOMAIN todo : todo[l] \in Tasks
        BY <1>2
      <4>2. QED  BY <4>1 DEF Later, Tasks
    <3>2. ASSUME NEW l \in Later, todo[l].op = "free"
          PROVE  target'[First(todo[l].item)] = NULL /\ target'[Rest(todo[l].item)] = NULL
      <4>1. First(todo[l].item) \in Slots /\ Rest(todo[l].item) \in Slots
        BY <3>1, SlotsOfItem
      <4>2. target[First(todo[l].item)] = NULL /\ target[Rest(todo[l].item)] = NULL
        BY <3>2, <1>3
      <4>3. QED  BY <4>1, <4>2, <1>6
    <3>3. QED  BY <3>2
  <2>6. todo # <<>> /\ tasks \in Seq(Tasks) /\ Instead(tasks)
    BY <1>1, <1>2, <1>5
  <2>7. QED  BY <2>1, <2>2, <2>3, <2>4, <2>5, <2>6, InsteadNoWalk
<1>15. Acyclic(InUse, Referred)'
  <2>1. \A u \in InUse : ReferredBy(target', forwarder')[u] \subseteq Referred[u]
    <3>1. ASSUME NEW u \in InUse PROVE ReferredBy(target', forwarder')[u] \subseteq Referred[u]
      <4>1. u \in Items
        BY PoolTypes DEF Inv
      <4>2. /\ ReferredBy(target', forwarder')[u] = {target'[First(u)], target'[Rest(u)], forwarder'[u]} \ {NULL}
            /\ Referred[u] = {target[First(u)], target[Rest(u)], forwarder[u]} \ {NULL}
        BY <4>1 DEF ReferredBy, Referred
      <4>3. /\ target'[First(u)] = target[First(u)] \/ target'[First(u)] = NULL
            /\ target'[Rest(u)] = target[Rest(u)] \/ target'[Rest(u)] = NULL
        BY <4>1, <1>6, SlotsOfItem
      <4>4. QED  BY <4>2, <4>3, <1>1
    <3>2. QED  BY <3>1
  <2>2. Acyclic(InUse, Referred)
    BY DEF Inv
  <2>3. Acyclic(InUse, ReferredBy(target', forwarder'))
    BY <2>1, <2>2, AcyclicLess
  <2>4. QED  BY <2>3, <1>9, Views
<1>16. QED  BY <1>8, <1>10, <1>11, <1>12, <1>13, <1>14, <1>15 DEF Inv

\* Free keeps the invariant: the item becomes the first available one.
LEMMA FreeStep == Inv /\ Free => Inv'
<1> SUFFICES ASSUME Inv, Free PROVE Inv'
  OBVIOUS
<1> DEFINE i == Item
<1>1. /\ Current("free") /\ Instead(<<>>)
      /\ refCount' = [refCount EXCEPT ![i] = 0]
      /\ forwarder' = [forwarder EXCEPT ![i] = available]
      /\ available' = i /\ target' = target /\ size' = size
  BY DEF Free, Chained
<1>2. /\ todo # <<>> /\ todo \in Seq(Tasks) /\ Head(todo).op # "drop"
      /\ i \in InUse /\ refCount[i] = 0 /\ i \in Items /\ forwarder[i] = NULL
      /\ target[First(i)] = NULL /\ target[Rest(i)] = NULL
  BY <1>1, ClearedFacts
<1>3. /\ \A l \in Later : \A x \in Doomed(todo[l]) :
           x \in InUse /\ refCount[x] = 0 /\ forwarder[x] = NULL /\ x # i
      /\ \A l \in Later : todo[l].op = "free" =>
           target[First(todo[l].item)] = NULL /\ target[Rest(todo[l].item)] = NULL
      /\ \A x \in InUse : refCount[x] = 0 => x = i \/ \E l \in Later : x \in Doomed(todo[l])
  BY <1>1, ClearedFacts
<1> HIDE DEF i
<1>4. /\ refCount \in [Items -> Nat] /\ forwarder \in [Items -> Pointers] /\ available \in Pointers
      /\ InUse \subseteq Items /\ Available \subseteq Items /\ IsFiniteSet(InUse)
      /\ i \in Pointers /\ i # NULL
  BY <1>2, PoolTypes, NullIsNoItem DEF Inv, Types, Pointers
<1>5. refCount' = refCount
  BY <1>1, <1>2, <1>4
<1>6. /\ forwarder' \in [Items -> Pointers] /\ forwarder'[i] = available
      /\ \A x \in Items : x # i => forwarder'[x] = forwarder[x]
  BY <1>1, <1>2, <1>4
<1>7. DOMAIN <<>> = {} /\ <<>> \in Seq(Tasks)
  OBVIOUS
<1>8. todo' \in Seq(Tasks)
  BY <1>1, <1>2, <1>7, InsteadOf
<1>9. Types'
  BY <1>1, <1>4, <1>5, <1>6, <1>8 DEF Inv, Types
<1>10. i \notin Available
  BY <1>2 DEF InUse
<1>11. Available' = Available \cup {i}
  <2>1. forwarder \in Forwarders /\ forwarder' \in Forwarders
    BY <1>4, <1>6 DEF Forwarders
  <2>2. i \notin AvailableFrom(available, forwarder)
    BY <1>10, Views
  <2>3. \A j \in AvailableFrom(available, forwarder) : forwarder'[j] = forwarder[j]
    BY <1>4, <1>6, <1>10, Views
  <2>4. AvailableFrom(i, forwarder') = AvailableFrom(available, forwarder) \cup {i}
    BY <2>1, <2>2, <2>3, <1>2, <1>4, <1>6, AvailablePut
  <2>5. QED  BY <2>4, <1>1, Views
<1>12. InUse' = InUse \ {i}
  BY <1>1, <1>11 DEF InUse
<1>13. Counts'
  <2>1. ASSUME NEW x \in Items
        PROVE  refCount[x] = Cardinality(Pointing(Slots, target, x))
                             + Cardinality(Pointing(InUse \ {i}, forwarder', x))
                             + Cardinality(DropsOf(todo', x))
    <3>1. Pointing(InUse \ {i}, forwarder', x) = Pointing(InUse, forwarder, x)
      <4>1. \A d \in InUse \ {i} : forwarder'[d] = forwarder[d]
        BY <1>4, <1>6
      <4>2. forwarder[i] # x
        BY <1>2, NullIsNoItem
      <4>3. QED  BY <4>1, <4>2 DEF Pointing
    <3>2. Cardinality(DropsOf(todo', x)) = Cardinality(DropsOf(<<>>, x)) + Cardinality(DropsOf(todo, x)) - 0
      BY <1>1, <1>2, <1>7, InsteadDrops
    <3>3. Cardinality(DropsOf(<<>>, x)) = 0
      BY NoDrops
    <3>4. refCount[x] = Cardinality(Pointing(Slots, target, x))
                        + Cardinality(Pointing(InUse, forwarder, x))
                        + Cardinality(DropsOf(todo, x))
      BY DEF Inv, Counts
    <3>5. Cardinality(DropsOf(todo, x)) \in Nat
      BY CountTypes DEF Inv
    <3>6. Cardinality(DropsOf(todo', x)) = Cardinality(DropsOf(todo, x))
      BY <3>2, <3>3, <3>5
    <3>7. QED  BY <3>1, <3>4, <3>6
  <2>2. QED  BY <2>1, <1>1, <1>5, <1>12 DEF Counts
<1>14. Chain'
  <2>1. /\ Available \subseteq 1..size
        /\ \A j \in Available : forwarder[j] # available
        /\ \A j, k \in Available : forwarder[j] = forwarder[k] /\ forwarder[j] # NULL => j = k
    BY DEF Inv, Chain
  <2>2. \A j \in Available : forwarder'[j] = forwarder[j] /\ forwarder[j] # i
    <3>1. ASSUME NEW j \in Available PROVE forwarder'[j] = forwarder[j] /\ forwarder[j] # i
      <4>1. forwarder'[j] = forwarder[j]
        BY <1>4, <1>6, <1>10
      <4>2. forwarder[j] # NULL => forwarder[j] \in Available
        <5>1. forwarder \in Forwarders
          BY <1>4 DEF Forwarders
        <5>2. QED  BY <5>1, <1>4, AvailableChain, Views
      <4>3. QED  BY <4>1, <4>2, <1>4, <1>10
    <3>2. QED  BY <3>1
  <2>3. available # i
    <3>1. available # NULL => available \in Available
      <4>1. forwarder \in Forwarders
        BY <1>4 DEF Forwarders
      <4>2. QED  BY <4>1, <1>4, AvailableChain, Views
    <3>2. QED  BY <3>1, <1>4, <1>10
  <2>4. Available' \subseteq 1..size'
    BY <2>1, <1>1, <1>2, <1>11 DEF InUse
  <2>5. \A j \in Available' : forwarder'[j] # available'
    BY <2>2, <2>3, <1>1, <1>6, <1>11
  <2>6. ASSUME NEW j \in Available', NEW k \in Available',
               forwarder'[j] = forwarder'[k], forwarder'[j] # NULL
        PROVE  j = k
    <3>1. CASE j \in Available /\ k \in Available
      <4>1. forwarder[j] = forwarder[k] /\ forwarder[j] # NULL
        BY <3>1, <2>2, <2>6
      <4>2. QED  BY <4>1, <3>1, <2>1
    <3>2. CASE j \in Available /\ k = i
      <4>1. forwarder[j] = available
        BY <3>2, <2>2, <2>6, <1>6
      <4>2. QED  BY <4>1, <3>2, <2>1
    <3>3. CASE j = i /\ k \in Available
      <4>1. forwarder[k] = available
        BY <3>3, <2>2, <2>6, <1>6
      <4>2. QED  BY <4>1, <3>3, <2>1
    <3>4. CASE j = i /\ k = i
      BY <3>4
    <3>5. QED  BY <3>1, <3>2, <3>3, <3>4, <1>11
  <2>7. QED  BY <2>4, <2>5, <2>6 DEF Chain
<1>15. Blank'
  <2>1. \A x \in Items \ InUse : refCount[x] = 0 /\ target[First(x)] = NULL /\ target[Rest(x)] = NULL
    BY DEF Inv, Blank
  <2>2. QED  BY <2>1, <1>1, <1>2, <1>5, <1>12 DEF Blank
<1>16. Condemned'
  <2>1. \A l \in Later : \A x \in Doomed(todo[l]) : x \in InUse' /\ refCount'[x] = 0
    BY <1>3, <1>5, <1>12
  <2>2. \A x \in InUse' : refCount'[x] = 0 => \E l \in Later : x \in Doomed(todo[l])
    BY <1>3, <1>5, <1>12
  <2>3. /\ \A k \in DOMAIN <<>> : \A x \in Doomed(<<>>[k]) :
             x \in InUse' /\ refCount'[x] = 0 /\ \A l \in Later : x \notin Doomed(todo[l])
        /\ \A k, l \in DOMAIN <<>> : k # l => Doomed(<<>>[k]) \cap Doomed(<<>>[l]) = {}
    BY <1>7
  <2>4. \A x \in InUse' : refCount'[x] = 0 =>
          (\E k \in DOMAIN <<>> : x \in Doomed(<<>>[k])) \/ (\E l \in Later : x \in Doomed(todo[l]))
    BY <2>2
  <2>5. todo # <<>> /\ <<>> \in Seq(Tasks) /\ Instead(<<>>)
    BY <1>1, <1>2, <1>7
  <2>6. QED  BY <2>1, <2>3, <2>4, <2>5, InsteadCondemned
<1>17. Walking' /\ Emptied'
  <2>1. \A l \in Later : \A x \in Doomed(todo[l]) : forwarder'[x] = NULL
    BY <1>3, <1>4, <1>6
  <2>2. \A l \in Later : todo[l].op = "free" =>
          target'[First(todo[l].item)] = NULL /\ target'[Rest(todo[l].item)] = NULL
    BY <1>1, <1>3
  <2>3. /\ \A k \in DOMAIN <<>> : <<>>[k].op # "forwarders"
        /\ \A k \in DOMAIN <<>> : \A x \in Doomed(<<>>[k]) : forwarder'[x] = NULL
        /\ \A k \in DOMAIN <<>> : <<>>[k].op = "free" =>
             target'[First(<<>>[k].item)] = NULL /\ target'[Rest(<<>>[k].item)] = NULL
    BY <1>7
  <2>4. todo # <<>> /\ <<>> \in Seq(Tasks) /\ Instead(<<>>)
    BY <1>1, <1>2, <1>7
  <2>5. QED  BY <2>1, <2>2, <2>3, <2>4, InsteadNoWalk
<1>18. Acyclic(InUse, Referred)'
  <2>1. \A u \in InUse \ {i} : ReferredBy(target', forwarder')[u] \subseteq Referred[u]
    <3>1. ASSUME NEW u \in InUse \ {i} PROVE ReferredBy(target', forwarder')[u] \subseteq Referred[u]
      <4>1. u \in Items /\ forwarder'[u] = forwarder[u]
        BY <1>4, <1>6
      <4>2. /\ ReferredBy(target', forwarder')[u] = {target'[First(u)], target'[Rest(u)], forwarder'[u]} \ {NULL}
            /\ Referred[u] = {target[First(u)], target[Rest(u)], forwarder[u]} \ {NULL}
        BY <4>1 DEF ReferredBy, Referred
      <4>3. QED  BY <4>1, <4>2, <1>1
    <3>2. QED  BY <3>1
  <2>2. Acyclic(InUse, Referred)
    BY DEF Inv
  <2>3. InUse \ {i} \in SUBSET InUse
    OBVIOUS
  <2>4. Acyclic(InUse \ {i}, ReferredBy(target', forwarder'))
    BY <2>1, <2>2, <2>3, AcyclicLess
  <2>5. QED  BY <2>4, <1>12, Views
<1>19. QED  BY <1>9, <1>13, <1>14, <1>15, <1>16, <1>17, <1>18 DEF Inv

-----------------------------------------------------------------------------
(* The invariant of every behaviour *)

\* The empty pool fulfils the invariant,
LEMMA InvInit == Init => Inv
<1> SUFFICES ASSUME Init PROVE Inv
  OBVIOUS
<1>1. /\ target = [s \in Slots |-> NULL] /\ refCount = [i \in Items |-> 0]
      /\ forwarder = [i \in Items |-> NULL] /\ size = 0 /\ available = NULL /\ todo = <<>>
  BY DEF Init
<1>2. NULL \in Pointers /\ 0 \in Nat
  BY DEF Pointers
<1>3. Types
  <2>1. size \in 0..MaxItems
    BY <1>1, MaxItemsAssumption
  <2>2. todo \in Seq(Tasks)
    BY <1>1
  <2>3. QED  BY <1>1, <1>2, <2>1, <2>2 DEF Types
<1>4. Available = {} /\ InUse = {}
  <2>1. Available = {}
    BY <1>1, <1>3, PoolTypes, AvailableChain, Views DEF Types
  <2>2. 1..size = {}
    BY <1>1
  <2>3. QED  BY <2>1, <2>2 DEF InUse
<1>5. Counts
  <2>1. ASSUME NEW i \in Items
        PROVE  /\ Pointing(Slots, target, i) = {} /\ Pointing(InUse, forwarder, i) = {}
               /\ DropsOf(todo, i) = {}
    BY <1>1, <1>4, NullIsNoItem DEF Pointing, DropsOf
  <2>2. \A i \in Items : refCount[i] = 0
    BY <1>1
  <2>3. QED  BY <2>1, <2>2, FS_EmptySet DEF Counts
<1>6. Chain
  BY <1>4 DEF Chain
<1>7. Blank
  BY <1>1, SlotsOfItem DEF Blank
<1>8. DOMAIN todo = {} /\ ~Current("forwarders")
  BY <1>1 DEF Current
<1>9. Condemned
  BY <1>4, <1>8 DEF Condemned
<1>10. Walking /\ Emptied
  BY <1>8 DEF Walking, Emptied
<1>11. Acyclic(InUse, Referred)
  BY <1>4 DEF Acyclic
<1>12. QED  BY <1>3, <1>5, <1>6, <1>7, <1>9, <1>10, <1>11 DEF Inv

\* and every step keeps it.
LEMMA InvStep == Inv /\ [Next]_vars => Inv'
<1> SUFFICES ASSUME Inv, [Next]_vars PROVE Inv'
  OBVIOUS
<1>1. CASE Dereference
  BY <1>1, DereferenceStep
<1>2. CASE Allocate
  BY <1>2, AllocateStep
<1>3. CASE Assign
  BY <1>3, AssignStep
<1>4. CASE Clear
  BY <1>4, ClearStep
<1>5. CASE setRest
  BY <1>5, SetRestStep
<1>6. CASE setForwarder
  BY <1>6, SetForwarderStep
<1>7. CASE Drop
  BY <1>7, DropStep
<1>8. CASE EndOfForwarders
  BY <1>8, EndOfForwardersStep
<1>9. CASE NextForwarder
  BY <1>9, NextForwarderStep
<1>10. CASE Remove
  BY <1>10, RemoveStep
<1>11. CASE Free
  BY <1>11, FreeStep
<1>12. CASE UNCHANGED vars
  <2>1. /\ target' = target /\ refCount' = refCount /\ forwarder' = forwarder
        /\ size' = size /\ available' = available /\ todo' = todo
    BY <1>12 DEF vars
  <2>2. Available' = Available /\ Referred' = Referred
    BY <2>1, Views
  <2>3. InUse' = InUse
    BY <2>1, <2>2 DEF InUse
  <2>4. Types' /\ Counts' /\ Chain' /\ Blank'
    BY <2>1, <2>2, <2>3 DEF Inv, Types, Counts, Chain, Blank
  <2>5. Condemned' /\ Walking' /\ Emptied'
    BY <2>1, <2>3 DEF Inv, Condemned, Walking, Emptied, Current, Item
  <2>6. Acyclic(InUse, Referred)'
    BY <2>2, <2>3 DEF Inv
  <2>7. QED  BY <2>4, <2>5, <2>6 DEF Inv
<1>13. QED  BY <1>1, <1>2, <1>3, <1>4, <1>5, <1>6, <1>7, <1>8, <1>9, <1>10, <1>11, <1>12 DEF Next, Removal

\* The invariant holds in every state the interpreter brings the pool to.
LEMMA InvAlways == Spec => []Inv
BY InvInit, InvStep, PTL DEF Spec

-----------------------------------------------------------------------------
(* Counts are exact, and nothing is lost *)

\* The invariant says that counts are exact.
LEMMA InvCounts == Inv => CountsExact
<1> SUFFICES ASSUME Inv PROVE CountsExact
  OBVIOUS
<1>1. TypeOK
  <2>1. todo \in Seq(Tasks)
    BY DEF Inv, Types
  <2>2. \A k \in DOMAIN todo : todo[k] \in Tasks
    BY <2>1
  <2>3. ASSUME NEW k \in DOMAIN todo
        PROVE  /\ todo[k].op \in {"drop", "forwarders", "remove", "free"} /\ todo[k].item \in Items
               /\ \A n \in DOMAIN todo[k].lst : todo[k].lst[n] \in Items
    <3>1. /\ todo[k].op \in {"drop", "forwarders", "remove", "free"} /\ todo[k].item \in Items
          /\ todo[k].lst \in Seq(Items)
      BY <2>2 DEF Tasks, Ops
    <3>2. QED  BY <3>1
  <2>4. /\ target \in [Slots -> Pointers] /\ refCount \in [Items -> Nat]
        /\ forwarder \in [Items -> Pointers] /\ size \in 0..MaxItems /\ available \in Pointers
    BY DEF Inv, Types
  <2>5. QED  BY <2>3, <2>4 DEF TypeOK
<1>2. ASSUME NEW i \in Items
      PROVE  refCount[i] = Cardinality({s \in Slots : target[s] = i})
                           + Cardinality({j \in InUse : forwarder[j] = i})
                           + Cardinality({k \in DOMAIN todo :
                                            todo[k].op = "drop" /\ todo[k].item = i})
  <2>1. refCount[i] = Cardinality(Pointing(Slots, target, i))
                      + Cardinality(Pointing(InUse, forwarder, i))
                      + Cardinality(DropsOf(todo, i))
    BY DEF Inv, Counts
  <2>2. QED  BY <2>1 DEF Pointing, DropsOf
<1>3. QED  BY <1>1, <1>2 DEF CountsExact

\* At every moment, also in the middle of a removal, the count of an item is
\* the number of the slots and of the forwarders of items in use that point to
\* it and of the dropped pointers to it that are still to be counted (addRef,
\* removeRef and the removal of AxiomItemBase), for every size of the pool and
\* every set of variables.
THEOREM CountsAlwaysExact == Spec => []CountsExact
BY InvAlways, InvCounts, PTL

\* Of the items that are in use and cannot be reached one would be referred to
\* by nothing, as references do not go round; but every item in use has a
\* reference.
LEMMA InvNothingLost == Inv => NothingLost
<1> SUFFICES ASSUME Inv, Idle PROVE /\ InUse = Reachable({target[h] : h \in Handles})
                                    /\ \A i \in Available : /\ refCount[i] = 0
                                                            /\ target[First(i)] = NULL
                                                            /\ target[Rest(i)] = NULL
  BY DEF NothingLost
<1> DEFINE S == {target[h] : h \in Handles} \ {NULL}
           R == Closure(S, Referred)
<1>1. InUse \in SUBSET Items /\ Referred \in Graphs /\ Available \in SUBSET Items
  BY PoolTypes DEF Inv
<1>2. S \subseteq InUse
  <2>1. ASSUME NEW h \in Handles, target[h] # NULL PROVE target[h] \in InUse
    BY <2>1, SlotsDiffer, TargetInUse
  <2>2. QED  BY <2>1
<1>3. S \in SUBSET Items
  BY <1>1, <1>2
<1> HIDE DEF S
<1>4. R \in SUBSET Items /\ S \subseteq R /\ Closed(R, Referred)
  BY <1>1, <1>3, ClosureLeast
<1>5. R \subseteq InUse
  BY <1>1, <1>2, <1>3, InUseClosed, ClosureWithin
<1> HIDE DEF R
<1>6. InUse \subseteq R
  <2>1. SUFFICES ASSUME InUse \ R # {} PROVE FALSE
    OBVIOUS
  <2>2. InUse \ R \in SUBSET InUse /\ Acyclic(InUse, Referred)
    BY DEF Inv
  <2>3. PICK u \in InUse \ R : \A v \in InUse \ R : u \notin Referred[v]
    BY <2>1, <2>2 DEF Acyclic
  <2>4. \A v \in InUse : u \notin Referred[v]
    BY <2>3, <1>4 DEF Closed
  <2>5. u \in Items /\ u # NULL
    BY <2>3, <1>1, NullIsNoItem
  <2>6. \A v \in InUse : target[First(v)] # u /\ target[Rest(v)] # u /\ forwarder[v] # u
    <3>1. \A v \in InUse : Referred[v] = {target[First(v)], target[Rest(v)], forwarder[v]} \ {NULL}
      BY <1>1 DEF Referred
    <3>2. QED  BY <3>1, <2>4, <2>5
  <2>7. \A x \in Items : target[First(x)] # u /\ target[Rest(x)] # u
    <3>1. \A x \in Items \ InUse : target[First(x)] = NULL /\ target[Rest(x)] = NULL
      BY DEF Inv, Blank
    <3>2. QED  BY <3>1, <2>5, <2>6
  <2>8. \A h \in Handles : target[h] # u
    BY <2>3, <2>5, <1>4 DEF S
  <2>9. \A s \in Slots : target[s] # u
    <3>1. \A s \in Fields : \E x \in Items : s = First(x) \/ s = Rest(x)
      BY DEF Fields, First, Rest
    <3>2. QED  BY <3>1, <2>7, <2>8 DEF Slots
  <2>10. Pointing(Slots, target, u) = {} /\ Pointing(InUse, forwarder, u) = {}
    BY <2>6, <2>9 DEF Pointing
  <2>11. refCount[u] = Cardinality(Pointing(Slots, target, u)) + Cardinality(Pointing(InUse, forwarder, u))
         /\ refCount[u] # 0
    BY <2>3, <2>5, IdleCounts
  <2>12. Cardinality(Pointing(Slots, target, u)) = 0 /\ Cardinality(Pointing(InUse, forwarder, u)) = 0
    BY <2>10, FS_EmptySet
  <2>13. QED  BY <2>11, <2>12
<1>7. InUse = Reachable({target[h] : h \in Handles})
  BY <1>5, <1>6 DEF Reachable, R, S
<1>8. \A i \in Available : refCount[i] = 0 /\ target[First(i)] = NULL /\ target[Rest(i)] = NULL
  <2>1. \A i \in Available : i \in Items \ InUse
    BY <1>1 DEF InUse
  <2>2. QED  BY <2>1 DEF Inv, Blank
<1>9. QED  BY <1>7, <1>8

\* When no removal is going on, the items in use are those that the
\* interpreter can reach from its variables, and the others, available again,
\* are empty: remove gives back what has no reference any more and nothing
\* else, for every size of the pool and every set of variables.
THEOREM NothingEverLost == Spec => []NothingLost
BY InvAlways, InvNothingLost, PTL

-----------------------------------------------------------------------------
(* Chains of forwarders and their ends *)

\* End, for any forwarders.
EndBy(fwd, x) ==
  IF x = NULL THEN NULL
  ELSE CHOOSE e \in Closure({x}, ForwardedBy(fwd)) : fwd[e] = NULL

\* From an item of D the forwarders lead to items of D, and to an end: among
\* any items of D there is one whose forwarder leads away from them.
Grounded(D, fwd) ==
  /\ D \in SUBSET Items /\ fwd \in Forwarders
  /\ \A d \in D : fwd[d] # NULL => fwd[d] \in D
  /\ \A U \in SUBSET D : U # {} => \E u \in U : fwd[u] \notin U

\* The items from which a chain begins at x: x, and all from its successor on.
LEMMA ChainFrom ==
  ASSUME NEW fwd \in Forwarders, NEW x \in Items, fwd[x] # NULL
  PROVE  /\ fwd[x] \in Items
         /\ Closure({fwd[x]}, ForwardedBy(fwd)) \subseteq Closure({x}, ForwardedBy(fwd))
<1> DEFINE next == ForwardedBy(fwd)
           C == Closure({x}, next)
<1>1. next \in Graphs /\ next[x] = {fwd[x]}
  BY ForwardedGraph DEF ForwardedBy
<1>2. fwd[x] \in Items
  BY DEF Forwarders, Pointers
<1> HIDE DEF next
<1>3. C \in SUBSET Items /\ {x} \subseteq C /\ Closed(C, next)
  BY <1>1, ClosureLeast
<1>4. {fwd[x]} \subseteq C /\ {fwd[x]} \in SUBSET Items
  BY <1>1, <1>2, <1>3 DEF Closed
<1> HIDE DEF C
<1>5. Closure({fwd[x]}, next) \subseteq C
  BY <1>1, <1>3, <1>4, ClosureWithin
<1>6. QED  BY <1>2, <1>5 DEF next, C

\* A chain over grounded items has an end, which is the one of what follows.
LEMMA EndStep ==
  ASSUME NEW D, NEW fwd, Grounded(D, fwd), NEW x \in D
  PROVE  /\ EndBy(fwd, x) \in D /\ fwd[EndBy(fwd, x)] = NULL
         /\ EndBy(fwd, x) = IF fwd[x] = NULL THEN x ELSE EndBy(fwd, fwd[x])
<1> DEFINE C(y) == Closure({y}, ForwardedBy(fwd))
<1>1. /\ D \in SUBSET Items /\ fwd \in Forwarders
      /\ \A y \in Items : fwd[y] \in Pointers
  BY DEF Grounded, Forwarders
<1>2. \A y \in Items : ForwardedBy(fwd)[y] = {fwd[y]} \ {NULL}
  BY DEF ForwardedBy
<1>3. \A d \in D : fwd[d] # NULL => fwd[d] \in D
  BY DEF Grounded
<1>4. Closed(D, ForwardedBy(fwd))
  BY <1>1, <1>2, <1>3 DEF Closed
<1>5. ASSUME NEW y \in D
      PROVE  C(y) \subseteq D /\ EndBy(fwd, y) \in C(y) /\ fwd[EndBy(fwd, y)] = NULL
  <2>1. ForwardedBy(fwd) \in Graphs /\ {y} \in SUBSET Items
    BY <1>1, ForwardedGraph
  <2>2. C(y) \in SUBSET Items /\ y \in C(y) /\ Closed(C(y), ForwardedBy(fwd))
    BY <2>1, ClosureLeast
  <2>3. C(y) \subseteq D
    BY <1>1, <1>4, <2>1, ClosureWithin
  <2>4. PICK e \in C(y) : fwd[e] \notin C(y)
    BY <2>2, <2>3 DEF Grounded
  <2>5. ForwardedBy(fwd)[e] \subseteq C(y)
    BY <2>2, <2>4 DEF Closed
  <2>6. e \in Items
    BY <2>2, <2>4
  <2> HIDE DEF C
  <2>7. fwd[e] = NULL
    BY <1>2, <2>4, <2>5, <2>6
  <2>8. y # NULL
    BY <2>2, NullIsNoItem
  <2>9. EndBy(fwd, y) = CHOOSE z \in C(y) : fwd[z] = NULL
    BY <2>8 DEF EndBy, C
  <2>10. EndBy(fwd, y) \in C(y) /\ fwd[EndBy(fwd, y)] = NULL
    BY <2>4, <2>7, <2>9
  <2>11. QED  BY <2>3, <2>10
<1>6. CASE fwd[x] = NULL
  <2>1. x \in C(x) /\ x \in Items
    BY <1>1, ForwardedGraph, ClosureLeast
  <2>2. EndBy(fwd, x) \in C(x) /\ fwd[EndBy(fwd, x)] = NULL
    BY <1>5
  <2>3. x = EndBy(fwd, x)
    BY <1>1, <1>6, <2>1, <2>2, OneEnd
  <2>4. QED  BY <1>5, <1>6, <2>3
<1>7. CASE fwd[x] # NULL
  <2>1. fwd[x] \in D /\ x \in Items
    BY <1>1, <1>3, <1>7
  <2>2. EndBy(fwd, fwd[x]) \in C(fwd[x]) /\ fwd[EndBy(fwd, fwd[x])] = NULL
    BY <1>5, <2>1
  <2>3. EndBy(fwd, fwd[x]) \in C(x)
    BY <1>1, <1>7, <2>1, <2>2, ChainFrom
  <2>4. EndBy(fwd, x) \in C(x) /\ fwd[EndBy(fwd, x)] = NULL
    BY <1>5
  <2>5. EndBy(fwd, x) = EndBy(fwd, fwd[x])
    <3> DEFINE a == EndBy(fwd, x)
               b == EndBy(fwd, fwd[x])
    <3>1. fwd[a] = NULL /\ fwd[b] = NULL /\ a \in C(x) /\ b \in C(x)
      BY <2>2, <2>3, <2>4
    <3> HIDE DEF a, b
    <3>2. a = b
      BY <1>1, <2>1, <3>1, OneEnd
    <3>3. QED  BY <3>2 DEF a, b
  <2>6. QED  BY <1>5, <1>7, <2>5
<1>8. QED  BY <1>6, <1>7

\* What follows the chains as the ends do is the ends.
LEMMA EndUnique ==
  ASSUME NEW D, NEW fwd, Grounded(D, fwd), NEW e,
         \A x \in D : e[x] = IF fwd[x] = NULL THEN x ELSE e[fwd[x]]
  PROVE  \A x \in D : EndBy(fwd, x) = e[x]
<1> DEFINE U == {x \in D : EndBy(fwd, x) # e[x]}
<1>1. SUFFICES ASSUME U # {} PROVE FALSE
  OBVIOUS
<1>2. PICK u \in U : fwd[u] \notin U
  BY <1>1 DEF Grounded
<1>3. u \in D /\ EndBy(fwd, u) = IF fwd[u] = NULL THEN u ELSE EndBy(fwd, fwd[u])
  BY <1>2, EndStep
<1>4. fwd[u] # NULL => fwd[u] \in D
  BY <1>3 DEF Grounded
<1>5. fwd[u] # NULL => EndBy(fwd, fwd[u]) = e[fwd[u]]
  BY <1>2, <1>4
<1>6. EndBy(fwd, u) = e[u]
  BY <1>3, <1>5
<1>7. QED  BY <1>2, <1>6

\* The ends do not change with the forwarders of other items.
LEMMA EndFrame ==
  ASSUME NEW D, NEW fwd, Grounded(D, fwd), NEW new \in Forwarders,
         \A d \in D : new[d] = fwd[d]
  PROVE  Grounded(D, new) /\ \A x \in D : EndBy(new, x) = EndBy(fwd, x)
<1>1. Grounded(D, new)
  <2>1. \A U \in SUBSET D : U # {} => \E u \in U : new[u] \notin U
    BY DEF Grounded
  <2>2. QED  BY <2>1 DEF Grounded
<1> DEFINE e == [x \in D |-> EndBy(fwd, x)]
<1>2. ASSUME NEW x \in D PROVE e[x] = IF new[x] = NULL THEN x ELSE e[new[x]]
  <2>1. EndBy(fwd, x) = IF fwd[x] = NULL THEN x ELSE EndBy(fwd, fwd[x])
    BY EndStep
  <2>2. fwd[x] # NULL => fwd[x] \in D
    BY DEF Grounded
  <2>3. QED  BY <2>1, <2>2
<1>3. \A x \in D : e[x] = EndBy(fwd, x)
  OBVIOUS
<1> HIDE DEF e
<1>4. \A x \in D : EndBy(new, x) = e[x]
  BY <1>1, <1>2, EndUnique
<1>5. QED  BY <1>1, <1>3, <1>4

-----------------------------------------------------------------------------
(* What the interpreter sees *)

\* The first and the rest of every item, as the interpreter sees them, and
\* what it sees in its variables, of any slots and forwarders.
FirstBy(t, fwd) == [i \in Items |-> EndBy(fwd, t[First(i)])]
RestBy(t, fwd) == [i \in Items |-> EndBy(fwd, t[Rest(i)])]
ValuesBy(t, fwd) == [h \in Handles |-> EndBy(fwd, t[h])]

\* A heap is given by values of the variables and a first and a rest of items.
Contents == [Items -> Pointers]
Roots(v) == {v[h] : h \in Handles} \ {NULL}
PartsBy(first, rest) == [i \in Items |-> {first[i], rest[i]} \ {NULL}]
SeenFrom(v, first, rest) == Closure(Roots(v), PartsBy(first, rest))
ListsOf(D, first, rest) == {[item |-> i, first |-> first[i], rest |-> rest[i]] : i \in D}

\* The mapping of the refinement in these terms, before and after a step.
LEMMA HeapViews ==
  /\ values = ValuesBy(target, forwarder)
  /\ values' = ValuesBy(target', forwarder')
  /\ Seen = SeenFrom(values, FirstBy(target, forwarder), RestBy(target, forwarder))
  /\ Seen' = SeenFrom(values', FirstBy(target', forwarder'), RestBy(target', forwarder'))
<1>1. /\ \A x : End(x) = EndBy(forwarder, x)
      /\ values' = ValuesBy(target', forwarder')
      /\ values = ValuesBy(target, forwarder)
  BY DEF End, EndBy, Forwarded, ForwardedBy, values, ValuesBy
<1>2. Seen = Closure(Roots(values), [i \in Items |-> {End(target[First(i)]), End(target[Rest(i)])} \ {NULL}])
  BY DEF Seen, Roots, FirstOf, RestOf
<1>3. [i \in Items |-> {End(target[First(i)]), End(target[Rest(i)])} \ {NULL}]
        = PartsBy(FirstBy(target, forwarder), RestBy(target, forwarder))
  BY <1>1 DEF PartsBy, FirstBy, RestBy
<1>4. Seen = SeenFrom(values, FirstBy(target, forwarder), RestBy(target, forwarder))
  BY <1>2, <1>3 DEF SeenFrom
<1>5. (Seen = SeenFrom(values, FirstBy(target, forwarder), RestBy(target, forwarder)))'
  <2>1. Seen' = Closure(Roots(values'),
                  [i \in Items |-> {EndBy(forwarder', target'[First(i)]),
                                    EndBy(forwarder', target'[Rest(i)])} \ {NULL}])
    BY DEF Seen, Roots, FirstOf, RestOf, End, EndBy, Forwarded, ForwardedBy
  <2>2. [i \in Items |-> {EndBy(forwarder', target'[First(i)]),
                          EndBy(forwarder', target'[Rest(i)])} \ {NULL}]
          = PartsBy(FirstBy(target', forwarder'), RestBy(target', forwarder'))
    BY DEF PartsBy, FirstBy, RestBy
  <2>3. QED  BY <2>1, <2>2 DEF SeenFrom
<1>6. QED  BY <1>1, <1>4, <1>5

\* The items in use are grounded.
LEMMA InvGrounded == ASSUME Inv PROVE Grounded(InUse, forwarder)
<1>1. /\ InUse \in SUBSET Items /\ forwarder \in Forwarders
      /\ \A i \in Items : forwarder[i] \in Pointers
      /\ \A i \in Items : forwarder[i] # NULL => forwarder[i] \in Referred[i]
  BY PoolTypes DEF Inv, Types, Referred
<1>2. \A d \in InUse : forwarder[d] # NULL => forwarder[d] \in InUse
  BY <1>1, InUseClosed DEF Closed
<1>3. ASSUME NEW U \in SUBSET InUse, U # {} PROVE \E u \in U : forwarder[u] \notin U
  <2>1. PICK u \in U : \A v \in U : v \notin Referred[u]
    BY <1>3 DEF Inv, Acyclic
  <2>2. forwarder[u] # NULL => forwarder[u] \in Referred[u]
    BY <1>1
  <2>3. forwarder[u] \notin U
    BY <1>1, <2>1, <2>2, NullIsNoItem
  <2>4. QED  BY <2>3
<1>4. QED  BY <1>1, <1>2, <1>3 DEF Grounded

\* What a slot leads to, over the forwarders, has a reference.
LEMMA EndOfSlot ==
  ASSUME Inv, NEW s \in Slots
  PROVE  /\ target[s] = NULL => EndBy(forwarder, target[s]) = NULL
         /\ target[s] # NULL =>
              /\ EndBy(forwarder, target[s]) \in InUse
              /\ EndBy(forwarder, target[s]) # NULL
              /\ forwarder[EndBy(forwarder, target[s])] = NULL
              /\ refCount[EndBy(forwarder, target[s])] # 0
<1>1. CASE target[s] = NULL
  BY <1>1 DEF EndBy
<1>2. CASE target[s] # NULL
  <2> DEFINE x == target[s]
             e == EndBy(forwarder, x)
             C == Closure({x}, Forwarded)
  <2>1. x \in InUse /\ refCount[x] # 0
    BY <1>2, TargetInUse
  <2>2. e = End(x)
    BY DEF End, EndBy, Forwarded, ForwardedBy
  <2>3. /\ C \in SUBSET InUse /\ e \in C /\ forwarder[e] = NULL
        /\ \A c \in C : c # x => \E d \in C : forwarder[d] = c
    BY <2>1, <2>2, EndFound
  <2>4. InUse \in SUBSET Items
    BY PoolTypes DEF Inv
  <2> HIDE DEF C, e, x
  <2>5. e \in Items /\ e # NULL
    BY <2>3, <2>4, NullIsNoItem
  <2>6. refCount[e] # 0
    <3>1. CASE e = x
      BY <2>1, <3>1
    <3>2. CASE e # x
      <4>1. PICK d \in InUse : forwarder[d] = e
        BY <2>3, <3>2
      <4>2. refCount[e] > 0
        BY <4>1, <2>5, Counted
      <4>3. QED  BY <4>2
    <3>3. QED  BY <3>1, <3>2
  <2>7. QED  BY <1>2, <2>3, <2>5, <2>6 DEF e, x
<1>3. QED  BY <1>1, <1>2

\* A heap whose variables and lists are items.
Heaps(v, first, rest) ==
  v \in [Handles -> Pointers] /\ first \in Contents /\ rest \in Contents

\* What is seen is the least set with the roots that is closed under parts.
LEMMA SeenLeast ==
  ASSUME NEW v, NEW first, NEW rest, Heaps(v, first, rest)
  PROVE  /\ PartsBy(first, rest) \in Graphs /\ Roots(v) \in SUBSET Items
         /\ SeenFrom(v, first, rest) \in SUBSET Items
         /\ Roots(v) \subseteq SeenFrom(v, first, rest)
         /\ Closed(SeenFrom(v, first, rest), PartsBy(first, rest))
         /\ \A D \in SUBSET Items : Roots(v) \subseteq D /\ Closed(D, PartsBy(first, rest))
                                    => SeenFrom(v, first, rest) \subseteq D
<1>1. \A i \in Items : {first[i], rest[i]} \ {NULL} \in SUBSET Items
  BY DEF Heaps, Contents, Pointers
<1>2. PartsBy(first, rest) \in Graphs
  BY <1>1 DEF PartsBy, Graphs
<1>3. Roots(v) \in SUBSET Items
  BY DEF Heaps, Roots, Pointers
<1>4. QED  BY <1>2, <1>3, ClosureLeast DEF SeenFrom

\* A set of items is closed when it has the first and the rest of each of its items.
LEMMA PartsClosed ==
  ASSUME NEW D \in SUBSET Items, NEW first, NEW rest
  PROVE  Closed(D, PartsBy(first, rest)) <=>
           \A i \in D : (first[i] # NULL => first[i] \in D) /\ (rest[i] # NULL => rest[i] \in D)
<1>1. \A i \in D : PartsBy(first, rest)[i] = {first[i], rest[i]} \ {NULL}
  BY DEF PartsBy
<1>2. \A i \in D : NULL # i
  BY NullIsNoItem
<1>3. QED  BY <1>1, <1>2 DEF Closed

\* The interpreter sees items in use that have a reference and no forwarder.
LEMMA SeenInUse ==
  ASSUME Inv
  PROVE  /\ Heaps(values, FirstBy(target, forwarder), RestBy(target, forwarder))
         /\ Seen \in SUBSET InUse /\ Seen \in SUBSET Items
         /\ \A i \in Seen : forwarder[i] = NULL /\ refCount[i] # 0
         /\ Roots(values) \subseteq Seen
         /\ Closed(Seen, PartsBy(FirstBy(target, forwarder), RestBy(target, forwarder)))
<1> DEFINE first == FirstBy(target, forwarder)
           rest == RestBy(target, forwarder)
           G == {i \in InUse : forwarder[i] = NULL /\ refCount[i] # 0}
<1>1. InUse \in SUBSET Items
  BY PoolTypes DEF Inv
<1>2. \A s \in Slots : /\ EndBy(forwarder, target[s]) \in Pointers
                       /\ EndBy(forwarder, target[s]) # NULL => EndBy(forwarder, target[s]) \in G
  BY <1>1, EndOfSlot DEF Pointers
<1>3. /\ \A h \in Handles : values[h] = EndBy(forwarder, target[h])
      /\ \A i \in Items : first[i] = EndBy(forwarder, target[First(i)])
      /\ \A i \in Items : rest[i] = EndBy(forwarder, target[Rest(i)])
  BY HeapViews DEF ValuesBy, FirstBy, RestBy
<1>4. Heaps(values, first, rest)
  <2>1. values \in [Handles -> Pointers]
    BY <1>2, <1>3, SlotsDiffer DEF values
  <2>2. first \in Contents /\ rest \in Contents
    BY <1>2, SlotsOfItem DEF FirstBy, RestBy, Contents
  <2>3. QED  BY <2>1, <2>2 DEF Heaps
<1>5. Roots(values) \subseteq G
  BY <1>2, <1>3, SlotsDiffer DEF Roots
<1>6. \A i \in Items : (first[i] # NULL => first[i] \in G) /\ (rest[i] # NULL => rest[i] \in G)
  BY <1>2, <1>3, SlotsOfItem
<1>7. G \in SUBSET Items
  BY <1>1
<1>8. Seen = SeenFrom(values, first, rest)
  BY HeapViews
<1> HIDE DEF first, rest
<1>9. Closed(G, PartsBy(first, rest))
  <2> HIDE DEF G
  <2>1. QED  BY <1>6, <1>7, PartsClosed
<1>10. /\ Seen \in SUBSET Items /\ Roots(values) \subseteq Seen
       /\ Closed(Seen, PartsBy(first, rest))
  BY <1>4, <1>8, SeenLeast
<1>11. Seen \subseteq G
  <2> HIDE DEF G
  <2>1. QED  BY <1>4, <1>5, <1>7, <1>8, <1>9, SeenLeast
<1>12. Seen \subseteq InUse /\ \A i \in Seen : forwarder[i] = NULL /\ refCount[i] # 0
  BY <1>11
<1>13. QED  BY <1>4, <1>10, <1>12 DEF first, rest

\* One step in the abstract heap: the parts of the lists of w.
PartsIn(ls, w) == (UNION {{l.first, l.rest} : l \in {k \in ls : k.item \in w}}) \ {NULL}
PartsOf(next, w) == UNION {next[i] : i \in w}

\* The lists of the items of w have as parts what the items have.
LEMMA PartsOfLists ==
  ASSUME NEW first \in Contents, NEW rest \in Contents, NEW D \in SUBSET Items, NEW w \in SUBSET D
  PROVE  PartsIn(ListsOf(D, first, rest), w) = PartsOf(PartsBy(first, rest), w)
<1> DEFINE L(i) == [item |-> i, first |-> first[i], rest |-> rest[i]]
           ls == ListsOf(D, first, rest)
           Here == {k \in ls : k.item \in w}
           next == PartsBy(first, rest)
<1>1. \A i \in D : next[i] = {first[i], rest[i]} \ {NULL}
  BY DEF PartsBy
<1>2. \A i \in w : L(i) \in Here /\ L(i).first = first[i] /\ L(i).rest = rest[i]
  BY DEF ListsOf
<1>3. \A l \in Here : l.item \in w /\ l.first = first[l.item] /\ l.rest = rest[l.item]
  BY DEF ListsOf
<1> HIDE DEF next, Here, L
<1>4. (UNION {{l.first, l.rest} : l \in Here}) \ {NULL} \subseteq UNION {next[i] : i \in w}
  BY <1>1, <1>3
<1>5. UNION {next[i] : i \in w} \subseteq (UNION {{l.first, l.rest} : l \in Here}) \ {NULL}
  BY <1>1, <1>2
<1>6. QED  BY <1>4, <1>5 DEF Here, next, PartsIn, PartsOf

\* The stages of Reached, for any f.
HeapStages(f, v, ls) ==
  f = [n \in 0..Cardinality(Items) |->
         IF n = 0 THEN {v[h] : h \in Handles} \ {NULL}
         ELSE f[n - 1] \cup PartsIn(ls, f[n - 1])]

\* The abstract heap reaches the items that are seen in it.
LEMMA ReachedIsSeen ==
  ASSUME NEW v, NEW first, NEW rest, Heaps(v, first, rest),
         NEW D \in SUBSET Items, Roots(v) \subseteq D, Closed(D, PartsBy(first, rest))
  PROVE  Heap!Reached(v, ListsOf(D, first, rest)) = SeenFrom(v, first, rest)
<1> DEFINE ls == ListsOf(D, first, rest)
           next == PartsBy(first, rest)
           w == Within(Roots(v), next)
           Step(p) == p \cup PartsIn(ls, p)
<1>1. first \in Contents /\ rest \in Contents
  BY DEF Heaps
<1>2. next \in Graphs /\ Roots(v) \in SUBSET Items
  BY SeenLeast
<1>3. /\ w[0] = Roots(v)
      /\ \A n \in 0..(MaxItems - 1) : w[n + 1] = w[n] \cup PartsOf(next, w[n])
  BY WithinSteps DEF PartsOf
<1>4. \A n \in 0..MaxItems : w[n] \subseteq D
  <2> HIDE DEF next
  <2>1. QED  BY <1>2, StageBounds DEF next
<1>5. \A p \in SUBSET D : Step(p) = p \cup PartsOf(next, p)
  BY <1>1, PartsOfLists
<1>6. DOMAIN w = 0..MaxItems /\ w = [n \in 0..MaxItems |-> w[n]]
  <2>1. PICK f : Stages(f, MaxItems, Roots(v), next)
    BY StagesExist, MaxItemsAssumption
  <2>2. Stages(w, MaxItems, Roots(v), next)
    BY <2>1 DEF Stages, Within
  <2> HIDE DEF w
  <2>3. QED  BY <2>2 DEF Stages
<1> HIDE DEF w, next, Step
<1>7. \A n \in 1..MaxItems : w[n] = Step(w[n - 1])
  <2> SUFFICES ASSUME NEW n \in 1..MaxItems PROVE w[n] = Step(w[n - 1])
    OBVIOUS
  <2>1. n - 1 \in 0..(MaxItems - 1) /\ n - 1 \in 0..MaxItems /\ (n - 1) + 1 = n
    BY MaxItemsAssumption
  <2>2. w[n] = w[n - 1] \cup PartsOf(next, w[n - 1])
    BY <1>3, <2>1
  <2>3. w[n - 1] \in SUBSET D
    BY <1>4, <2>1
  <2>4. QED  BY <1>5, <2>2, <2>3
<1>8. Cardinality(Items) = MaxItems
  BY ItemsFinite
<1>9. HeapStages(w, v, ls)
  <2>1. w = [n \in 0..MaxItems |-> IF n = 0 THEN Roots(v) ELSE Step(w[n - 1])]
    BY <1>3, <1>6, <1>7
  <2>2. QED  BY <2>1, <1>8 DEF HeapStages, Step, Roots
<1>10. ASSUME NEW f, HeapStages(f, v, ls) PROVE f[MaxItems] = w[MaxItems]
  <2>1. f = [n \in 0..MaxItems |-> IF n = 0 THEN Roots(v) ELSE Step(f[n - 1])]
    BY <1>8, <1>10 DEF HeapStages, Step, Roots
  <2> DEFINE Bad == {n \in 0..MaxItems : f[n] # w[n]}
  <2>2. ASSUME Bad # {} PROVE FALSE
    <3>1. Bad \in SUBSET Nat
      OBVIOUS
    <3>2. PICK k \in Bad : \A l \in Bad : k <= l
      <4> HIDE DEF Bad
      <4>1. QED  BY <2>2, <3>1, LeastNumber
    <3>3. k \in 0..MaxItems /\ f[k] # w[k]
      BY <3>2
    <3>4. CASE k = 0
      BY <1>3, <2>1, <3>3, <3>4
    <3>5. CASE k # 0
      <4>1. k - 1 \in 0..MaxItems /\ k \in 1..MaxItems /\ ~(k <= k - 1)
        BY <3>3, <3>5, MaxItemsAssumption
      <4>2. k - 1 \notin Bad
        BY <3>2, <4>1
      <4>3. f[k - 1] = w[k - 1]
        BY <4>1, <4>2
      <4>4. f[k] = Step(f[k - 1])
        BY <2>1, <3>3, <3>5
      <4>5. w[k] = Step(w[k - 1])
        BY <1>7, <4>1
      <4>6. QED  BY <3>3, <4>3, <4>4, <4>5
    <3>6. QED  BY <3>4, <3>5
  <2>3. MaxItems \in 0..MaxItems
    BY MaxItemsAssumption
  <2>4. QED  BY <2>2, <2>3
<1>11. Heap!Reached(v, ls) = (CHOOSE f : HeapStages(f, v, ls))[Cardinality(Items)]
  BY DEF Heap!Reached, HeapStages, PartsIn, Heap!Cardinality, Cardinality
<1>12. HeapStages(CHOOSE f : HeapStages(f, v, ls), v, ls)
  BY <1>9
<1>13. Heap!Reached(v, ls) = w[MaxItems]
  BY <1>8, <1>10, <1>11, <1>12
<1>14. QED  BY <1>13 DEF w, next, SeenFrom, Closure

\* The interpreter sees items after a step as well.
LEMMA SeenTypes ==
  Inv => Seen \in SUBSET Items /\ Heaps(values, FirstBy(target, forwarder), RestBy(target, forwarder))
BY SeenInUse

\* A step after which the interpreter sees the heap v, first, rest, as far as
\* a closed set D of items goes.
LEMMA SeenAfter ==
  ASSUME Inv', NEW v, NEW first, NEW rest, Heaps(v, first, rest), values' = v,
         NEW D \in SUBSET Items, Roots(v) \subseteq D, Closed(D, PartsBy(first, rest)),
         \A i \in D : /\ FirstBy(target', forwarder')[i] = first[i]
                      /\ RestBy(target', forwarder')[i] = rest[i]
  PROVE  seen' = ListsOf(SeenFrom(v, first, rest), first, rest)
<1> DEFINE newFirst == FirstBy(target', forwarder')
           newRest == RestBy(target', forwarder')
           C == SeenFrom(v, first, rest)
<1>1. Seen' \in SUBSET Items /\ Heaps(values', newFirst, newRest)
  <2>1. Inv' => (Seen \in SUBSET Items /\ Heaps(values, FirstBy(target, forwarder), RestBy(target, forwarder)))'
    BY SeenTypes, PTL
  <2>2. QED  BY <2>1
<1>2. Seen' = SeenFrom(v, newFirst, newRest)
  BY HeapViews
<1>3. \A i \in D : newFirst[i] = first[i] /\ newRest[i] = rest[i]
  OBVIOUS
<1>4. Heaps(v, newFirst, newRest)
  BY <1>1
<1> HIDE DEF newFirst, newRest
<1>5. PartsBy(first, rest) \in Graphs /\ Roots(v) \in SUBSET Items /\ C \subseteq D
  BY SeenLeast
<1>6. PartsBy(newFirst, newRest) \in Graphs
  BY <1>4, SeenLeast
<1>7. \A i \in C : PartsBy(newFirst, newRest)[i] = PartsBy(first, rest)[i]
  BY <1>3, <1>5 DEF PartsBy
<1>8. Seen' = C
  <2> DEFINE next == PartsBy(first, rest)
             new == PartsBy(newFirst, newRest)
             S == Roots(v)
  <2>1. /\ next \in Graphs /\ new \in Graphs /\ S \in SUBSET Items
        /\ \A i \in Closure(S, next) : new[i] = next[i]
    BY <1>5, <1>6, <1>7 DEF SeenFrom
  <2>2. Seen' = Closure(S, new) /\ C = Closure(S, next)
    BY <1>2 DEF SeenFrom
  <2> HIDE DEF next, new, S, C
  <2>3. Closure(S, new) = Closure(S, next)
    BY <2>1, ClosureFrame
  <2>4. QED  BY <2>2, <2>3
<1>9. seen' = ListsOf(Seen', newFirst, newRest)
  <2>1. /\ \A i \in Items : /\ FirstOf(i)' = newFirst[i]
                            /\ RestOf(i)' = newRest[i]
    BY DEF FirstOf, RestOf, FirstBy, RestBy, End, EndBy, Forwarded, ForwardedBy, newFirst, newRest
  <2>2. seen' = {[item |-> i, first |-> FirstOf(i)', rest |-> RestOf(i)'] : i \in Seen'}
    BY DEF seen
  <2>3. QED  BY <1>1, <2>1, <2>2 DEF ListsOf
<1>10. ListsOf(C, newFirst, newRest) = ListsOf(C, first, rest)
  BY <1>3, <1>5 DEF ListsOf
<1>11. QED  BY <1>8, <1>9, <1>10

\* Such a step is one by which the abstract heap becomes v with the lists of D.
LEMMA BecomeStep ==
  ASSUME Inv', NEW v, NEW first, NEW rest, Heaps(v, first, rest), values' = v,
         NEW D \in SUBSET Items, Roots(v) \subseteq D, Closed(D, PartsBy(first, rest)),
         \A i \in D : /\ FirstBy(target', forwarder')[i] = first[i]
                      /\ RestBy(target', forwarder')[i] = rest[i]
  PROVE  Heap!Become(v, ListsOf(D, first, rest))
<1> DEFINE C == SeenFrom(v, first, rest)
           ls == ListsOf(D, first, rest)
<1>1. seen' = ListsOf(C, first, rest)
  BY SeenAfter
<1>2. Heap!Reached(v, ls) = C
  BY ReachedIsSeen
<1>3. C \subseteq D
  BY SeenLeast
<1>4. {l \in ls : l.item \in C} = ListsOf(C, first, rest)
  <2> HIDE DEF C
  <2>1. QED  BY <1>3 DEF ListsOf
<1> HIDE DEF C, ls
<1>5. seen' = {l \in ls : l.item \in Heap!Reached(v, ls)}
  BY <1>1, <1>2, <1>4
<1>6. values' = v
  OBVIOUS
<1>7. QED  BY <1>5, <1>6 DEF Heap!Become, ls

\* The lists the interpreter sees.
LEMMA SeenLists ==
  ASSUME Inv
  PROVE  seen = ListsOf(Seen, FirstBy(target, forwarder), RestBy(target, forwarder))
<1> DEFINE first == FirstBy(target, forwarder)
           rest == RestBy(target, forwarder)
<1>1. \A i \in Items : FirstOf(i) = first[i] /\ RestOf(i) = rest[i]
  BY DEF FirstOf, RestOf, FirstBy, RestBy, End, EndBy, Forwarded, ForwardedBy
<1>2. seen = {[item |-> i, first |-> FirstOf(i), rest |-> RestOf(i)] : i \in Seen}
  BY DEF seen
<1>3. Seen \in SUBSET Items
  BY SeenInUse
<1> HIDE DEF first, rest
<1>4. QED  BY <1>1, <1>2, <1>3 DEF ListsOf, first, rest

\* A step that changes no variable and no list as they are seen.
LEMMA StutterStep ==
  ASSUME Inv, Inv', values' = values,
         \A i \in Seen : /\ FirstBy(target', forwarder')[i] = FirstBy(target, forwarder)[i]
                         /\ RestBy(target', forwarder')[i] = RestBy(target, forwarder)[i]
  PROVE  UNCHANGED <<values, seen>>
<1> DEFINE first == FirstBy(target, forwarder)
           rest == RestBy(target, forwarder)
           v == values
<1>1. Heaps(v, first, rest) /\ Seen \in SUBSET Items /\ Roots(v) \subseteq Seen
      /\ Closed(Seen, PartsBy(first, rest))
  BY SeenInUse
<1>2. Seen = SeenFrom(v, first, rest)
  BY HeapViews
<1>3. \A i \in Seen : /\ FirstBy(target', forwarder')[i] = first[i]
                      /\ RestBy(target', forwarder')[i] = rest[i]
  OBVIOUS
<1>4. seen = ListsOf(Seen, first, rest)
  BY SeenLists
<1>5. values' = v
  OBVIOUS
<1> HIDE DEF first, rest, v
<1>6. seen' = ListsOf(SeenFrom(v, first, rest), first, rest)
  BY <1>1, <1>3, <1>5, SeenAfter
<1>7. seen' = seen
  BY <1>2, <1>4, <1>6
<1>8. QED  BY <1>7

-----------------------------------------------------------------------------
(* Steps the interpreter does not see *)

\* EndBy is End, with the forwarders there are.
LEMMA EndIsEndBy == \A x : End(x) = EndBy(forwarder, x)
BY DEF End, EndBy, Forwarded, ForwardedBy

\* A step after which every slot leads to the same end as before.
LEMMA SameEnds ==
  ASSUME Inv, Inv',
         \A s \in Slots : EndBy(forwarder', target'[s]) = EndBy(forwarder, target[s])
  PROVE  UNCHANGED <<values, seen>>
<1>1. values' = values
  BY HeapViews, SlotsDiffer DEF ValuesBy
<1>2. Seen \in SUBSET Items
  BY SeenInUse
<1>3. \A i \in Seen : /\ FirstBy(target', forwarder')[i] = FirstBy(target, forwarder)[i]
                      /\ RestBy(target', forwarder')[i] = RestBy(target, forwarder)[i]
  BY <1>2, SlotsOfItem DEF FirstBy, RestBy
<1>4. QED  BY <1>1, <1>3, StutterStep

\* Only the forwarder of an item without a reference changes.
LEMMA ForwarderUnseen ==
  ASSUME Inv, Inv', NEW i \in InUse, refCount[i] = 0, target' = target,
         \A j \in InUse \ {i} : forwarder'[j] = forwarder[j]
  PROVE  UNCHANGED <<values, seen>>
<1> DEFINE D == InUse \ {i}
<1>1. Grounded(InUse, forwarder) /\ InUse \in SUBSET Items /\ D \in SUBSET Items
  BY InvGrounded, PoolTypes DEF Inv
<1>2. Grounded(D, forwarder)
  <2>1. ASSUME NEW d \in D, forwarder[d] # NULL PROVE forwarder[d] \in D
    <3>1. forwarder[d] \in InUse
      BY <1>1, <2>1 DEF Grounded
    <3>2. forwarder[d] # i
      <4>1. i \in Items /\ ~(refCount[i] > 0)
        BY <1>1
      <4>2. QED  BY <4>1, <2>1, Counted
    <3>3. QED  BY <3>1, <3>2
  <2>2. QED  BY <1>1, <2>1 DEF Grounded
<1>3. forwarder' \in Forwarders
  BY DEF Inv, Types, Forwarders
<1>4. \A d \in D : forwarder'[d] = forwarder[d]
  OBVIOUS
<1> HIDE DEF D
<1>5. \A x \in D : EndBy(forwarder', x) = EndBy(forwarder, x)
  BY <1>2, <1>3, <1>4, EndFrame
<1>6. ASSUME NEW s \in Slots PROVE EndBy(forwarder', target'[s]) = EndBy(forwarder, target[s])
  <2>1. CASE target[s] = NULL
    BY <2>1 DEF EndBy
  <2>2. CASE target[s] # NULL
    <3>1. target[s] \in D
      BY <2>2, TargetInUse DEF D
    <3>2. QED  BY <3>1, <1>5
  <2>3. QED  BY <2>1, <2>2
<1>7. QED  BY <1>6, SameEnds

\* The end of a slot is its own end.
LEMMA EndOfEnd ==
  ASSUME Inv, NEW s \in Slots
  PROVE  EndBy(forwarder, End(target[s])) = End(target[s])
<1> DEFINE e == EndBy(forwarder, target[s])
<1>1. CASE target[s] = NULL
  BY <1>1 DEF EndBy, End
<1>2. CASE target[s] # NULL
  <2>1. e \in InUse /\ forwarder[e] = NULL
    BY <1>2, EndOfSlot
  <2>2. Grounded(InUse, forwarder)
    BY InvGrounded
  <2> HIDE DEF e
  <2>3. EndBy(forwarder, e) = e
    BY <2>1, <2>2, EndStep
  <2>4. QED  BY <2>3, EndIsEndBy DEF e
<1>3. QED  BY <1>1, <1>2

\* -> only shortens a chain.
LEMMA DereferenceUnseen == Inv /\ Inv' /\ Dereference => UNCHANGED <<values, seen>>
<1> SUFFICES ASSUME Inv, Inv', Dereference PROVE UNCHANGED <<values, seen>>
  OBVIOUS
<1>1. PICK s \in Slots : getTarget(s)
  <2>1. CASE \E h \in Handles : getTarget(h)
    BY <2>1, SlotsDiffer
  <2>2. ASSUME NEW h \in Handles, Evaluated(h), getTarget(First(target[h]))
        PROVE  \E s \in Slots : getTarget(s)
    <3>1. target[h] \in Items
      BY <2>2, TargetInUse, SlotsDiffer DEF Evaluated
    <3>2. QED  BY <2>2, <3>1, SlotsOfItem
  <2>3. QED  BY <2>1, <2>2 DEF Dereference
<1>2. target' = [target EXCEPT ![s] = End(target[s])] /\ forwarder' = forwarder
  BY <1>1 DEF getTarget, doSet
<1>3. target \in [Slots -> Pointers]
  BY DEF Inv, Types
<1>4. ASSUME NEW r \in Slots PROVE EndBy(forwarder', target'[r]) = EndBy(forwarder, target[r])
  <2>1. CASE r = s
    <3>1. target'[r] = End(target[r])
      BY <1>2, <1>3, <2>1
    <3>2. QED  BY <1>2, <3>1, EndOfEnd, EndIsEndBy
  <2>2. CASE r # s
    BY <1>2, <1>3, <2>2
  <2>3. QED  BY <2>1, <2>2
<1>5. QED  BY <1>4, SameEnds

\* A removal clears only what the interpreter does not see.
LEMMA RemovalUnseen == Inv /\ Inv' /\ Removal => UNCHANGED <<values, seen>>
<1> SUFFICES ASSUME Inv, Inv', Removal PROVE UNCHANGED <<values, seen>>
  OBVIOUS
<1>1. CASE Drop
  BY <1>1, SameEnds DEF Drop
<1>2. CASE EndOfForwarders
  BY <1>2, SameEnds DEF EndOfForwarders
<1>3. CASE NextForwarder
  <2>1. /\ Current("forwarders") /\ target' = target
        /\ forwarder' = [forwarder EXCEPT ![Item] = NULL]
    BY <1>3 DEF NextForwarder
  <2>2. Item \in InUse /\ refCount[Item] = 0
    BY <2>1, WalkFacts
  <2>3. \A j \in InUse \ {Item} : forwarder'[j] = forwarder[j]
    BY <2>1, PoolTypes DEF Inv, Types
  <2>4. QED  BY <2>1, <2>2, <2>3, ForwarderUnseen
<1>4. CASE Remove
  <2> DEFINE i == Item
  <2>1. /\ Current("remove") /\ forwarder' = forwarder
        /\ target' = [target EXCEPT ![First(i)] = NULL, ![Rest(i)] = NULL]
    BY <1>4 DEF Remove
  <2>2. i \in Items /\ refCount[i] = 0
    BY <2>1, ClearedFacts
  <2> HIDE DEF i
  <2>3. target \in [Slots -> Pointers]
    BY DEF Inv, Types
  <2>4. Seen \in SUBSET Items /\ i \notin Seen
    BY <2>2, SeenInUse
  <2>5. /\ \A h \in Handles : target'[h] = target[h]
        /\ \A j \in Items \ {i} : target'[First(j)] = target[First(j)] /\ target'[Rest(j)] = target[Rest(j)]
    <3>1. \A h \in Handles : h \in Slots /\ h # First(i) /\ h # Rest(i)
      BY <2>2, SlotsDiffer
    <3>2. \A j \in Items \ {i} : /\ First(j) \in Slots /\ First(j) # First(i) /\ First(j) # Rest(i)
                                 /\ Rest(j) \in Slots /\ Rest(j) # First(i) /\ Rest(j) # Rest(i)
      BY <2>2, SlotsDiffer, SlotsOfItem
    <3>3. QED  BY <2>1, <2>3, <3>1, <3>2
  <2>6. forwarder' = forwarder
    BY <2>1
  <2>7. values' = values
    BY <2>5, <2>6, HeapViews DEF ValuesBy
  <2>8. \A j \in Seen : /\ FirstBy(target', forwarder')[j] = FirstBy(target, forwarder)[j]
                        /\ RestBy(target', forwarder')[j] = RestBy(target, forwarder)[j]
    BY <2>4, <2>5, <2>6 DEF FirstBy, RestBy
  <2>9. QED  BY <2>7, <2>8, StutterStep
<1>5. CASE Free
  <2>1. /\ Current("free") /\ target' = target
        /\ forwarder' = [forwarder EXCEPT ![Item] = available]
    BY <1>5 DEF Free, Chained
  <2>2. Item \in InUse /\ refCount[Item] = 0
    BY <2>1, ClearedFacts
  <2>3. \A j \in InUse \ {Item} : forwarder'[j] = forwarder[j]
    BY <2>1, PoolTypes DEF Inv, Types
  <2>4. QED  BY <2>1, <2>2, <2>3, ForwarderUnseen
<1>6. QED  BY <1>1, <1>2, <1>3, <1>4, <1>5 DEF Removal

-----------------------------------------------------------------------------
(* Steps the interpreter sees *)

\* A list that has been evaluated is what the interpreter sees in the variable.
LEMMA EvaluatedSeen ==
  ASSUME Inv, NEW g \in Handles, Evaluated(g)
  PROVE  /\ values[g] = target[g] /\ target[g] # NULL
         /\ target[g] \in Seen /\ target[g] \in InUse /\ target[g] \in Items
<1>1. target[g] \in InUse /\ target[g] \in Items /\ target[g] # NULL /\ forwarder[target[g]] = NULL
  BY TargetInUse, SlotsDiffer DEF Evaluated
<1>2. EndBy(forwarder, target[g]) = target[g]
  BY <1>1, InvGrounded, EndStep
<1>3. values[g] = target[g]
  BY <1>2, HeapViews DEF ValuesBy
<1>4. values[g] \in Roots(values)
  BY <1>1, <1>3 DEF Roots
<1>5. target[g] \in Seen
  BY <1>3, <1>4, SeenInUse
<1>6. QED  BY <1>1, <1>3, <1>5

\* What a variable that is not NULL shows is seen.
LEMMA ValueSeen ==
  ASSUME Inv, NEW h \in Handles
  PROVE  /\ values[h] = EndBy(forwarder, target[h])
         /\ target[h] = NULL => values[h] = NULL
         /\ target[h] # NULL => values[h] \in Seen /\ values[h] # NULL
<1>1. values[h] = EndBy(forwarder, target[h])
  BY HeapViews DEF ValuesBy
<1>2. CASE target[h] = NULL
  BY <1>1, <1>2, EndOfSlot, SlotsDiffer
<1>3. CASE target[h] # NULL
  <2>1. values[h] # NULL
    BY <1>1, <1>3, EndOfSlot, SlotsDiffer
  <2>2. values[h] \in Roots(values)
    BY <2>1 DEF Roots
  <2>3. QED  BY <1>1, <2>1, <2>2, <1>3, SeenInUse
<1>4. QED  BY <1>1, <1>2, <1>3

\* The variable h is set to x, and no other slot and no forwarder changes.
HandleSets(h, x) ==
  /\ forwarder' = forwarder
  /\ \A g \in Handles : target'[g] = IF g = h THEN x ELSE target[g]
  /\ \A i \in Items : target'[First(i)] = target[First(i)] /\ target'[Rest(i)] = target[Rest(i)]

\* doSet does that.
LEMMA DoSetHandle ==
  ASSUME Inv, NEW h \in Handles, NEW x, doSet(h, x)
  PROVE  HandleSets(h, x)
<1>1. target' = [target EXCEPT ![h] = x] /\ forwarder' = forwarder /\ target \in [Slots -> Pointers]
  BY DEF doSet, Inv, Types
<1>2. QED  BY <1>1, SlotsDiffer, SlotsOfItem DEF HandleSets

\* To set a variable to something that is seen is to set it in the heap.
LEMMA SetSeen ==
  ASSUME Inv, Inv', NEW h \in Handles, NEW x, HandleSets(h, x),
         EndBy(forwarder, x) \in Seen \cup {NULL}
  PROVE  Heap!Set(h, EndBy(forwarder, x))
<1> DEFINE e == EndBy(forwarder, x)
           first == FirstBy(target, forwarder)
           rest == RestBy(target, forwarder)
           v == [values EXCEPT ![h] = e]
<1>1. /\ Heaps(values, first, rest) /\ Seen \in SUBSET Items /\ Roots(values) \subseteq Seen
      /\ Closed(Seen, PartsBy(first, rest)) /\ seen = ListsOf(Seen, first, rest)
  BY SeenInUse, SeenLists
<1>2. values' = v
  <2>1. forwarder' = forwarder /\ \A g \in Handles : target'[g] = IF g = h THEN x ELSE target[g]
    BY DEF HandleSets
  <2>2. values' = [g \in Handles |-> EndBy(forwarder, IF g = h THEN x ELSE target[g])]
    BY <2>1, HeapViews DEF ValuesBy
  <2>3. values = [g \in Handles |-> EndBy(forwarder, target[g])]
    BY HeapViews DEF ValuesBy
  <2>4. QED  BY <2>2, <2>3
<1>3. \A i \in Seen : /\ FirstBy(target', forwarder')[i] = first[i]
                      /\ RestBy(target', forwarder')[i] = rest[i]
  BY <1>1 DEF HandleSets, FirstBy, RestBy
<1> HIDE DEF first, rest, e
<1>4. Heaps(v, first, rest) /\ Roots(v) \subseteq Seen
  <2>1. values \in [Handles -> Pointers] /\ e \in Pointers
    BY <1>1 DEF Heaps, Pointers, e
  <2>2. v \in [Handles -> Pointers]
    BY <2>1
  <2>3. \A g \in Handles : v[g] = IF g = h THEN e ELSE values[g]
    BY <2>1
  <2>4. \A g \in Handles : v[g] # NULL => v[g] \in Seen
    BY <1>1, <2>3 DEF Roots, e
  <2> HIDE DEF v
  <2>5. Roots(v) \subseteq Seen
    BY <2>4 DEF Roots
  <2>6. QED  BY <1>1, <2>2, <2>5 DEF Heaps
<1> HIDE DEF v
<1>5. Heap!Become(v, ListsOf(Seen, first, rest))
  BY <1>1, <1>2, <1>3, <1>4, BecomeStep
<1>6. QED  BY <1>1, <1>5 DEF Heap!Set, v, e

\* Clear implements Set to NULL.
LEMMA ClearSeen == Inv /\ Inv' /\ Clear => Heap!Next
<1> SUFFICES ASSUME Inv, Inv', Clear PROVE Heap!Next
  OBVIOUS
<1>1. PICK h \in Handles : doSet(h, NULL)
  BY DEF Clear
<1>2. HandleSets(h, NULL)
  BY <1>1, DoSetHandle
<1>3. EndBy(forwarder, NULL) = NULL
  BY DEF EndBy
<1>4. EndBy(forwarder, NULL) \in Seen \cup {NULL}
  BY <1>3
<1>5. Heap!Set(h, EndBy(forwarder, NULL))
  BY <1>2, <1>4, SetSeen
<1>6. Heap!Set(h, NULL)
  BY <1>3, <1>5
<1>7. QED  BY <1>6 DEF Heap!Next

\* The first and the rest of a list that is seen are its parts in the heap.
LEMMA PartsSeen ==
  ASSUME Inv, NEW i \in Seen, NEW s \in {First(i), Rest(i)}
  PROVE  /\ EndBy(forwarder, target[s]) \in Heap!Parts(i)
         /\ EndBy(forwarder, target[s]) \in Seen \cup {NULL}
<1> DEFINE first == FirstBy(target, forwarder)
           rest == RestBy(target, forwarder)
           l == [item |-> i, first |-> first[i], rest |-> rest[i]]
<1>1. /\ Seen \in SUBSET Items /\ Closed(Seen, PartsBy(first, rest)) /\ seen = ListsOf(Seen, first, rest)
  BY SeenInUse, SeenLists
<1>2. first[i] = EndBy(forwarder, target[First(i)]) /\ rest[i] = EndBy(forwarder, target[Rest(i)])
  BY <1>1 DEF FirstBy, RestBy
<1> HIDE DEF first, rest
<1>3. l \in seen /\ l.item = i /\ l.first = first[i] /\ l.rest = rest[i]
  BY <1>1 DEF ListsOf
<1> HIDE DEF l
<1>4. first[i] \in Heap!Parts(i) /\ rest[i] \in Heap!Parts(i)
  BY <1>3 DEF Heap!Parts
<1>5. first[i] \in Seen \cup {NULL} /\ rest[i] \in Seen \cup {NULL}
  BY <1>1, PartsClosed
<1>6. QED  BY <1>2, <1>4, <1>5

\* Assign implements Set, to a variable or to a part of a list.
LEMMA AssignSeen == Inv /\ Inv' /\ Assign => Heap!Next
<1> SUFFICES ASSUME Inv, Inv', Assign PROVE Heap!Next
  OBVIOUS
<1>1. PICK h \in Handles, g \in Handles :
        \/ doSet(h, target[g])
        \/ Evaluated(g) /\ \E s \in {First(target[g]), Rest(target[g])} : doSet(h, target[s])
  BY DEF Assign
<1>2. CASE doSet(h, target[g])
  <2>1. HandleSets(h, target[g])
    BY <1>2, DoSetHandle
  <2>2. values[g] = EndBy(forwarder, target[g]) /\ EndBy(forwarder, target[g]) \in Seen \cup {NULL}
    BY ValueSeen
  <2>3. Heap!Set(h, EndBy(forwarder, target[g]))
    BY <2>1, <2>2, SetSeen
  <2>4. Heap!Set(h, values[g])
    BY <2>2, <2>3
  <2>5. QED  BY <2>4 DEF Heap!Next
<1>3. ASSUME Evaluated(g), NEW s \in {First(target[g]), Rest(target[g])}, doSet(h, target[s])
      PROVE  Heap!Next
  <2>1. values[g] = target[g] /\ target[g] \in Seen
    BY <1>3, EvaluatedSeen
  <2>2. HandleSets(h, target[s])
    BY <1>3, DoSetHandle
  <2>3. /\ EndBy(forwarder, target[s]) \in Heap!Parts(target[g])
        /\ EndBy(forwarder, target[s]) \in Seen \cup {NULL}
    BY <2>1, PartsSeen
  <2>4. Heap!Set(h, EndBy(forwarder, target[s]))
    BY <2>2, <2>3, SetSeen
  <2>5. \E x \in Heap!Parts(values[g]) : Heap!Set(h, x)
    BY <2>1, <2>3, <2>4
  <2>6. QED  BY <2>5 DEF Heap!Next
<1>4. QED  BY <1>1, <1>2, <1>3

\* setRest implements the one of the heap.
LEMMA SetRestSeen == Inv /\ Inv' /\ setRest => Heap!Next
<1> SUFFICES ASSUME Inv, Inv', setRest PROVE Heap!Next
  OBVIOUS
<1>1. PICK g \in Handles, h \in Handles :
        Evaluated(g) /\ target[h] # NULL /\ doSet(Rest(target[g]), target[h])
  BY DEF setRest
<1> DEFINE i == target[g]
           x == values[h]
           first == FirstBy(target, forwarder)
           rest == RestBy(target, forwarder)
           newRest == [rest EXCEPT ![i] = x]
<1>2. values[g] = i /\ i \in Seen /\ i \in Items /\ i # NULL
  BY <1>1, EvaluatedSeen
<1>3. x = EndBy(forwarder, target[h]) /\ x \in Seen /\ x # NULL
  BY <1>1, ValueSeen
<1>4. /\ Heaps(values, first, rest) /\ Seen \in SUBSET Items /\ Roots(values) \subseteq Seen
      /\ Closed(Seen, PartsBy(first, rest)) /\ seen = ListsOf(Seen, first, rest)
  BY SeenInUse, SeenLists
<1>5. /\ forwarder' = forwarder
      /\ \A s \in Slots : target'[s] = IF s = Rest(i) THEN target[h] ELSE target[s]
  <2>1. target' = [target EXCEPT ![Rest(i)] = target[h]] /\ forwarder' = forwarder
        /\ target \in [Slots -> Pointers]
    BY <1>1 DEF doSet, Inv, Types
  <2> HIDE DEF i
  <2>2. QED  BY <2>1
<1>6. values' = values
  <2>1. \A k \in Handles : target'[k] = target[k]
    BY <1>2, <1>5, SlotsDiffer
  <2>2. QED  BY <1>5, <2>1, HeapViews DEF ValuesBy
<1>7. \A j \in Items : /\ FirstBy(target', forwarder')[j] = first[j]
                       /\ RestBy(target', forwarder')[j] = IF j = i THEN x ELSE rest[j]
  <2>1. \A j \in Items : /\ target'[First(j)] = target[First(j)]
                         /\ target'[Rest(j)] = IF j = i THEN target[h] ELSE target[Rest(j)]
    BY <1>2, <1>5, SlotsDiffer, SlotsOfItem
  <2> HIDE DEF i, x
  <2>2. QED  BY <1>3, <1>5, <2>1 DEF FirstBy, RestBy
<1> HIDE DEF i, x, first, rest
<1>8. newRest \in Contents /\ \A j \in Items : newRest[j] = IF j = i THEN x ELSE rest[j]
  BY <1>3, <1>4 DEF Heaps, Contents, Pointers
<1> HIDE DEF newRest
<1>9. Heaps(values, first, newRest)
  BY <1>4, <1>8 DEF Heaps
<1>10. Closed(Seen, PartsBy(first, newRest))
  <2>1. \A j \in Seen : (first[j] # NULL => first[j] \in Seen) /\ (rest[j] # NULL => rest[j] \in Seen)
    BY <1>4, PartsClosed
  <2>2. \A j \in Seen : (first[j] # NULL => first[j] \in Seen) /\ (newRest[j] # NULL => newRest[j] \in Seen)
    BY <1>3, <1>4, <1>8, <2>1
  <2>3. QED  BY <1>4, <2>2, PartsClosed
<1>11. \A j \in Seen : /\ FirstBy(target', forwarder')[j] = first[j]
                       /\ RestBy(target', forwarder')[j] = newRest[j]
  BY <1>4, <1>7, <1>8
<1>12. Heap!Become(values, ListsOf(Seen, first, newRest))
  BY <1>4, <1>6, <1>9, <1>10, <1>11, BecomeStep
<1>13. {IF l.item = i THEN Heap!List(i, l.first, x) ELSE l : l \in seen}
         = ListsOf(Seen, first, newRest)
  <2> DEFINE L(j) == [item |-> j, first |-> first[j], rest |-> rest[j]]
             N(j) == [item |-> j, first |-> first[j], rest |-> newRest[j]]
             new(l) == IF l.item = i THEN [item |-> i, first |-> l.first, rest |-> x] ELSE l
  <2>1. ASSUME NEW j \in Seen PROVE new(L(j)) = N(j)
    <3>1. L(j).item = j /\ L(j).first = first[j] /\ newRest[j] = IF j = i THEN x ELSE rest[j]
      BY <1>4, <1>8
    <3>2. QED  BY <3>1
  <2>2. seen = {L(j) : j \in Seen} /\ ListsOf(Seen, first, newRest) = {N(j) : j \in Seen}
    BY <1>4 DEF ListsOf
  <2> HIDE DEF L, N, new
  <2>3. {new(l) : l \in seen} = ListsOf(Seen, first, newRest)
    BY <2>1, <2>2
  <2>4. QED  BY <2>3 DEF new, Heap!List
<1>14. Heap!setRest(values[g], values[h])
  BY <1>2, <1>12, <1>13 DEF Heap!setRest, x
<1>15. values[g] # NULL /\ values[h] # NULL
  BY <1>2, <1>3 DEF x
<1>16. QED  BY <1>14, <1>15 DEF Heap!Next

\* What an end becomes when i is replaced by x.
Replaced(i, x, y) == IF y = i THEN x ELSE y

\* A forwarder from i to x makes x the end of every chain that ended at i.
LEMMA EndReplaced ==
  ASSUME NEW D, NEW fwd, Grounded(D, fwd), NEW new, Grounded(D, new),
         NEW i \in D, fwd[i] = NULL, NEW x \in D, fwd[x] = NULL, x # i,
         new[i] = x, \A d \in D : d # i => new[d] = fwd[d]
  PROVE  \A y \in D : EndBy(new, y) = Replaced(i, x, EndBy(fwd, y))
<1> DEFINE e == [y \in D |-> Replaced(i, x, EndBy(fwd, y))]
<1>1. i # NULL /\ x # NULL
  BY NullIsNoItem DEF Grounded
<1>2. ASSUME NEW y \in D PROVE e[y] = IF new[y] = NULL THEN y ELSE e[new[y]]
  <2>1. EndBy(fwd, y) = IF fwd[y] = NULL THEN y ELSE EndBy(fwd, fwd[y])
    BY EndStep
  <2>2. EndBy(fwd, x) = x
    BY EndStep
  <2>3. CASE y = i
    <3>1. e[y] = x /\ e[x] = x
      BY <2>1, <2>2, <2>3 DEF Replaced
    <3>2. QED  BY <1>1, <2>3, <3>1
  <2>4. CASE y # i
    <3>1. new[y] = fwd[y] /\ (fwd[y] # NULL => fwd[y] \in D)
      BY <2>4 DEF Grounded
    <3>2. QED  BY <2>1, <2>4, <3>1 DEF Replaced
  <2>5. QED  BY <2>3, <2>4
<1>3. \A y \in D : e[y] = Replaced(i, x, EndBy(fwd, y))
  OBVIOUS
<1> HIDE DEF e
<1>4. \A y \in D : EndBy(new, y) = e[y]
  BY <1>2, EndUnique
<1>5. QED  BY <1>3, <1>4

\* The items in use are grounded after a step as well.
LEMMA InvGroundedFact == Inv => Grounded(InUse, forwarder)
BY InvGrounded

\* setForwarder implements the replacement of a list by its value.
LEMMA SetForwarderSeen == Inv /\ Inv' /\ setForwarder => Heap!Next
<1> SUFFICES ASSUME Inv, Inv', setForwarder PROVE Heap!Next
  OBVIOUS
<1>1. PICK g \in Handles, h \in Handles :
        /\ Evaluated(g) /\ Evaluated(h)
        /\ target[g] \notin Reachable({target[h]})
        /\ forwarder' = [forwarder EXCEPT ![target[g]] = target[h]]
  BY DEF setForwarder
<1> DEFINE i == target[g]
           x == target[h]
           new(y) == Replaced(i, x, y)
           first == FirstBy(target, forwarder)
           rest == RestBy(target, forwarder)
           v == [k \in Handles |-> new(values[k])]
           newFirst == [j \in Items |-> new(first[j])]
           newRest == [j \in Items |-> new(rest[j])]
<1>2. values[g] = i /\ i \in Seen /\ i \in InUse /\ i \in Items /\ i # NULL
  BY <1>1, EvaluatedSeen
<1>3. values[h] = x /\ x \in Seen /\ x \in InUse /\ x \in Items /\ x # NULL
  BY <1>1, EvaluatedSeen
<1>4. /\ Heaps(values, first, rest) /\ Seen \in SUBSET Items /\ Roots(values) \subseteq Seen
      /\ Closed(Seen, PartsBy(first, rest)) /\ seen = ListsOf(Seen, first, rest)
  BY SeenInUse, SeenLists
<1>5. x # i
  <2>1. Referred \in Graphs /\ {x} \in SUBSET Items /\ {x} \ {NULL} = {x}
    BY <1>3, PoolTypes DEF Inv
  <2> HIDE DEF x
  <2>2. x \in Closure({x}, Referred)
    BY <2>1, ClosureLeast
  <2>3. x \in Reachable({x})
    BY <2>1, <2>2 DEF Reachable
  <2>4. QED  BY <1>1, <2>3 DEF x
<1>6. /\ target' = target /\ size' = size /\ available' = available
      /\ forwarder' = [forwarder EXCEPT ![i] = x]
  BY <1>1 DEF setForwarder
<1>7. forwarder[i] = NULL /\ forwarder[x] = NULL /\ forwarder \in [Items -> Pointers]
  BY <1>2, <1>3, SeenInUse DEF Inv, Types
<1> HIDE DEF i, x
<1>8. Grounded(InUse, forwarder) /\ Grounded(InUse, forwarder')
  <2>1. Inv' => (Grounded(InUse, forwarder))'
    BY InvGroundedFact, PTL
  <2>2. forwarder' \in Forwarders /\ \A j \in Items : j # i => forwarder'[j] = forwarder[j]
    BY <1>3, <1>6, <1>7 DEF Forwarders, Pointers
  <2>3. InUse' = InUse
    BY <1>2, <1>6, <2>2, SameInUse
  <2>4. QED  BY <2>1, <2>3, InvGrounded
<1>9. \A y \in InUse : EndBy(forwarder', y) = new(EndBy(forwarder, y))
  <2>1. forwarder'[i] = x /\ \A d \in InUse : d # i => forwarder'[d] = forwarder[d]
    BY <1>2, <1>6, <1>7, PoolTypes DEF Inv
  <2>2. QED  BY <1>2, <1>3, <1>5, <1>7, <1>8, <2>1, EndReplaced
<1>10. new(NULL) = NULL
  BY <1>2 DEF Replaced
<1>11. ASSUME NEW s \in Slots PROVE EndBy(forwarder', target'[s]) = new(EndBy(forwarder, target[s]))
  <2>1. CASE target[s] = NULL
    BY <1>6, <1>10, <2>1 DEF EndBy
  <2>2. CASE target[s] # NULL
    <3>1. target[s] \in InUse
      BY <2>2, TargetInUse
    <3>2. QED  BY <1>6, <1>9, <3>1
  <2>3. QED  BY <2>1, <2>2
<1>12. values' = v
  <2>1. \A k \in Handles : values[k] = EndBy(forwarder, target[k])
    BY HeapViews DEF ValuesBy
  <2>2. values' = [k \in Handles |-> EndBy(forwarder', target'[k])]
    BY HeapViews DEF ValuesBy
  <2>3. QED  BY <1>11, <2>1, <2>2, SlotsDiffer
<1>13. \A j \in Seen : /\ FirstBy(target', forwarder')[j] = newFirst[j]
                       /\ RestBy(target', forwarder')[j] = newRest[j]
  BY <1>4, <1>11, SlotsOfItem DEF FirstBy, RestBy
<1> HIDE DEF first, rest
<1>14. /\ \A k \in Handles : v[k] = new(values[k])
       /\ \A j \in Items : newFirst[j] = new(first[j]) /\ newRest[j] = new(rest[j])
  OBVIOUS
<1>15. Heaps(v, newFirst, newRest)
  <2>1. \A y \in Pointers : new(y) \in Pointers
    BY <1>3 DEF Replaced, Pointers
  <2> HIDE DEF new
  <2>2. QED  BY <1>4, <2>1 DEF Heaps, Contents
<1>16. \A y \in Seen \cup {NULL} : new(y) \in Seen \cup {NULL}
  BY <1>3 DEF Replaced
<1> HIDE DEF v, newFirst, newRest, new
<1>17. Roots(v) \subseteq Seen
  BY <1>4, <1>10, <1>14, <1>16 DEF Roots
<1>18. Closed(Seen, PartsBy(newFirst, newRest))
  <2>1. \A j \in Seen : (first[j] # NULL => first[j] \in Seen) /\ (rest[j] # NULL => rest[j] \in Seen)
    BY <1>4, PartsClosed
  <2>2. \A j \in Seen : /\ newFirst[j] # NULL => newFirst[j] \in Seen
                        /\ newRest[j] # NULL => newRest[j] \in Seen
    BY <1>4, <1>14, <1>16, <2>1
  <2>3. QED  BY <1>4, <2>2, PartsClosed
<1>19. Heap!Become(v, ListsOf(Seen, newFirst, newRest))
  BY <1>4, <1>12, <1>13, <1>15, <1>17, <1>18, BecomeStep
<1>20. {Heap!List(l.item, new(l.first), new(l.rest)) : l \in seen} = ListsOf(Seen, newFirst, newRest)
  <2> DEFINE L(j) == [item |-> j, first |-> first[j], rest |-> rest[j]]
             N(j) == [item |-> j, first |-> newFirst[j], rest |-> newRest[j]]
             M(l) == [item |-> l.item, first |-> new(l.first), rest |-> new(l.rest)]
  <2>1. ASSUME NEW j \in Seen PROVE M(L(j)) = N(j)
    <3>1. L(j).item = j /\ L(j).first = first[j] /\ L(j).rest = rest[j]
      OBVIOUS
    <3>2. newFirst[j] = new(first[j]) /\ newRest[j] = new(rest[j])
      BY <1>4, <1>14
    <3>3. QED  BY <3>1, <3>2
  <2>2. seen = {L(j) : j \in Seen} /\ ListsOf(Seen, newFirst, newRest) = {N(j) : j \in Seen}
    BY <1>4 DEF ListsOf
  <2> HIDE DEF L, N, M
  <2>3. {M(l) : l \in seen} = ListsOf(Seen, newFirst, newRest)
    BY <2>1, <2>2
  <2>4. QED  BY <2>3 DEF M, Heap!List
<1>21. Heap!Replace(values[g], values[h])
  BY <1>2, <1>3, <1>19, <1>20 DEF Heap!Replace, v, new, Replaced
<1>22. values[g] # NULL /\ values[h] # NULL
  BY <1>2, <1>3
<1>23. QED  BY <1>21, <1>22 DEF Heap!Next

\* Where the slots lead to when a new item i with the parts a and b is in h.
LEMMA AllocatedEnds ==
  ASSUME Inv, Inv', NEW h \in Handles, NEW i \in Items,
         NEW a \in InUse \cup {NULL}, NEW b \in InUse \cup {NULL}, Allocated(h, i, a, b)
  PROVE  /\ i \notin InUse
         /\ \A k \in Handles :
              EndBy(forwarder', target'[k]) = IF k = h THEN i ELSE EndBy(forwarder, target[k])
         /\ \A j \in Items :
              /\ EndBy(forwarder', target'[First(j)])
                   = EndBy(forwarder, IF j = i THEN a ELSE target[First(j)])
              /\ EndBy(forwarder', target'[Rest(j)])
                   = EndBy(forwarder, IF j = i THEN b ELSE target[Rest(j)])
<1>1. i \notin InUse
  BY FreshTaken DEF Allocated
<1>2. /\ forwarder' = [forwarder EXCEPT ![i] = NULL] /\ forwarder \in [Items -> Pointers]
      /\ target' = [target EXCEPT ![First(i)] = a, ![Rest(i)] = b, ![h] = i]
      /\ target \in [Slots -> Pointers]
  BY DEF Allocated, Inv, Types
<1>3. /\ forwarder' \in Forwarders /\ forwarder'[i] = NULL
      /\ \A j \in InUse : forwarder'[j] = forwarder[j]
  BY <1>1, <1>2, PoolTypes DEF Inv, Forwarders, Pointers
<1>4. \A x \in InUse \cup {NULL} : EndBy(forwarder', x) = EndBy(forwarder, x)
  <2>1. Grounded(InUse, forwarder)
    BY InvGrounded
  <2>2. \A x \in InUse : EndBy(forwarder', x) = EndBy(forwarder, x)
    BY <1>3, <2>1, EndFrame
  <2>3. QED  BY <2>2 DEF EndBy
<1>5. EndBy(forwarder', i) = i
  <2>1. Grounded({i}, forwarder')
    BY <1>3, NullIsNoItem DEF Grounded
  <2>2. QED  BY <1>3, <2>1, EndStep
<1>6. /\ \A k \in Handles : target'[k] = IF k = h THEN i ELSE target[k]
      /\ \A j \in Items : /\ target'[First(j)] = IF j = i THEN a ELSE target[First(j)]
                          /\ target'[Rest(j)] = IF j = i THEN b ELSE target[Rest(j)]
  BY <1>2, SlotsDiffer, SlotsOfItem
<1>7. \A s \in Slots : target[s] \in InUse \cup {NULL}
  BY TargetInUse
<1>8. ASSUME NEW k \in Handles
      PROVE  EndBy(forwarder', target'[k]) = IF k = h THEN i ELSE EndBy(forwarder, target[k])
  <2>1. target[k] \in InUse \cup {NULL}
    BY <1>7, SlotsDiffer
  <2>2. target'[k] = IF k = h THEN i ELSE target[k]
    BY <1>6
  <2>3. QED  BY <1>4, <1>5, <2>1, <2>2
<1>9. ASSUME NEW j \in Items
      PROVE  /\ EndBy(forwarder', target'[First(j)])
                  = EndBy(forwarder, IF j = i THEN a ELSE target[First(j)])
             /\ EndBy(forwarder', target'[Rest(j)])
                  = EndBy(forwarder, IF j = i THEN b ELSE target[Rest(j)])
  <2>1. target[First(j)] \in InUse \cup {NULL} /\ target[Rest(j)] \in InUse \cup {NULL}
    BY <1>7, SlotsOfItem
  <2>2. /\ target'[First(j)] = IF j = i THEN a ELSE target[First(j)]
        /\ target'[Rest(j)] = IF j = i THEN b ELSE target[Rest(j)]
    BY <1>6
  <2>3. QED  BY <1>4, <2>1, <2>2
<1>10. QED  BY <1>1, <1>8, <1>9

\* A new item with parts that are seen is a new list of the heap.
LEMMA MakeSeen ==
  ASSUME Inv, Inv', NEW h \in Handles, NEW i \in Items,
         NEW a \in InUse \cup {NULL}, NEW b \in InUse \cup {NULL}, Allocated(h, i, a, b),
         NEW ea \in Seen \cup {NULL}, ea = EndBy(forwarder, a),
         NEW eb \in Seen \cup {NULL}, eb = EndBy(forwarder, b)
  PROVE  Heap!Make(h, ea, eb)
<1> DEFINE first == FirstBy(target, forwarder)
           rest == RestBy(target, forwarder)
           v == [values EXCEPT ![h] = i]
           newFirst == [first EXCEPT ![i] = ea]
           newRest == [rest EXCEPT ![i] = eb]
           D == Seen \cup {i}
<1>1. /\ Heaps(values, first, rest) /\ Seen \in SUBSET Items /\ Roots(values) \subseteq Seen
      /\ Closed(Seen, PartsBy(first, rest)) /\ seen = ListsOf(Seen, first, rest)
      /\ Seen \subseteq InUse
  BY SeenInUse, SeenLists
<1>2. /\ i \notin InUse
      /\ \A k \in Handles :
           EndBy(forwarder', target'[k]) = IF k = h THEN i ELSE EndBy(forwarder, target[k])
      /\ \A j \in Items :
           /\ EndBy(forwarder', target'[First(j)])
                = EndBy(forwarder, IF j = i THEN a ELSE target[First(j)])
           /\ EndBy(forwarder', target'[Rest(j)])
                = EndBy(forwarder, IF j = i THEN b ELSE target[Rest(j)])
  BY AllocatedEnds
<1>3. values' = v
  <2>1. values' = [k \in Handles |-> EndBy(forwarder', target'[k])]
    BY HeapViews DEF ValuesBy
  <2>2. values = [k \in Handles |-> EndBy(forwarder, target[k])]
    BY HeapViews DEF ValuesBy
  <2>3. values' = [k \in Handles |-> IF k = h THEN i ELSE values[k]]
    BY <1>2, <2>1, <2>2
  <2>4. QED  BY <2>2, <2>3
<1>4. \A j \in Items : /\ FirstBy(target', forwarder')[j] = IF j = i THEN ea ELSE first[j]
                       /\ RestBy(target', forwarder')[j] = IF j = i THEN eb ELSE rest[j]
  BY <1>2 DEF FirstBy, RestBy
<1> HIDE DEF first, rest
<1>5. \A j \in Items : /\ newFirst[j] = IF j = i THEN ea ELSE first[j]
                       /\ newRest[j] = IF j = i THEN eb ELSE rest[j]
  BY <1>1 DEF Heaps, Contents
<1>6. Heaps(v, newFirst, newRest)
  <2>1. ea \in Pointers /\ eb \in Pointers /\ i \in Pointers
    BY <1>1 DEF Pointers
  <2>2. QED  BY <1>1, <2>1 DEF Heaps, Contents
<1>7. Roots(v) \subseteq D
  <2>1. \A k \in Handles : v[k] = IF k = h THEN i ELSE values[k]
    BY <1>1 DEF Heaps
  <2> HIDE DEF v
  <2>2. QED  BY <1>1, <2>1 DEF Roots
<1>8. \A j \in D : /\ FirstBy(target', forwarder')[j] = newFirst[j]
                   /\ RestBy(target', forwarder')[j] = newRest[j]
  BY <1>1, <1>4, <1>5
<1> HIDE DEF v, newFirst, newRest
<1>9. D \in SUBSET Items /\ i \notin Seen
  BY <1>1, <1>2
<1>10. Closed(D, PartsBy(newFirst, newRest))
  <2>1. \A j \in Seen : (first[j] # NULL => first[j] \in Seen) /\ (rest[j] # NULL => rest[j] \in Seen)
    BY <1>1, PartsClosed
  <2>2. \A j \in D : /\ newFirst[j] # NULL => newFirst[j] \in D
                     /\ newRest[j] # NULL => newRest[j] \in D
    BY <1>1, <1>5, <2>1
  <2>3. QED  BY <1>9, <2>2, PartsClosed
<1>11. Heap!Become(v, ListsOf(D, newFirst, newRest))
  <2> HIDE DEF D
  <2>1. QED  BY <1>3, <1>6, <1>7, <1>8, <1>9, <1>10, BecomeStep
<1>12. ListsOf(D, newFirst, newRest) = seen \cup {Heap!List(i, ea, eb)}
  <2> DEFINE N(j) == [item |-> j, first |-> newFirst[j], rest |-> newRest[j]]
             L(j) == [item |-> j, first |-> first[j], rest |-> rest[j]]
  <2>1. ListsOf(D, newFirst, newRest) = {N(j) : j \in D} /\ seen = {L(j) : j \in Seen}
    BY <1>1 DEF ListsOf
  <2>2. \A j \in Seen : N(j) = L(j)
    BY <1>1, <1>5, <1>9
  <2>3. N(i) = Heap!List(i, ea, eb)
    BY <1>5 DEF Heap!List
  <2> HIDE DEF N, L
  <2>4. QED  BY <2>1, <2>2, <2>3
<1>13. i \notin {l.item : l \in seen}
  BY <1>1, <1>9 DEF ListsOf
<1>14. QED  BY <1>11, <1>12, <1>13 DEF Heap!Make, v

\* Allocate implements Make.
LEMMA AllocateSeen == Inv /\ Inv' /\ Allocate => Heap!Next
<1> SUFFICES ASSUME Inv, Inv', Allocate PROVE Heap!Next
  OBVIOUS
<1>1. PICK h \in Handles :
        \/ makeAtom(h)
        \/ \E f, r \in Handles : target[f] # NULL /\ target[r] # NULL /\ cons(h, f, r)
  BY DEF Allocate
<1>2. CASE makeAtom(h)
  <2>1. Fresh \in Items /\ Allocated(h, Fresh, NULL, NULL)
    BY <1>2, AtomAllocated
  <2>2. NULL = EndBy(forwarder, NULL)
    BY DEF EndBy
  <2>3. Heap!Make(h, NULL, NULL)
    BY <2>1, <2>2, MakeSeen
  <2>4. QED  BY <2>3 DEF Heap!Next
<1>3. ASSUME NEW f \in Handles, NEW r \in Handles,
             target[f] # NULL, target[r] # NULL, cons(h, f, r)
      PROVE  Heap!Next
  <2>1. Fresh \in Items /\ Allocated(h, Fresh, target[f], target[r])
    BY <1>3, ConsAllocated
  <2>2. target[f] \in InUse /\ target[r] \in InUse
    BY <1>3, TargetInUse, SlotsDiffer
  <2>3. /\ values[f] = EndBy(forwarder, target[f]) /\ values[f] \in Seen /\ values[f] # NULL
        /\ values[r] = EndBy(forwarder, target[r]) /\ values[r] \in Seen /\ values[r] # NULL
    BY <1>3, ValueSeen
  <2>4. Heap!Make(h, values[f], values[r])
    BY <2>1, <2>2, <2>3, MakeSeen
  <2>5. QED  BY <2>3, <2>4 DEF Heap!Next
<1>4. QED  BY <1>1, <1>2, <1>3

-----------------------------------------------------------------------------
(* The pool implements the heap *)

\* At first the interpreter sees nothing.
LEMMA InitSeen == Init => Heap!Init
<1> SUFFICES ASSUME Init PROVE Heap!Init
  OBVIOUS
<1>1. target = [s \in Slots |-> NULL] /\ Inv
  BY InvInit DEF Init
<1>2. values = [h \in Handles |-> NULL]
  BY <1>1, SlotsDiffer DEF values, End
<1>3. Roots(values) = {}
  BY <1>2 DEF Roots
<1>4. Seen = {}
  <2> DEFINE first == FirstBy(target, forwarder)
             rest == RestBy(target, forwarder)
  <2>1. Heaps(values, first, rest) /\ Seen = SeenFrom(values, first, rest)
    BY <1>1, SeenInUse, HeapViews
  <2> HIDE DEF first, rest
  <2>2. {} \in SUBSET Items /\ Closed({}, PartsBy(first, rest)) /\ Roots(values) \subseteq {}
    BY <1>3 DEF Closed
  <2>3. Seen \subseteq {}
    BY <2>1, <2>2, SeenLeast
  <2>4. QED  BY <2>3
<1>5. seen = {}
  BY <1>4 DEF seen
<1>6. QED  BY <1>2, <1>5 DEF Heap!Init

\* Every step is one of the heap, or nothing happens there.
LEMMA NextSeen == Inv /\ Inv' /\ [Next]_vars => [Heap!Next]_<<values, seen>>
<1> SUFFICES ASSUME Inv, Inv', [Next]_vars PROVE Heap!Next \/ UNCHANGED <<values, seen>>
  OBVIOUS
<1>1. CASE Dereference
  BY <1>1, DereferenceUnseen
<1>2. CASE Allocate
  BY <1>2, AllocateSeen
<1>3. CASE Assign
  BY <1>3, AssignSeen
<1>4. CASE Clear
  BY <1>4, ClearSeen
<1>5. CASE setRest
  BY <1>5, SetRestSeen
<1>6. CASE setForwarder
  BY <1>6, SetForwarderSeen
<1>7. CASE Removal
  BY <1>7, RemovalUnseen
<1>8. CASE UNCHANGED vars
  BY <1>8, SameEnds DEF vars
<1>9. QED  BY <1>1, <1>2, <1>3, <1>4, <1>5, <1>6, <1>7, <1>8 DEF Next

\* What the interpreter sees of its items, with their counts, their reuse and
\* the forwarders between them, is a heap of lists in which nothing is freed.
THEOREM PoolImplementsHeap == Spec => ImplementsHeap
<1>1. Init => Heap!Init
  BY InitSeen
<1>2. Inv /\ Inv' /\ [Next]_vars => [Heap!Next]_<<values, seen>>
  BY NextSeen
<1>3. Spec => []Inv
  BY InvAlways
<1>4. QED  BY <1>1, <1>2, <1>3, PTL DEF Spec, ImplementsHeap, Heap!Spec
=============================================================================
