-------------------------- MODULE LogOutputProofs --------------------------
(***************************************************************************)
(* What a logger's call does at the leaves of its tree, for trees of every *)
(* shape, any filters, levels and exceptions, and any number of calls; and *)
(* that the writers and files behind it keep in LogOutput what is proved   *)
(* of each in LogWritersProofs and RollingFileProofs.                      *)
(***************************************************************************)
EXTENDS LogOutput, FiniteSetTheorems, SequenceTheorems, WellFoundedInduction, TLAPS

Doings == {"dispatch", "flush", "close"}

Item == [do : Doings, on : Nodes]

\* A call does only what it is about.
Busy ==
    /\ call = "none" => work = <<>>
    /\ call = "close" => \A i \in 1..Len(work) : work[i].do # "dispatch"
    /\ call \in {"dispatch", "flush"} => \A i \in 1..Len(work) : work[i].do = call

\* The nodes to visit have nothing below them in common,
Apart(items) ==
    \A i, j \in 1..Len(items) : i # j => Under(items[i].on) \cap Under(items[j].on) = {}

\* and were come to through filters that allow the message.
Passed(items) ==
    \A i \in 1..Len(items), d \in Dispatchers :
      items[i].on \in Under(d) /\ items[i].on # d => level \in AllowList[d]

Waits(w, items) == \E i \in 1..Len(items) : w \in Under(items[i].on)

Had == failed \cup {w \in Writers : got[w] = 1}

Dispatching ==
    call = "dispatch" =>
      /\ Apart(work) /\ Passed(work)
      /\ \A w \in Had : Reaches(w) /\ ~Waits(w, work)
      /\ ~panicked => \A w \in Writers : Reaches(w) => w \in Had \/ Waits(w, work)

Flushing == call = "flush" /\ ~panicked => \A w \in held : w \in failed \/ Waits(w, work)

\* The flush of a writer comes immediately before its close,
Paired(items) ==
    \A i \in 2..Len(items) :
      items[i].do = "close" /\ items[i].on \in Writers =>
        items[i - 1] = [do |-> "flush", on |-> items[i].on]

\* which finds it empty, or with what could not be written.
Emptied == Closing /\ doing.on \in held => doing.on \in failed

Types ==
    /\ call \in {"none", "dispatch", "flush", "close"}
    /\ level \in Levels /\ context \in Contexts \cup {NoContext}
    /\ work \in Seq(Item)
    /\ got \in [Writers -> 0..1] /\ held \subseteq Buffered /\ broken \subseteq Buffered
    /\ failed \subseteq Writers /\ closed \subseteq Writers
    /\ calls \in 0..MaxCalls

Unused == dropped => level \in unusedLevels

Inv ==
    /\ Types /\ Busy /\ Dispatching /\ Flushing
    /\ Paired(work) /\ Emptied /\ Unused
-----------------------------------------------------------------------------
\* Every node is under itself, and what is under a node holds its receivers.
LEMMA UnderIs ==
    ASSUME DispatchAssumption, NEW x \in Nodes
    PROVE  x \in Under(x) /\ Under(x) \in SUBSET Nodes /\ ReceiversIn(Under(x))
<1>1. x \in Under(x) /\ Under(x) \in SUBSET Nodes
  BY DEF Under
<1>2. ASSUME NEW d \in Under(x), d \in Dispatchers PROVE Range(Receivers[d]) \subseteq Under(x)
  <2>1. Range(Receivers[d]) \subseteq Nodes
    <3>1. Receivers[d] \in Seq(Nodes)
      BY <1>2 DEF DispatchAssumption
    <3> QED  BY <3>1 DEF Range
  <2>2. ASSUME NEW S \in SUBSET Nodes, x \in S /\ ReceiversIn(S)
        PROVE  Range(Receivers[d]) \subseteq S
    BY <1>2, <2>2 DEF Under, ReceiversIn
  <2> QED  BY <2>1, <2>2 DEF Under
<1> QED  BY <1>1, <1>2 DEF ReceiversIn

\* It is the least such set.
LEMMA UnderLeast ==
    ASSUME NEW x, NEW S \in SUBSET Nodes, x \in S, ReceiversIn(S)
    PROVE  Under(x) \subseteq S
BY DEF Under

\* What is under a node that is under x is under x.
LEMMA UnderUnder ==
    ASSUME DispatchAssumption, NEW x \in Nodes, NEW y \in Under(x)
    PROVE  y \in Nodes /\ Under(y) \subseteq Under(x)
BY UnderIs, UnderLeast

\* Nothing is under a writer but itself.
LEMMA UnderWriter ==
    ASSUME DispatchAssumption, NEW w \in Writers
    PROVE  Under(w) = {w}
<1>1. {w} \cap Dispatchers = {} /\ {w} \in SUBSET Nodes /\ w \in Nodes
  BY DEF DispatchAssumption, Nodes
<1>2. ReceiversIn({w})
  BY <1>1 DEF ReceiversIn
<1> QED  BY <1>1, <1>2, UnderLeast, UnderIs

\* The receivers of a dispatcher are under it.
LEMMA ReceiverUnder ==
    ASSUME DispatchAssumption, NEW d \in Dispatchers, NEW i \in DOMAIN Receivers[d]
    PROVE  d \in Nodes /\ Receivers[d][i] \in Nodes /\ Receivers[d][i] \in Under(d)
<1>1. d \in Nodes
  BY DEF Nodes
<1>2. Receivers[d][i] \in Range(Receivers[d])
  BY DEF Range
<1> QED  BY <1>1, <1>2, UnderIs DEF ReceiversIn

\* What is under a dispatcher is the dispatcher or is under one of its receivers.
LEMMA UnderReceiver ==
    ASSUME DispatchAssumption, NEW d \in Dispatchers, NEW y \in Under(d), y # d
    PROVE  \E i \in DOMAIN Receivers[d] : y \in Under(Receivers[d][i])
<1> DEFINE S == {d} \cup {z \in Nodes : \E i \in DOMAIN Receivers[d] : z \in Under(Receivers[d][i])}
<1>1. S \in SUBSET Nodes /\ d \in S
  BY DEF Nodes
<1>2. ASSUME NEW e \in S, e \in Dispatchers, NEW j \in DOMAIN Receivers[e]
      PROVE  Receivers[e][j] \in S
  <2>1. CASE e = d
    BY <1>2, <2>1, ReceiverUnder, UnderIs
  <2>2. CASE e # d
    <3>1. PICK i \in DOMAIN Receivers[d] : e \in Under(Receivers[d][i])
      BY <2>2
    <3>2. Receivers[d][i] \in Nodes /\ Receivers[e][j] \in Nodes /\ Receivers[e][j] \in Under(e)
      BY <1>2, ReceiverUnder
    <3>3. Receivers[e][j] \in Under(Receivers[d][i])
      BY <3>1, <3>2, UnderUnder
    <3> QED  BY <3>2, <3>3
  <2> QED  BY <2>1, <2>2
<1>3. ReceiversIn(S)
  <2> HIDE DEF S
  <2> QED  BY <1>2 DEF ReceiversIn, Range
<1>4. Under(d) \subseteq S
  <2> HIDE DEF S
  <2> QED  BY <1>1, <1>3, UnderLeast
<1> QED  BY <1>4

\* A dispatcher between a node and one below it is under the former.
LEMMA Between ==
    ASSUME DispatchAssumption, NEW x \in Nodes, NEW d \in Dispatchers,
           NEW i \in DOMAIN Receivers[d], Receivers[d][i] \in Under(x), Receivers[d][i] # x
    PROVE  d \in Under(x)
<1> DEFINE S == Under(x) \ {Receivers[d][i]}
<1> SUFFICES ASSUME d \notin Under(x) PROVE FALSE
  OBVIOUS
<1>1. S \in SUBSET Nodes /\ x \in S
  BY UnderIs
<1>2. ASSUME NEW e \in S, e \in Dispatchers, NEW j \in DOMAIN Receivers[e]
      PROVE  Receivers[e][j] \in S
  <2>1. Receivers[e][j] \in Under(x)
    BY <1>2, UnderIs DEF ReceiversIn, Range
  <2>2. Receivers[e][j] # Receivers[d][i]
    BY <1>2 DEF DispatchAssumption, IsTree
  <2> QED  BY <2>1, <2>2
<1>3. ReceiversIn(S)
  <2> HIDE DEF S
  <2> QED  BY <1>2 DEF ReceiversIn, Range
<1>4. Under(x) \subseteq S
  <2> HIDE DEF S
  <2> QED  BY <1>1, <1>3, UnderLeast
<1> QED  BY <1>4

\* The root is under no other node.
LEMMA RootIsTop ==
    ASSUME DispatchAssumption, NEW x \in Nodes, Root \in Under(x)
    PROVE  x = Root
<1> SUFFICES ASSUME x # Root PROVE FALSE
  OBVIOUS
<1> DEFINE S == Under(x) \ {Root}
<1>1. S \in SUBSET Nodes /\ x \in S
  BY UnderIs
<1>2. ReceiversIn(S)
  BY UnderIs DEF ReceiversIn, DispatchAssumption, IsTree
<1> QED  BY <1>1, <1>2, UnderLeast

\* No dispatcher is under one of its receivers.
LEMMA NoCycle ==
    ASSUME DispatchAssumption, NEW d \in Dispatchers, NEW i \in DOMAIN Receivers[d]
    PROVE  d \notin Under(Receivers[d][i])
<1> DEFINE c == Receivers[d][i]
           S == Nodes \ Under(c)
<1> SUFFICES ASSUME d \in Under(c) PROVE FALSE
  OBVIOUS
<1>1. c \in Nodes /\ c \in Under(c)
  BY ReceiverUnder, UnderIs
<1>2. S \in SUBSET Nodes /\ Root \in S
  <2>1. c # Root
    BY DEF DispatchAssumption, IsTree, Range
  <2> QED  BY <1>1, <2>1, RootIsTop DEF DispatchAssumption, Nodes
<1>3. ASSUME NEW e \in S, e \in Dispatchers, NEW j \in DOMAIN Receivers[e]
      PROVE  Receivers[e][j] \in S
  <2> SUFFICES ASSUME Receivers[e][j] \in Under(c) PROVE FALSE
    BY <1>3, ReceiverUnder
  <2>1. CASE Receivers[e][j] = c
    BY <1>3, <2>1 DEF DispatchAssumption, IsTree
  <2>2. CASE Receivers[e][j] # c
    BY <1>1, <1>3, <2>2, Between
  <2> QED  BY <2>1, <2>2
<1>4. ReceiversIn(S)
  <2> HIDE DEF S
  <2> QED  BY <1>3 DEF ReceiversIn, Range
<1>5. Under(Root) \subseteq S
  <2> HIDE DEF S
  <2> QED  BY <1>2, <1>4, UnderLeast
<1> QED  BY <1>1, <1>5 DEF DispatchAssumption, IsTree

\* Of two nodes with something below both, one is under the other.
LEMMA OneLine ==
    ASSUME DispatchAssumption, NEW x \in Nodes, NEW y \in Nodes,
           NEW w \in Under(x), w \in Under(y)
    PROVE  x \in Under(y) \/ y \in Under(x)
<1> DEFINE Q == x \in Under(y) \/ y \in Under(x)
           S == {z \in Under(x) : z \in Under(y) => Q}
<1>1. S \in SUBSET Nodes /\ x \in S
  BY UnderIs
<1>2. ASSUME NEW e \in S, e \in Dispatchers, NEW j \in DOMAIN Receivers[e]
      PROVE  Receivers[e][j] \in S
  <2>1. Receivers[e][j] \in Under(x)
    BY <1>2, UnderIs DEF ReceiversIn, Range
  <2>2. ASSUME Receivers[e][j] \in Under(y), Receivers[e][j] # y PROVE Q
    BY <1>2, <2>2, Between
  <2> QED  BY <2>1, <2>2
<1>3. ReceiversIn(S)
  <2> HIDE DEF S
  <2> QED  BY <1>2 DEF ReceiversIn, Range
<1>4. Under(x) \subseteq S
  <2> HIDE DEF S
  <2> QED  BY <1>1, <1>3, UnderLeast
<1> QED  BY <1>4

\* Two receivers of a dispatcher have nothing below them in common.
LEMMA Siblings ==
    ASSUME DispatchAssumption, NEW d \in Dispatchers, NEW i \in DOMAIN Receivers[d],
           NEW j \in DOMAIN Receivers[d], i # j
    PROVE  Under(Receivers[d][i]) \cap Under(Receivers[d][j]) = {}
<1> SUFFICES ASSUME NEW w \in Under(Receivers[d][i]), w \in Under(Receivers[d][j]) PROVE FALSE
  OBVIOUS
<1>1. Receivers[d][i] \in Nodes /\ Receivers[d][j] \in Nodes /\ Receivers[d][i] # Receivers[d][j]
  BY ReceiverUnder DEF DispatchAssumption, IsTree
<1>2. Receivers[d][i] \in Under(Receivers[d][j]) \/ Receivers[d][j] \in Under(Receivers[d][i])
  BY <1>1, OneLine
<1>3. d \in Under(Receivers[d][j]) \/ d \in Under(Receivers[d][i])
  BY <1>1, <1>2, Between
<1> QED  BY <1>3, NoCycle

\* The numbers of a finite set have ranks from nothing to one less than there are numbers,
\* each one rank.
LEMMA Ranks ==
    ASSUME NEW T \in SUBSET Nat, IsFiniteSet(T)
    PROVE  /\ Cardinality(T) \in Nat
           /\ \A f \in T : Cardinality({g \in T : g < f}) \in 0..(Cardinality(T) - 1)
           /\ \A f, g \in T : Cardinality({h \in T : h < f}) = Cardinality({h \in T : h < g}) => f = g
           /\ \A i \in 1..Cardinality(T) : \E f \in T : Cardinality({g \in T : g < f}) = i - 1
<1> DEFINE p == Cardinality(T)
           Less(f) == {g \in T : g < f}
           Rank(f) == Cardinality(Less(f))
           R == [f \in T |-> Rank(f)]
<1>1. p \in Nat /\ p = Cardinality(T)
  BY FS_CardinalityType
<1>0. \A f \in T : f \in Nat
  OBVIOUS
<1> HIDE DEF p
<1>2. \A f \in T : IsFiniteSet(Less(f)) /\ Rank(f) \in 0..(p - 1)
  <2> SUFFICES ASSUME NEW f \in T PROVE IsFiniteSet(Less(f)) /\ Rank(f) \in 0..(p - 1)
    OBVIOUS
  <2>1. IsFiniteSet(T \ {f}) /\ Cardinality(T \ {f}) = p - 1
    BY <1>1, FS_RemoveElement
  <2>2. Less(f) \in SUBSET (T \ {f})
    OBVIOUS
  <2>3. IsFiniteSet(Less(f)) /\ Rank(f) <= p - 1
    BY <2>1, <2>2, FS_Subset
  <2>4. Rank(f) \in Nat
    BY <2>3, FS_CardinalityType
  <2> QED  BY <1>1, <2>3, <2>4
<1>3. \A f, g \in T : f < g => Rank(f) < Rank(g)
  <2> SUFFICES ASSUME NEW f \in T, NEW g \in T, f < g PROVE Rank(f) < Rank(g)
    OBVIOUS
  <2>1. f \notin Less(f)
    OBVIOUS
  <2>2. IsFiniteSet(Less(f) \cup {f}) /\ Cardinality(Less(f) \cup {f}) = Rank(f) + 1
    BY <1>2, <2>1, FS_AddElement
  <2>3. Less(f) \cup {f} \subseteq Less(g)
    <3>1. \A x \in T : x < f => x < g
      BY <1>0
    <3> QED  BY <3>1
  <2>4. Rank(f) + 1 <= Rank(g)
    BY <1>2, <2>2, <2>3, FS_Subset
  <2> QED  BY <1>2, <2>4
<1>4. \A f, g \in T : Rank(f) = Rank(g) => f = g
  <2> SUFFICES ASSUME NEW f \in T, NEW g \in T, f # g PROVE Rank(f) # Rank(g)
    OBVIOUS
  <2>1. f < g \/ g < f
    BY <1>0
  <2>2. Rank(f) \in 0..(p - 1) /\ Rank(g) \in 0..(p - 1) /\ (Rank(f) < Rank(g) \/ Rank(g) < Rank(f))
    BY <1>2, <1>3, <2>1
  <2> HIDE DEF Rank
  <2> QED  BY <2>2, <1>1
<1>5. R \in Injection(T, 0..(p - 1))
  BY <1>2, <1>4 DEF Injection, IsInjective
<1>6. IsFiniteSet(0..(p - 1)) /\ Cardinality(0..(p - 1)) = p
  <2>1. 0 \in Int /\ p - 1 \in Int /\ (0 > p - 1 => p = 0)
    BY <1>1
  <2>2. (p - 1) - 0 + 1 = p
    BY <1>1
  <2> QED  BY <2>1, <2>2, FS_Interval
<1>61. R \in Injection(T, 0..(p - 1)) /\ Cardinality(T) = Cardinality(0..(p - 1))
  BY <1>1, <1>5, <1>6
<1> HIDE DEF R
<1>7. R \in Surjection(T, 0..(p - 1))
  BY <1>6, <1>61, FS_Injection
<1>8. \A i \in 1..p : \E f \in T : Rank(f) = i - 1
  <2> SUFFICES ASSUME NEW i \in 1..p PROVE \E f \in T : Rank(f) = i - 1
    OBVIOUS
  <2>1. i - 1 \in 0..(p - 1)
    BY <1>1
  <2>2. \E f \in T : R[f] = i - 1
    BY <1>7, <2>1 DEF Surjection
  <2> QED  BY <2>2 DEF R
<1> QED  BY <1>1, <1>2, <1>4, <1>8 DEF p

\* createDispatcher's lists have each receiver of the kind once and nothing else.
LEMMA ThoseAre ==
    ASSUME DispatchAssumption, NEW d \in Dispatchers, NEW K
    PROVE  /\ Those(d, K) \in Seq(Nodes \cap K)
           /\ \A m, p \in 1..Len(Those(d, K)) : Those(d, K)[m] = Those(d, K)[p] => m = p
           /\ \A p \in 1..Len(Those(d, K)) :
                \E i \in DOMAIN Receivers[d] : Those(d, K)[p] = Receivers[d][i]
           /\ \A i \in DOMAIN Receivers[d] : Receivers[d][i] \in K =>
                \E p \in 1..Len(Those(d, K)) : Those(d, K)[p] = Receivers[d][i]
<1> DEFINE R == Receivers[d]
           at == {i \in DOMAIN R : R[i] \in K}
           Rank(f) == Cardinality({g \in at : g < f})
           c == Cardinality(at)
           Nth(p) == CHOOSE i \in at : Rank(i) = p - 1
           s == Those(d, K)
<1>1. R \in Seq(Nodes) /\ DOMAIN R = 1..Len(R) /\ Len(R) \in Nat
  BY DEF DispatchAssumption
<1>2. IsFiniteSet(at) /\ at \in SUBSET Nat
  <2>1. IsFiniteSet(1..Len(R))
    <3>1. 1 \in Int /\ Len(R) \in Int
      BY <1>1
    <3> QED  BY <3>1, FS_Interval
  <2>2. at \in SUBSET (1..Len(R))
    BY <1>1
  <2> QED  BY <2>1, <2>2, FS_Subset
<1>3. s = [p \in 1..c |-> R[Nth(p)]]
  BY DEF Those
<1>4. \A f \in at : f \in DOMAIN R /\ R[f] \in Nodes \cap K
  BY <1>1
<1>5. \A i \in DOMAIN R : R[i] \in K => i \in at
  OBVIOUS
<1> HIDE DEF at
<1>6. /\ c \in Nat
      /\ \A f \in at : Rank(f) \in 0..(c - 1)
      /\ \A f, g \in at : Rank(f) = Rank(g) => f = g
      /\ \A i \in 1..c : \E f \in at : Rank(f) = i - 1
  BY <1>2, Ranks
<1> HIDE DEF Rank, c
<1>7. \A p \in 1..c : Nth(p) \in at /\ Rank(Nth(p)) = p - 1
  BY <1>6
<1> HIDE DEF Nth, s
<1>8. s \in Seq(Nodes \cap K) /\ Len(s) = c
  <2>1. s \in [1..c -> Nodes \cap K] /\ DOMAIN s = 1..c
    BY <1>3, <1>4, <1>7
  <2> QED  BY <1>6, <2>1
<1>9. ASSUME NEW m \in 1..c, NEW p \in 1..c, s[m] = s[p] PROVE m = p
  <2>1. R[Nth(m)] = R[Nth(p)] /\ Nth(m) \in DOMAIN R /\ Nth(p) \in DOMAIN R
    BY <1>3, <1>4, <1>7, <1>9
  <2>2. Nth(m) = Nth(p)
    BY <2>1 DEF DispatchAssumption, IsTree
  <2>3. m - 1 = p - 1
    BY <1>7, <2>2
  <2> QED  BY <1>6, <2>3
<1>10. \A p \in 1..c : \E i \in DOMAIN R : s[p] = R[i]
  BY <1>3, <1>4, <1>7
<1>11. ASSUME NEW i \in DOMAIN R, R[i] \in K PROVE \E p \in 1..c : s[p] = R[i]
  <2>1. i \in at
    BY <1>5, <1>11
  <2>2. Rank(i) \in 0..(c - 1)
    BY <1>6, <2>1
  <2>3. Rank(i) + 1 \in 1..c /\ (Rank(i) + 1) - 1 = Rank(i)
    BY <1>6, <2>2
  <2>4. Rank(Nth(Rank(i) + 1)) = Rank(i) /\ Nth(Rank(i) + 1) \in at
    BY <1>7, <2>3
  <2>5. Nth(Rank(i) + 1) = i
    BY <1>6, <2>1, <2>4
  <2> QED  BY <1>3, <2>3, <2>5
<1> QED  BY <1>8, <1>9, <1>10, <1>11 DEF s

\* The list has each receiver of the dispatcher once and nothing else.
EachReceiver(s, d) ==
    /\ s \in Seq(Nodes)
    /\ \A m, p \in 1..Len(s) : s[m] = s[p] => m = p
    /\ \A p \in 1..Len(s) : \E i \in DOMAIN Receivers[d] : s[p] = Receivers[d][i]
    /\ \A i \in DOMAIN Receivers[d] : \E p \in 1..Len(s) : s[p] = Receivers[d][i]

\* The lists of two kinds, one after the other, have each receiver once.
LEMMA KindsJoined ==
    ASSUME DispatchAssumption, NEW d \in Dispatchers, NEW K, NEW L,
           K \cap L = {}, Nodes \subseteq K \cup L
    PROVE  EachReceiver(Those(d, K) \o Those(d, L), d)
<1> DEFINE a == Those(d, K)
           b == Those(d, L)
           s == a \o b
           R == Receivers[d]
<1>1. /\ a \in Seq(Nodes \cap K)
      /\ \A m, p \in 1..Len(a) : a[m] = a[p] => m = p
      /\ \A p \in 1..Len(a) : \E i \in DOMAIN R : a[p] = R[i]
      /\ \A i \in DOMAIN R : R[i] \in K => \E p \in 1..Len(a) : a[p] = R[i]
  BY ThoseAre
<1>2. /\ b \in Seq(Nodes \cap L)
      /\ \A m, p \in 1..Len(b) : b[m] = b[p] => m = p
      /\ \A p \in 1..Len(b) : \E i \in DOMAIN R : b[p] = R[i]
      /\ \A i \in DOMAIN R : R[i] \in L => \E p \in 1..Len(b) : b[p] = R[i]
  BY ThoseAre
<1>3. \A i \in DOMAIN R : R[i] \in K \/ R[i] \in L
  BY ReceiverUnder
<1> HIDE DEF a, b, R
<1>4. a \in Seq(Nodes) /\ b \in Seq(Nodes)
  BY <1>1, <1>2, SeqMonotonic
<1>5. /\ s \in Seq(Nodes) /\ Len(s) = Len(a) + Len(b) /\ Len(a) \in Nat /\ Len(b) \in Nat
      /\ \A i \in 1..(Len(a) + Len(b)) : s[i] = IF i <= Len(a) THEN a[i] ELSE b[i - Len(a)]
  BY <1>4, ConcatProperties, LenProperties
<1> HIDE DEF s
<1>6. \A i \in 1..Len(a) : i \in 1..Len(s) /\ s[i] = a[i]
  BY <1>5
<1>7. \A i \in 1..Len(b) : Len(a) + i \in 1..Len(s) /\ s[Len(a) + i] = b[i]
  BY <1>5
<1>8. ASSUME NEW p \in 1..Len(s)
      PROVE  \/ p \in 1..Len(a) /\ s[p] = a[p]
             \/ p - Len(a) \in 1..Len(b) /\ s[p] = b[p - Len(a)]
  BY <1>5
<1>9. \A p \in 1..Len(a) : a[p] \in K
  BY <1>1
<1>10. \A p \in 1..Len(b) : b[p] \in L
  BY <1>2
<1>11. ASSUME NEW m \in 1..Len(s), NEW p \in 1..Len(s), s[m] = s[p] PROVE m = p
  <2>1. CASE m \in 1..Len(a) /\ s[m] = a[m] /\ p \in 1..Len(a) /\ s[p] = a[p]
    BY <1>1, <1>11, <2>1
  <2>2. CASE /\ m - Len(a) \in 1..Len(b) /\ s[m] = b[m - Len(a)]
             /\ p - Len(a) \in 1..Len(b) /\ s[p] = b[p - Len(a)]
    <3>1. m - Len(a) = p - Len(a)
      BY <1>2, <1>11, <2>2
    <3> QED  BY <1>5, <3>1
  <2>3. CASE \/ m \in 1..Len(a) /\ s[m] = a[m] /\ p - Len(a) \in 1..Len(b) /\ s[p] = b[p - Len(a)]
             \/ p \in 1..Len(a) /\ s[p] = a[p] /\ m - Len(a) \in 1..Len(b) /\ s[m] = b[m - Len(a)]
    BY <1>9, <1>10, <1>11, <2>3
  <2> QED  BY <1>8, <2>1, <2>2, <2>3
<1>12. ASSUME NEW p \in 1..Len(s) PROVE \E i \in DOMAIN R : s[p] = R[i]
  <2>1. CASE p \in 1..Len(a) /\ s[p] = a[p]
    BY <1>1, <2>1
  <2>2. CASE p - Len(a) \in 1..Len(b) /\ s[p] = b[p - Len(a)]
    BY <1>2, <2>2
  <2> QED  BY <1>8, <2>1, <2>2
<1>13. \A i \in DOMAIN R : \E p \in 1..Len(s) : s[p] = R[i]
  BY <1>1, <1>2, <1>3, <1>6, <1>7
<1> QED  BY <1>5, <1>11, <1>12, <1>13 DEF EachReceiver, s, a, b, R

\* A dispatcher calls each of its receivers, whichever kind comes first.
LEMMA AllReceivers ==
    ASSUME DispatchAssumption, NEW d \in Dispatchers
    PROVE  /\ EachReceiver(WritersOf(d) \o DispatchersOf(d), d)
           /\ EachReceiver(DispatchersOf(d) \o WritersOf(d), d)
           /\ WritersOf(d) \in Seq(Nodes) /\ DispatchersOf(d) \in Seq(Nodes)
<1> DEFINE K == Writers \ Custom
           L == Dispatchers \cup Custom
<1>1. K \cap L = {} /\ Nodes \subseteq K \cup L /\ L \cap K = {} /\ Nodes \subseteq L \cup K
  BY DEF DispatchAssumption, Nodes
<1>2. WritersOf(d) = Those(d, K) /\ DispatchersOf(d) = Those(d, L)
  BY DEF WritersOf, DispatchersOf
<1> HIDE DEF K, L
<1>3. EachReceiver(Those(d, K) \o Those(d, L), d) /\ EachReceiver(Those(d, L) \o Those(d, K), d)
  BY <1>1, KindsJoined
<1>4. Those(d, K) \in Seq(Nodes \cap K) /\ Those(d, L) \in Seq(Nodes \cap L)
  BY ThoseAre
<1>5. Those(d, K) \in Seq(Nodes) /\ Those(d, L) \in Seq(Nodes)
  BY <1>4, SeqMonotonic
<1> QED  BY <1>2, <1>3, <1>5

\* What the list's nodes have below them is what the dispatcher has, each in one place.
LEMMA ReceiversShare ==
    ASSUME DispatchAssumption, NEW d \in Dispatchers, NEW s, EachReceiver(s, d)
    PROVE  /\ \A m, p \in 1..Len(s) : m # p => Under(s[m]) \cap Under(s[p]) = {}
           /\ \A p \in 1..Len(s) : s[p] \in Nodes /\ Under(s[p]) \subseteq Under(d)
           /\ \A y \in Under(d) : y # d => \E p \in 1..Len(s) : y \in Under(s[p])
<1>1. ASSUME NEW m \in 1..Len(s), NEW p \in 1..Len(s), m # p
      PROVE  Under(s[m]) \cap Under(s[p]) = {}
  <2>0. \A k \in 1..Len(s) : \E i \in DOMAIN Receivers[d] : s[k] = Receivers[d][i]
    BY DEF EachReceiver
  <2>1. PICK i, j \in DOMAIN Receivers[d] : s[m] = Receivers[d][i] /\ s[p] = Receivers[d][j]
    BY <2>0
  <2>2. i # j
    BY <1>1, <2>1 DEF EachReceiver
  <2> QED  BY <2>1, <2>2, Siblings
<1>2. ASSUME NEW p \in 1..Len(s) PROVE s[p] \in Nodes /\ Under(s[p]) \subseteq Under(d)
  <2>1. PICK i \in DOMAIN Receivers[d] : s[p] = Receivers[d][i]
    BY DEF EachReceiver
  <2>2. d \in Nodes /\ Receivers[d][i] \in Nodes /\ Receivers[d][i] \in Under(d)
    BY ReceiverUnder
  <2> QED  BY <2>1, <2>2, UnderUnder
<1>3. ASSUME NEW y \in Under(d), y # d PROVE \E p \in 1..Len(s) : y \in Under(s[p])
  <2>1. PICK i \in DOMAIN Receivers[d] : y \in Under(Receivers[d][i])
    BY <1>3, UnderReceiver
  <2>2. PICK p \in 1..Len(s) : s[p] = Receivers[d][i]
    BY DEF EachReceiver
  <2> QED  BY <2>1, <2>2
<1> QED  BY <1>1, <1>2, <1>3

\* The items for a list of nodes.
LEMMA ItemsAre ==
    ASSUME NEW s \in Seq(Nodes), NEW do \in Doings
    PROVE  /\ Items(do, s) \in Seq(Item) /\ Len(Items(do, s)) = Len(s)
           /\ \A i \in 1..Len(s) : Items(do, s)[i] = [do |-> do, on |-> s[i]]
<1>1. Len(s) \in Nat /\ DOMAIN s = 1..Len(s) /\ \A i \in 1..Len(s) : s[i] \in Nodes
  BY LenProperties
<1>2. Items(do, s) \in [1..Len(s) -> Item]
  BY <1>1 DEF Items, Item, Doings
<1>3. Items(do, s) \in Seq(Item) /\ Len(Items(do, s)) = Len(s)
  BY <1>1, <1>2
<1> QED  BY <1>1, <1>3 DEF Items

\* The items for two lists are the items for the two joined.
LEMMA ItemsJoined ==
    ASSUME NEW a \in Seq(Nodes), NEW b \in Seq(Nodes), NEW do \in Doings
    PROVE  /\ Items(do, a) \o Items(do, b) = Items(do, a \o b)
           /\ Items(do, a \o b) \in Seq(Item)
           /\ Len(Items(do, a \o b)) = Len(a \o b)
<1>1. a \o b \in Seq(Nodes)
  OBVIOUS
<1> DEFINE x == Items(do, a)
           y == Items(do, b)
           z == Items(do, a \o b)
<1>2. x \in Seq(Item) /\ y \in Seq(Item) /\ z \in Seq(Item) /\ Len(x) = Len(a) /\ Len(y) = Len(b)
      /\ Len(z) = Len(a \o b) /\ Len(a \o b) = Len(a) + Len(b) /\ Len(a) \in Nat /\ Len(b) \in Nat
  BY <1>1, ItemsAre, ConcatProperties, LenProperties
<1>3. x \o y \in Seq(Item) /\ Len(x \o y) = Len(z)
  <2> HIDE DEF x, y, z
  <2> QED  BY <1>2, ConcatProperties
<1>4. ASSUME NEW i \in 1..Len(x \o y) PROVE (x \o y)[i] = z[i]
  <2>0. i \in 1..Len(a \o b)
    <3> HIDE DEF x, y, z
    <3> QED  BY <1>2, <1>3
  <2>1. z[i] = [do |-> do, on |-> (a \o b)[i]]
    BY <1>1, <2>0, ItemsAre
  <2>2. (a \o b)[i] = IF i <= Len(a) THEN a[i] ELSE b[i - Len(a)]
    BY <1>2, <1>3, ConcatProperties
  <2>3. (x \o y)[i] = IF i <= Len(a) THEN x[i] ELSE y[i - Len(a)]
    <3> HIDE DEF x, y, z
    <3> QED  BY <1>2, <1>3, ConcatProperties
  <2>4. CASE i <= Len(a)
    <3>1. i \in 1..Len(a)
      BY <1>2, <1>3, <2>4
    <3>2. x[i] = [do |-> do, on |-> a[i]]
      BY <3>1, ItemsAre
    <3> HIDE DEF x, y, z
    <3> QED  BY <2>1, <2>2, <2>3, <2>4, <3>2
  <2>5. CASE ~(i <= Len(a))
    <3>1. i - Len(a) \in 1..Len(b)
      <4> HIDE DEF x, y, z
      <4> QED  BY <1>2, <1>3, <2>5
    <3>2. y[i - Len(a)] = [do |-> do, on |-> b[i - Len(a)]]
      BY <3>1, ItemsAre
    <3> HIDE DEF x, y, z
    <3> QED  BY <2>1, <2>2, <2>3, <2>5, <3>2
  <2> QED  BY <2>4, <2>5
<1>5. x \o y = z
  <2> HIDE DEF x, y, z
  <2> QED  BY <1>2, <1>3, <1>4, SeqEqual
<1> QED  BY <1>2, <1>5

\* Whatever comes before a close is the flush of the same node.
Neat(items) ==
    \A i \in 1..Len(items) :
      items[i].do = "close" => i - 1 \in 1..Len(items) /\ items[i - 1] = [do |-> "flush", on |-> items[i].on]

\* dispatch and Flush call the method of each receiver, if at all.
LEMMA ExpandIs ==
    ASSUME DispatchAssumption, NEW d \in Dispatchers
    PROVE  /\ level \in AllowList[d] =>
                \E s : EachReceiver(s, d) /\ Expand("dispatch", d) = Items("dispatch", s)
           /\ level \notin AllowList[d] => Expand("dispatch", d) = <<>>
           /\ \E s : EachReceiver(s, d) /\ Expand("flush", d) = Items("flush", s)
<1>1. level \notin AllowList[d] => Expand("dispatch", d) = <<>>
  BY DEF Expand
<1>2. ASSUME level \in AllowList[d]
      PROVE  \E s : EachReceiver(s, d) /\ Expand("dispatch", d) = Items("dispatch", s)
  <2>1. Expand("dispatch", d) = Items("dispatch", WritersOf(d)) \o Items("dispatch", DispatchersOf(d))
    BY <1>2 DEF Expand
  <2>2. Expand("dispatch", d) = Items("dispatch", WritersOf(d) \o DispatchersOf(d))
    BY <2>1, AllReceivers, ItemsJoined DEF Doings
  <2> QED  BY <2>2, AllReceivers
<1>3. \E s : EachReceiver(s, d) /\ Expand("flush", d) = Items("flush", s)
  <2>1. Expand("flush", d) = Items("flush", DispatchersOf(d)) \o Items("flush", WritersOf(d))
    BY DEF Expand
  <2>2. Expand("flush", d) = Items("flush", DispatchersOf(d) \o WritersOf(d))
    BY <2>1, AllReceivers, ItemsJoined DEF Doings
  <2> QED  BY <2>2, AllReceivers
<1> QED  BY <1>1, <1>2, <1>3

\* Close flushes each receiver and closes it next.
LEMMA ExpandClose ==
    ASSUME DispatchAssumption, NEW d \in Dispatchers
    PROVE  /\ Expand("close", d) \in Seq(Item)
           /\ Neat(Expand("close", d))
           /\ \A i \in 1..Len(Expand("close", d)) : Expand("close", d)[i].do # "dispatch"
<1> DEFINE nodes == DispatchersOf(d) \o WritersOf(d)
           E == Expand("close", d)
           N == 2 * Len(nodes)
           At(i) == nodes[(i + 1) \div 2]
           Do(i) == IF i % 2 = 1 THEN "flush" ELSE "close"
<1>1. nodes \in Seq(Nodes) /\ Len(nodes) \in Nat
  BY AllReceivers DEF EachReceiver
<1>2. E = [i \in 1..N |-> [do |-> Do(i), on |-> At(i)]]
  BY DEF Expand
<1> HIDE DEF nodes, E
<1>3. N \in Nat
  BY <1>1
<1>4. \A i \in 1..N : At(i) \in Nodes
  <2> SUFFICES ASSUME NEW i \in 1..N PROVE At(i) \in Nodes
    OBVIOUS
  <2>1. (i + 1) \div 2 \in 1..Len(nodes)
    BY <1>1
  <2> QED  BY <1>1, <2>1, ElementOfSeq
<1>5. \A i \in 1..N : i % 2 = 1 \/ (i % 2 = 0 /\ i - 1 \in 1..N /\ (i - 1) % 2 = 1
                                    /\ ((i - 1) + 1) \div 2 = (i + 1) \div 2)
  BY <1>1, <1>3
<1>6. E \in [1..N -> Item]
  <2>1. \A i \in 1..N : Do(i) \in {"flush", "close"}
    OBVIOUS
  <2> HIDE DEF N, At, Do
  <2> QED  BY <1>2, <1>4, <2>1 DEF Item, Doings
<1>7. E \in Seq(Item) /\ Len(E) = N
  <2> HIDE DEF N
  <2> QED  BY <1>3, <1>6
<1>8. ASSUME NEW i \in 1..N, E[i].do = "close"
      PROVE  i - 1 \in 1..N /\ E[i - 1] = [do |-> "flush", on |-> E[i].on]
  <2>1. Do(i) = "close"
    <3> HIDE DEF Do, N, At
    <3> QED  BY <1>2, <1>8
  <2>2. i - 1 \in 1..N /\ (i - 1) % 2 = 1 /\ ((i - 1) + 1) \div 2 = (i + 1) \div 2
    BY <1>5, <2>1
  <2>3. Do(i - 1) = "flush" /\ At(i - 1) = At(i)
    BY <2>2
  <2> HIDE DEF Do, N, At
  <2> QED  BY <1>2, <2>2, <2>3
<1>9. ASSUME NEW i \in 1..N PROVE E[i].do # "dispatch"
  BY <1>2
<1> QED  BY <1>7, <1>8, <1>9 DEF Neat, E

\* What a method calls in turn is items, with every close after its flush.
LEMMA ExpandNeat ==
    ASSUME DispatchAssumption, NEW d \in Dispatchers, NEW do \in Doings
    PROVE  /\ Expand(do, d) \in Seq(Item) /\ Neat(Expand(do, d))
           /\ do = "close" => \A i \in 1..Len(Expand(do, d)) : Expand(do, d)[i].do # "dispatch"
           /\ do # "close" => \A i \in 1..Len(Expand(do, d)) : Expand(do, d)[i].do = do
<1>1. CASE do = "close"
  BY <1>1, ExpandClose
<1>2. CASE do # "close" /\ \E s : EachReceiver(s, d) /\ Expand(do, d) = Items(do, s)
  <2>1. PICK s : s \in Seq(Nodes) /\ Expand(do, d) = Items(do, s)
    BY <1>2 DEF EachReceiver
  <2> DEFINE x == Items(do, s)
  <2>2. x \in Seq(Item) /\ \A i \in 1..Len(x) : x[i].do = do
    <3>1. /\ x \in Seq(Item) /\ Len(x) = Len(s)
          /\ \A i \in 1..Len(s) : x[i] = [do |-> do, on |-> s[i]]
      BY <2>1, ItemsAre
    <3> HIDE DEF x
    <3>2. ASSUME NEW i \in 1..Len(s) PROVE x[i].do = do
      <4>1. x[i] = [do |-> do, on |-> s[i]]
        BY <3>1
      <4> QED  BY <4>1
    <3> QED  BY <3>1, <3>2
  <2> HIDE DEF x
  <2>3. do # "close"
    BY <1>2
  <2>4. Neat(x)
    BY <2>2, <2>3 DEF Neat
  <2>5. Expand(do, d) = x
    BY <2>1 DEF x
  <2> QED  BY <2>2, <2>3, <2>4, <2>5
<1>3. CASE do # "close" /\ Expand(do, d) = <<>>
  <2>1. Neat(<<>>) /\ <<>> \in Seq(Item) /\ \A i \in 1..Len(<<>>) : <<>>[i].do = do
    BY DEF Neat
  <2> QED  BY <1>3, <2>1
<1>4. CASE do = "dispatch"
  BY <1>2, <1>3, <1>4, ExpandIs
<1>5. CASE do = "flush"
  BY <1>2, <1>5, ExpandIs
<1> QED  BY <1>1, <1>4, <1>5 DEF Doings

\* What is put in front of the rest of the items, and the rest.
Splices(p, E, items) ==
    /\ p \in Seq(Item) /\ Len(E) \in Nat
    /\ \A k \in 1..Len(p) :
         \/ k \in 1..Len(E) /\ p[k] = E[k]
         \/ k - Len(E) + 1 \in 2..Len(items) /\ p[k] = items[k - Len(E) + 1]
    /\ \A k \in 1..Len(E) : k \in 1..Len(p) /\ p[k] = E[k]
    /\ \A k \in 2..Len(items) : Len(E) + k - 1 \in 1..Len(p) /\ p[Len(E) + k - 1] = items[k]

\* A dispatcher's calls come before what was to be done after it.
LEMMA Spliced ==
    ASSUME NEW E \in Seq(Item), NEW items \in Seq(Item), items # <<>>
    PROVE  Splices(E \o Tail(items), E, items)
<1> DEFINE p == E \o Tail(items)
<1> DEFINE t == Tail(items)
<1>0. p = E \o t
  OBVIOUS
<1>1. /\ t \in Seq(Item) /\ Len(t) = Len(items) - 1 /\ Len(items) \in Nat
      /\ \A i \in 1..Len(t) : t[i] = items[i + 1]
  BY HeadTailProperties, LenProperties
<1> HIDE DEF t, p
<1>2. /\ p \in Seq(Item) /\ Len(p) = Len(E) + Len(t) /\ Len(E) \in Nat
      /\ \A i \in 1..(Len(E) + Len(t)) : p[i] = IF i <= Len(E) THEN E[i] ELSE t[i - Len(E)]
  BY <1>0, <1>1, ConcatProperties, LenProperties
<1>3. \A k \in 1..Len(p) :
        \/ k \in 1..Len(E) /\ p[k] = E[k]
        \/ k - Len(E) + 1 \in 2..Len(items) /\ p[k] = items[k - Len(E) + 1]
  <2> SUFFICES ASSUME NEW k \in 1..Len(p), ~(k <= Len(E))
               PROVE  k - Len(E) + 1 \in 2..Len(items) /\ p[k] = items[k - Len(E) + 1]
    <3>1. \A k \in 1..Len(p) : k <= Len(E) => k \in 1..Len(E) /\ p[k] = E[k]
      BY <1>1, <1>2
    <3> QED  BY <3>1
  <2>1. k - Len(E) \in 1..Len(t) /\ k - Len(E) + 1 \in 2..Len(items)
    BY <1>1, <1>2
  <2>2. p[k] = t[k - Len(E)]
    BY <1>2
  <2>3. t[k - Len(E)] = items[(k - Len(E)) + 1]
    BY <1>1, <2>1
  <2> QED  BY <2>1, <2>2, <2>3
<1>4. \A k \in 1..Len(E) : k \in 1..Len(p) /\ p[k] = E[k]
  BY <1>1, <1>2
<1>5. \A k \in 2..Len(items) : Len(E) + k - 1 \in 1..Len(p) /\ p[Len(E) + k - 1] = items[k]
  <2> SUFFICES ASSUME NEW k \in 2..Len(items)
               PROVE  Len(E) + k - 1 \in 1..Len(p) /\ p[Len(E) + k - 1] = items[k]
    OBVIOUS
  <2> DEFINE q == Len(E) + k - 1
  <2>1. q \in 1..(Len(E) + Len(t)) /\ q \in 1..Len(p) /\ ~(q <= Len(E)) /\ q - Len(E) = k - 1
    BY <1>1, <1>2
  <2>2. k - 1 \in 1..Len(t) /\ (k - 1) + 1 = k
    BY <1>1
  <2> HIDE DEF q
  <2>3. p[q] = t[k - 1]
    BY <1>2, <2>1
  <2>4. t[k - 1] = items[k]
    BY <1>1, <2>2
  <2> QED  BY <2>1, <2>3, <2>4 DEF q
<1> QED  BY <1>2, <1>3, <1>4, <1>5 DEF Splices, p

\* A visited dispatcher makes way for its receivers: no two of the nodes to visit have
\* anything below them in common, and the same writers wait.
LEMMA VisitShares ==
    ASSUME DispatchAssumption, NEW items \in Seq(Item), items # <<>>,
           NEW d \in Dispatchers, Head(items).on = d, NEW s, EachReceiver(s, d),
           NEW do \in Doings, NEW p, p = Items(do, s) \o Tail(items)
    PROVE  /\ Apart(items) => Apart(p)
           /\ \A w \in Writers : Waits(w, items) <=> Waits(w, p)
           /\ Passed(items) /\ level \in AllowList[d] => Passed(p)
<1> DEFINE E == Items(do, s)
<1>1. s \in Seq(Nodes) /\ Len(s) \in Nat
  BY LenProperties DEF EachReceiver
<1>2. E \in Seq(Item) /\ Len(E) = Len(s) /\ \A i \in 1..Len(s) : E[i] = [do |-> do, on |-> s[i]]
  BY <1>1, ItemsAre
<1>3. E \in Seq(Item) /\ p = E \o Tail(items)
  BY <1>2
<1> HIDE DEF E
<1>4. /\ p \in Seq(Item)
      /\ \A k \in 1..Len(p) :
           \/ k \in 1..Len(E) /\ p[k] = E[k]
           \/ k - Len(E) + 1 \in 2..Len(items) /\ p[k] = items[k - Len(E) + 1]
      /\ \A k \in 1..Len(E) : k \in 1..Len(p) /\ p[k] = E[k]
      /\ \A k \in 2..Len(items) : Len(E) + k - 1 \in 1..Len(p) /\ p[Len(E) + k - 1] = items[k]
  <2>1. Splices(p, E, items)
    BY <1>3, Spliced
  <2> QED  BY <2>1 DEF Splices
<1>5. ASSUME NEW i \in 1..Len(s) PROVE E[i].on = s[i]
  <2>1. E[i] = [do |-> do, on |-> s[i]]
    BY <1>2
  <2> QED  BY <2>1
<1>6. 1 \in 1..Len(items) /\ items[1].on = d /\ \A k \in 2..Len(items) : k \in 1..Len(items) /\ k # 1
  <2>1. Len(items) \in Nat \ {0} /\ Head(items) = items[1]
    BY EmptySeq
  <2> QED  BY <2>1
\* Each node is a receiver of d, or was there before.
<1>7. ASSUME NEW k \in 1..Len(p)
      PROVE  \/ \E i \in 1..Len(s) : k = i /\ p[k].on = s[i]
             \/ \E j \in 2..Len(items) : j = k - Len(E) + 1 /\ p[k].on = items[j].on
  <2>1. CASE k \in 1..Len(E) /\ p[k] = E[k]
    BY <1>2, <1>5, <2>1
  <2>2. CASE k - Len(E) + 1 \in 2..Len(items) /\ p[k] = items[k - Len(E) + 1]
    BY <2>2
  <2> QED  BY <1>4, <2>1, <2>2
<1>8. ASSUME Apart(items), NEW j \in 2..Len(items)
      PROVE  Under(d) \cap Under(items[j].on) = {}
  BY <1>6, <1>8 DEF Apart
<1>9. ASSUME Apart(items), NEW k \in 1..Len(p), NEW m \in 1..Len(p), k # m
      PROVE  Under(p[k].on) \cap Under(p[m].on) = {}
  <2>1. ASSUME NEW i \in 1..Len(s), NEW j \in 2..Len(items)
        PROVE  Under(s[i]) \cap Under(items[j].on) = {}
    BY <1>8, <1>9, ReceiversShare
  <2>2. CASE \E i, j \in 1..Len(s) : k = i /\ p[k].on = s[i] /\ m = j /\ p[m].on = s[j]
    <3>1. k \in 1..Len(s) /\ m \in 1..Len(s) /\ p[k].on = s[k] /\ p[m].on = s[m]
      BY <2>2
    <3>2. Under(s[k]) \cap Under(s[m]) = {}
      BY <1>9, <3>1, ReceiversShare
    <3> QED  BY <3>1, <3>2
  <2>3. CASE \E i, j \in 2..Len(items) :
               /\ i = k - Len(E) + 1 /\ p[k].on = items[i].on
               /\ j = m - Len(E) + 1 /\ p[m].on = items[j].on
    <3>1. PICK i, j \in 2..Len(items) :
               /\ i = k - Len(E) + 1 /\ p[k].on = items[i].on
               /\ j = m - Len(E) + 1 /\ p[m].on = items[j].on
      BY <2>3
    <3>2. i # j
      BY <1>1, <1>2, <1>9, <3>1
    <3> QED  BY <1>6, <1>9, <3>1, <3>2 DEF Apart
  <2>4. CASE \E i \in 1..Len(s), j \in 2..Len(items) :
               \/ p[k].on = s[i] /\ p[m].on = items[j].on
               \/ p[m].on = s[i] /\ p[k].on = items[j].on
    BY <2>1, <2>4
  <2> QED  BY <1>7, <2>2, <2>3, <2>4
<1>10. ASSUME NEW w \in Writers, Waits(w, items) PROVE Waits(w, p)
  <2>1. PICK k \in 1..Len(items) : w \in Under(items[k].on)
    BY <1>10 DEF Waits
  <2>2. CASE k = 1
    <3>1. w # d
      BY DEF DispatchAssumption
    <3>2. PICK i \in 1..Len(s) : w \in Under(s[i])
      BY <1>6, <2>1, <2>2, <3>1, ReceiversShare
    <3>3. i \in 1..Len(p) /\ p[i].on = s[i]
      BY <1>2, <1>4, <1>5
    <3> QED  BY <3>2, <3>3 DEF Waits
  <2>3. CASE k # 1
    <3>1. k \in 2..Len(items)
      BY <2>3
    <3>2. Len(E) + k - 1 \in 1..Len(p) /\ p[Len(E) + k - 1] = items[k]
      BY <1>4, <3>1
    <3> QED  BY <2>1, <3>2 DEF Waits
  <2> QED  BY <2>2, <2>3
<1>11. ASSUME NEW w \in Writers, Waits(w, p) PROVE Waits(w, items)
  <2>1. PICK k \in 1..Len(p) : w \in Under(p[k].on)
    BY <1>11 DEF Waits
  <2>2. ASSUME NEW i \in 1..Len(s), p[k].on = s[i] PROVE w \in Under(items[1].on)
    BY <1>6, <2>1, <2>2, ReceiversShare
  <2>3. (\E i \in 1..Len(s) : p[k].on = s[i]) \/ (\E j \in 2..Len(items) : p[k].on = items[j].on)
    BY <1>7
  <2> QED  BY <1>6, <2>1, <2>2, <2>3 DEF Waits
<1>12. ASSUME Passed(items), level \in AllowList[d], NEW k \in 1..Len(p), NEW e \in Dispatchers,
              p[k].on \in Under(e), p[k].on # e
       PROVE  level \in AllowList[e]
  <2>1. ASSUME NEW i \in 1..Len(s), p[k].on = s[i] PROVE level \in AllowList[e]
    <3>1. PICK j \in DOMAIN Receivers[d] : s[i] = Receivers[d][j]
      BY DEF EachReceiver
    <3>2. e \in Nodes
      BY DEF Nodes
    <3>3. d \in Under(e)
      BY <1>12, <2>1, <3>1, <3>2, Between
    <3> QED  BY <1>6, <1>12, <3>3 DEF Passed
  <2>2. ASSUME NEW j \in 2..Len(items), p[k].on = items[j].on PROVE level \in AllowList[e]
    BY <1>6, <1>12, <2>2 DEF Passed
  <2>3. (\E i \in 1..Len(s) : p[k].on = s[i]) \/ (\E j \in 2..Len(items) : p[k].on = items[j].on)
    BY <1>7
  <2> QED  BY <2>1, <2>2, <2>3
<1> QED  BY <1>9, <1>10, <1>11, <1>12 DEF Apart, Passed

\* The items after the first, and what waits there.
LEMMA RestShares ==
    ASSUME DispatchAssumption, NEW items \in Seq(Item), items # <<>>
    PROVE  /\ Tail(items) \in Seq(Item) /\ Head(items) \in Item
           /\ \A i \in 1..Len(Tail(items)) : i + 1 \in 2..Len(items) /\ Tail(items)[i] = items[i + 1]
           /\ Apart(items) =>
                /\ Apart(Tail(items))
                /\ \A w \in Under(Head(items).on) : ~Waits(w, Tail(items))
           /\ \A w : Waits(w, items) <=> w \in Under(Head(items).on) \/ Waits(w, Tail(items))
           /\ Passed(items) => Passed(Tail(items))
           /\ Paired(items) => Paired(Tail(items))
<1> DEFINE t == Tail(items)
<1>1. /\ t \in Seq(Item) /\ Head(items) \in Item /\ Head(items) = items[1]
      /\ Len(t) = Len(items) - 1 /\ Len(items) \in Nat
      /\ \A i \in 1..Len(t) : t[i] = items[i + 1]
  BY HeadTailProperties, LenProperties
<1> HIDE DEF t
<1>2. /\ \A i \in 1..Len(t) : i + 1 \in 2..Len(items) /\ t[i] = items[i + 1]
      /\ \A k \in 2..Len(items) : k - 1 \in 1..Len(t) /\ t[k - 1] = items[k] /\ k \in 1..Len(items) /\ k # 1
  <2> SUFFICES ASSUME NEW k \in 2..Len(items) PROVE k - 1 \in 1..Len(t) /\ t[k - 1] = items[k]
    BY <1>1
  <2>1. k - 1 \in 1..Len(t) /\ (k - 1) + 1 = k
    BY <1>1
  <2> QED  BY <1>1, <2>1
<1>3. 1 \in 1..Len(items)
  BY <1>1, LenProperties
<1>4. ASSUME Apart(items) PROVE Apart(t) /\ \A w \in Under(items[1].on) : ~Waits(w, t)
  <2>1. ASSUME NEW i \in 1..Len(t), NEW j \in 1..Len(t), i # j
        PROVE  Under(t[i].on) \cap Under(t[j].on) = {}
    <3>1. i + 1 \in 1..Len(items) /\ j + 1 \in 1..Len(items) /\ i + 1 # j + 1
      BY <1>1, <2>1
    <3> QED  BY <1>2, <1>4, <3>1 DEF Apart
  <2>2. ASSUME NEW i \in 1..Len(t) PROVE Under(items[1].on) \cap Under(t[i].on) = {}
    BY <1>2, <1>3, <1>4 DEF Apart
  <2> QED  BY <2>1, <2>2 DEF Apart, Waits
<1>5. ASSUME NEW w PROVE Waits(w, items) <=> w \in Under(items[1].on) \/ Waits(w, t)
  <2>1. \A k \in 1..Len(items) : k = 1 \/ k \in 2..Len(items)
    BY <1>1
  <2> QED  BY <1>2, <1>3, <2>1 DEF Waits
<1>6. Passed(items) => Passed(t)
  <2>1. \A i \in 1..Len(t) : i + 1 \in 1..Len(items)
    BY <1>1
  <2> QED  BY <1>2, <2>1 DEF Passed
<1>7. ASSUME Paired(items) PROVE Paired(t)
  <2> SUFFICES ASSUME NEW i \in 2..Len(t), t[i].do = "close" /\ t[i].on \in Writers
               PROVE  t[i - 1] = [do |-> "flush", on |-> t[i].on]
    BY DEF Paired
  <2>1. i \in 1..Len(t) /\ i - 1 \in 1..Len(t) /\ (i - 1) + 1 = i /\ i + 1 \in 2..Len(items) /\ (i + 1) - 1 = i
    BY <1>1
  <2>2. t[i] = items[i + 1] /\ t[i - 1] = items[i]
    BY <1>2, <2>1
  <2>3. items[(i + 1) - 1] = [do |-> "flush", on |-> items[i + 1].on]
    BY <1>7, <2>1, <2>2 DEF Paired
  <2> QED  BY <2>1, <2>2, <2>3
<1> QED  BY <1>1, <1>2, <1>4, <1>5, <1>6, <1>7 DEF t

\* Putting neat items in front keeps every close behind its flush.
LEMMA VisitPaired ==
    ASSUME DispatchAssumption, NEW items \in Seq(Item), items # <<>>, Head(items).on \notin Writers,
           NEW E \in Seq(Item), Neat(E), Paired(items), NEW p, p = E \o Tail(items)
    PROVE  /\ Paired(p)
           /\ p # <<>> /\ Head(p).do = "close" => Head(p).on \notin Writers
<1>1. /\ p \in Seq(Item) /\ Len(E) \in Nat
      /\ \A k \in 1..Len(p) :
           \/ k \in 1..Len(E) /\ p[k] = E[k]
           \/ k - Len(E) + 1 \in 2..Len(items) /\ p[k] = items[k - Len(E) + 1]
      /\ \A k \in 1..Len(E) : k \in 1..Len(p) /\ p[k] = E[k]
      /\ \A k \in 2..Len(items) : Len(E) + k - 1 \in 1..Len(p) /\ p[Len(E) + k - 1] = items[k]
  BY Spliced DEF Splices
<1>2. Head(items) = items[1]
  OBVIOUS
\* A close of a writer has its flush before it.
<1>3. ASSUME NEW i \in 1..Len(p), p[i].do = "close", p[i].on \in Writers
      PROVE  i - 1 \in 1..Len(p) /\ p[i - 1] = [do |-> "flush", on |-> p[i].on]
  <2>1. CASE i \in 1..Len(E) /\ p[i] = E[i]
    BY <1>1, <1>3, <2>1 DEF Neat
  <2>2. CASE i - Len(E) + 1 \in 2..Len(items) /\ p[i] = items[i - Len(E) + 1]
    <3> DEFINE j == i - Len(E) + 1
    <3>1. j \in 2..Len(items) /\ p[i] = items[j] /\ Len(E) + (j - 1) - 1 = i - 1
      BY <1>1, <2>2
    <3> HIDE DEF j
    <3>2. items[j - 1] = [do |-> "flush", on |-> items[j].on]
      BY <1>3, <3>1 DEF Paired
    <3>3. items[j - 1].on \in Writers
      BY <1>3, <3>1, <3>2
    <3>4. j - 1 # 1
      BY <1>2, <3>3
    <3>5. j - 1 \in 2..Len(items)
      BY <3>1, <3>4
    <3>6. Len(E) + (j - 1) - 1 \in 1..Len(p) /\ p[Len(E) + (j - 1) - 1] = items[j - 1]
      BY <1>1, <3>5
    <3> QED  BY <3>1, <3>2, <3>6
  <2> QED  BY <1>1, <2>1, <2>2
<1>4. Paired(p)
  <2>1. \A i \in 2..Len(p) : i \in 1..Len(p)
    BY <1>1
  <2> QED  BY <1>3, <2>1 DEF Paired
<1>5. ASSUME p # <<>>, Head(p).do = "close", Head(p).on \in Writers PROVE FALSE
  <2>1. 1 \in 1..Len(p) /\ Head(p) = p[1]
    BY <1>1, <1>5
  <2>2. 1 - 1 \in 1..Len(p)
    BY <1>3, <1>5, <2>1
  <2> QED  BY <2>2
<1> QED  BY <1>4, <1>5

-----------------------------------------------------------------------------
\* The invariant holds before the first call.
LEMMA InvInit == ASSUME DispatchAssumption, Init PROVE Inv
<1>1. 0 \in Levels /\ <<>> \in Seq(Item) /\ 0 \in 0..MaxCalls /\ Len(<<>>) = 0
  BY DEF DispatchAssumption, Levels
<1>2. Types
  BY <1>1 DEF Init, Types
<1>3. Dispatching /\ Flushing /\ Emptied /\ Busy
  BY DEF Init, Dispatching, Flushing, Emptied, Closing, Busy
<1>4. Paired(work)
  BY <1>1 DEF Init, Paired
<1>5. Unused
  BY Zenon DEF Init, Unused
<1> QED  BY <1>2, <1>3, <1>4, <1>5 DEF Inv

\* What is to be done next is about the call.
LEMMA DoingIs ==
    ASSUME DispatchAssumption, Inv, work # <<>>
    PROVE  /\ doing \in Item /\ doing = work[1] /\ 1 \in 1..Len(work)
           /\ doing.do \in Doings /\ doing.on \in Nodes
           /\ call \in Doings
           /\ call # "close" => doing.do = call
           /\ call = "close" => doing.do # "dispatch"
<1>1. work \in Seq(Item) /\ Len(work) \in Nat \ {0}
  BY EmptySeq DEF Inv, Types
<1>2. doing \in Item /\ doing = work[1] /\ 1 \in 1..Len(work)
  BY <1>1 DEF doing
<1>3. call \in Doings
  BY DEF Inv, Types, Busy, Doings
<1>4. /\ call # "close" => doing.do = call
      /\ call = "close" => doing.do # "dispatch"
  BY <1>2, <1>3 DEF Inv, Busy, Doings
<1> QED  BY <1>2, <1>3, <1>4 DEF Item

\* A visit puts items of the same call in front of the rest.
LEMMA VisitIs ==
    ASSUME DispatchAssumption, Inv, Visit
    PROVE  /\ work \in Seq(Item) /\ work # <<>> /\ doing = Head(work) /\ doing.on \in Dispatchers
           /\ doing.on \notin Writers
           /\ Expand(doing.do, doing.on) \in Seq(Item) /\ Neat(Expand(doing.do, doing.on))
           /\ Splices(work', Expand(doing.do, doing.on), work)
           /\ call # "close" =>
                \A i \in 1..Len(Expand(doing.do, doing.on)) : Expand(doing.do, doing.on)[i].do = call
           /\ call = "close" =>
                \A i \in 1..Len(Expand(doing.do, doing.on)) : Expand(doing.do, doing.on)[i].do # "dispatch"
<1> DEFINE E == Expand(doing.do, doing.on)
<1>1. work \in Seq(Item) /\ work # <<>> /\ doing = Head(work) /\ doing.on \in Dispatchers
  BY DEF Inv, Types, Visit, doing
<1>2. doing.on \notin Writers
  BY <1>1 DEF DispatchAssumption
<1>3. /\ doing.do \in Doings
      /\ call # "close" => doing.do = call
      /\ call = "close" => doing.do # "dispatch"
  BY <1>1, DoingIs
<1>4. /\ E \in Seq(Item) /\ Neat(E)
      /\ doing.do = "close" => \A i \in 1..Len(E) : E[i].do # "dispatch"
      /\ doing.do # "close" => \A i \in 1..Len(E) : E[i].do = doing.do
  BY <1>1, <1>3, ExpandNeat
<1>5. work' = E \o Tail(work)
  BY DEF Visit
<1> HIDE DEF E
<1>6. Splices(work', E, work)
  BY <1>1, <1>4, <1>5, Spliced
<1>7. call # "close" => \A i \in 1..Len(E) : E[i].do = call
  BY <1>3, <1>4 DEF Doings
<1>8. call = "close" => \A i \in 1..Len(E) : E[i].do # "dispatch"
  BY <1>3, <1>4 DEF Doings
<1> QED  BY <1>1, <1>2, <1>4, <1>6, <1>7, <1>8 DEF E

\* The steps, by what they do with the work.
LEMMA NextIs ==
    ASSUME Next
    PROVE  \/ \E l \in Levels, c \in Contexts \cup {NoContext} : Log(l, c)
           \/ \E do \in {"flush", "close"} : Clear(do)
           \/ Visit \/ Write \/ WriteFails \/ WritePanics
           \/ FlushWriter \/ FlushFails \/ FlushPanics \/ CloseWriter \/ CloseFails \/ Return
BY DEF Next

\* Every variable keeps its type.
LEMMA TypesStep == ASSUME DispatchAssumption, Inv, Next PROVE Types'
<1> USE DEF Types
<1>0. Types
  BY DEF Inv
<1>1. ASSUME NEW l \in Levels, NEW c \in Contexts \cup {NoContext}, Log(l, c) PROVE Types'
  <2>1. calls' \in 0..MaxCalls
    BY <1>0, <1>1 DEF Log, Start, DispatchAssumption
  <2>2. work' \in Seq(Item) /\ call' \in {"none", "dispatch", "flush", "close"}
    <3>1. [do |-> "dispatch", on |-> Root] \in Item
      BY DEF Item, Doings, Nodes, DispatchAssumption
    <3>2. \/ call' = "dispatch" /\ work' = <<[do |-> "dispatch", on |-> Root]>>
          \/ call' = call /\ work' = work
      BY <1>1 DEF Log
    <3>3. <<[do |-> "dispatch", on |-> Root]>> \in Seq(Item)
      BY <3>1
    <3>4. work' \in Seq(Item)
      BY <1>0, <3>2, <3>3
    <3>5. call' \in {"none", "dispatch", "flush", "close"}
      BY <1>0, <3>2
    <3> QED  BY <3>4, <3>5
  <2> QED  BY <1>0, <1>1, <2>1, <2>2 DEF Log, Start
<1>2. ASSUME NEW do \in {"flush", "close"}, Clear(do) PROVE Types'
  <2>1. calls' \in 0..MaxCalls
    BY <1>0, <1>2 DEF Clear, Start, DispatchAssumption
  <2>2. work' \in Seq(Item) /\ call' \in {"none", "dispatch", "flush", "close"}
    <3>1. [do |-> do, on |-> Root] \in Item
      BY DEF Item, Doings, Nodes, DispatchAssumption
    <3> QED  BY <1>0, <1>2, <3>1 DEF Clear
  <2> QED  BY <1>0, <1>2, <2>1, <2>2 DEF Clear, Start
<1>3. CASE Visit
  <2>1. work' \in Seq(Item)
    BY <1>3, VisitIs DEF Splices
  <2> QED  BY <1>0, <1>3, <2>1 DEF Visit
<1>4. ASSUME work # <<>> PROVE Tail(work) \in Seq(Item) /\ doing.on \in Nodes
  BY <1>0, <1>4, DoingIs
<1>5. CASE Write
  <2>0. doing.on \in Writers /\ Tail(work) \in Seq(Item)
    BY <1>4, <1>5 DEF Write, Writing
  <2>1. got[doing.on] = 0
    <3>1. call = "dispatch"
      BY <1>5, DoingIs DEF Write, Writing, Doings
    <3>2. Waits(doing.on, work)
      BY <1>5, <2>0, DoingIs, UnderIs DEF Write, Writing, Waits
    <3>3. doing.on \notin Had
      BY <3>1, <3>2 DEF Inv, Dispatching
    <3> QED  BY <1>0, <2>0, <3>3 DEF Had
  <2>2. got' \in [Writers -> 0..1]
    BY <1>0, <1>5, <2>0, <2>1 DEF Write
  <2>3. held' \subseteq Buffered
    BY <1>0, <1>5 DEF Write
  <2> QED  BY <1>0, <1>5, <2>0, <2>2, <2>3 DEF Write
<1>6. CASE WriteFails
  BY <1>0, <1>4, <1>6 DEF WriteFails, CannotFlush, Writing
<1>7. CASE WritePanics
  BY <1>0, <1>4, <1>7 DEF WritePanics, Writing
<1>8. CASE FlushWriter \/ FlushFails \/ FlushPanics
  <2>1. CASE FlushWriter
    BY <1>0, <1>4, <2>1 DEF FlushWriter, Flush
  <2>2. CASE FlushFails
    BY <1>0, <1>4, <2>2 DEF FlushFails, CannotFlush, Flush
  <2>3. CASE FlushPanics
    BY <1>0, <1>4, <2>3 DEF FlushPanics, Flush
  <2> QED  BY <1>8, <2>1, <2>2, <2>3
<1>9. CASE CloseWriter
  BY <1>0, <1>4, <1>9 DEF CloseWriter, Closing
<1>10. CASE CloseFails
  BY <1>0, <1>4, <1>10 DEF CloseFails, Closing
<1>11. CASE Return
  BY <1>0, <1>11 DEF Return
<1> QED  BY <1>1, <1>2, <1>3, <1>5, <1>6, <1>7, <1>8, <1>9, <1>10, <1>11, NextIs

\* A call does only what it is about.
LEMMA BusyStep == ASSUME DispatchAssumption, Inv, Next PROVE Busy'
<1>0. Types /\ Busy
  BY DEF Inv
<1>1. ASSUME NEW l \in Levels, NEW c \in Contexts \cup {NoContext}, Log(l, c) PROVE Busy'
  BY <1>0, <1>1 DEF Log, Start, Busy
<1>2. ASSUME NEW do \in {"flush", "close"}, Clear(do) PROVE Busy'
  BY <1>2 DEF Clear, Busy
<1>3. CASE Visit
  <2> DEFINE E == Expand(doing.do, doing.on)
  <2>1. /\ \A k \in 1..Len(work') :
             \/ k \in 1..Len(E) /\ work'[k] = E[k]
             \/ k - Len(E) + 1 \in 2..Len(work) /\ work'[k] = work[k - Len(E) + 1]
        /\ work # <<>> /\ call' = call
        /\ call # "close" => \A i \in 1..Len(E) : E[i].do = call
        /\ call = "close" => \A i \in 1..Len(E) : E[i].do # "dispatch"
    BY <1>3, VisitIs DEF Splices, Visit
  <2> HIDE DEF E
  <2>2. \A k \in 2..Len(work) : k \in 1..Len(work)
    BY <1>0, LenProperties DEF Types
  <2>3. call # "none"
    BY <1>0, <2>1 DEF Busy
  <2>4. ASSUME NEW k \in 1..Len(work')
        PROVE  /\ call \in {"dispatch", "flush"} => work'[k].do = call
               /\ call = "close" => work'[k].do # "dispatch"
    <3>1. CASE k \in 1..Len(E) /\ work'[k] = E[k]
      BY <2>1, <3>1
    <3>2. CASE k - Len(E) + 1 \in 2..Len(work) /\ work'[k] = work[k - Len(E) + 1]
      BY <1>0, <2>2, <3>2 DEF Busy
    <3> QED  BY <2>1, <3>1, <3>2
  <2> QED  BY <2>1, <2>3, <2>4 DEF Busy
<1>4. ASSUME work # <<>>, work' = Tail(work), call' = call PROVE Busy'
  <2>1. \A i \in 1..Len(Tail(work)) : i + 1 \in 2..Len(work) /\ Tail(work)[i] = work[i + 1]
    BY <1>0, <1>4, RestShares DEF Types
  <2>2. \A k \in 2..Len(work) : k \in 1..Len(work)
    BY <1>0, LenProperties DEF Types
  <2>3. call # "none"
    BY <1>0, <1>4 DEF Busy
  <2>4. ASSUME NEW i \in 1..Len(Tail(work))
        PROVE  /\ call \in {"dispatch", "flush"} => Tail(work)[i].do = call
               /\ call = "close" => Tail(work)[i].do # "dispatch"
    BY <1>0, <2>1, <2>2 DEF Busy
  <2> HIDE DEF Busy
  <2> QED  BY <1>4, <2>3, <2>4 DEF Busy
<1>5. CASE Write \/ WriteFails \/ FlushWriter \/ FlushFails \/ CloseWriter
  <2>1. work # <<>> /\ work' = Tail(work) /\ call' = call
    BY <1>5 DEF Write, WriteFails, FlushWriter, FlushFails, CloseWriter, Writing, Flush, Closing
  <2> QED  BY <1>4, <2>1
<1>6. CASE WritePanics \/ FlushPanics \/ CloseFails \/ Return
  <2>1. work' = <<>>
    BY <1>6 DEF WritePanics, FlushPanics, CloseFails, Return, Done
  <2> QED  BY <2>1 DEF Busy
<1> QED  BY <1>1, <1>2, <1>3, <1>5, <1>6, NextIs

\* What a message has still to reach, and what it has reached.
LEMMA DispatchingStep == ASSUME DispatchAssumption, Inv, Next PROVE Dispatching'
<1>0. Types /\ Dispatching /\ Busy
  BY DEF Inv
<1>1. ASSUME NEW l \in Levels, NEW c \in Contexts \cup {NoContext}, Log(l, c) PROVE Dispatching'
  <2> SUFFICES ASSUME call' = "dispatch" PROVE Dispatching'
    BY DEF Dispatching
  <2>1. work' = <<[do |-> "dispatch", on |-> Root]>> /\ failed' = {} /\ got' = [w \in Writers |-> 0]
    BY <1>1 DEF Log, Start
  <2>2. Len(work') = 1 /\ work'[1].on = Root
    BY <2>1
  <2>3. Had' = {}
    BY <2>1 DEF Had
  <2>4. Apart(work')
    BY <2>2 DEF Apart
  <2>5. Passed(work)'
    <3> SUFFICES ASSUME NEW i \in 1..Len(work'), NEW d \in Dispatchers,
                        work'[i].on \in Under(d), work'[i].on # d
                 PROVE  level' \in AllowList[d]
      BY DEF Passed
    <3>1. Root \in Under(d) /\ Root # d
      BY <2>2
    <3> QED  BY <3>1, RootIsTop DEF Nodes
  <2>6. \A w \in Writers : Waits(w, work')
    <3>1. Under(Root) = Nodes
      BY DEF DispatchAssumption, IsTree
    <3>2. 1 \in 1..Len(work')
      BY <2>2
    <3> QED  BY <2>2, <3>1, <3>2 DEF Waits, Nodes
  <2> QED  BY <2>3, <2>4, <2>5, <2>6 DEF Dispatching
<1>2. CASE (\E do \in {"flush", "close"} : Clear(do)) \/ Return
  <2>1. call' # "dispatch"
    BY <1>2 DEF Clear, Return
  <2> QED  BY <2>1 DEF Dispatching
<1>3. CASE Visit
  <2> SUFFICES ASSUME call' = "dispatch" PROVE Dispatching'
    BY DEF Dispatching
  <2>1. call = "dispatch" /\ level' = level /\ Had' = Had /\ panicked' = panicked
    BY <1>3 DEF Visit, Had
  <2>2. /\ Apart(work) /\ Passed(work)
        /\ \A w \in Had : Reaches(w) /\ ~Waits(w, work)
        /\ ~panicked => \A w \in Writers : Reaches(w) => w \in Had \/ Waits(w, work)
    BY <1>0, <2>1 DEF Dispatching
  <2>3. /\ work \in Seq(Item) /\ work # <<>> /\ Head(work) = doing /\ doing.on \in Dispatchers
        /\ doing.do = "dispatch" /\ work' = Expand("dispatch", doing.on) \o Tail(work)
    BY <1>3, <2>1, VisitIs, DoingIs DEF Visit
  <2>4. Had \subseteq Writers
    BY <1>0 DEF Had, Types
  <2>5. CASE level \in AllowList[doing.on]
    <3>1. PICK s : EachReceiver(s, doing.on) /\ Expand("dispatch", doing.on) = Items("dispatch", s)
      BY <2>3, <2>5, ExpandIs
    <3>2. "dispatch" \in Doings /\ work' = Items("dispatch", s) \o Tail(work)
      BY <2>3, <3>1 DEF Doings
    <3>3. Apart(work') /\ Passed(work') /\ \A w \in Writers : Waits(w, work) <=> Waits(w, work')
      BY <2>2, <2>3, <2>5, <3>1, <3>2, VisitShares
    <3>4. Passed(work)'
      BY <2>1, <3>3 DEF Passed
    <3>5. \A w \in Had : Reaches(w) /\ ~Waits(w, work')
      BY <2>2, <2>4, <3>3
    <3>6. ~panicked => \A w \in Writers : Reaches(w) => w \in Had \/ Waits(w, work')
      BY <2>2, <3>3
    <3> QED  BY <2>1, <3>3, <3>4, <3>5, <3>6 DEF Dispatching, Reaches
  <2>6. CASE level \notin AllowList[doing.on]
    <3>1. Expand("dispatch", doing.on) = <<>> /\ Tail(work) \in Seq(Item)
      BY <2>3, <2>6, ExpandIs, RestShares
    <3>2. work' = Tail(work)
      BY <2>3, <3>1
    <3>3. /\ Apart(work') /\ Passed(work')
          /\ \A w : Waits(w, work) <=> w \in Under(doing.on) \/ Waits(w, work')
      <4>1. /\ Apart(Tail(work)) /\ Passed(Tail(work))
            /\ \A w : Waits(w, work) <=> w \in Under(Head(work).on) \/ Waits(w, Tail(work))
        BY <2>2, <2>3, RestShares
      <4> QED  BY <2>3, <3>2, <4>1
    <3>4. Passed(work)'
      BY <2>1, <3>3 DEF Passed
    <3>5. \A w \in Writers : Reaches(w) => w \notin Under(doing.on)
      BY <2>3, <2>6 DEF Reaches
    <3>6. \A w \in Had : Reaches(w) /\ ~Waits(w, work')
      BY <2>2, <3>3
    <3>7. ~panicked => \A w \in Writers : Reaches(w) => w \in Had \/ Waits(w, work')
      BY <2>2, <3>3, <3>5
    <3> QED  BY <2>1, <3>3, <3>4, <3>6, <3>7 DEF Dispatching, Reaches
  <2> QED  BY <2>5, <2>6
\* The writer at hand has now got the message, or failed.
<1>4. ASSUME call = "dispatch", Writing, level' = level, Had' = Had \cup {doing.on},
             \/ work' = Tail(work) /\ panicked' = panicked
             \/ work' = <<>> /\ panicked' = TRUE
      PROVE  Dispatching'
  <2>1. /\ Apart(work) /\ Passed(work)
        /\ \A w \in Had : Reaches(w) /\ ~Waits(w, work)
        /\ ~panicked => \A w \in Writers : Reaches(w) => w \in Had \/ Waits(w, work)
    BY <1>0, <1>4 DEF Dispatching
  <2>2. /\ work \in Seq(Item) /\ work # <<>> /\ Head(work) = doing /\ doing.on \in Writers
        /\ doing = work[1] /\ 1 \in 1..Len(work)
    BY <1>0, <1>4, DoingIs DEF Writing, Types, doing
  <2>3. Under(doing.on) = {doing.on}
    BY <2>2, UnderWriter
  <2>4. Reaches(doing.on)
    <3>1. \A d \in Dispatchers : d # doing.on
      BY <2>2 DEF DispatchAssumption
    <3> QED  BY <2>1, <2>2, <3>1 DEF Reaches, Passed
  <2>5. /\ Apart(Tail(work)) /\ Passed(Tail(work)) /\ ~Waits(doing.on, Tail(work))
        /\ \A w : Waits(w, work) <=> w = doing.on \/ Waits(w, Tail(work))
    BY <2>1, <2>2, <2>3, RestShares
  <2>6. CASE work' = Tail(work) /\ panicked' = panicked
    <3>1. Apart(work') /\ Passed(work)'
      BY <1>4, <2>5, <2>6 DEF Passed
    <3>2. \A w \in Had' : Reaches(w) /\ ~Waits(w, work')
      BY <1>4, <2>1, <2>4, <2>5, <2>6
    <3>3. ~panicked' => \A w \in Writers : Reaches(w) => w \in Had' \/ Waits(w, work')
      BY <1>4, <2>1, <2>5, <2>6
    <3> QED  BY <1>4, <3>1, <3>2, <3>3 DEF Dispatching, Reaches
  <2>7. CASE work' = <<>> /\ panicked' = TRUE
    <3>1. Apart(work') /\ Passed(work)' /\ \A w : ~Waits(w, work')
      BY <2>7 DEF Apart, Passed, Waits
    <3>2. \A w \in Had' : Reaches(w)
      BY <1>4, <2>1, <2>4
    <3> QED  BY <1>4, <2>7, <3>1, <3>2 DEF Dispatching, Reaches
  <2> QED  BY <1>4, <2>6, <2>7
<1>5. CASE Write
  <2>1. Writing /\ level' = level /\ work' = Tail(work) /\ panicked' = panicked /\ failed' = failed
        /\ got' = [got EXCEPT ![doing.on] = @ + 1]
    BY <1>5 DEF Write
  <2>2. call = "dispatch" /\ doing.on \in Writers /\ Waits(doing.on, work)
    BY <2>1, DoingIs, UnderIs DEF Writing, Doings, Waits
  <2>3. got[doing.on] = 0
    <3>1. doing.on \notin Had
      BY <1>0, <2>2 DEF Dispatching
    <3> QED  BY <1>0, <2>2, <3>1 DEF Had, Types
  <2>4. Had' = Had \cup {doing.on}
    <3>1. got'[doing.on] = 1 /\ \A w \in Writers : w # doing.on => got'[w] = got[w]
      BY <1>0, <2>1, <2>2, <2>3 DEF Types
    <3> QED  BY <2>1, <2>2, <3>1 DEF Had
  <2> QED  BY <1>4, <2>1, <2>2, <2>4
<1>6. CASE WriteFails \/ WritePanics
  <2>1. /\ Writing /\ level' = level /\ Had' = Had \cup {doing.on}
        /\ \/ work' = Tail(work) /\ panicked' = panicked
           \/ work' = <<>> /\ panicked' = TRUE
    BY <1>6 DEF WriteFails, WritePanics, Had
  <2>2. call = "dispatch"
    BY <2>1, DoingIs DEF Writing, Doings
  <2> QED  BY <1>4, <2>1, <2>2
<1>7. CASE FlushWriter \/ FlushFails \/ FlushPanics \/ CloseWriter \/ CloseFails
  <2>1. call' # "dispatch"
    BY <1>7, DoingIs DEF FlushWriter, FlushFails, FlushPanics, Flush, CloseWriter, CloseFails, Closing
  <2> QED  BY <2>1 DEF Dispatching
<1> QED  BY <1>1, <1>2, <1>3, <1>5, <1>6, <1>7, NextIs

\* What a flush has still to empty.
LEMMA FlushingStep == ASSUME DispatchAssumption, Inv, Next PROVE Flushing'
<1>0. Types /\ Flushing
  BY DEF Inv
<1> SUFFICES ASSUME call' = "flush", ~panicked', NEW w \in held'
             PROVE  w \in failed' \/ Waits(w, work')
  BY DEF Flushing
<1>1. ASSUME NEW do \in {"flush", "close"}, Clear(do) PROVE Waits(w, work')
  <2>1. Len(work') = 1 /\ work'[1].on = Root /\ w \in Writers
    BY <1>0, <1>1 DEF Clear, Types, DispatchAssumption
  <2>2. Under(Root) = Nodes /\ 1 \in 1..Len(work')
    BY <2>1 DEF DispatchAssumption, IsTree
  <2> QED  BY <2>1, <2>2 DEF Waits, Nodes
<1>2. CASE Visit
  <2>1. call = "flush" /\ held' = held /\ failed' = failed /\ ~panicked
    BY <1>2 DEF Visit
  <2>2. /\ work \in Seq(Item) /\ work # <<>> /\ Head(work) = doing /\ doing.on \in Dispatchers
        /\ doing.do = "flush" /\ work' = Expand("flush", doing.on) \o Tail(work)
    BY <1>2, <2>1, VisitIs, DoingIs DEF Visit
  <2>3. PICK s : EachReceiver(s, doing.on) /\ Expand("flush", doing.on) = Items("flush", s)
    BY <2>2, ExpandIs
  <2>4. "flush" \in Doings /\ work' = Items("flush", s) \o Tail(work)
    BY <2>2, <2>3 DEF Doings
  <2>5. w \in Writers
    BY <1>0, <2>1 DEF Types, DispatchAssumption
  <2>6. Waits(w, work) <=> Waits(w, work')
    BY <2>2, <2>3, <2>4, <2>5, VisitShares
  <2> QED  BY <1>0, <2>1, <2>6 DEF Flushing
<1>3. CASE FlushWriter \/ FlushFails
  <2>1. /\ call = "flush" /\ ~panicked /\ doing.on \in Writers /\ work # <<>> /\ work' = Tail(work)
        /\ work \in Seq(Item) /\ doing = Head(work)
    BY <1>0, <1>3 DEF FlushWriter, FlushFails, Flush, Types, doing
  <2>2. w \in held /\ failed \subseteq failed' /\ (w = doing.on => w \in failed')
    BY <1>3 DEF FlushWriter, FlushFails, CannotFlush
  <2>3. Waits(w, work) <=> w = doing.on \/ Waits(w, work')
    BY <2>1, RestShares, UnderWriter
  <2> QED  BY <1>0, <2>1, <2>2, <2>3 DEF Flushing
<1>4. ASSUME Write \/ WriteFails \/ WritePanics \/ CloseWriter \/ CloseFails PROVE call' # "flush"
  BY <1>4, DoingIs DEF Write, WriteFails, WritePanics, Writing, CloseWriter, CloseFails, Closing
<1>5. ASSUME NEW l \in Levels, NEW c \in Contexts \cup {NoContext}, Log(l, c) PROVE call' # "flush"
  BY <1>5 DEF Log, Start
<1>6. ASSUME Return \/ FlushPanics PROVE call' # "flush" \/ panicked'
  BY <1>6 DEF Return, FlushPanics
<1> QED  BY <1>1, <1>2, <1>3, <1>4, <1>5, <1>6, NextIs

\* The flush of a writer comes immediately before its close, and empties it or fails.
LEMMA PairedStep == ASSUME DispatchAssumption, Inv, Next PROVE Paired(work') /\ Emptied'
<1>0. Types /\ Paired(work) /\ Emptied /\ Busy
  BY DEF Inv
<1>a. Paired(<<>>)
  BY DEF Paired
<1>1. ASSUME work' = <<>> PROVE Paired(work') /\ Emptied'
  BY <1>1, <1>a DEF Emptied, Closing
<1>2. ASSUME NEW do, work' = <<[do |-> do, on |-> Root]>> PROVE Paired(work') /\ Emptied'
  <2>1. Len(work') = 1 /\ Head(work').on = Root /\ Root \notin Writers
    BY <1>2 DEF DispatchAssumption
  <2>2. Paired(work')
    BY <2>1 DEF Paired
  <2> QED  BY <2>1, <2>2 DEF Emptied, Closing, doing
<1>3. ASSUME NEW l \in Levels, NEW c \in Contexts \cup {NoContext}, Log(l, c)
      PROVE  Paired(work') /\ Emptied'
  <2>1. work = <<>>
    BY <1>0, <1>3 DEF Log, Start, Busy
  <2>2. work' = <<>> \/ work' = <<[do |-> "dispatch", on |-> Root]>>
    BY <1>3, <2>1 DEF Log
  <2> QED  BY <1>1, <1>2, <2>2
<1>4. ASSUME NEW do \in {"flush", "close"}, Clear(do) PROVE Paired(work') /\ Emptied'
  BY <1>2, <1>4 DEF Clear
<1>5. CASE Visit
  <2> DEFINE E == Expand(doing.do, doing.on)
  <2>1. /\ work \in Seq(Item) /\ work # <<>> /\ Head(work).on \notin Writers
        /\ E \in Seq(Item) /\ Neat(E) /\ work' = E \o Tail(work)
    BY <1>5, VisitIs DEF Visit
  <2> HIDE DEF E
  <2>2. /\ Paired(work')
        /\ work' # <<>> /\ Head(work').do = "close" => Head(work').on \notin Writers
    BY <1>0, <2>1, VisitPaired
  <2> QED  BY <2>2 DEF Emptied, Closing, doing
<1>6. CASE Write \/ WriteFails \/ FlushWriter \/ FlushFails \/ CloseWriter
  <2>1. work # <<>> /\ work' = Tail(work) /\ work \in Seq(Item) /\ doing = work[1] /\ doing.on \in Nodes
    BY <1>0, <1>6, DoingIs
       DEF Write, WriteFails, FlushWriter, FlushFails, CloseWriter, Writing, Flush, Closing, Types
  <2>2. /\ Paired(work') /\ work' \in Seq(Item)
        /\ \A i \in 1..Len(work') : i + 1 \in 2..Len(work) /\ work'[i] = work[i + 1]
    BY <1>0, <2>1, RestShares
  <2>3. ASSUME Closing', Head(work').on \in held' PROVE Head(work').on \in failed'
    <3>1. work' # <<>> /\ Head(work').on \in Writers /\ Head(work').do = "close"
      BY <2>3 DEF Closing, doing
    <3>2. 1 \in 1..Len(work') /\ Head(work') = work'[1]
      BY <2>2, <3>1, EmptySeq
    <3>3. 1 + 1 \in 2..Len(work) /\ work[1 + 1] = Head(work')
      BY <2>2, <3>2
    <3>4. work[(1 + 1) - 1] = [do |-> "flush", on |-> Head(work').on]
      BY <1>0, <3>1, <3>3 DEF Paired
    <3>5. doing.do = "flush" /\ doing.on = Head(work').on
      <4>1. (1 + 1) - 1 = 1
        OBVIOUS
      <4>2. doing = [do |-> "flush", on |-> Head(work').on]
        BY <2>1, <3>4, <4>1
      <4> QED  BY <4>2
    <3>6. \/ held' = held \ {doing.on}
          \/ failed' = failed \cup {doing.on}
      BY <1>6, <3>5 DEF Write, WriteFails, FlushWriter, FlushFails, CloseWriter, Writing, Closing
    <3> QED  BY <2>3, <3>5, <3>6
  <2> QED  BY <2>2, <2>3 DEF Emptied, doing
<1>7. CASE WritePanics \/ FlushPanics \/ CloseFails \/ Return
  <2>1. work' = <<>>
    BY <1>7 DEF WritePanics, FlushPanics, CloseFails, Return, Done
  <2> QED  BY <1>1, <2>1
<1> QED  BY <1>3, <1>4, <1>5, <1>6, <1>7, NextIs

\* Only a message of an unused level is dropped.
LEMMA UnusedStep == ASSUME DispatchAssumption, Inv, Next PROVE Unused'
<1>0. Unused
  BY DEF Inv
<1>1. ASSUME NEW l \in Levels, NEW c \in Contexts \cup {NoContext}, Log(l, c) PROVE Unused'
  <2>1. level' = l /\ dropped' = (l \in unusedLevels)
    BY <1>1 DEF Log
  <2>2. unusedLevels' = unusedLevels
    BY DEF unusedLevels
  <2> QED  BY <2>1, <2>2, Zenon DEF Unused
<1>2. ASSUME NEW do \in {"flush", "close"}, Clear(do) PROVE Unused'
  <2>1. dropped' = FALSE
    BY <1>2 DEF Clear
  <2> QED  BY <2>1, Zenon DEF Unused
<1>3. CASE \/ Visit \/ Write \/ WriteFails \/ WritePanics \/ FlushWriter \/ FlushFails
           \/ FlushPanics \/ CloseWriter \/ CloseFails \/ Return
  <2>1. level' = level /\ dropped' = dropped
    BY <1>3 DEF Visit, Write, WriteFails, WritePanics, FlushWriter, FlushFails, FlushPanics,
                CloseWriter, CloseFails, Return
  <2> QED  BY <1>0, <2>1, Zenon DEF Unused, unusedLevels
<1> QED  BY <1>1, <1>2, <1>3, NextIs

-----------------------------------------------------------------------------
\* The invariant holds of every reachable state.
LEMMA DispatchInvariant == DispatchAssumption => (Spec => []Inv)
<1> SUFFICES ASSUME DispatchAssumption PROVE Spec => []Inv
  OBVIOUS
<1>1. Init => Inv
  BY InvInit
<1>2. Inv /\ [Next]_vars => Inv'
  <2> SUFFICES ASSUME Inv, [Next]_vars PROVE Inv'
    OBVIOUS
  <2>1. CASE Next
    <3>1. Types' /\ Busy' /\ Dispatching' /\ Flushing'
      BY <2>1, TypesStep, BusyStep, DispatchingStep, FlushingStep
    <3>2. Paired(work') /\ Emptied' /\ Unused'
      BY <2>1, PairedStep, UnusedStep
    <3> QED  BY <3>1, <3>2 DEF Inv
  <2>2. CASE UNCHANGED vars
    <3> USE <2>2 DEF vars
    <3>1. Types' /\ Busy' /\ Flushing' /\ Paired(work')
      BY DEF Inv, Types, Busy, Flushing
    <3>2. Dispatching' /\ Emptied'
      BY DEF Inv, Dispatching, Passed, Had, Reaches, Emptied, Closing, doing
    <3>3. Unused'
      BY Zenon DEF Inv, Unused, unusedLevels
    <3> QED  BY <3>1, <3>2, <3>3 DEF Inv
  <2> QED  BY <2>1, <2>2
<1> QED  BY <1>1, <1>2, PTL DEF Spec

\* Each variable keeps its type: what a call has still to do is a sequence of items, a writer
\* takes a message once at most, and only buffered ones hold any or break.
THEOREM DispatchTypeOK == DispatchAssumption => (Spec => []TypeOK)
<1> SUFFICES ASSUME DispatchAssumption PROVE Spec => []TypeOK
  OBVIOUS
<1>1. Inv => TypeOK
  <2> SUFFICES ASSUME Inv PROVE TypeOK
    OBVIOUS
  <2>1. Item = [do : {"dispatch", "flush", "close"}, on : Dispatchers \cup Writers]
    BY DEF Item, Doings, Nodes
  <2> QED  BY <2>1 DEF Inv, Types, TypeOK
<1> QED  BY <1>1, DispatchInvariant, PTL

\* Of some numbers there is a least.
LEMMA LeastIs ==
    ASSUME NEW T \in SUBSET Nat, T # {}
    PROVE  (CHOOSE i \in T : \A j \in T : i <= j) \in T
<1>1. PICK x \in T : \A y \in T : ~ (<<y, x>> \in OpToRel(<, Nat))
  BY NatLessThanWellFounded, WFMin
<1>2. \A y \in T : ~ (y < x)
  BY <1>1 DEF OpToRel
<1>3. \A y \in T : x <= y
  BY <1>2
<1> QED  BY <1>3

\* The table of unused levels has no level that the rule or an exception allows.
LEMMA UnusedIsNotAllowed ==
    ASSUME DispatchAssumption, NEW l \in unusedLevels, NEW c
    PROVE  ~IsAllowed(l, c)
<1> DEFINE matching == {i \in DOMAIN Exceptions : c \in Exceptions[i].contexts}
           first == CHOOSE i \in matching : \A j \in matching : i <= j
<1>1. l \notin Constraints /\ \A e \in Range(Exceptions) : l \notin e.levels
  BY DEF unusedLevels
<1>2. CASE c = NoContext \/ matching = {}
  BY <1>1, <1>2 DEF IsAllowed
<1>3. CASE ~(c = NoContext \/ matching = {})
  <2>1. matching \in SUBSET Nat
    BY DEF DispatchAssumption
  <2>2. first \in matching
    <3> HIDE DEF matching
    <3> QED  BY <1>3, <2>1, LeastIs
  <2>3. l \notin Exceptions[first].levels
    BY <1>1, <2>2 DEF Range
  <2>4. IsAllowed(l, c) = (l \in Exceptions[first].levels)
    BY <1>3 DEF IsAllowed
  <2> QED  BY <2>3, <2>4
<1> QED  BY <1>2, <1>3

\* When a message has been dispatched, the writers that no filter above keeps it from have
\* got it, each once, or failed, and no others have; and the table that saves the way to
\* them stops no message that the rule or the first matching exception allows.
THEOREM MessagesReachAllowed == DispatchAssumption => (Spec => []ReachesAllowed)
<1> SUFFICES ASSUME DispatchAssumption PROVE Spec => []ReachesAllowed
  OBVIOUS
<1>1. Inv => DispatchedToAllowed
  <2> SUFFICES ASSUME Inv, call = "dispatch", work = <<>>, ~panicked
               PROVE  {w \in Writers : Reaches(w)} = failed \cup {w \in Writers : got[w] = 1}
    BY DEF DispatchedToAllowed, Done
  <2>1. \A w : ~Waits(w, work)
    BY DEF Waits
  <2>2. Had \subseteq Writers
    BY DEF Inv, Types, Had
  <2>3. \A w \in Writers : Reaches(w) <=> w \in Had
    BY <2>1 DEF Inv, Dispatching
  <2> QED  BY <2>2, <2>3 DEF Had
<1>2. Inv => NothingAllowedDropped
  BY UnusedIsNotAllowed, Zenon DEF Inv, Unused, NothingAllowedDropped
<1>3. Inv => ReachesAllowed
  BY <1>1, <1>2 DEF ReachesAllowed
<1> QED  BY <1>3, DispatchInvariant, PTL

\* What is in a buffer after Flush has failed to be flushed, however deep in the tree it is,
\* and no writer is closed with messages in its buffer unless that buffer was flushed just
\* before, in vain.
THEOREM WalksEmpty == DispatchAssumption => (Spec => WalkEmpties)
<1> SUFFICES ASSUME DispatchAssumption PROVE Spec => WalkEmpties
  OBVIOUS
<1>1. Inv => FlushEmpties
  BY DEF Inv, Flushing, FlushEmpties, Done, Waits
<1>2. Inv /\ [Next]_vars => [(closed' \ closed) \cap held \subseteq failed]_vars
  <2> SUFFICES ASSUME Inv, Next, NEW w \in closed' \ closed, w \in held PROVE w \in failed
    OBVIOUS
  <2>1. ASSUME NEW l \in Levels, NEW c \in Contexts \cup {NoContext}, Log(l, c) PROVE FALSE
    BY <2>1 DEF Log
  <2>2. ASSUME NEW do \in {"flush", "close"}, Clear(do) PROVE FALSE
    BY <2>2 DEF Clear
  <2>3. ~ (\/ Visit \/ Write \/ WriteFails \/ WritePanics \/ FlushWriter \/ FlushFails
           \/ FlushPanics \/ CloseFails \/ Return)
    BY DEF Visit, Write, WriteFails, WritePanics, FlushWriter, FlushFails, FlushPanics,
           CloseFails, Return
  <2>4. CloseWriter
    BY <2>1, <2>2, <2>3, NextIs
  <2>5. Closing /\ w = doing.on
    BY <2>4 DEF CloseWriter
  <2> QED  BY <2>5 DEF Inv, Emptied
<1> QED  BY <1>1, <1>2, DispatchInvariant, PTL DEF WalkEmpties, ClosedEmpty, Spec
-----------------------------------------------------------------------------
\* What is proved of the writers and of rolling files, for the options of each part.
WProofs == INSTANCE LogWritersProofs WITH
    Inner <- FileOptions.Inner, Buffered <- FileOptions.Buffered,
    BufferSize <- FileOptions.BufferSize, Ticks <- FileOptions.Ticks,
    ReconnectOnMsg <- FileOptions.ReconnectOnMsg, Closes <- FileOptions.Closes,
    MaxMessages <- FileOptions.MaxMessages, MaxFaults <- FileOptions.MaxFaults

ConnProofs == INSTANCE LogWritersProofs WITH
    Inner <- ConnOptions.Inner, Buffered <- ConnOptions.Buffered,
    BufferSize <- ConnOptions.BufferSize, Ticks <- ConnOptions.Ticks,
    ReconnectOnMsg <- ConnOptions.ReconnectOnMsg, Closes <- ConnOptions.Closes,
    MaxMessages <- ConnOptions.MaxMessages, MaxFaults <- ConnOptions.MaxFaults

ZippedProofs == INSTANCE RollingFileProofs WITH
    ByDate <- ZippedOptions.ByDate, Archives <- ZippedOptions.Archives,
    maxRolls <- ZippedOptions.maxRolls, maxFileSize <- ZippedOptions.maxFileSize,
    Interval <- ZippedOptions.Interval, MaxWrites <- ZippedOptions.MaxWrites,
    MaxFailures <- ZippedOptions.MaxFailures, MaxCrashes <- ZippedOptions.MaxCrashes,
    MaxClock <- ZippedOptions.MaxClock

UnlimitedProofs == INSTANCE RollingFileProofs WITH
    ByDate <- UnlimitedOptions.ByDate, Archives <- UnlimitedOptions.Archives,
    maxRolls <- UnlimitedOptions.maxRolls, maxFileSize <- UnlimitedOptions.maxFileSize,
    Interval <- UnlimitedOptions.Interval, MaxWrites <- UnlimitedOptions.MaxWrites,
    MaxFailures <- UnlimitedOptions.MaxFailures, MaxCrashes <- UnlimitedOptions.MaxCrashes,
    MaxClock <- UnlimitedOptions.MaxClock

DatedProofs == INSTANCE RollingFileProofs WITH
    ByDate <- DatedOptions.ByDate, Archives <- DatedOptions.Archives,
    maxRolls <- DatedOptions.maxRolls, maxFileSize <- DatedOptions.maxFileSize,
    Interval <- DatedOptions.Interval, MaxWrites <- DatedOptions.MaxWrites,
    MaxFailures <- DatedOptions.MaxFailures, MaxCrashes <- DatedOptions.MaxCrashes,
    MaxClock <- DatedOptions.MaxClock

\* The part W is the one of WProofs.
LEMMA WSame ==
    /\ W!WritersAssumption <=> WProofs!WritersAssumption
    /\ W!Init <=> WProofs!Init
    /\ W!Next <=> WProofs!Next
    /\ W!TypeOK <=> WProofs!TypeOK
    /\ W!Accounted <=> WProofs!Accounted
<1>1. W!WritersAssumption <=> WProofs!WritersAssumption
  BY DEF W!WritersAssumption, WProofs!WritersAssumption
<1>2. W!Init <=> WProofs!Init
  BY DEF W!Init, WProofs!Init
<1>3. W!Next <=> WProofs!Next
  BY DEF
    W!Next, W!innerVars, W!Deliver, W!Fault, W!FileWrite, W!FileFails, W!neddedConnectOnMsg,
    W!AfterWrite, W!ConnWrite, W!ConnFails, W!InnerWrite, W!InnerFails, W!Release, W!Write,
    W!Flush, W!FlushInnerFails, W!FlushInner, W!AppendToBuffer, W!Chunk, W!Close, W!Work,
    WProofs!Next, WProofs!innerVars, WProofs!Deliver, WProofs!Fault, WProofs!FileWrite,
    WProofs!FileFails, WProofs!neddedConnectOnMsg, WProofs!AfterWrite, WProofs!ConnWrite,
    WProofs!ConnFails, WProofs!InnerWrite, WProofs!InnerFails, WProofs!Release, WProofs!Write,
    WProofs!Flush, WProofs!FlushInnerFails, WProofs!FlushInner, WProofs!AppendToBuffer,
    WProofs!Chunk, WProofs!Close, WProofs!Work
<1>4. W!TypeOK <=> WProofs!TypeOK
  BY DEF W!TypeOK, WProofs!TypeOK
<1>5. W!Accounted <=> WProofs!Accounted
  BY DEF
    W!Accounted, W!InOrder, W!HeldOrDelivered, W!Refused, W!LossBounded, W!Range,
    W!Cardinality, W!IsFiniteSet, WProofs!Accounted, WProofs!InOrder, WProofs!HeldOrDelivered,
    WProofs!Refused, WProofs!LossBounded, WProofs!Range, WProofs!Cardinality,
    WProofs!IsFiniteSet
<1> QED  BY <1>1, <1>2, <1>3, <1>4, <1>5

\* The part Conn is the one of ConnProofs.
LEMMA ConnSame ==
    /\ Conn!WritersAssumption <=> ConnProofs!WritersAssumption
    /\ W!Init <=> ConnProofs!Init
    /\ Conn!Next <=> ConnProofs!Next
    /\ Conn!TypeOK <=> ConnProofs!TypeOK
    /\ Conn!Accounted <=> ConnProofs!Accounted
<1>1. Conn!WritersAssumption <=> ConnProofs!WritersAssumption
  BY DEF Conn!WritersAssumption, ConnProofs!WritersAssumption
<1>2. W!Init <=> ConnProofs!Init
  BY DEF W!Init, ConnProofs!Init
<1>3. Conn!Next <=> ConnProofs!Next
  BY DEF
    Conn!Next, Conn!innerVars, Conn!Deliver, Conn!Fault, Conn!FileWrite, Conn!FileFails,
    Conn!neddedConnectOnMsg, Conn!AfterWrite, Conn!ConnWrite, Conn!ConnFails, Conn!InnerWrite,
    Conn!InnerFails, Conn!Release, Conn!Write, Conn!Flush, Conn!FlushInnerFails,
    Conn!FlushInner, Conn!AppendToBuffer, Conn!Chunk, Conn!Close, Conn!Work, ConnProofs!Next,
    ConnProofs!innerVars, ConnProofs!Deliver, ConnProofs!Fault, ConnProofs!FileWrite,
    ConnProofs!FileFails, ConnProofs!neddedConnectOnMsg, ConnProofs!AfterWrite,
    ConnProofs!ConnWrite, ConnProofs!ConnFails, ConnProofs!InnerWrite, ConnProofs!InnerFails,
    ConnProofs!Release, ConnProofs!Write, ConnProofs!Flush, ConnProofs!FlushInnerFails,
    ConnProofs!FlushInner, ConnProofs!AppendToBuffer, ConnProofs!Chunk, ConnProofs!Close,
    ConnProofs!Work
<1>4. Conn!TypeOK <=> ConnProofs!TypeOK
  BY DEF Conn!TypeOK, ConnProofs!TypeOK
<1>5. Conn!Accounted <=> ConnProofs!Accounted
  BY DEF
    Conn!Accounted, Conn!InOrder, Conn!HeldOrDelivered, Conn!Refused, Conn!LossBounded,
    Conn!Range, Conn!Cardinality, Conn!IsFiniteSet, ConnProofs!Accounted, ConnProofs!InOrder,
    ConnProofs!HeldOrDelivered, ConnProofs!Refused, ConnProofs!LossBounded, ConnProofs!Range,
    ConnProofs!Cardinality, ConnProofs!IsFiniteSet
<1> QED  BY <1>1, <1>2, <1>3, <1>4, <1>5

\* The part Zipped is the one of ZippedProofs.
LEMMA ZippedSame ==
    /\ Zipped!RollingAssumption <=> ZippedProofs!RollingAssumption
    /\ Zipped!Init <=> ZippedProofs!Init
    /\ Zipped!Next <=> ZippedProofs!Next
    /\ Zipped!TypeOK <=> ZippedProofs!TypeOK
    /\ Zipped!RollsInOrder <=> ZippedProofs!RollsInOrder
<1>1. Zipped!RollingAssumption <=> ZippedProofs!RollingAssumption
  BY DEF Zipped!RollingAssumption, ZippedProofs!RollingAssumption
<1>2. Zipped!Init <=> ZippedProofs!Init
  BY DEF Zipped!Init, ZippedProofs!Init
<1>3. Zipped!Next <=> ZippedProofs!Next
  BY DEF
    Zipped!Next, Zipped!diskVars, Zipped!memoryVars, Zipped!boundVars, Zipped!Goto,
    Zipped!Without, Zipped!With, Zipped!Fail, Zipped!Write, Zipped!CurrentName,
    Zipped!Create, Zipped!CreateFails, Zipped!OpenFails, Zipped!needsToRoll, Zipped!Check,
    Zipped!CheckFails, Zipped!getDirFilePaths, Zipped!isFileTailValid,
    Zipped!sortFileTailsAsc, Zipped!getSortedLogHistory, Zipped!newHistoryName,
    Zipped!History, Zipped!Rename, Zipped!toDelete, Zipped!Trim, Zipped!RemoveArchive,
    Zipped!ReadRolls, Zipped!CreateZip, Zipped!RemoveRoll, Zipped!Replacing,
    Zipped!RollFails, Zipped!AppendMessage, Zipped!AppendFails, Zipped!Close, Zipped!Crash,
    Zipped!Tick, Zipped!Range, Zipped!Cardinality, Zipped!IsFiniteSet, Zipped!ToSet,
    Zipped!Last, Zipped!Restrict, Zipped!CreateBlind, Zipped!TrimBlind, Zipped!BreakOff,
    Zipped!MessagesIn, Zipped!Messages, Zipped!Archived, ZippedProofs!Next,
    ZippedProofs!diskVars, ZippedProofs!memoryVars, ZippedProofs!boundVars,
    ZippedProofs!Goto, ZippedProofs!Without, ZippedProofs!With, ZippedProofs!Fail,
    ZippedProofs!Write, ZippedProofs!CurrentName, ZippedProofs!Create,
    ZippedProofs!CreateFails, ZippedProofs!OpenFails, ZippedProofs!needsToRoll,
    ZippedProofs!Check, ZippedProofs!CheckFails, ZippedProofs!getDirFilePaths,
    ZippedProofs!isFileTailValid, ZippedProofs!sortFileTailsAsc,
    ZippedProofs!getSortedLogHistory, ZippedProofs!newHistoryName, ZippedProofs!History,
    ZippedProofs!Rename, ZippedProofs!toDelete, ZippedProofs!Trim,
    ZippedProofs!RemoveArchive, ZippedProofs!ReadRolls, ZippedProofs!CreateZip,
    ZippedProofs!RemoveRoll, ZippedProofs!Replacing, ZippedProofs!RollFails,
    ZippedProofs!AppendMessage, ZippedProofs!AppendFails, ZippedProofs!Close,
    ZippedProofs!Crash, ZippedProofs!Tick, ZippedProofs!Range, ZippedProofs!Cardinality,
    ZippedProofs!IsFiniteSet, ZippedProofs!ToSet, ZippedProofs!Last, ZippedProofs!Restrict,
    ZippedProofs!CreateBlind, ZippedProofs!TrimBlind, ZippedProofs!BreakOff,
    ZippedProofs!MessagesIn, ZippedProofs!Messages, ZippedProofs!Archived
<1>4. Zipped!TypeOK <=> ZippedProofs!TypeOK
  BY DEF Zipped!TypeOK, ZippedProofs!TypeOK
<1>5. Zipped!RollsInOrder <=> ZippedProofs!RollsInOrder
  BY DEF
    Zipped!RollsInOrder, Zipped!ReadsInOrder, Zipped!NothingLost, Zipped!OldestGoFirst,
    Zipped!RollsBounded, Zipped!Messages, Zipped!Archived, Zipped!Order, Zipped!Replacing,
    Zipped!Range, Zipped!Cardinality, Zipped!IsFiniteSet, Zipped!ToSet, Zipped!Last,
    Zipped!Restrict, Zipped!MessagesIn, ZippedProofs!RollsInOrder,
    ZippedProofs!ReadsInOrder, ZippedProofs!NothingLost, ZippedProofs!OldestGoFirst,
    ZippedProofs!RollsBounded, ZippedProofs!Messages, ZippedProofs!Archived,
    ZippedProofs!Order, ZippedProofs!Replacing, ZippedProofs!Range,
    ZippedProofs!Cardinality, ZippedProofs!IsFiniteSet, ZippedProofs!ToSet,
    ZippedProofs!Last, ZippedProofs!Restrict, ZippedProofs!MessagesIn
<1> QED  BY <1>1, <1>2, <1>3, <1>4, <1>5

\* The part Unlimited is the one of UnlimitedProofs.
LEMMA UnlimitedSame ==
    /\ Unlimited!RollingAssumption <=> UnlimitedProofs!RollingAssumption
    /\ Zipped!Init <=> UnlimitedProofs!Init
    /\ Unlimited!Next <=> UnlimitedProofs!Next
    /\ Unlimited!TypeOK <=> UnlimitedProofs!TypeOK
    /\ Unlimited!RollsInOrder <=> UnlimitedProofs!RollsInOrder
<1>1. Unlimited!RollingAssumption <=> UnlimitedProofs!RollingAssumption
  BY DEF Unlimited!RollingAssumption, UnlimitedProofs!RollingAssumption
<1>2. Zipped!Init <=> UnlimitedProofs!Init
  BY DEF Zipped!Init, UnlimitedProofs!Init
<1>3. Unlimited!Next <=> UnlimitedProofs!Next
  BY DEF
    Unlimited!Next, Unlimited!diskVars, Unlimited!memoryVars, Unlimited!boundVars,
    Unlimited!Goto, Unlimited!Without, Unlimited!With, Unlimited!Fail, Unlimited!Write,
    Unlimited!CurrentName, Unlimited!Create, Unlimited!CreateFails, Unlimited!OpenFails,
    Unlimited!needsToRoll, Unlimited!Check, Unlimited!CheckFails, Unlimited!getDirFilePaths,
    Unlimited!isFileTailValid, Unlimited!sortFileTailsAsc, Unlimited!getSortedLogHistory,
    Unlimited!newHistoryName, Unlimited!History, Unlimited!Rename, Unlimited!toDelete,
    Unlimited!Trim, Unlimited!RemoveArchive, Unlimited!ReadRolls, Unlimited!CreateZip,
    Unlimited!RemoveRoll, Unlimited!Replacing, Unlimited!RollFails, Unlimited!AppendMessage,
    Unlimited!AppendFails, Unlimited!Close, Unlimited!Crash, Unlimited!Tick,
    Unlimited!Range, Unlimited!Cardinality, Unlimited!IsFiniteSet, Unlimited!ToSet,
    Unlimited!Last, Unlimited!Restrict, Unlimited!CreateBlind, Unlimited!TrimBlind,
    Unlimited!BreakOff, Unlimited!MessagesIn, Unlimited!Messages, Unlimited!Archived,
    UnlimitedProofs!Next, UnlimitedProofs!diskVars, UnlimitedProofs!memoryVars,
    UnlimitedProofs!boundVars, UnlimitedProofs!Goto, UnlimitedProofs!Without,
    UnlimitedProofs!With, UnlimitedProofs!Fail, UnlimitedProofs!Write,
    UnlimitedProofs!CurrentName, UnlimitedProofs!Create, UnlimitedProofs!CreateFails,
    UnlimitedProofs!OpenFails, UnlimitedProofs!needsToRoll, UnlimitedProofs!Check,
    UnlimitedProofs!CheckFails, UnlimitedProofs!getDirFilePaths,
    UnlimitedProofs!isFileTailValid, UnlimitedProofs!sortFileTailsAsc,
    UnlimitedProofs!getSortedLogHistory, UnlimitedProofs!newHistoryName,
    UnlimitedProofs!History, UnlimitedProofs!Rename, UnlimitedProofs!toDelete,
    UnlimitedProofs!Trim, UnlimitedProofs!RemoveArchive, UnlimitedProofs!ReadRolls,
    UnlimitedProofs!CreateZip, UnlimitedProofs!RemoveRoll, UnlimitedProofs!Replacing,
    UnlimitedProofs!RollFails, UnlimitedProofs!AppendMessage, UnlimitedProofs!AppendFails,
    UnlimitedProofs!Close, UnlimitedProofs!Crash, UnlimitedProofs!Tick,
    UnlimitedProofs!Range, UnlimitedProofs!Cardinality, UnlimitedProofs!IsFiniteSet,
    UnlimitedProofs!ToSet, UnlimitedProofs!Last, UnlimitedProofs!Restrict,
    UnlimitedProofs!CreateBlind, UnlimitedProofs!TrimBlind, UnlimitedProofs!BreakOff,
    UnlimitedProofs!MessagesIn, UnlimitedProofs!Messages, UnlimitedProofs!Archived
<1>4. Unlimited!TypeOK <=> UnlimitedProofs!TypeOK
  BY DEF Unlimited!TypeOK, UnlimitedProofs!TypeOK
<1>5. Unlimited!RollsInOrder <=> UnlimitedProofs!RollsInOrder
  BY DEF
    Unlimited!RollsInOrder, Unlimited!ReadsInOrder, Unlimited!NothingLost,
    Unlimited!OldestGoFirst, Unlimited!RollsBounded, Unlimited!Messages, Unlimited!Archived,
    Unlimited!Order, Unlimited!Replacing, Unlimited!Range, Unlimited!Cardinality,
    Unlimited!IsFiniteSet, Unlimited!ToSet, Unlimited!Last, Unlimited!Restrict,
    Unlimited!MessagesIn, UnlimitedProofs!RollsInOrder, UnlimitedProofs!ReadsInOrder,
    UnlimitedProofs!NothingLost, UnlimitedProofs!OldestGoFirst,
    UnlimitedProofs!RollsBounded, UnlimitedProofs!Messages, UnlimitedProofs!Archived,
    UnlimitedProofs!Order, UnlimitedProofs!Replacing, UnlimitedProofs!Range,
    UnlimitedProofs!Cardinality, UnlimitedProofs!IsFiniteSet, UnlimitedProofs!ToSet,
    UnlimitedProofs!Last, UnlimitedProofs!Restrict, UnlimitedProofs!MessagesIn
<1> QED  BY <1>1, <1>2, <1>3, <1>4, <1>5

\* The part Dated is the one of DatedProofs.
LEMMA DatedSame ==
    /\ Dated!RollingAssumption <=> DatedProofs!RollingAssumption
    /\ Zipped!Init <=> DatedProofs!Init
    /\ Dated!Next <=> DatedProofs!Next
    /\ Dated!TypeOK <=> DatedProofs!TypeOK
    /\ Dated!RollsInOrder <=> DatedProofs!RollsInOrder
<1>1. Dated!RollingAssumption <=> DatedProofs!RollingAssumption
  BY DEF Dated!RollingAssumption, DatedProofs!RollingAssumption
<1>2. Zipped!Init <=> DatedProofs!Init
  BY DEF Zipped!Init, DatedProofs!Init
<1>3. Dated!Next <=> DatedProofs!Next
  BY DEF
    Dated!Next, Dated!diskVars, Dated!memoryVars, Dated!boundVars, Dated!Goto,
    Dated!Without, Dated!With, Dated!Fail, Dated!Write, Dated!CurrentName, Dated!Create,
    Dated!CreateFails, Dated!OpenFails, Dated!needsToRoll, Dated!Check, Dated!CheckFails,
    Dated!getDirFilePaths, Dated!isFileTailValid, Dated!sortFileTailsAsc,
    Dated!getSortedLogHistory, Dated!newHistoryName, Dated!History, Dated!Rename,
    Dated!toDelete, Dated!Trim, Dated!RemoveArchive, Dated!ReadRolls, Dated!CreateZip,
    Dated!RemoveRoll, Dated!Replacing, Dated!RollFails, Dated!AppendMessage,
    Dated!AppendFails, Dated!Close, Dated!Crash, Dated!Tick, Dated!Range, Dated!Cardinality,
    Dated!IsFiniteSet, Dated!ToSet, Dated!Last, Dated!Restrict, Dated!CreateBlind,
    Dated!TrimBlind, Dated!BreakOff, Dated!MessagesIn, Dated!Messages, Dated!Archived,
    DatedProofs!Next, DatedProofs!diskVars, DatedProofs!memoryVars, DatedProofs!boundVars,
    DatedProofs!Goto, DatedProofs!Without, DatedProofs!With, DatedProofs!Fail,
    DatedProofs!Write, DatedProofs!CurrentName, DatedProofs!Create, DatedProofs!CreateFails,
    DatedProofs!OpenFails, DatedProofs!needsToRoll, DatedProofs!Check,
    DatedProofs!CheckFails, DatedProofs!getDirFilePaths, DatedProofs!isFileTailValid,
    DatedProofs!sortFileTailsAsc, DatedProofs!getSortedLogHistory,
    DatedProofs!newHistoryName, DatedProofs!History, DatedProofs!Rename,
    DatedProofs!toDelete, DatedProofs!Trim, DatedProofs!RemoveArchive,
    DatedProofs!ReadRolls, DatedProofs!CreateZip, DatedProofs!RemoveRoll,
    DatedProofs!Replacing, DatedProofs!RollFails, DatedProofs!AppendMessage,
    DatedProofs!AppendFails, DatedProofs!Close, DatedProofs!Crash, DatedProofs!Tick,
    DatedProofs!Range, DatedProofs!Cardinality, DatedProofs!IsFiniteSet, DatedProofs!ToSet,
    DatedProofs!Last, DatedProofs!Restrict, DatedProofs!CreateBlind, DatedProofs!TrimBlind,
    DatedProofs!BreakOff, DatedProofs!MessagesIn, DatedProofs!Messages, DatedProofs!Archived
<1>4. Dated!TypeOK <=> DatedProofs!TypeOK
  BY DEF Dated!TypeOK, DatedProofs!TypeOK
<1>5. Dated!RollsInOrder <=> DatedProofs!RollsInOrder
  BY DEF
    Dated!RollsInOrder, Dated!ReadsInOrder, Dated!NothingLost, Dated!OldestGoFirst,
    Dated!RollsBounded, Dated!Messages, Dated!Archived, Dated!Order, Dated!Replacing,
    Dated!Range, Dated!Cardinality, Dated!IsFiniteSet, Dated!ToSet, Dated!Last,
    Dated!Restrict, Dated!MessagesIn, DatedProofs!RollsInOrder, DatedProofs!ReadsInOrder,
    DatedProofs!NothingLost, DatedProofs!OldestGoFirst, DatedProofs!RollsBounded,
    DatedProofs!Messages, DatedProofs!Archived, DatedProofs!Order, DatedProofs!Replacing,
    DatedProofs!Range, DatedProofs!Cardinality, DatedProofs!IsFiniteSet, DatedProofs!ToSet,
    DatedProofs!Last, DatedProofs!Restrict, DatedProofs!MessagesIn
<1> QED  BY <1>1, <1>2, <1>3, <1>4, <1>5

\* A part that moves stays the one that does.
LEMMA OnePartMoves == ASSUME [OutputNext]_outputVars PROVE part' = part
BY DEF OutputNext, outputVars

\* The writer moves in its own part only, and the same goes for the others.
LEMMA WritersMove ==
    ASSUME [OutputNext]_outputVars
    PROVE  /\ part # "conn" => [WProofs!Next]_(WProofs!vars)
           /\ part = "conn" => [ConnProofs!Next]_(ConnProofs!vars)
<1>1. CASE UNCHANGED writerVars
  BY <1>1 DEF writerVars, WProofs!vars, WProofs!innerVars, ConnProofs!vars, ConnProofs!innerVars
<1>2. CASE part = "file" /\ W!Next
  BY <1>2, WSame
<1>3. CASE part = "conn" /\ Conn!Next
  BY <1>3, ConnSame
<1>4. CASE UNCHANGED outputVars
  BY <1>1, <1>4 DEF outputVars
<1> QED  BY <1>1, <1>2, <1>3, <1>4 DEF OutputNext

LEMMA FilesMove ==
    ASSUME [OutputNext]_outputVars
    PROVE  /\ part = "zipped" => [ZippedProofs!Next]_(ZippedProofs!vars)
           /\ part \notin {"zipped", "dated"} => [UnlimitedProofs!Next]_(UnlimitedProofs!vars)
           /\ part = "dated" => [DatedProofs!Next]_(DatedProofs!vars)
<1>1. CASE UNCHANGED rollingVars
  BY <1>1 DEF rollingVars,
    ZippedProofs!vars, ZippedProofs!diskVars, ZippedProofs!memoryVars, ZippedProofs!boundVars,
    UnlimitedProofs!vars, UnlimitedProofs!diskVars, UnlimitedProofs!memoryVars,
    UnlimitedProofs!boundVars,
    DatedProofs!vars, DatedProofs!diskVars, DatedProofs!memoryVars, DatedProofs!boundVars
<1>2. CASE part = "zipped" /\ Zipped!Next
  BY <1>2, ZippedSame
<1>3. CASE part = "unlimited" /\ Unlimited!Next
  BY <1>3, UnlimitedSame
<1>4. CASE part = "dated" /\ Dated!Next
  BY <1>4, DatedSame
<1>5. CASE UNCHANGED outputVars
  BY <1>1, <1>5 DEF outputVars
<1> QED  BY <1>1, <1>2, <1>3, <1>4, <1>5 DEF OutputNext

\* Whichever writer moves, it keeps its type and accounts for its messages.
LEMMA OutputWriters ==
    ASSUME OutputAssumption
    PROVE  OutputSpec => []((IF part = "conn" THEN Conn!TypeOK ELSE W!TypeOK) /\ Accounted)
<1> DEFINE Good == (IF part = "conn" THEN Conn!TypeOK ELSE W!TypeOK) /\ Accounted
           IsConn == part = "conn"
<1>1. WProofs!WritersAssumption /\ ConnProofs!WritersAssumption
  BY WSame, ConnSame DEF OutputAssumption
<1>2. OutputInit => WProofs!Init /\ ConnProofs!Init
  BY WSame, ConnSame DEF OutputInit
<1>3. [OutputNext]_outputVars =>
        /\ ~IsConn => [WProofs!Next]_(WProofs!vars)
        /\ IsConn => [ConnProofs!Next]_(ConnProofs!vars)
        /\ IsConn' <=> IsConn
  BY WritersMove, OnePartMoves
<1>4. WProofs!Spec => [](WProofs!TypeOK /\ WProofs!Accounted)
  BY <1>1, WProofs!WritersAccount, WProofs!WritersTypeOK, PTL
<1>5. ConnProofs!Spec => [](ConnProofs!TypeOK /\ ConnProofs!Accounted)
  BY <1>1, ConnProofs!WritersAccount, ConnProofs!WritersTypeOK, PTL
<1>6. ~IsConn /\ WProofs!TypeOK /\ WProofs!Accounted => Good
  BY WSame DEF Accounted
<1>7. IsConn /\ ConnProofs!TypeOK /\ ConnProofs!Accounted => Good
  BY ConnSame DEF Accounted
<1> HIDE DEF Good, IsConn
<1>8. OutputSpec /\ ~IsConn => WProofs!Spec /\ []~IsConn
  BY <1>2, <1>3, PTL DEF OutputSpec, WProofs!Spec
<1>9. OutputSpec /\ IsConn => ConnProofs!Spec /\ []IsConn
  BY <1>2, <1>3, PTL DEF OutputSpec, ConnProofs!Spec
<1>10. OutputSpec => []Good
  BY <1>4, <1>5, <1>6, <1>7, <1>8, <1>9, PTL
<1> QED  BY <1>10 DEF Good


\* Whichever files roll, they keep their types and the order of the messages.
LEMMA OutputFiles ==
    ASSUME OutputAssumption
    PROVE  OutputSpec => []((CASE part = "zipped" -> Zipped!TypeOK
                               [] part = "dated" -> Dated!TypeOK
                               [] OTHER -> Unlimited!TypeOK) /\ RollsInOrder)
<1> DEFINE Good == (CASE part = "zipped" -> Zipped!TypeOK
                      [] part = "dated" -> Dated!TypeOK
                      [] OTHER -> Unlimited!TypeOK) /\ RollsInOrder
           Zips == part = "zipped"
           Dates == part = "dated"
<1>1. /\ ZippedProofs!RollingAssumption /\ UnlimitedProofs!RollingAssumption
      /\ DatedProofs!RollingAssumption
  BY ZippedSame, UnlimitedSame, DatedSame DEF OutputAssumption
<1>2. OutputInit => ZippedProofs!Init /\ UnlimitedProofs!Init /\ DatedProofs!Init
  BY ZippedSame, UnlimitedSame, DatedSame DEF OutputInit
<1>3. [OutputNext]_outputVars =>
        /\ Zips => [ZippedProofs!Next]_(ZippedProofs!vars)
        /\ ~Zips /\ ~Dates => [UnlimitedProofs!Next]_(UnlimitedProofs!vars)
        /\ Dates => [DatedProofs!Next]_(DatedProofs!vars)
        /\ (Zips' <=> Zips) /\ (Dates' <=> Dates)
  BY FilesMove, OnePartMoves
<1>4. ZippedProofs!Spec => [](ZippedProofs!TypeOK /\ ZippedProofs!RollsInOrder)
  BY <1>1, ZippedProofs!RollsKeepOrder, ZippedProofs!FilesTypeOK, PTL
<1>5. UnlimitedProofs!Spec => [](UnlimitedProofs!TypeOK /\ UnlimitedProofs!RollsInOrder)
  BY <1>1, UnlimitedProofs!RollsKeepOrder, UnlimitedProofs!FilesTypeOK, PTL
<1>6. DatedProofs!Spec => [](DatedProofs!TypeOK /\ DatedProofs!RollsInOrder)
  BY <1>1, DatedProofs!RollsKeepOrder, DatedProofs!FilesTypeOK, PTL
<1>7. /\ Zips /\ ZippedProofs!TypeOK /\ ZippedProofs!RollsInOrder => Good
      /\ ~Zips /\ ~Dates /\ UnlimitedProofs!TypeOK /\ UnlimitedProofs!RollsInOrder => Good
      /\ Dates /\ DatedProofs!TypeOK /\ DatedProofs!RollsInOrder => Good
  BY ZippedSame, UnlimitedSame, DatedSame DEF RollsInOrder
<1> HIDE DEF Good, Zips, Dates
<1>8. OutputSpec /\ Zips => ZippedProofs!Spec /\ []Zips
  BY <1>2, <1>3, PTL DEF OutputSpec, ZippedProofs!Spec
<1>9. OutputSpec /\ ~Zips /\ ~Dates => UnlimitedProofs!Spec /\ [](~Zips /\ ~Dates)
  BY <1>2, <1>3, PTL DEF OutputSpec, UnlimitedProofs!Spec
<1>10. OutputSpec /\ Dates => DatedProofs!Spec /\ []Dates
  BY <1>2, <1>3, PTL DEF OutputSpec, DatedProofs!Spec
<1>11. OutputSpec => []Good
  BY <1>4, <1>5, <1>6, <1>7, <1>8, <1>9, <1>10, PTL
<1> QED  BY <1>11 DEF Good

\* Behind a logger every part keeps its types, whatever the options of the others.
THEOREM OutputKeepsTypes == OutputAssumption => (OutputSpec => []OutputTypeOK)
<1> SUFFICES ASSUME OutputAssumption PROVE OutputSpec => []OutputTypeOK
  OBVIOUS
<1>1. Spec => []TypeOK
  BY DispatchTypeOK DEF OutputAssumption
<1>2. OutputSpec => Spec
  <2>1. OutputInit => Init
    BY DEF OutputInit
  <2>2. [OutputNext]_outputVars => [Next]_vars
    BY DEF OutputNext, outputVars
  <2> QED  BY <2>1, <2>2, PTL DEF OutputSpec, Spec
<1> DEFINE WriterFits == IF part = "conn" THEN Conn!TypeOK ELSE W!TypeOK
           FilesFit == CASE part = "zipped" -> Zipped!TypeOK
                         [] part = "dated" -> Dated!TypeOK
                         [] OTHER -> Unlimited!TypeOK
<1>3. TypeOK /\ WriterFits /\ FilesFit => OutputTypeOK
  BY DEF OutputTypeOK
<1>4. OutputSpec => [](WriterFits /\ Accounted)
  BY OutputWriters
<1>5. OutputSpec => [](FilesFit /\ RollsInOrder)
  BY OutputFiles
<1> HIDE DEF WriterFits, FilesFit
<1> QED  BY <1>1, <1>2, <1>3, <1>4, <1>5, PTL

\* Buffered or not, to a file or over a connection, with any bounds: what a writer accepted
\* arrives in order or is in its buffer, and a broken connection costs only the messages that
\* show it.
THEOREM OutputIsAccounted == OutputAssumption => (OutputSpec => []Accounted)
<1> SUFFICES ASSUME OutputAssumption PROVE OutputSpec => []Accounted
  OBVIOUS
<1> QED  BY OutputWriters, PTL

\* By size or by date, archived or not, with any number of rolls, failures and crashes: the
\* files give the messages in the order of the log, and none is missing but the oldest and
\* those of a file or an archive that Lstat did not see or that was in memory only.
THEOREM OutputRollsInOrder == OutputAssumption => (OutputSpec => []RollsInOrder)
<1> SUFFICES ASSUME OutputAssumption PROVE OutputSpec => []RollsInOrder
  OBVIOUS
<1> QED  BY OutputFiles, PTL
=============================================================================
