------------------------- MODULE SubtreeScanProofs --------------------------
(***************************************************************************)
(* Theorems about SubtreeScan, for any number of workers: mark_as_idle     *)
(* strikes out the subtree, and a walk level by level visits the same.     *)
(*                                                                         *)
(* A level is an interval of workers.  Its children are the next interval, *)
(* twice as wide, cut off where the workers end, so that the walk is right *)
(* if each level is entered with the right leftmost worker and width.      *)
(***************************************************************************)
EXTENDS SubtreeScan, FiniteSetTheorems, WellFoundedInduction, TLAPS

-----------------------------------------------------------------------------
(* Counting up and down *)

LEMMA LeastNumber ==
    ASSUME NEW S, S \subseteq Nat, S # {}
    PROVE  \E n \in S : \A m \in S : ~(m < n)
<1>1. PICK n \in S : \A m \in S : ~(<<m, n>> \in OpToRel(<, Nat))
  BY NatLessThanWellFounded, WFMin, Zenon
<1>2. \A m \in Nat : m < n => <<m, n>> \in OpToRel(<, Nat)
  BY DEF OpToRel
<1> QED BY <1>1, <1>2, Zenon

\* Every number up to n is in a set that has 0 and the successor of each of them.
LEMMA UpTo ==
    ASSUME NEW n \in Nat, NEW G, 0 \in G, \A k \in 0 .. n - 1 : k \in G => k + 1 \in G
    PROVE  \A k \in 0 .. n : k \in G
<1> DEFINE S == {k \in 0 .. n : k \notin G}
<1>1. ASSUME NEW k \in S, \A j \in S : ~(j < k) PROVE FALSE
  <2>1. k # 0
    OBVIOUS
  <2>2. k - 1 \in 0 .. n - 1 /\ k - 1 \in 0 .. n /\ k - 1 < k /\ k - 1 + 1 = k
    BY <2>1
  <2>3. k - 1 \in G
    BY <1>1, <2>2
  <2> QED BY <2>2, <2>3
<1>2. S \subseteq Nat
  OBVIOUS
<1>3. S = {}
  <2> HIDE DEF S
  <2> QED BY <1>1, <1>2, LeastNumber
<1> QED BY <1>3

\* Every worker is in a set that has a worker if it has all greater ones.
LEMMA FromTheLast ==
    ASSUME NEW n \in Nat, NEW G,
           \A w \in 0 .. n - 1 : (\A v \in 0 .. n - 1 : w < v => v \in G) => w \in G
    PROVE  \A w \in 0 .. n - 1 : w \in G
<1> DEFINE S == {k \in 0 .. n - 1 : n - 1 - k \notin G}
<1>1. ASSUME NEW k \in S, \A j \in S : ~(j < k) PROVE FALSE
  <2>1. n - 1 - k \in 0 .. n - 1
    OBVIOUS
  <2>2. ASSUME NEW v \in 0 .. n - 1, n - 1 - k < v PROVE v \in G
    <3>1. n - 1 - v \in 0 .. n - 1 /\ n - 1 - v < k /\ n - 1 - (n - 1 - v) = v
      BY <2>2
    <3>2. n - 1 - v \notin S
      BY <1>1, <3>1
    <3> QED BY <3>1, <3>2
  <2> QED BY <2>1, <2>2
<1>2. S \subseteq Nat
  OBVIOUS
<1>3. S = {}
  <2> HIDE DEF S
  <2> QED BY <1>1, <1>2, LeastNumber
<1>4. ASSUME NEW w \in 0 .. n - 1 PROVE w \in G
  <2>1. n - 1 - w \in 0 .. n - 1 /\ n - 1 - (n - 1 - w) = w
    OBVIOUS
  <2>2. n - 1 - w \notin S
    BY <1>3
  <2>3. n - 1 - (n - 1 - w) \in G
    BY <2>1, <2>2
  <2> QED BY <2>1, <2>3
<1> QED BY <1>4

-----------------------------------------------------------------------------
(* The width of a level *)

Shifted(f, n) == f = [k \in 0 .. n |-> IF k = 0 THEN 1 ELSE 2 * f[k - 1]]

LEMMA ShiftedExists ==
    ASSUME NEW n \in Nat
    PROVE  \E f : Shifted(f, n)
<1> DEFINE G == {k \in Nat : \E f : Shifted(f, k)}
<1>1. 0 \in G
  <2>1. Shifted([k \in 0 .. 0 |-> 1], 0)
    BY DEF Shifted
  <2> QED BY <2>1
<1>2. ASSUME NEW k \in 0 .. n - 1, k \in G PROVE k + 1 \in G
  <2>1. PICK f : Shifted(f, k)
    BY <1>2
  <2> DEFINE g == [j \in 0 .. k + 1 |-> IF j = 0 THEN 1 ELSE 2 * f[j - 1]]
  <2>2. k \in Nat /\ k + 1 \in Nat
    OBVIOUS
  <2>3. \A j \in 0 .. k : g[j] = f[j]
    BY <2>1, <2>2 DEF Shifted
  <2>4. \A j \in 0 .. k + 1 : j # 0 => j - 1 \in 0 .. k
    BY <2>2
  <2>5. Shifted(g, k + 1)
    BY <2>3, <2>4 DEF Shifted
  <2> HIDE DEF g
  <2> QED BY <2>2, <2>5
<1> HIDE DEF G
<1>3. \A k \in 0 .. n : k \in G
  BY <1>1, <1>2, UpTo
<1> QED BY <1>3 DEF G

\* The width is that of any function that doubles up to there.
LEMMA WidthIs ==
    ASSUME NEW n \in Nat
    PROVE  \E f : Shifted(f, n) /\ Width(n) = f[n]
<1> DEFINE f == CHOOSE g : g = [k \in 0 .. n |-> IF k = 0 THEN 1 ELSE 2 * g[k - 1]]
<1>1. Shifted(f, n)
  <2>1. \E g : g = [k \in 0 .. n |-> IF k = 0 THEN 1 ELSE 2 * g[k - 1]]
    BY ShiftedExists DEF Shifted
  <2>2. f = [k \in 0 .. n |-> IF k = 0 THEN 1 ELSE 2 * f[k - 1]]
    BY <2>1
  <2> QED BY <2>2 DEF Shifted
<1>2. Width(n) = f[n]
  BY DEF Width
<1> QED BY <1>1, <1>2

\* Two such functions agree.
LEMMA ShiftedAgree ==
    ASSUME NEW n \in Nat, NEW m \in Nat, n <= m, NEW f, NEW g, Shifted(f, n), Shifted(g, m)
    PROVE  \A k \in 0 .. n : f[k] = g[k] /\ f[k] \in Nat
<1> DEFINE G == {k \in Nat : f[k] = g[k] /\ f[k] \in Nat}
<1>1. 0 \in G
  BY DEF Shifted
<1>2. ASSUME NEW k \in 0 .. n - 1, k \in G PROVE k + 1 \in G
  <2>1. k + 1 \in 0 .. n /\ k + 1 \in 0 .. m /\ k + 1 # 0 /\ k + 1 - 1 = k
    OBVIOUS
  <2>2. f[k + 1] = 2 * f[k]
    BY <2>1 DEF Shifted
  <2>3. g[k + 1] = 2 * g[k]
    BY <2>1 DEF Shifted
  <2> QED BY <1>2, <2>1, <2>2, <2>3
<1> HIDE DEF G
<1>3. \A k \in 0 .. n : k \in G
  BY <1>1, <1>2, UpTo
<1> QED BY <1>3 DEF G

\* 1 << 0 is 1, and 1 << (lvl + 1) is twice 1 << lvl.
LEMMA WidthDoubles ==
    /\ Width(0) = 1
    /\ \A n \in Nat : Width(n) \in Nat /\ Width(n + 1) = 2 * Width(n)
<1>1. Width(0) = 1
  <2>1. PICK f : Shifted(f, 0) /\ Width(0) = f[0]
    BY WidthIs
  <2> QED BY <2>1 DEF Shifted
<1>2. ASSUME NEW n \in Nat PROVE Width(n) \in Nat /\ Width(n + 1) = 2 * Width(n)
  <2>1. PICK f : Shifted(f, n) /\ Width(n) = f[n]
    BY WidthIs
  <2>2. PICK g : Shifted(g, n + 1) /\ Width(n + 1) = g[n + 1]
    BY WidthIs
  <2>3. f[n] = g[n] /\ f[n] \in Nat
    BY <2>1, <2>2, ShiftedAgree
  <2>4. g[n + 1] = 2 * g[n]
    BY <2>2 DEF Shifted
  <2> QED BY <2>1, <2>2, <2>3, <2>4
<1> QED BY <1>1, <1>2

-----------------------------------------------------------------------------
(* mark_as_idle and the subtree *)

Low(n, w)  == IF 2 * w + 1 <= n - 1 THEN 2 * w + 1 ELSE -1
High(n, w) == IF 2 * w + 2 <= n - 1 THEN 2 * w + 2 ELSE -1

LEMMA ChildrenAre ==
    /\ \A w : left_child(w) = Low(num_workers, w)
    /\ \A w : right_child(w) = High(num_workers, w)
BY DEF left_child, right_child, Low, High, Tree!left_child, Tree!right_child, Tree!NoWorker

\* A child is greater than its parent.
LEMMA ChildrenBelow ==
    ASSUME NEW n \in Nat, NEW w \in 0 .. n - 1
    PROVE  /\ Low(n, w) = -1 \/ (Low(n, w) \in 0 .. n - 1 /\ w < Low(n, w))
           /\ High(n, w) = -1 \/ (High(n, w) \in 0 .. n - 1 /\ w < High(n, w))
BY DEF Low, High

Marked(f, n, D) ==
    f = [w \in D |-> IF w = -1 THEN {} ELSE {w} \cup f[Low(n, w)] \cup f[High(n, w)]]

\* The last k workers, and none
Last(n, k) == {w \in -1 .. n - 1 : w = -1 \/ n - k <= w}

LEMMA MarkedExists ==
    ASSUME NEW n \in Nat
    PROVE  \E f : Marked(f, n, -1 .. n - 1)
<1> DEFINE G == {k \in Nat : \E f : Marked(f, n, Last(n, k))}
<1>1. 0 \in G
  <2>1. Last(n, 0) = {-1}
    BY DEF Last
  <2>2. Marked([w \in {-1} |-> {}], n, {-1})
    BY DEF Marked
  <2> QED BY <2>1, <2>2
<1>2. ASSUME NEW k \in 0 .. n - 1, k \in G PROVE k + 1 \in G
  <2>1. PICK f : Marked(f, n, Last(n, k))
    BY <1>2
  <2> DEFINE g == [w \in Last(n, k + 1) |-> IF w = -1 THEN {}
                                            ELSE {w} \cup f[Low(n, w)] \cup f[High(n, w)]]
  <2>2. k \in Nat /\ k + 1 \in Nat
    OBVIOUS
  <2>3. Last(n, k) \subseteq Last(n, k + 1)
    BY DEF Last
  <2>4. \A w \in Last(n, k) : g[w] = f[w]
    BY <2>1, <2>3 DEF Marked
  <2>5. ASSUME NEW w \in Last(n, k + 1), w # -1
        PROVE  Low(n, w) \in Last(n, k) /\ High(n, w) \in Last(n, k)
    <3>1. w \in 0 .. n - 1 /\ n - (k + 1) <= w
      BY <2>5 DEF Last
    <3>2. -1 \in Last(n, k)
      BY DEF Last
    <3>3. \A v \in 0 .. n - 1 : w < v => v \in Last(n, k)
      BY <3>1 DEF Last
    <3> QED BY <3>1, <3>2, <3>3, ChildrenBelow
  <2>6. Marked(g, n, Last(n, k + 1))
    BY <2>4, <2>5 DEF Marked
  <2> HIDE DEF g
  <2> QED BY <2>2, <2>6
<1> HIDE DEF G
<1>3. n \in G
  BY <1>1, <1>2, UpTo
<1>4. Last(n, n) = -1 .. n - 1
  BY DEF Last
<1> QED BY <1>3, <1>4 DEF G

LEMMA MarkIs ==
    ASSUME num_workers \in Nat
    PROVE  Marked(mark_as_idle, num_workers, -1 .. num_workers - 1)
<1> DEFINE f == CHOOSE g : g = [w \in -1 .. num_workers - 1 |->
                    IF w = -1 THEN {} ELSE {w} \cup g[left_child(w)] \cup g[right_child(w)]]
<1>1. mark_as_idle = f
  BY DEF mark_as_idle
<1>2. \E g : g = [w \in -1 .. num_workers - 1 |->
                    IF w = -1 THEN {} ELSE {w} \cup g[left_child(w)] \cup g[right_child(w)]]
  <2>1. PICK g : Marked(g, num_workers, -1 .. num_workers - 1)
    BY MarkedExists
  <2>2. g = [w \in -1 .. num_workers - 1 |->
                IF w = -1 THEN {} ELSE {w} \cup g[left_child(w)] \cup g[right_child(w)]]
    BY <2>1, ChildrenAre DEF Marked
  <2> QED BY <2>2
<1>3. f = [w \in -1 .. num_workers - 1 |->
            IF w = -1 THEN {} ELSE {w} \cup f[left_child(w)] \cup f[right_child(w)]]
  BY <1>2
<1> QED BY <1>1, <1>3, ChildrenAre DEF Marked

\* S has the children of its members.
Closed(n, S) ==
    \A v \in S : /\ Low(n, v) # -1 => Low(n, v) \in S
                 /\ High(n, v) # -1 => High(n, v) \in S

LEMMA MarkedAt ==
    ASSUME NEW n \in Nat, NEW f, Marked(f, n, -1 .. n - 1)
    PROVE  /\ f[-1] = {}
           /\ \A w \in 0 .. n - 1 : f[w] = {w} \cup f[Low(n, w)] \cup f[High(n, w)]
<1>1. \A w \in -1 .. n - 1 :
        f[w] = IF w = -1 THEN {} ELSE {w} \cup f[Low(n, w)] \cup f[High(n, w)]
  BY Zenon DEF Marked
<1>2. -1 \in -1 .. n - 1 /\ \A w \in 0 .. n - 1 : w \in -1 .. n - 1 /\ w # -1
  OBVIOUS
<1> QED BY <1>1, <1>2

\* What is marked below a worker is the least closed set that it is in.
LEMMA MarkedClosed ==
    ASSUME NEW n \in Nat, NEW f, Marked(f, n, -1 .. n - 1)
    PROVE  \A w \in 0 .. n - 1 : w \in f[w] /\ f[w] \subseteq 0 .. n - 1 /\ Closed(n, f[w])
<1> DEFINE G == {w \in 0 .. n - 1 : w \in f[w] /\ f[w] \subseteq 0 .. n - 1 /\ Closed(n, f[w])}
<1>1. ASSUME NEW w \in 0 .. n - 1, \A v \in 0 .. n - 1 : w < v => v \in G PROVE w \in G
  <2>1. f[w] = {w} \cup f[Low(n, w)] \cup f[High(n, w)] /\ f[-1] = {}
    BY MarkedAt
  <2>2. /\ Low(n, w) = -1 \/ Low(n, w) \in G
        /\ High(n, w) = -1 \/ High(n, w) \in G
    BY <1>1, ChildrenBelow
  <2>3. f[Low(n, w)] \subseteq 0 .. n - 1 /\ Closed(n, f[Low(n, w)])
    BY <2>1, <2>2 DEF Closed
  <2>4. f[High(n, w)] \subseteq 0 .. n - 1 /\ Closed(n, f[High(n, w)])
    BY <2>1, <2>2 DEF Closed
  <2>5. /\ Low(n, w) # -1 => Low(n, w) \in f[w]
        /\ High(n, w) # -1 => High(n, w) \in f[w]
    BY <2>1, <2>2
  <2>6. Closed(n, f[w])
    <3>1. f[Low(n, w)] \subseteq f[w] /\ f[High(n, w)] \subseteq f[w]
      BY <2>1
    <3>2. ASSUME NEW v \in f[w]
          PROVE  /\ Low(n, v) # -1 => Low(n, v) \in f[w]
                 /\ High(n, v) # -1 => High(n, v) \in f[w]
      <4>1. CASE v = w
        BY <2>5, <4>1
      <4>2. CASE v \in f[Low(n, w)]
        BY <2>3, <3>1, <4>2 DEF Closed
      <4>3. CASE v \in f[High(n, w)]
        BY <2>4, <3>1, <4>3 DEF Closed
      <4> QED BY <2>1, <4>1, <4>2, <4>3
    <3> QED BY <3>2 DEF Closed
  <2> QED BY <2>1, <2>3, <2>4, <2>6
<1> HIDE DEF G
<1>2. \A w \in 0 .. n - 1 : w \in G
  BY <1>1, FromTheLast
<1> QED BY <1>2 DEF G

LEMMA MarkedLeast ==
    ASSUME NEW n \in Nat, NEW f, Marked(f, n, -1 .. n - 1), NEW S, Closed(n, S)
    PROVE  \A w \in 0 .. n - 1 : w \in S => f[w] \subseteq S
<1> DEFINE G == {w \in 0 .. n - 1 : w \in S => f[w] \subseteq S}
<1>1. ASSUME NEW w \in 0 .. n - 1, \A v \in 0 .. n - 1 : w < v => v \in G PROVE w \in G
  <2>1. f[w] = {w} \cup f[Low(n, w)] \cup f[High(n, w)] /\ f[-1] = {}
    BY MarkedAt
  <2>2. /\ Low(n, w) = -1 \/ Low(n, w) \in G
        /\ High(n, w) = -1 \/ High(n, w) \in G
    BY <1>1, ChildrenBelow
  <2>3. ASSUME w \in S PROVE f[w] \subseteq S
    <3>1. f[Low(n, w)] \subseteq S
      <4>1. CASE Low(n, w) = -1
        BY <2>1, <4>1
      <4>2. CASE Low(n, w) # -1
        <5>1. Low(n, w) \in S
          BY <2>3, <4>2 DEF Closed
        <5> QED BY <2>2, <4>2, <5>1
      <4> QED BY <4>1, <4>2
    <3>2. f[High(n, w)] \subseteq S
      <4>1. CASE High(n, w) = -1
        BY <2>1, <4>1
      <4>2. CASE High(n, w) # -1
        <5>1. High(n, w) \in S
          BY <2>3, <4>2 DEF Closed
        <5> QED BY <2>2, <4>2, <5>1
      <4> QED BY <4>1, <4>2
    <3> QED BY <2>1, <2>3, <3>1, <3>2
  <2> QED BY <2>3
<1> HIDE DEF G
<1>2. \A w \in 0 .. n - 1 : w \in G
  BY <1>1, FromTheLast
<1> QED BY <1>2 DEF G

LEMMA MarksIsSubtree ==
    ASSUME num_workers \in Nat, NEW w \in 0 .. num_workers - 1
    PROVE  mark_as_idle[w] = Tree(num_workers)!Subtree[w]
<1> DEFINE M == mark_as_idle[w]
<1> DEFINE W == 0 .. num_workers - 1
<1>1. Marked(mark_as_idle, num_workers, -1 .. num_workers - 1)
  BY MarkIs
<1>2. w \in M /\ M \subseteq W /\ Closed(num_workers, M)
  BY <1>1, MarkedClosed
<1>3. \A S : Closed(num_workers, S) /\ w \in S => M \subseteq S
  BY <1>1, MarkedLeast
<1>4. \A S \in SUBSET W : Tree(num_workers)!ClosedUnderChildren(S) <=> Closed(num_workers, S)
  BY DEF Tree!ClosedUnderChildren, Tree!Children, Closed, Tree!left_child, Tree!right_child,
         Tree!NoWorker, Low, High
<1> HIDE DEF M
<1>5. {v \in W : \A S \in SUBSET W : (w \in S /\ Closed(num_workers, S)) => v \in S} = M
  BY <1>2, <1>3
<1>6. Tree(num_workers)!Subtree[w] =
        {v \in W : \A S \in SUBSET W :
            (w \in S /\ Tree(num_workers)!ClosedUnderChildren(S)) => v \in S}
  BY DEF Tree!Subtree, Tree!Workers
<1> QED BY <1>4, <1>5, <1>6 DEF M

-----------------------------------------------------------------------------
(* The walk *)

Types ==
    /\ num_workers \in Nat /\ start \in 0 .. num_workers - 1
    /\ worker \in -1 .. num_workers - 1 /\ lvl \in Nat /\ i \in Int
    /\ ret \in Nat /\ visited \in Seq(0 .. num_workers - 1)
    /\ pc \in {"call", "level", "return"}

Marks == mark_as_idle[start]

\* The workers of the current level
Level == {w \in 0 .. num_workers - 1 : worker <= w /\ w < worker + Width(lvl)}

Children(v) == {left_child(v), right_child(v)} \ {-1}

\* Where the walk is in the tree: it has visited all levels above, and the
\* workers of this one that are before i.
Position ==
    worker # -1 =>
        /\ Width(lvl) <= worker + 1
        /\ worker <= i /\ i <= worker + Width(lvl) /\ i <= num_workers
        /\ \A v \in Visited : v < i
        /\ Level \subseteq Marks
        /\ \A v \in Level : v < i => v \in Visited
        /\ \A v \in Visited : v < worker => Children(v) \subseteq Visited \cup Level
        /\ start \in Visited \cup Level

\* When there is no next level, nothing is left.
Complete ==
    worker = -1 => start \in Visited /\ \A v \in Visited : Children(v) \subseteq Visited

\* Every worker has been visited at most once, and none that is elsewhere.
Once ==
    /\ Visited \subseteq Marks
    /\ IsFiniteSet(Visited) /\ Cardinality(Visited) = Len(visited)

\* What the walk has found
Found ==
    /\ pc = "call" => visited = <<>>
    /\ pc = "return" /\ walk = "count" => worker = -1
    /\ walk # "count" =>
        /\ pc = "call" => ret = 0
        /\ pc = "level" => ret = 0 /\ Visited \cap pending = {}
        /\ pc = "return" /\ ret = 0 => worker = -1 /\ Visited \cap pending = {}
        /\ pc = "return" /\ ret # 0 => Visited \cap pending # {}

Inv == Types /\ Position /\ Complete /\ Once /\ Found

LEMMA ChildrenOf ==
    \A v : Children(v) = {Low(num_workers, v), High(num_workers, v)} \ {-1}
BY ChildrenAre DEF Children

LEMMA MarksAre ==
    ASSUME Types
    PROVE  /\ start \in Marks /\ Marks \subseteq 0 .. num_workers - 1
           /\ \A v \in Marks : Children(v) \subseteq Marks
           /\ \A S : start \in S /\ (\A v \in S : Children(v) \subseteq S) => Marks \subseteq S
<1>1. Marked(mark_as_idle, num_workers, -1 .. num_workers - 1)
  BY MarkIs DEF Types
<1>2. num_workers \in Nat /\ start \in 0 .. num_workers - 1
  BY DEF Types
<1>3. \A S : (\A v \in S : Children(v) \subseteq S) <=> Closed(num_workers, S)
  BY ChildrenOf DEF Closed
<1>4. start \in Marks /\ Marks \subseteq 0 .. num_workers - 1 /\ Closed(num_workers, Marks)
  BY <1>1, <1>2, MarkedClosed DEF Marks
<1>5. \A S : Closed(num_workers, S) /\ start \in S => Marks \subseteq S
  BY <1>1, <1>2, MarkedLeast DEF Marks
<1> QED BY <1>3, <1>4, <1>5

LEMMA VisitedEmpty == visited = <<>> => Visited = {}
BY DEF Visited

LEMMA VisitedIn ==
    ASSUME NEW S, visited \in Seq(S)
    PROVE  Visited \subseteq S
<1>1. \A k \in 1 .. Len(visited) : visited[k] \in S
  OBVIOUS
<1> QED BY <1>1 DEF Visited

LEMMA InitInv == Init => Inv
<1> SUFFICES ASSUME Init PROVE Inv
  OBVIOUS
<1>1. Types
  BY MaxWorkersAssumption DEF Init, Types
<1>2. Visited = {} /\ visited = <<>> /\ pc = "call" /\ ret = 0
  BY VisitedEmpty DEF Init
<1>3. worker = start /\ lvl = 0 /\ i = start /\ worker # -1
  BY DEF Init
<1>4. Width(lvl) = 1
  BY <1>3, WidthDoubles
<1>5. Level = {start}
  BY <1>1, <1>3, <1>4 DEF Level, Types
<1>6. Level \subseteq Marks
  BY <1>1, <1>5, MarksAre
<1>7. Position
  BY <1>1, <1>2, <1>3, <1>4, <1>5, <1>6 DEF Position, Types
<1>8. Complete
  BY <1>3 DEF Complete
<1>9. Once
  BY <1>2, FS_EmptySet DEF Once
<1>10. Found
  BY <1>2 DEF Found
<1> QED BY <1>1, <1>7, <1>8, <1>9, <1>10 DEF Inv

LEMMA CallInv == Inv /\ Call => Inv'
<1> SUFFICES ASSUME Inv, Call PROVE Inv'
  OBVIOUS
<1>1. Types'
  BY DEF Inv, Call, Types
<1>2. /\ UNCHANGED <<Visited, Marks, Level>>
      /\ \A v : Children(v)' = Children(v)
  BY DEF Call, Visited, Marks, mark_as_idle, Level, Children, left_child, right_child
<1>3. Position'
  BY <1>2 DEF Inv, Call, Position
<1>4. Complete'
  BY <1>2 DEF Inv, Call, Complete
<1>5. Once'
  BY <1>2 DEF Inv, Call, Once
<1>6. Visited = {}
  BY VisitedEmpty DEF Inv, Call, Found
<1>7. Found'
  BY <1>2, <1>6 DEF Inv, Call, Found
<1> QED BY <1>1, <1>3, <1>4, <1>5, <1>7 DEF Inv

LEMMA LeaveInv == Inv /\ Leave => Inv'
<1> SUFFICES ASSUME Inv, Leave PROVE Inv'
  OBVIOUS
<1>1. Types'
  BY DEF Inv, Leave, Types
<1>2. /\ UNCHANGED <<Visited, Marks, Level>>
      /\ \A v : Children(v)' = Children(v)
  BY DEF Leave, Visited, Marks, mark_as_idle, Level, Children, left_child, right_child
<1>3. Position'
  BY <1>2 DEF Inv, Leave, Position
<1>4. Complete'
  BY <1>2 DEF Inv, Leave, Complete
<1>5. Once'
  BY <1>2 DEF Inv, Leave, Once
<1>7. Found'
  BY <1>2 DEF Inv, Leave, Found
<1> QED BY <1>1, <1>3, <1>4, <1>5, <1>7 DEF Inv

LEMMA VisitInv == Inv /\ Visit => Inv'
<1> SUFFICES ASSUME Inv, Visit PROVE Inv'
  OBVIOUS
<1>1. Types /\ Position /\ Complete /\ Once /\ Found
  BY DEF Inv
<1>2. Width(lvl) \in Nat
  BY <1>1, WidthDoubles DEF Types
<1>3. worker \in 0 .. num_workers - 1 /\ i \in Level /\ i \in 0 .. num_workers - 1
  <2>1. worker \in 0 .. num_workers - 1
    BY <1>1 DEF Types, Visit
  <2>2. worker <= i
    BY <2>1, <1>1 DEF Position
  <2>3. i < worker + Width(lvl) /\ i < num_workers
    BY <1>1, <1>2, <2>1 DEF Visit, LevelEnd, Types
  <2> QED BY <1>1, <1>2, <2>1, <2>2, <2>3 DEF Types, Level
<1>4. visited \in Seq(0 .. num_workers - 1) /\ visited' = visited \o <<i>>
  BY <1>1 DEF Types, Visit
<1>5. Visited' = Visited \cup {i} /\ Len(visited') = Len(visited) + 1
  <2>1. Len(visited') = Len(visited) + 1 /\ Len(visited) \in Nat
    BY <1>3, <1>4
  <2>2. visited'[Len(visited) + 1] = i
    BY <1>3, <1>4
  <2>3. \A k \in 1 .. Len(visited) : visited'[k] = visited[k]
    BY <1>3, <1>4
  <2>4. 1 .. Len(visited') = (1 .. Len(visited)) \cup {Len(visited) + 1}
    BY <2>1
  <2> QED BY <2>1, <2>2, <2>3, <2>4 DEF Visited
<1>6. i \notin Visited
  BY <1>1, <1>3 DEF Position
<1>7. Types'
  <2>1. visited' \in Seq(0 .. num_workers - 1)
    BY <1>3, <1>4
  <2> QED BY <1>1, <2>1 DEF Types, Visit
<1>8. /\ UNCHANGED <<Marks, Level>>
      /\ \A v : Children(v)' = Children(v)
  BY DEF Visit, Marks, mark_as_idle, Level, Children, left_child, right_child
<1>9. Position'
  <2>1. /\ Width(lvl) <= worker + 1
        /\ worker <= i /\ i <= worker + Width(lvl) /\ i <= num_workers
        /\ \A v \in Visited : v < i
        /\ Level \subseteq Marks
        /\ \A v \in Level : v < i => v \in Visited
        /\ \A v \in Visited : v < worker => Children(v) \subseteq Visited \cup Level
        /\ start \in Visited \cup Level
    BY <1>1, <1>3 DEF Position
  <2>2. i + 1 <= worker + Width(lvl) /\ i + 1 <= num_workers /\ worker <= i + 1
    BY <1>1, <1>2, <1>3 DEF Level, Types
  <2>3. \A v \in Visited \cup {i} : v < i + 1
    <3>1. \A v \in Visited : v \in Int
      <4>1. Visited \subseteq 0 .. num_workers - 1
        BY <1>4, VisitedIn
      <4> QED BY <4>1
    <3> QED BY <1>3, <2>1, <3>1
  <2>4. \A v \in Level : v < i + 1 => v \in Visited \cup {i}
    BY <1>3, <2>1 DEF Level
  <2>5. \A v \in Visited \cup {i} : v < worker => Children(v) \subseteq (Visited \cup {i}) \cup Level
    BY <1>3, <2>1
  <2>6. start \in (Visited \cup {i}) \cup Level
    BY <2>1
  <2>7. i' = i + 1 /\ UNCHANGED <<worker, lvl, num_workers, start>> /\ Width(lvl)' = Width(lvl)
    BY DEF Visit
  <2> QED BY <1>5, <1>8, <2>1, <2>2, <2>3, <2>4, <2>5, <2>6, <2>7 DEF Position
<1>10. Complete'
  BY <1>3 DEF Complete, Visit
<1>11. Once'
  <2>1. i \in Marks
    BY <1>1, <1>3 DEF Position
  <2>2. IsFiniteSet(Visited \cup {i}) /\ Cardinality(Visited \cup {i}) = Cardinality(Visited) + 1
    BY <1>1, <1>6, FS_AddElement DEF Once
  <2> QED BY <1>1, <1>5, <1>8, <2>1, <2>2 DEF Once
<1>12. Found'
  <2>1. pc = "level" /\ pending' = pending /\ walk' = walk
    BY DEF Visit
  <2>2. ASSUME walk = "count" PROVE Found'
    BY <2>1, <2>2 DEF Found, Visit
  <2>3. ASSUME walk # "count" PROVE Found'
    <3>1. ret = 0 /\ Visited \cap pending = {}
      BY <1>1, <2>1, <2>3 DEF Found
    <3>2. CASE i \in pending
      <4>1. pc' = "return" /\ ret' = 1
        BY <2>3, <3>1, <3>2 DEF Visit
      <4> QED BY <1>5, <2>1, <2>3, <3>2, <4>1 DEF Found
    <3>3. CASE i \notin pending
      <4>1. pc' = "level" /\ ret' = 0
        BY <2>1, <3>1, <3>3 DEF Visit
      <4> QED BY <1>5, <2>1, <3>1, <3>3, <4>1 DEF Found
    <3> QED BY <3>2, <3>3
  <2> QED BY <2>2, <2>3
<1> QED BY <1>7, <1>9, <1>10, <1>11, <1>12 DEF Inv

\* The children of this level are the interval of workers that begins with its
\* leftmost worker's left child and is twice as wide.
LEMMA DescendInv == Inv /\ Descend => Inv'
<1> SUFFICES ASSUME Inv, Descend PROVE Inv'
  OBVIOUS
<1>1. Types /\ Position /\ Complete /\ Once /\ Found
  BY DEF Inv
<1> DEFINE n == num_workers
<1> DEFINE W == Width(lvl)
<1>2. W \in Nat /\ Width(lvl + 1) = 2 * W
  BY <1>1, WidthDoubles DEF Types
<1>3. n \in Nat /\ worker \in 0 .. n - 1 /\ lvl \in Nat /\ i \in Int
  BY <1>1 DEF Types, Descend
<1>4. /\ W <= worker + 1
      /\ worker <= i /\ i <= worker + W /\ i <= n
      /\ \A v \in Visited : v < i
      /\ Level \subseteq Marks
      /\ \A v \in Level : v < i => v \in Visited
      /\ \A v \in Visited : v < worker => Children(v) \subseteq Visited \cup Level
      /\ start \in Visited \cup Level
  BY <1>1, <1>3 DEF Position
<1>5. i >= worker + W \/ i >= n
  BY <1>2, <1>3 DEF Descend, LevelEnd
<1>6. Level \subseteq Visited
  BY <1>2, <1>3, <1>4, <1>5 DEF Level
<1>7. /\ worker' = Low(n, worker) /\ i' = Low(n, worker) /\ lvl' = lvl + 1 /\ ret' = 0
      /\ UNCHANGED <<num_workers, start, walk, pending, visited, pc>> /\ pc = "level"
  BY ChildrenAre DEF Descend
<1>8. Low(n, worker) \in -1 .. n - 1
  BY <1>3 DEF Low
<1>9. Types'
  BY <1>1, <1>3, <1>7, <1>8 DEF Types
<1>10. /\ UNCHANGED <<Marks, Visited>>
       /\ \A v : Children(v)' = Children(v)
  BY <1>7 DEF Marks, mark_as_idle, Visited, Children, left_child, right_child
<1>11. Visited \subseteq 0 .. n - 1
  <2>1. visited \in Seq(0 .. n - 1)
    BY <1>1 DEF Types
  <2> QED BY <2>1, VisitedIn
<1>12. start \in Visited
  BY <1>4, <1>6
<1>13. \A v \in Visited : v \in Level \/ v < worker
  BY <1>3, <1>4, <1>11, <1>2 DEF Level
<1>14. Width(lvl') = 2 * W
  BY <1>2, <1>7
<1>15. Level' = {w \in 0 .. n - 1 : worker' <= w /\ w < worker' + 2 * W}
  BY <1>7, <1>14 DEF Level
<1>16. Once'
  BY <1>1, <1>7, <1>10 DEF Once
<1>17. Found'
  BY <1>1, <1>7, <1>10 DEF Found
<1>18. CASE Low(n, worker) = -1
  <2>1. n <= 2 * worker + 1
    BY <1>3, <1>18 DEF Low
  <2>2. \A v \in Level : Children(v) = {}
    <3>1. \A v \in Level : Low(n, v) = -1 /\ High(n, v) = -1
      BY <1>3, <2>1 DEF Level, Low, High
    <3> QED BY <3>1, ChildrenOf
  <2>3. \A v \in Visited : Children(v) \subseteq Visited
    BY <1>4, <1>6, <1>13, <2>2
  <2>4. Complete'
    BY <1>7, <1>10, <1>12, <2>3 DEF Complete
  <2>5. Position'
    BY <1>7, <1>18 DEF Position
  <2> QED BY <1>9, <1>16, <1>17, <2>4, <2>5 DEF Inv
<1>19. CASE Low(n, worker) # -1
  <2>1. Low(n, worker) = 2 * worker + 1 /\ 2 * worker + 1 < n
    BY <1>3, <1>19 DEF Low
  <2>2. Level' = {w \in 0 .. n - 1 : 2 * worker + 1 <= w /\ w < 2 * worker + 1 + 2 * W}
    BY <1>7, <1>15, <2>1
  <2>3. \A v \in Level : Children(v) \subseteq Level'
    <3>1. ASSUME NEW v \in Level
          PROVE  Low(n, v) \in Level' \cup {-1} /\ High(n, v) \in Level' \cup {-1}
      BY <1>2, <1>3, <2>2 DEF Level, Low, High
    <3> QED BY <3>1, ChildrenOf
  <2>4. Level' \subseteq Marks
    <3>1. ASSUME NEW w \in Level' PROVE w \in Marks
      <4>1. w \in 0 .. n - 1 /\ 2 * worker + 1 <= w /\ w < 2 * worker + 1 + 2 * W
        BY <2>2
      <4>2. PICK v \in 0 .. n - 1 : w = 2 * v + 1 \/ w = 2 * v + 2
        <5>1. CASE w % 2 = 1
          <6>1. (w - 1) \div 2 \in 0 .. n - 1 /\ w = 2 * ((w - 1) \div 2) + 1
            BY <1>3, <4>1, <5>1
          <6> QED BY <6>1
        <5>2. CASE w % 2 = 0
          <6>1. (w - 2) \div 2 \in 0 .. n - 1 /\ w = 2 * ((w - 2) \div 2) + 2
            BY <1>3, <4>1, <5>2
          <6> QED BY <6>1
        <5> QED BY <4>1, <5>1, <5>2
      <4>3. v \in Level
        BY <1>2, <1>3, <4>1, <4>2 DEF Level
      <4>4. w \in Children(v)
        <5>1. w = Low(n, v) \/ w = High(n, v)
          BY <4>1, <4>2 DEF Low, High
        <5> QED BY <4>1, <5>1, ChildrenOf
      <4> QED BY <1>1, <1>4, <4>3, <4>4, MarksAre
    <3> QED BY <3>1
  <2>5. \A v \in Visited : Children(v) \subseteq Visited \cup Level'
    BY <1>4, <1>6, <1>13, <2>3
  <2>6. \A v \in Visited : v < 2 * worker + 1
    BY <1>2, <1>3, <1>4, <1>11
  <2>7. \A v \in Level' : ~(v < 2 * worker + 1)
    BY <1>3, <2>2
  <2>8. /\ 2 * W <= 2 * worker + 1 + 1 /\ 2 * worker + 1 <= 2 * worker + 1 + 2 * W
        /\ 2 * worker + 1 <= n /\ 2 * worker + 1 <= 2 * worker + 1
    BY <1>2, <1>3, <1>4, <2>1
  <2>9. /\ worker' = 2 * worker + 1 /\ i' = 2 * worker + 1 /\ num_workers' = n
        /\ start' = start /\ Width(lvl)' = 2 * W
    BY <1>7, <1>14, <2>1
  <2>10. Position'
    BY <1>10, <1>12, <2>4, <2>5, <2>6, <2>7, <2>8, <2>9 DEF Position
  <2>11. Complete'
    BY <1>3, <2>9 DEF Complete
  <2> QED BY <1>9, <1>16, <1>17, <2>10, <2>11 DEF Inv
<1> QED BY <1>18, <1>19

LEMMA NextInv == Inv /\ [Next]_vars => Inv'
<1> SUFFICES ASSUME Inv, [Next]_vars PROVE Inv'
  OBVIOUS
<1>1. CASE UNCHANGED vars
  <2> USE <1>1 DEF vars
  <2>1. Types'
    BY DEF Inv, Types
  <2>2. /\ UNCHANGED <<Visited, Marks, Level>>
        /\ \A v : Children(v)' = Children(v)
    BY DEF Visited, Marks, mark_as_idle, Level, Children, left_child, right_child
  <2>3. Position'
    BY <2>2 DEF Inv, Position
  <2>4. Complete'
    BY <2>2 DEF Inv, Complete
  <2>5. Once'
    BY <2>2 DEF Inv, Once
  <2>6. Found'
    BY <2>2 DEF Inv, Found
  <2> QED BY <2>1, <2>3, <2>4, <2>5, <2>6 DEF Inv
<1> QED BY <1>1, CallInv, VisitInv, DescendInv, LeaveInv DEF Next

\* The walk has visited exactly the levels above the current one and the part of
\* this one that is before i.
THEOREM WalkHolds == Spec => []Inv
BY InitInv, NextInv, PTL DEF Spec

\* mark_as_idle, by recursion, strikes out exactly the subtree that Runtime takes it
\* to: the least set that contains the worker and the children of its members.
THEOREM MarksRight == Spec => []MarksSubtree
<1>1. Inv => MarksSubtree
  BY MarksIsSubtree DEF Inv, Types, MarksSubtree
<1> QED BY <1>1, WalkHolds, PTL

\* RECV_REQ, PEEK_REQ and COUNT_REQ, level by level, look at every worker of the
\* subtree that mark_as_idle strikes out, and at no other, once, whether the last
\* level is complete or not; the first two find a request if there is one.
THEOREM WalkCovers == Spec => []CoversSubtree
<1>1. Inv => CoversSubtree
  <2> SUFFICES ASSUME Inv PROVE CoversSubtree
    OBVIOUS
  <2>1. Types /\ Complete /\ Once /\ Found
    BY DEF Inv
  <2>2. worker = -1 => Visited = Marks
    BY <2>1, MarksAre DEF Complete, Once
  <2>3. Visited \subseteq Marks /\ Cardinality(Visited) = Len(visited)
    BY <2>1 DEF Once
  <2>4. pc = "return" /\ (walk = "count" \/ ret = 0) => Visited = Marks
    BY <2>1, <2>2 DEF Found
  <2>5. pc = "return" /\ walk # "count" => (ret # 0 <=> pending \cap Marks # {})
    BY <2>1, <2>2, <2>3 DEF Found
  <2> QED BY <2>3, <2>4, <2>5 DEF CoversSubtree, Marks
<1> QED BY <1>1, WalkHolds, PTL

=============================================================================
