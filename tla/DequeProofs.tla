---------------------------- MODULE DequeProofs -----------------------------
(***************************************************************************)
(* Theorems about Deque, for any number of workers and task objects.       *)
(*                                                                         *)
(* The invariant says that the pointers in memory represent sequences of   *)
(* tasks: for each worker its deque, the list on its way to it and its     *)
(* free list, and that a task has one place.  An operation of deque.c      *)
(* turns a memory that represents one sequence into a memory that          *)
(* represents another one, and leaves alone all objects but a few (Frame), *)
(* so that the other sequences remain represented.                         *)
(***************************************************************************)
EXTENDS Deque, SequenceTheorems, FiniteSetTheorems, WellFoundedInduction, TLAPS

-----------------------------------------------------------------------------
(* Following a link several times *)

LEMMA LeastNumber ==
    ASSUME NEW S, S \subseteq Nat, S # {}
    PROVE  \E n \in S : \A m \in S : ~(m < n)
<1>1. PICK n \in S : \A m \in S : ~(<<m, n>> \in OpToRel(<, Nat))
  BY NatLessThanWellFounded, WFMin, Zenon
<1>2. \A m \in Nat : m < n => <<m, n>> \in OpToRel(<, Nat)
  BY DEF OpToRel
<1> QED BY <1>1, <1>2, Zenon

\* f[i] is the object that is reached from o in i steps.
Walk(f, link, o, n) == f = [i \in 0 .. n |-> IF i = 0 THEN o ELSE link[f[i - 1]]]

LEMMA WalkExists ==
    ASSUME NEW link, NEW o, NEW n \in Nat
    PROVE  \E f : Walk(f, link, o, n)
<1> DEFINE S == {k \in Nat : ~\E f : Walk(f, link, o, k)}
<1>1. ASSUME NEW k \in S, \A j \in S : ~(j < k)
      PROVE  FALSE
  <2>1. CASE k = 0
    <3>1. Walk([i \in 0 .. 0 |-> o], link, o, 0)
      BY DEF Walk
    <3> QED BY <2>1, <3>1
  <2>2. CASE k # 0
    <3>1. k \in Nat /\ k - 1 \in Nat /\ k - 1 < k
      BY <2>2
    <3>2. PICK f : Walk(f, link, o, k - 1)
      BY <1>1, <3>1
    <3> DEFINE g == [i \in 0 .. k |-> IF i = 0 THEN o ELSE link[f[i - 1]]]
    <3>3. \A i \in 0 .. k - 1 : g[i] = f[i]
      BY <3>1, <3>2 DEF Walk
    <3>4. \A i \in 0 .. k : i # 0 => i - 1 \in 0 .. k - 1
      BY <3>1
    <3>5. Walk(g, link, o, k)
      BY <3>3, <3>4 DEF Walk
    <3> QED BY <3>5
  <2> QED BY <2>1, <2>2
<1>2. S = {}
  <2>1. S \subseteq Nat
    OBVIOUS
  <2> HIDE DEF S
  <2> QED BY <1>1, <2>1, LeastNumber
<1> QED BY <1>2

\* s lists the objects on the way.
Along(s, link, o, k) == s[0] = o /\ \A i \in 0 .. k - 1 : link[s[i]] = s[i + 1]

LEMMA WalkFinds ==
    ASSUME NEW link, NEW o, NEW n \in Nat, NEW f, Walk(f, link, o, n),
           NEW k \in 0 .. n, NEW s, Along(s, link, o, k)
    PROVE  \A i \in 0 .. k : f[i] = s[i]
<1> DEFINE S == {i \in 0 .. k : f[i] # s[i]}
<1>1. ASSUME NEW i \in S, \A j \in S : ~(j < i)
      PROVE  FALSE
  <2>1. i \in 0 .. n /\ i # 0 => i - 1 \in 0 .. k - 1 /\ i - 1 \in 0 .. k /\ i - 1 < i
    OBVIOUS
  <2>2. f[0] = o
    BY DEF Walk
  <2>3. i # 0
    BY <2>2 DEF Along
  <2>4. i \in 0 .. n /\ f[i] = link[f[i - 1]]
    BY <2>3 DEF Walk
  <2>5. f[i - 1] = s[i - 1]
    BY <1>1, <2>1, <2>3
  <2>6. i - 1 + 1 = i
    OBVIOUS
  <2>7. link[s[i - 1]] = s[i]
    BY <2>1, <2>3, <2>6 DEF Along
  <2> QED BY <2>4, <2>5, <2>7
<1>2. S = {}
  <2>1. S \subseteq Nat
    OBVIOUS
  <2> HIDE DEF S
  <2> QED BY <1>1, <2>1, LeastNumber
<1> QED BY <1>2

-----------------------------------------------------------------------------
(* Lists of tasks in memory *)

First(s, stop) == IF s = <<>> THEN stop ELSE s[1]
Final(s) == IF s = <<>> THEN NULL ELSE s[Len(s)]

Forward(s, next, stop) ==
    \A i \in 1 .. Len(s) : next[s[i]] = IF i = Len(s) THEN stop ELSE s[i + 1]

Backward(s, prev) ==
    \A i \in 1 .. Len(s) : prev[s[i]] = IF i = 1 THEN NULL ELSE s[i - 1]

Distinct(s) == \A i, j \in 1 .. Len(s) : s[i] = s[j] => i = j

\* There are no more places in a list than tasks.
LEMMA DistinctBound ==
    ASSUME NEW s \in Seq(Tasks), Distinct(s)
    PROVE  Len(s) <= MaxTasks
<1>1. MaxTasks \in Nat /\ Len(s) \in Nat
  BY DequeAssumption
<1>2. \A k \in Nat : IsFiniteSet(1 .. k) /\ Cardinality(1 .. k) = k
  <2> TAKE k \in Nat
  <2>1. IsFiniteSet(1 .. k) /\ Cardinality(1 .. k) = IF 1 > k THEN 0 ELSE k - 1 + 1
    BY FS_Interval
  <2> QED BY <2>1
<1>3. s \in [1 .. Len(s) -> Tasks]
  OBVIOUS
<1>4. SUFFICES ASSUME Len(s) > MaxTasks PROVE FALSE
  BY <1>1
<1>5. \E x, y \in 1 .. Len(s) : x # y /\ s[x] = s[y]
  <2>1. IsFiniteSet(1 .. Len(s)) /\ IsFiniteSet(Tasks)
        /\ Cardinality(1 .. Len(s)) > Cardinality(Tasks)
    BY <1>1, <1>2, <1>4 DEF Tasks
  <2> QED BY <1>3, <2>1, FS_PigeonHole
<1> QED BY <1>5 DEF Distinct

LEMMA PathIs ==
    ASSUME NEW S, NEW s \in Seq(S), Len(s) <= MaxTasks, NEW link, NEW stop,
           stop \notin S, Forward(s, link, stop)
    PROVE  Path(link, First(s, stop), stop) = s
<1> DEFINE M == MaxTasks + 1
           o == First(s, stop)
           at == CHOOSE f : f = [i \in 0 .. M |-> IF i = 0 THEN o ELSE link[f[i - 1]]]
           x == [i \in 0 .. Len(s) |-> IF i = Len(s) THEN stop ELSE s[i + 1]]
           Q == {i \in 0 .. M : at[i] = stop} \cup {M}
           n == Minimum(Q)
<1>1. MaxTasks \in Nat /\ M \in Nat /\ Len(s) \in 0 .. M /\ Len(s) \in Nat
  BY DequeAssumption
<1>2. Walk(at, link, o, M)
  <2>1. \E f : f = [i \in 0 .. M |-> IF i = 0 THEN o ELSE link[f[i - 1]]]
    <3>1. \E f : Walk(f, link, o, M)
      BY <1>1, WalkExists, Zenon
    <3> QED BY <3>1 DEF Walk
  <2> QED BY <2>1, Zenon DEF Walk
<1>3. Along(x, link, o, Len(s))
  BY <1>1 DEF Along, First, Forward
<1>4. \A i \in 0 .. Len(s) : at[i] = x[i]
  <2> HIDE DEF at, x, M, o
  <2> QED BY <1>1, <1>2, <1>3, WalkFinds
<1>5. at[Len(s)] = stop /\ \A i \in 0 .. M : at[i] = stop => Len(s) <= i
  <2>1. \A i \in 0 .. Len(s) - 1 : s[i + 1] # stop
    BY <1>1
  <2>2. x[Len(s)] = stop /\ \A i \in 0 .. Len(s) - 1 : x[i] # stop
    BY <1>1, <2>1
  <2> HIDE DEF at, x
  <2>3. at[Len(s)] = stop /\ \A i \in 0 .. Len(s) - 1 : at[i] # stop
    BY <1>1, <1>4, <2>2
  <2> QED BY <1>1, <2>3
<1>6. Len(s) \in Q /\ \A i \in Q : Len(s) <= i
  BY <1>1, <1>5
<1>7. n = Len(s)
  <2> HIDE DEF Q, n
  <2>1. n \in Q /\ \A i \in Q : n <= i
    BY <1>6 DEF n, Minimum
  <2>2. Q \subseteq Nat
    BY <1>1 DEF Q
  <2> QED BY <1>6, <2>1, <2>2
<1>8. [i \in 1 .. n |-> at[i - 1]] = s
  <2> HIDE DEF at, n
  <2>1. \A i \in 1 .. Len(s) : i - 1 \in 0 .. Len(s) /\ at[i - 1] = s[i]
    BY <1>1, <1>4
  <2>2. s = [i \in 1 .. Len(s) |-> s[i]]
    OBVIOUS
  <2> QED BY <1>7, <2>1, <2>2
<1>9. Path(link, o, stop) = [i \in 1 .. n |-> at[i - 1]]
  BY DEF Path
<1> QED BY <1>8, <1>9

-----------------------------------------------------------------------------
(* Memory that represents sequences *)

Mem == [next : [Pointers -> Pointers], prev : [Pointers -> Pointers],
        head : [Workers -> Pointers], tail : [Workers -> Pointers],
        num_tasks : [Workers -> Int], freelist : [Workers -> Pointers]]

\* s is what w's deque holds, in memory m.
DequeAt(m, w, s) ==
    /\ s \in Seq(Tasks) /\ Distinct(s)
    /\ m.tail[w] = Dummy(w) /\ m.head[w] = First(s, Dummy(w))
    /\ m.num_tasks[w] = Len(s)
    /\ Forward(s, m.next, Dummy(w)) /\ m.next[Dummy(w)] = NULL
    /\ Backward(s, m.prev) /\ m.prev[Dummy(w)] = Final(s)

\* s is the list that begins with object o, on its way between workers.
ListAt(m, o, s) ==
    /\ s \in Seq(Tasks) /\ Distinct(s)
    /\ o = First(s, NULL)
    /\ Forward(s, m.next, NULL) /\ Backward(s, m.prev)

\* s is w's free list.
FreeAt(m, w, s) ==
    /\ s \in Seq(Tasks) /\ Distinct(s)
    /\ m.freelist[w] = First(s, NULL)
    /\ Forward(s, m.next, NULL) /\ \A i \in 1 .. Len(s) : m.prev[s[i]] = NULL

Loose(m, o) == m.next[o] = NULL /\ m.prev[o] = NULL

\* From m to m2, only the deques of workers A, the free lists of workers B and
\* the links of the objects X have changed.
Frame(m, m2, A, B, X) ==
    /\ m2 \in Mem
    /\ \A o \in Pointers \ X : m2.next[o] = m.next[o] /\ m2.prev[o] = m.prev[o]
    /\ \A v \in Workers \ A : /\ m2.head[v] = m.head[v] /\ m2.tail[v] = m.tail[v]
                             /\ m2.num_tasks[v] = m.num_tasks[v]
    /\ \A v \in Workers \ B : m2.freelist[v] = m.freelist[v]

\* The objects of w's deque
Objects(w, s) == Elements(s) \cup {Dummy(w)}

LEMMA PointersDiffer ==
    /\ NULL \in Pointers /\ Tasks \subseteq Pointers /\ NULL \notin Tasks
    /\ \A w \in Workers : /\ Dummy(w) \in Pointers /\ Dummy(w) \notin Tasks
                         /\ Dummy(w) # NULL
    /\ \A v, w \in Workers : Dummy(v) = Dummy(w) => v = w
BY DequeAssumption DEF Pointers, Tasks, Workers, Dummy, NULL

LEMMA MemFields ==
    ASSUME NEW m \in Mem
    PROVE  /\ m.next \in [Pointers -> Pointers] /\ m.prev \in [Pointers -> Pointers]
           /\ m.head \in [Workers -> Pointers] /\ m.tail \in [Workers -> Pointers]
           /\ m.num_tasks \in [Workers -> Int] /\ m.freelist \in [Workers -> Pointers]
BY DEF Mem

LEMMA KeepDeque ==
    ASSUME NEW m, NEW m2, NEW A, NEW B, NEW X, Frame(m, m2, A, B, X),
           NEW v \in Workers, v \notin A, NEW s, DequeAt(m, v, s),
           Objects(v, s) \cap X = {}
    PROVE  DequeAt(m2, v, s)
<1>1. s \in Seq(Tasks) /\ \A i \in 1 .. Len(s) : s[i] \in Elements(s) /\ s[i] \in Tasks
  BY DEF DequeAt, Elements
<1>2. \A i \in 1 .. Len(s) : /\ m2.next[s[i]] = m.next[s[i]]
                            /\ m2.prev[s[i]] = m.prev[s[i]]
  BY <1>1, PointersDiffer DEF Frame, Objects
<1>3. m2.next[Dummy(v)] = m.next[Dummy(v)] /\ m2.prev[Dummy(v)] = m.prev[Dummy(v)]
  BY PointersDiffer DEF Frame, Objects
<1>4. m2.head[v] = m.head[v] /\ m2.tail[v] = m.tail[v] /\ m2.num_tasks[v] = m.num_tasks[v]
  BY DEF Frame
<1> QED BY <1>2, <1>3, <1>4 DEF DequeAt, Forward, Backward

LEMMA KeepList ==
    ASSUME NEW m, NEW m2, NEW A, NEW B, NEW X, Frame(m, m2, A, B, X),
           NEW o, NEW s, ListAt(m, o, s), Elements(s) \cap X = {}
    PROVE  ListAt(m2, o, s)
<1>1. s \in Seq(Tasks) /\ \A i \in 1 .. Len(s) : s[i] \in Elements(s) /\ s[i] \in Tasks
  BY DEF ListAt, Elements
<1>2. \A i \in 1 .. Len(s) : /\ m2.next[s[i]] = m.next[s[i]]
                            /\ m2.prev[s[i]] = m.prev[s[i]]
  BY <1>1, PointersDiffer DEF Frame
<1> QED BY <1>2 DEF ListAt, Forward, Backward

LEMMA KeepFree ==
    ASSUME NEW m, NEW m2, NEW A, NEW B, NEW X, Frame(m, m2, A, B, X),
           NEW v \in Workers, v \notin B, NEW s, FreeAt(m, v, s), Elements(s) \cap X = {}
    PROVE  FreeAt(m2, v, s)
<1>1. s \in Seq(Tasks) /\ \A i \in 1 .. Len(s) : s[i] \in Elements(s) /\ s[i] \in Tasks
  BY DEF FreeAt, Elements
<1>2. \A i \in 1 .. Len(s) : /\ m2.next[s[i]] = m.next[s[i]]
                            /\ m2.prev[s[i]] = m.prev[s[i]]
  BY <1>1, PointersDiffer DEF Frame
<1>3. m2.freelist[v] = m.freelist[v]
  BY DEF Frame
<1> QED BY <1>2, <1>3 DEF FreeAt, Forward

-----------------------------------------------------------------------------
(* The operations of deque.c *)

\* deque_push adds a task in front.
LEMMA PushAt ==
    ASSUME NEW m \in Mem, NEW w \in Workers, NEW s, DequeAt(m, w, s),
           NEW t \in Tasks, t \notin Elements(s), m.prev[t] = NULL,
           NEW m2, m2 = deque_push(m, w, t)
    PROVE  /\ Frame(m, m2, {w}, {}, Objects(w, s) \cup {t})
           /\ DequeAt(m2, w, <<t>> \o s)
<1> DEFINE h == m.head[w]
           s2 == <<t>> \o s
<1>1. s \in Seq(Tasks) /\ Distinct(s) /\ Len(s) \in Nat
  BY DEF DequeAt
<1>2. \A i \in 1 .. Len(s) : s[i] \in Tasks /\ s[i] \in Elements(s) /\ s[i] # t
  BY <1>1 DEF Elements
<1>3. h = (IF s = <<>> THEN Dummy(w) ELSE s[1]) /\ h # t /\ h \in Pointers /\ t \in Pointers
      /\ h \in Objects(w, s)
  BY <1>1, <1>2, PointersDiffer DEF DequeAt, First, Objects
<1>4. m2 = [next |-> [m.next EXCEPT ![t] = h], prev |-> [m.prev EXCEPT ![h] = t],
            head |-> [m.head EXCEPT ![w] = t], tail |-> m.tail,
            num_tasks |-> [m.num_tasks EXCEPT ![w] = m.num_tasks[w] + 1],
            freelist |-> m.freelist]
  BY DEF deque_push, Mem
<1>5. Frame(m, m2, {w}, {}, Objects(w, s) \cup {t})
  <2> HIDE DEF h
  <2>1. m2 \in Mem
    <3>1. /\ [m.next EXCEPT ![t] = h] \in [Pointers -> Pointers]
          /\ [m.prev EXCEPT ![h] = t] \in [Pointers -> Pointers]
          /\ [m.head EXCEPT ![w] = t] \in [Workers -> Pointers]
          /\ [m.num_tasks EXCEPT ![w] = m.num_tasks[w] + 1] \in [Workers -> Int]
      BY <1>3, MemFields
    <3> QED BY <1>4, <3>1, MemFields DEF Mem
  <2> QED BY <1>3, <1>4, <2>1, MemFields DEF Frame
<1>6. /\ s2 \in Seq(Tasks) /\ Len(s2) = Len(s) + 1 /\ s2[1] = t /\ s2 # <<>>
      /\ \A i \in 2 .. Len(s2) : s2[i] = s[i - 1]
  BY <1>1
<1> HIDE DEF s2
<1>7. Distinct(s2)
  <2> SUFFICES ASSUME NEW i \in 1 .. Len(s2), NEW j \in 1 .. Len(s2), s2[i] = s2[j]
               PROVE  i = j
    BY DEF Distinct
  <2>1. \A k \in 2 .. Len(s2) : k - 1 \in 1 .. Len(s) /\ s2[k] # t
    BY <1>1, <1>2, <1>6
  <2>2. i = 1 <=> j = 1
    BY <1>1, <1>6, <2>1
  <2>3. CASE i # 1 /\ j # 1
    <3>1. i - 1 = j - 1
      BY <1>1, <1>6, <2>1, <2>3 DEF Distinct
    <3> QED BY <1>1, <1>6, <3>1
  <2> QED BY <2>2, <2>3
<1>8. Forward(s2, m2.next, Dummy(w)) /\ m2.next[Dummy(w)] = NULL
  <2>1. m2.next[t] = IF 1 = Len(s2) THEN Dummy(w) ELSE s2[2]
    BY <1>1, <1>3, <1>4, <1>6 DEF Mem
  <2>2. \A i \in 1 .. Len(s) : m2.next[s[i]] = IF i = Len(s) THEN Dummy(w) ELSE s[i + 1]
    BY <1>2, <1>4, PointersDiffer DEF DequeAt, Forward, Mem
  <2>3. ASSUME NEW i \in 2 .. Len(s2)
        PROVE  m2.next[s2[i]] = IF i = Len(s2) THEN Dummy(w) ELSE s2[i + 1]
    <3>1. i - 1 \in 1 .. Len(s) /\ s2[i] = s[i - 1] /\ (i = Len(s2) <=> i - 1 = Len(s))
      BY <1>1, <1>6
    <3>2. i # Len(s2) => s2[i + 1] = s[i - 1 + 1]
      BY <1>1, <1>6
    <3> QED BY <2>2, <3>1, <3>2
  <2>4. m2.next[Dummy(w)] = NULL
    BY <1>4, PointersDiffer DEF DequeAt, Mem
  <2> QED BY <1>1, <1>6, <2>1, <2>3, <2>4 DEF Forward
<1>9. Backward(s2, m2.prev) /\ m2.prev[Dummy(w)] = Final(s2)
  <2>1. m2.prev[t] = NULL
    BY <1>3, <1>4 DEF Mem
  <2>2. \A i \in 1 .. Len(s) : m2.prev[s[i]] = IF i = 1 THEN t ELSE s[i - 1]
    <3> TAKE i \in 1 .. Len(s)
    <3>1. i # 1 => s[i] # h
      BY <1>1, <1>3 DEF Distinct
    <3>2. i = 1 => s[i] = h
      BY <1>1, <1>3
    <3>3. m.prev[s[i]] = IF i = 1 THEN NULL ELSE s[i - 1]
      BY DEF DequeAt, Backward
    <3>4. s[i] \in Pointers
      BY <1>2, PointersDiffer
    <3> QED BY <1>3, <1>4, <3>1, <3>2, <3>3, <3>4 DEF Mem
  <2>3. ASSUME NEW i \in 2 .. Len(s2)
        PROVE  m2.prev[s2[i]] = s2[i - 1]
    <3>1. i - 1 \in 1 .. Len(s) /\ s2[i] = s[i - 1]
      BY <1>1, <1>6
    <3>2. s2[i - 1] = IF i - 1 = 1 THEN t ELSE s[i - 1 - 1]
      BY <1>1, <1>6
    <3> QED BY <2>2, <3>1, <3>2
  <2>4. m2.prev[Dummy(w)] = Final(s2)
    <3>1. CASE s = <<>>
      BY <1>3, <1>4, <1>6, <3>1, PointersDiffer DEF Final, Mem
    <3>2. CASE s # <<>>
      <4>1. m2.prev[Dummy(w)] = s[Len(s)]
        BY <1>1, <1>2, <1>3, <1>4, <3>2, PointersDiffer DEF DequeAt, Final, Mem
      <4>2. s2[Len(s2)] = s[Len(s)]
        BY <1>1, <1>6, <3>2
      <4> QED BY <1>6, <4>1, <4>2 DEF Final
    <3> QED BY <3>1, <3>2
  <2> QED BY <1>1, <1>6, <2>1, <2>3, <2>4 DEF Backward
<1>10. m2.tail[w] = Dummy(w) /\ m2.head[w] = First(s2, Dummy(w)) /\ m2.num_tasks[w] = Len(s2)
  BY <1>1, <1>4, <1>6 DEF DequeAt, First, Mem
<1> QED BY <1>5, <1>6, <1>7, <1>8, <1>9, <1>10 DEF DequeAt, s2

\* deque_pop removes the first task, and leaves it without links.
LEMMA PopAt ==
    ASSUME NEW m \in Mem, NEW w \in Workers, NEW s, DequeAt(m, w, s), s # <<>>,
           NEW m2, m2 = deque_pop(m, w)
    PROVE  /\ Frame(m, m2, {w}, {}, Objects(w, s))
           /\ DequeAt(m2, w, Tail(s))
           /\ m.head[w] = s[1] /\ Loose(m2, s[1])
<1> DEFINE t == m.head[w]
           h == m.next[t]
           s2 == Tail(s)
<1>1. s \in Seq(Tasks) /\ Distinct(s) /\ Len(s) \in Nat /\ 1 <= Len(s)
      /\ (Len(s) # 1 => 2 \in 1 .. Len(s))
  <2>1. s \in Seq(Tasks) /\ Distinct(s) /\ Len(s) \in Nat /\ Len(s) # 0
    BY EmptySeq DEF DequeAt
  <2>2. \A n \in Nat : n # 0 => 1 <= n /\ (n # 1 => 2 \in 1 .. n)
    OBVIOUS
  <2> QED BY <2>1, <2>2, Zenon
<1>2. \A i \in 1 .. Len(s) : s[i] \in Tasks /\ s[i] \in Pointers /\ s[i] \in Elements(s)
  BY <1>1, PointersDiffer DEF Elements
<1>3. t = s[1] /\ t \in Tasks /\ t \in Pointers /\ t \in Elements(s)
  BY <1>1, <1>2 DEF DequeAt, First
<1>4. h = (IF Len(s) = 1 THEN Dummy(w) ELSE s[2]) /\ h # t /\ h \in Pointers
      /\ h \in Objects(w, s)
  <2>1. 1 \in 1 .. Len(s)
    BY <1>1
  <2>2. h = (IF Len(s) = 1 THEN Dummy(w) ELSE s[2])
    <3>1. m.next[s[1]] = IF 1 = Len(s) THEN Dummy(w) ELSE s[1 + 1]
      BY <2>1 DEF DequeAt, Forward
    <3> QED BY <1>3, <3>1
  <2>3. Len(s) # 1 => 2 \in 1 .. Len(s) /\ s[2] # s[1]
    BY <1>1, <2>1 DEF Distinct
  <2> QED BY <1>2, <1>3, <2>2, <2>3, PointersDiffer DEF Objects
<1>5. m2 = [next |-> [m.next EXCEPT ![t] = NULL], prev |-> [m.prev EXCEPT ![h] = NULL],
            head |-> [m.head EXCEPT ![w] = h], tail |-> m.tail,
            num_tasks |-> [m.num_tasks EXCEPT ![w] = m.num_tasks[w] - 1],
            freelist |-> m.freelist]
  BY DEF deque_pop, Mem
<1> HIDE DEF h, t
<1>6. Frame(m, m2, {w}, {}, Objects(w, s))
  <2>1. m2 \in Mem
    <3>1. /\ [m.next EXCEPT ![t] = NULL] \in [Pointers -> Pointers]
          /\ [m.prev EXCEPT ![h] = NULL] \in [Pointers -> Pointers]
          /\ [m.head EXCEPT ![w] = h] \in [Workers -> Pointers]
      BY <1>4, MemFields, PointersDiffer
    <3>2. [m.num_tasks EXCEPT ![w] = m.num_tasks[w] - 1] \in [Workers -> Int]
      BY MemFields
    <3> QED BY <1>5, <3>1, <3>2, MemFields DEF Mem
  <2>2. t \in Objects(w, s)
    BY <1>3 DEF Objects
  <2> QED BY <1>3, <1>4, <1>5, <2>1, <2>2, MemFields DEF Frame
<1>7. /\ s2 \in Seq(Tasks) /\ Len(s2) = Len(s) - 1 /\ (s2 = <<>> <=> Len(s) = 1)
      /\ \A i \in 1 .. Len(s2) : s2[i] = s[i + 1]
  <2>1. s2 \in Seq(Tasks) /\ Len(s2) = Len(s) - 1 /\ \A i \in 1 .. Len(s2) : s2[i] = s[i + 1]
    BY <1>1, HeadTailProperties
  <2>2. s2 = <<>> <=> Len(s2) = 0
    BY <2>1, EmptySeq
  <2> QED BY <1>1, <2>1, <2>2
<1> HIDE DEF s2
<1>8. Distinct(s2)
  <2> SUFFICES ASSUME NEW i \in 1 .. Len(s2), NEW j \in 1 .. Len(s2), s2[i] = s2[j]
               PROVE  i = j
    BY DEF Distinct
  <2>1. i + 1 \in 1 .. Len(s) /\ j + 1 \in 1 .. Len(s)
    BY <1>1, <1>7
  <2>2. i + 1 = j + 1
    BY <1>1, <1>7, <2>1 DEF Distinct
  <2> QED BY <1>7, <2>2
<1>9. Forward(s2, m2.next, Dummy(w)) /\ m2.next[Dummy(w)] = NULL
  <2>1. \A i \in 2 .. Len(s) : s[i] # t
    BY <1>1, <1>3 DEF Distinct
  <2>2. \A i \in 2 .. Len(s) : m2.next[s[i]] = IF i = Len(s) THEN Dummy(w) ELSE s[i + 1]
    BY <1>1, <1>2, <1>5, <2>1, MemFields DEF DequeAt, Forward
  <2>3. ASSUME NEW i \in 1 .. Len(s2)
        PROVE  m2.next[s2[i]] = IF i = Len(s2) THEN Dummy(w) ELSE s2[i + 1]
    <3>1. i + 1 \in 2 .. Len(s) /\ s2[i] = s[i + 1] /\ (i = Len(s2) <=> i + 1 = Len(s))
      BY <1>1, <1>7
    <3>2. i # Len(s2) => s2[i + 1] = s[i + 1 + 1]
      BY <1>1, <1>7
    <3> QED BY <2>2, <3>1, <3>2
  <2>4. m2.next[Dummy(w)] = NULL
    BY <1>3, <1>5, PointersDiffer, MemFields DEF DequeAt
  <2> QED BY <2>3, <2>4 DEF Forward
<1>10. Backward(s2, m2.prev) /\ m2.prev[Dummy(w)] = Final(s2)
  <2>1. ASSUME NEW i \in 2 .. Len(s)
        PROVE  m2.prev[s[i]] = IF i = 2 THEN NULL ELSE s[i - 1]
    <3>1. i # 2 => s[i] # h
      BY <1>1, <1>2, <1>4, PointersDiffer DEF Distinct
    <3>2. i = 2 => s[i] = h
      BY <1>1, <1>4
    <3>3. m.prev[s[i]] = s[i - 1] /\ s[i] \in Pointers
      BY <1>1, <1>2 DEF DequeAt, Backward
    <3> QED BY <1>4, <1>5, <3>1, <3>2, <3>3, MemFields
  <2>2. ASSUME NEW i \in 1 .. Len(s2)
        PROVE  m2.prev[s2[i]] = IF i = 1 THEN NULL ELSE s2[i - 1]
    <3>1. i + 1 \in 2 .. Len(s) /\ s2[i] = s[i + 1] /\ (i = 1 <=> i + 1 = 2)
      BY <1>1, <1>7
    <3>2. i # 1 => s2[i - 1] = s[i + 1 - 1]
      BY <1>1, <1>7
    <3> QED BY <2>1, <3>1, <3>2
  <2>3. m2.prev[Dummy(w)] = Final(s2)
    <3>1. CASE Len(s) = 1
      BY <1>4, <1>5, <1>7, <3>1, PointersDiffer, MemFields DEF Final
    <3>2. CASE Len(s) # 1
      <4>1. h # Dummy(w)
        <5>1. 2 \in 1 .. Len(s)
          BY <1>1, <3>2
        <5>2. s[2] \in Tasks
          BY <1>2, <5>1
        <5> QED BY <1>4, <3>2, <5>2, PointersDiffer
      <4>2. m2.prev[Dummy(w)] = s[Len(s)]
        BY <1>1, <1>5, <4>1, PointersDiffer, MemFields DEF DequeAt, Final
      <4>3. s2[Len(s2)] = s[Len(s)] /\ s2 # <<>>
        BY <1>1, <1>7, <3>2
      <4> QED BY <4>2, <4>3 DEF Final
    <3> QED BY <3>1, <3>2
  <2> QED BY <2>2, <2>3 DEF Backward
<1>11. m2.tail[w] = Dummy(w) /\ m2.head[w] = First(s2, Dummy(w)) /\ m2.num_tasks[w] = Len(s2)
  <2>1. m2.head[w] = h /\ m2.tail[w] = Dummy(w) /\ m2.num_tasks[w] = Len(s) - 1
    BY <1>5, MemFields DEF DequeAt
  <2>2. Len(s) # 1 => s2[1] = s[2]
    BY <1>1, <1>7
  <2> QED BY <1>4, <1>7, <2>1, <2>2 DEF First
<1>12. Loose(m2, s[1])
  <2>1. m2.next[t] = NULL
    BY <1>3, <1>5, MemFields
  <2>2. m.prev[t] = NULL
    BY <1>1, <1>3 DEF DequeAt, Backward
  <2>3. m2.prev[t] = NULL
    BY <1>3, <1>4, <1>5, <2>2, MemFields
  <2> QED BY <1>3, <2>1, <2>3 DEF Loose
<1>13. m.head[w] = s[1]
  BY <1>3 DEF t
<1> QED BY <1>6, <1>7, <1>8, <1>9, <1>10, <1>11, <1>12, <1>13 DEF DequeAt, s2

\* deque_prepend puts a list of tasks in front.
LEMMA PrependAt ==
    ASSUME NEW m \in Mem, NEW w \in Workers, NEW s, DequeAt(m, w, s),
           NEW h, NEW l, ListAt(m, h, l), l # <<>>, Elements(l) \cap Elements(s) = {},
           NEW m2, m2 = deque_prepend(m, w, h)
    PROVE  /\ Frame(m, m2, {w}, {}, Objects(w, s) \cup Elements(l))
           /\ DequeAt(m2, w, l \o s)
<1> DEFINE b == l[Len(l)]
           d == m.head[w]
           s2 == l \o s
<1>1. s \in Seq(Tasks) /\ Distinct(s) /\ Len(s) \in Nat
  BY DEF DequeAt
<1>2. l \in Seq(Tasks) /\ Distinct(l) /\ Len(l) \in Nat /\ 1 <= Len(l) /\ h = l[1]
  <2>1. l \in Seq(Tasks) /\ Distinct(l) /\ Len(l) \in Nat /\ Len(l) # 0 /\ h = l[1]
    BY EmptySeq DEF ListAt, First
  <2>2. \A n \in Nat : n # 0 => 1 <= n
    OBVIOUS
  <2> QED BY <2>1, <2>2, Zenon
<1>3. \A i \in 1 .. Len(s) : s[i] \in Tasks /\ s[i] \in Pointers /\ s[i] \in Elements(s)
  BY <1>1, PointersDiffer DEF Elements
<1>4. \A i \in 1 .. Len(l) : l[i] \in Tasks /\ l[i] \in Pointers /\ l[i] \in Elements(l)
  BY <1>2, PointersDiffer DEF Elements
<1>5. \A i \in 1 .. Len(s), j \in 1 .. Len(l) : s[i] # l[j]
  BY <1>3, <1>4
<1>6. b \in Tasks /\ b \in Pointers /\ b \in Elements(l) /\ h \in Pointers
  BY <1>2, <1>4
<1>7. d = (IF s = <<>> THEN Dummy(w) ELSE s[1]) /\ d \in Pointers /\ d \in Objects(w, s)
  BY <1>1, <1>3, PointersDiffer DEF DequeAt, First, Objects
<1>8. Path(m.next, h, NULL) = l
  <2>1. Len(l) <= MaxTasks
    BY <1>2, DistinctBound
  <2>2. h = First(l, NULL) /\ Forward(l, m.next, NULL)
    BY DEF ListAt
  <2> QED BY <1>2, <2>1, <2>2, PathIs, PointersDiffer
<1>9. m2 = [next |-> [m.next EXCEPT ![b] = d], prev |-> [m.prev EXCEPT ![d] = b],
            head |-> [m.head EXCEPT ![w] = h], tail |-> m.tail,
            num_tasks |-> [m.num_tasks EXCEPT ![w] = m.num_tasks[w] + Len(l)],
            freelist |-> m.freelist]
  BY <1>8 DEF deque_prepend, Mem
<1> HIDE DEF b, d
<1>10. Frame(m, m2, {w}, {}, Objects(w, s) \cup Elements(l))
  <2>1. m2 \in Mem
    <3>1. /\ [m.next EXCEPT ![b] = d] \in [Pointers -> Pointers]
          /\ [m.prev EXCEPT ![d] = b] \in [Pointers -> Pointers]
          /\ [m.head EXCEPT ![w] = h] \in [Workers -> Pointers]
      BY <1>6, <1>7, MemFields
    <3>2. [m.num_tasks EXCEPT ![w] = m.num_tasks[w] + Len(l)] \in [Workers -> Int]
      BY <1>2, MemFields
    <3> QED BY <1>9, <3>1, <3>2, MemFields DEF Mem
  <2> QED BY <1>6, <1>7, <1>9, <2>1, MemFields DEF Frame
<1>11. /\ s2 \in Seq(Tasks) /\ Len(s2) = Len(l) + Len(s)
       /\ \A i \in 1 .. Len(l) : s2[i] = l[i]
       /\ \A i \in 1 .. Len(s) : s2[Len(l) + i] = s[i]
  BY <1>1, <1>2
<1> HIDE DEF s2
\* An index of the whole is one of the first or of the second list.
<1>12. \A i \in 1 .. Len(s2) :
         \/ i \in 1 .. Len(l)
         \/ ~(i \in 1 .. Len(l)) /\ i - Len(l) \in 1 .. Len(s) /\ Len(l) + (i - Len(l)) = i
  BY <1>1, <1>2, <1>11
<1>13. Distinct(s2)
  <2> SUFFICES ASSUME NEW i \in 1 .. Len(s2), NEW j \in 1 .. Len(s2), s2[i] = s2[j]
               PROVE  i = j
    BY DEF Distinct
  <2>1. CASE i \in 1 .. Len(l) /\ j \in 1 .. Len(l)
    BY <1>2, <1>11, <2>1 DEF Distinct
  <2>2. CASE i \notin 1 .. Len(l) /\ j \notin 1 .. Len(l)
    <3>1. /\ i - Len(l) \in 1 .. Len(s) /\ s2[i] = s[i - Len(l)]
          /\ j - Len(l) \in 1 .. Len(s) /\ s2[j] = s[j - Len(l)]
      BY <1>11, <1>12, <2>2
    <3>2. i - Len(l) = j - Len(l)
      BY <1>1, <3>1 DEF Distinct
    <3> QED BY <1>2, <3>2
  <2>3. ASSUME NEW a \in 1 .. Len(s2), NEW c \in 1 .. Len(s2),
               a \in 1 .. Len(l), c \notin 1 .. Len(l)
        PROVE  s2[a] # s2[c]
    <3>1. c - Len(l) \in 1 .. Len(s) /\ s2[c] = s[c - Len(l)] /\ s2[a] = l[a]
      BY <1>11, <1>12, <2>3
    <3> QED BY <1>5, <2>3, <3>1
  <2> QED BY <2>1, <2>2, <2>3
<1>14. Forward(s2, m2.next, Dummy(w)) /\ m2.next[Dummy(w)] = NULL
  <2>1. ASSUME NEW i \in 1 .. Len(s)
        PROVE  m2.next[s[i]] = IF i = Len(s) THEN Dummy(w) ELSE s[i + 1]
    <3>1. s[i] # b /\ s[i] \in Pointers
      BY <1>2, <1>3, <1>5 DEF b
    <3> QED BY <1>6, <1>9, <3>1, MemFields DEF DequeAt, Forward
  <2>2. ASSUME NEW i \in 1 .. Len(l)
        PROVE  m2.next[l[i]] = IF i = Len(l) THEN d ELSE l[i + 1]
    <3>1. l[i] \in Pointers /\ (l[i] = b <=> i = Len(l))
      BY <1>2, <1>4 DEF b, Distinct
    <3>2. i # Len(l) => m.next[l[i]] = l[i + 1]
      BY DEF ListAt, Forward
    <3> QED BY <1>6, <1>9, <3>1, <3>2, MemFields
  <2>3. ASSUME NEW i \in 1 .. Len(s2)
        PROVE  m2.next[s2[i]] = IF i = Len(s2) THEN Dummy(w) ELSE s2[i + 1]
    <3>1. CASE i \notin 1 .. Len(l)
      <4>1. i - Len(l) \in 1 .. Len(s) /\ s2[i] = s[i - Len(l)]
            /\ (i = Len(s2) <=> i - Len(l) = Len(s))
        BY <1>1, <1>2, <1>11, <1>12, <3>1
      <4>2. i # Len(s2) => /\ i - Len(l) + 1 \in 1 .. Len(s)
                           /\ Len(l) + (i - Len(l) + 1) = i + 1
        BY <1>1, <1>2, <1>11, <4>1
      <4>3. i # Len(s2) => s2[i + 1] = s[i - Len(l) + 1]
        BY <1>11, <4>2
      <4> QED BY <2>1, <4>1, <4>3
    <3>2. CASE i \in 1 .. Len(l) /\ i # Len(l)
      <4>1. i + 1 \in 1 .. Len(l) /\ i # Len(s2)
        BY <1>1, <1>2, <1>11, <3>2
      <4> QED BY <1>11, <2>2, <3>2, <4>1
    <3>3. CASE i = Len(l)
      <4>1. m2.next[s2[i]] = d
        BY <1>2, <1>11, <2>2, <3>3
      <4>2. s = <<>> <=> i = Len(s2)
        BY <1>1, <1>2, <1>11, <3>3, EmptySeq
      <4>3. s # <<>> => 1 \in 1 .. Len(s) /\ Len(l) + 1 = i + 1
        BY <1>1, <1>2, <1>11, <3>3, <4>2
      <4> QED BY <1>7, <1>11, <4>1, <4>2, <4>3
    <3> QED BY <3>1, <3>2, <3>3
  <2>4. m2.next[Dummy(w)] = NULL
    BY <1>6, <1>9, PointersDiffer, MemFields DEF DequeAt
  <2> QED BY <2>3, <2>4 DEF Forward
<1>15. Backward(s2, m2.prev) /\ m2.prev[Dummy(w)] = Final(s2)
  <2>1. ASSUME NEW i \in 1 .. Len(s)
        PROVE  m2.prev[s[i]] = IF i = 1 THEN b ELSE s[i - 1]
    <3>1. s[i] \in Pointers /\ (s[i] = d <=> i = 1)
      <4>1. s # <<>> /\ 1 \in 1 .. Len(s)
        BY <1>1
      <4> QED BY <1>1, <1>3, <1>7, <4>1 DEF Distinct
    <3>2. i # 1 => m.prev[s[i]] = s[i - 1]
      BY DEF DequeAt, Backward
    <3> QED BY <1>7, <1>9, <3>1, <3>2, MemFields
  <2>2. ASSUME NEW i \in 1 .. Len(l)
        PROVE  m2.prev[l[i]] = IF i = 1 THEN NULL ELSE l[i - 1]
    <3>1. l[i] \in Pointers /\ l[i] # d
      <4>1. s # <<>> => 1 \in 1 .. Len(s)
        BY <1>1, EmptySeq
      <4> QED BY <1>4, <1>5, <1>7, <4>1, PointersDiffer
    <3>2. m.prev[l[i]] = IF i = 1 THEN NULL ELSE l[i - 1]
      BY DEF ListAt, Backward
    <3> QED BY <1>7, <1>9, <3>1, <3>2, MemFields
  <2>3. ASSUME NEW i \in 1 .. Len(s2)
        PROVE  m2.prev[s2[i]] = IF i = 1 THEN NULL ELSE s2[i - 1]
    <3>1. CASE i \in 1 .. Len(l)
      <4>1. i # 1 => i - 1 \in 1 .. Len(l)
        BY <1>2, <3>1
      <4> QED BY <1>11, <2>2, <3>1, <4>1
    <3>2. CASE i \notin 1 .. Len(l)
      <4>1. i - Len(l) \in 1 .. Len(s) /\ s2[i] = s[i - Len(l)] /\ i # 1
        BY <1>2, <1>11, <1>12, <3>2
      <4>2. CASE i - Len(l) = 1
        <5>1. i - 1 = Len(l) /\ Len(l) \in 1 .. Len(l)
          BY <1>2, <4>2
        <5> QED BY <1>11, <2>1, <4>1, <4>2, <5>1 DEF b
      <4>3. CASE i - Len(l) # 1
        <5>1. i - Len(l) - 1 \in 1 .. Len(s) /\ Len(l) + (i - Len(l) - 1) = i - 1
          BY <1>1, <1>2, <4>1, <4>3
        <5>2. m2.prev[s2[i]] = s[i - Len(l) - 1]
          BY <2>1, <4>1, <4>3
        <5>3. s2[i - 1] = s[i - Len(l) - 1]
          BY <1>11, <5>1
        <5> QED BY <4>1, <5>2, <5>3
      <4> QED BY <4>2, <4>3
    <3> QED BY <3>1, <3>2
  <2>4. m2.prev[Dummy(w)] = Final(s2)
    <3>1. CASE s = <<>>
      <4>1. Len(s) = 0 /\ Len(s2) = Len(l) /\ Len(l) \in 1 .. Len(l) /\ s2 # <<>>
        BY <1>2, <1>11, <3>1, EmptySeq
      <4> QED BY <1>6, <1>7, <1>9, <1>11, <3>1, <4>1, PointersDiffer, MemFields DEF Final, b
    <3>2. CASE s # <<>>
      <4>1. Len(s) \in 1 .. Len(s) /\ 1 \in 1 .. Len(s) /\ s2 # <<>> /\ Len(l) + Len(s) = Len(s2)
        BY <1>1, <1>2, <1>11, <3>2, EmptySeq
      <4>2. d # Dummy(w)
        BY <1>3, <1>7, <3>2, <4>1, PointersDiffer
      <4>3. m2.prev[Dummy(w)] = s[Len(s)]
        BY <1>7, <1>9, <3>2, <4>2, PointersDiffer, MemFields DEF DequeAt, Final
      <4> QED BY <1>11, <4>1, <4>3 DEF Final
    <3> QED BY <3>1, <3>2
  <2> QED BY <2>3, <2>4 DEF Backward
<1>16. m2.tail[w] = Dummy(w) /\ m2.head[w] = First(s2, Dummy(w)) /\ m2.num_tasks[w] = Len(s2)
  <2>1. m2.tail[w] = Dummy(w) /\ m2.head[w] = h /\ m2.num_tasks[w] = Len(s) + Len(l)
    BY <1>9, MemFields DEF DequeAt
  <2>2. 1 \in 1 .. Len(l) /\ s2 # <<>>
    BY <1>1, <1>2, <1>11, EmptySeq
  <2> QED BY <1>1, <1>2, <1>11, <2>1, <2>2 DEF First
<1> QED BY <1>10, <1>11, <1>13, <1>14, <1>15, <1>16 DEF DequeAt, s2

\* n steps back from the dummy, one finds the n-th task from the end.
LEMMA BackIs ==
    ASSUME NEW m, NEW w, NEW s, DequeAt(m, w, s), NEW n \in 1 .. Len(s)
    PROVE  Back(m, w, n) = s[Len(s) - n + 1]
<1> DEFINE at == CHOOSE f : f = [i \in 0 .. n |-> IF i = 0 THEN m.tail[w] ELSE m.prev[f[i - 1]]]
           x == [i \in 0 .. n |-> IF i = 0 THEN m.tail[w] ELSE s[Len(s) - i + 1]]
<1>1. s \in Seq(Tasks) /\ Len(s) \in Nat /\ n \in Nat /\ n \in 0 .. n /\ n # 0 /\ n <= Len(s)
  BY DEF DequeAt
<1>2. Walk(at, m.prev, m.tail[w], n)
  <2>1. \E f : f = [i \in 0 .. n |-> IF i = 0 THEN m.tail[w] ELSE m.prev[f[i - 1]]]
    <3>1. \E f : Walk(f, m.prev, m.tail[w], n)
      BY <1>1, WalkExists, Zenon
    <3> QED BY <3>1 DEF Walk
  <2> QED BY <2>1, Zenon DEF Walk
<1>3. Along(x, m.prev, m.tail[w], n)
  <2>1. ASSUME NEW i \in 0 .. n - 1
        PROVE  m.prev[x[i]] = x[i + 1]
    <3>1. x[i + 1] = s[Len(s) - (i + 1) + 1]
      BY <1>1
    <3>2. CASE i = 0
      <4>1. x[i] = Dummy(w) /\ m.prev[Dummy(w)] = Final(s) /\ s # <<>>
        BY <1>1, <3>2 DEF DequeAt
      <4>2. Len(s) - (i + 1) + 1 = Len(s)
        BY <1>1, <3>2
      <4> QED BY <3>1, <4>1, <4>2 DEF Final
    <3>3. CASE i # 0
      <4>1. x[i] = s[Len(s) - i + 1] /\ Len(s) - i + 1 \in 1 .. Len(s) /\ Len(s) - i + 1 # 1
        BY <1>1, <3>3
      <4>2. m.prev[x[i]] = s[Len(s) - i + 1 - 1]
        <5>1. \A j \in 1 .. Len(s) : j # 1 => m.prev[s[j]] = s[j - 1]
          BY DEF DequeAt, Backward
        <5> HIDE DEF x
        <5> QED BY <4>1, <5>1
      <4>3. Len(s) - i + 1 - 1 = Len(s) - (i + 1) + 1
        BY <1>1
      <4> QED BY <3>1, <4>2, <4>3
    <3> QED BY <3>2, <3>3
  <2>2. x[0] = m.tail[w]
    BY <1>1
  <2> HIDE DEF x
  <2> QED BY <2>1, <2>2 DEF Along
<1>4. \A i \in 0 .. n : at[i] = x[i]
  <2> HIDE DEF at, x
  <2>1. PICK link, o : link = m.prev /\ o = m.tail[w]
    OBVIOUS
  <2>2. Walk(at, link, o, n) /\ Along(x, link, o, n)
    BY <1>2, <1>3, <2>1
  <2> QED BY <1>1, <2>2, WalkFinds
<1>5. at[n] = s[Len(s) - n + 1]
  <2>1. x[n] = s[Len(s) - n + 1]
    BY <1>1
  <2> HIDE DEF at, x
  <2> QED BY <1>1, <1>4, <2>1
<1> QED BY <1>5 DEF Back

\* Unlink splits a deque in two: what remains, and the list of the n oldest tasks.
LEMMA UnlinkAt ==
    ASSUME NEW m \in Mem, NEW w \in Workers, NEW s, DequeAt(m, w, s),
           NEW n \in 1 .. Len(s), NEW m2, m2 = Unlink(m, w, n)
    PROVE  /\ Frame(m, m2, {w}, {}, Objects(w, s))
           /\ DequeAt(m2, w, SubSeq(s, 1, Len(s) - n))
           /\ ListAt(m2, Back(m, w, n), SubSeq(s, Len(s) - n + 1, Len(s)))
<1>1. s \in Seq(Tasks) /\ Distinct(s) /\ Len(s) \in Nat /\ n \in Nat /\ 1 <= n /\ n <= Len(s)
  BY DEF DequeAt
<1>0. PICK k : k = Len(s) - n
  OBVIOUS
<1>2. /\ k \in Nat /\ k < Len(s) /\ k + 1 \in 1 .. Len(s) /\ k + n = Len(s)
      /\ Len(s) \in 1 .. Len(s) /\ (k # 0 => k \in 1 .. Len(s))
      /\ k + 1 - 1 = k /\ (k + 1 = 1 <=> k = 0)
  BY <1>1, <1>0
<1>3. PICK d, t, b, p : d = Dummy(w) /\ t = s[k + 1] /\ b = s[Len(s)] /\ p = m.prev[t]
  OBVIOUS
<1>4. \A i \in 1 .. Len(s) : s[i] \in Tasks /\ s[i] \in Pointers /\ s[i] \in Elements(s) /\ s[i] # d
  BY <1>1, <1>3, PointersDiffer DEF Elements
<1>5. Back(m, w, n) = t /\ m.tail[w] = d /\ m.prev[d] = b /\ m.next[d] = NULL
  <2>1. s # <<>>
    BY <1>1
  <2> QED BY <1>0, <1>2, <1>3, <2>1, BackIs DEF DequeAt, Final
<1>6. p = IF k = 0 THEN NULL ELSE s[k]
  <2>1. \A i \in 1 .. Len(s) : m.prev[s[i]] = IF i = 1 THEN NULL ELSE s[i - 1]
    BY DEF DequeAt, Backward
  <2>2. m.prev[s[k + 1]] = IF k + 1 = 1 THEN NULL ELSE s[k + 1 - 1]
    BY <1>2, <2>1
  <2> QED BY <1>2, <1>3, <2>2
<1>7. t \in Pointers /\ b \in Pointers /\ d \in Pointers /\ p \in Pointers /\ t # d /\ b # d
      /\ NULL \in Pointers /\ (p = NULL <=> k = 0)
  BY <1>2, <1>3, <1>4, <1>6, PointersDiffer
<1>22. PICK nx, pv, hd, nt :
        /\ nx = IF k = 0 THEN [m.next EXCEPT ![b] = NULL]
                ELSE [m.next EXCEPT ![b] = NULL, ![p] = d]
        /\ pv = [m.prev EXCEPT ![d] = p, ![t] = NULL]
        /\ hd = IF k = 0 THEN [m.head EXCEPT ![w] = d] ELSE m.head
        /\ nt = [m.num_tasks EXCEPT ![w] = m.num_tasks[w] - n]
  OBVIOUS
<1>8. /\ nx \in [Pointers -> Pointers]
      /\ \A o \in Pointers : nx[o] = IF k # 0 /\ o = p THEN d
                                     ELSE IF o = b THEN NULL ELSE m.next[o]
  <2>1. CASE k = 0
    BY <1>7, <1>22, <2>1, MemFields
  <2>2. CASE k # 0
    BY <1>7, <1>22, <2>2, MemFields
  <2> QED BY <2>1, <2>2
<1>9. /\ pv \in [Pointers -> Pointers]
      /\ \A o \in Pointers : pv[o] = IF o = t THEN NULL ELSE IF o = d THEN p ELSE m.prev[o]
  BY <1>7, <1>22, MemFields
<1>10. /\ hd \in [Workers -> Pointers]
       /\ \A v \in Workers : hd[v] = IF k = 0 /\ v = w THEN d ELSE m.head[v]
  <2>1. CASE k = 0
    BY <1>7, <1>22, <2>1, MemFields
  <2>2. CASE k # 0
    BY <1>7, <1>22, <2>2, MemFields
  <2> QED BY <2>1, <2>2
<1>11. nt \in [Workers -> Int] /\ nt = [m.num_tasks EXCEPT ![w] = m.num_tasks[w] - n]
  <2>1. m.num_tasks[w] - n \in Int
    BY <1>1, MemFields
  <2> QED BY <1>22, <2>1, MemFields
<1>12. m2 = [next |-> nx, prev |-> pv, head |-> hd, tail |-> m.tail, num_tasks |-> nt,
             freelist |-> m.freelist]
  <2>1. CASE k = 0
    <3>1. m.prev[t] = NULL /\ p = NULL
      BY <1>3, <1>7, <2>1
    <3>2. nx = [m.next EXCEPT ![b] = NULL] /\ hd = [m.head EXCEPT ![w] = d]
      BY <1>22, <2>1
    <3>3. m2 = [[m EXCEPT !.next[b] = NULL, !.prev[d] = p,
                          !.prev[t] = NULL, !.num_tasks[w] = m.num_tasks[w] - n]
                EXCEPT !.head[w] = d]
      BY <1>3, <1>5, <3>1 DEF Unlink
    <3> QED BY <1>22, <3>2, <3>3 DEF Mem
  <2>2. CASE k # 0
    <3>1. m.prev[t] = p /\ p # NULL
      BY <1>3, <1>7, <2>2
    <3>2. nx = [m.next EXCEPT ![b] = NULL, ![p] = d] /\ hd = m.head
      BY <1>22, <2>2
    <3>3. m2 = [[m EXCEPT !.next[b] = NULL, !.prev[d] = p,
                          !.prev[t] = NULL, !.num_tasks[w] = m.num_tasks[w] - n]
                EXCEPT !.next[p] = d]
      BY <1>3, <1>5, <3>1 DEF Unlink
    <3> QED BY <1>22, <3>2, <3>3 DEF Mem
  <2> QED BY <2>1, <2>2
<1>13. Frame(m, m2, {w}, {}, Objects(w, s))
  <2>1. m2 \in Mem
    BY <1>8, <1>9, <1>10, <1>11, <1>12, MemFields DEF Mem
  <2>2. t \in Objects(w, s) /\ b \in Objects(w, s) /\ d \in Objects(w, s)
        /\ (k # 0 => p \in Objects(w, s))
    BY <1>2, <1>3, <1>4, <1>6 DEF Objects
  <2>3. \A o \in Pointers \ Objects(w, s) : m2.next[o] = m.next[o] /\ m2.prev[o] = m.prev[o]
    BY <1>8, <1>9, <1>12, <2>2
  <2>4. \A v \in Workers \ {w} : /\ m2.head[v] = m.head[v] /\ m2.tail[v] = m.tail[v]
                               /\ m2.num_tasks[v] = m.num_tasks[v]
    BY <1>10, <1>11, <1>12, MemFields
  <2>5. m2.freelist = m.freelist
    BY <1>12
  <2> QED BY <2>1, <2>3, <2>4, <2>5 DEF Frame
<1>14. PICK a, l : a = SubSeq(s, 1, k) /\ l = SubSeq(s, k + 1, Len(s))
  OBVIOUS
<1>15. ASSUME NEW i \in 1 .. Len(s)
       PROVE  /\ s[i] = b <=> i = Len(s)
              /\ s[i] = t <=> i = k + 1
              /\ s[i] = p <=> i = k
  <2>1. s[i] = b <=> i = Len(s)
    BY <1>1, <1>2, <1>3 DEF Distinct
  <2>2. s[i] = t <=> i = k + 1
    BY <1>1, <1>2, <1>3 DEF Distinct
  <2>3. s[i] = p <=> i = k
    <3>1. s[i] # NULL
      BY <1>4, PointersDiffer
    <3> QED BY <1>1, <1>2, <1>6, <3>1 DEF Distinct
  <2> QED BY <2>1, <2>2, <2>3
<1>16. ASSUME NEW i \in 1 .. Len(s)
       PROVE  /\ m2.next[s[i]] = CASE i = Len(s) -> NULL
                                   [] i = k -> d
                                   [] i # Len(s) /\ i # k -> s[i + 1]
              /\ m2.prev[s[i]] = IF i = 1 \/ i = k + 1 THEN NULL ELSE s[i - 1]
  <2>1. m.next[s[i]] = IF i = Len(s) THEN d ELSE s[i + 1]
    BY <1>3 DEF DequeAt, Forward
  <2>2. m.prev[s[i]] = IF i = 1 THEN NULL ELSE s[i - 1]
    BY DEF DequeAt, Backward
  <2>3. m2.prev[s[i]] = IF s[i] = t THEN NULL ELSE m.prev[s[i]]
    BY <1>4, <1>9, <1>12
  <2>4. m2.next[s[i]] = IF k # 0 /\ s[i] = p THEN d
                        ELSE IF s[i] = b THEN NULL ELSE m.next[s[i]]
    BY <1>4, <1>8, <1>12
  <2>5. i = k => i # Len(s) /\ k # 0
    BY <1>1, <1>2
  <2> QED BY <1>15, <2>1, <2>2, <2>3, <2>4, <2>5
<1>17. m2.next[d] = NULL /\ m2.prev[d] = p /\ m2.tail[w] = d /\ m2.num_tasks[w] = k
       /\ m2.head[w] = IF k = 0 THEN d ELSE s[1]
  <2>1. m.num_tasks[w] = Len(s) /\ m.head[w] = s[1]
    BY <1>1 DEF DequeAt, First
  <2>2. k # 0 => p # d
    BY <1>2, <1>4, <1>6
  <2>3. m2.next[d] = NULL /\ m2.prev[d] = p
    BY <1>5, <1>7, <1>8, <1>9, <1>12, <2>2
  <2>4. m2.num_tasks[w] = k
    BY <1>2, <1>11, <1>12, <2>1, MemFields
  <2>5. m2.tail[w] = d /\ m2.head[w] = IF k = 0 THEN d ELSE s[1]
    BY <1>5, <1>10, <1>12, <2>1
  <2> QED BY <2>3, <2>4, <2>5
<1>18. /\ a \in Seq(Tasks) /\ Len(a) = k /\ (a = <<>> <=> k = 0)
       /\ \A i \in 1 .. k : a[i] = s[i]
  <2>1. a \in Seq(Tasks) /\ Len(a) = k /\ \A i \in 1 .. k : a[i] = s[i]
    BY <1>1, <1>2, <1>14
  <2>2. a = <<>> <=> Len(a) = 0
    BY <2>1, EmptySeq
  <2> QED BY <2>1, <2>2
<1>19. /\ l \in Seq(Tasks) /\ Len(l) = n /\ l # <<>>
       /\ \A i \in 1 .. n : l[i] = s[k + i]
  <2>1. l \in Seq(Tasks) /\ Len(l) = n /\ \A i \in 1 .. n : l[i] = s[k + i]
    <3>1. k + 1 \in 1 .. Len(s) + 1 /\ Len(s) \in k .. Len(s) /\ Len(s) - (k + 1) + 1 = n
          /\ \A i \in 1 .. n : (k + 1) + i - 1 = k + i
      BY <1>1, <1>2
    <3>2. l \in Seq(Tasks) /\ Len(l) = Len(s) - (k + 1) + 1
          /\ \A i \in 1 .. Len(s) - (k + 1) + 1 : l[i] = s[(k + 1) + i - 1]
      BY <1>1, <1>2, <1>14, SubSeqProperties
    <3> QED BY <3>1, <3>2
  <2>2. l = <<>> <=> Len(l) = 0
    BY <2>1, EmptySeq
  <2> QED BY <1>1, <2>1, <2>2
<1>20. DequeAt(m2, w, a)
  <2>1. Distinct(a)
    BY <1>1, <1>2, <1>18 DEF Distinct
  <2>2. Forward(a, m2.next, d) /\ Backward(a, m2.prev)
    <3> SUFFICES ASSUME NEW i \in 1 .. k
                 PROVE  /\ m2.next[a[i]] = IF i = k THEN d ELSE a[i + 1]
                        /\ m2.prev[a[i]] = IF i = 1 THEN NULL ELSE a[i - 1]
      BY <1>18 DEF Forward, Backward
    <3>1. i \in 1 .. Len(s) /\ i # Len(s) /\ i # k + 1 /\ (i # k => i + 1 \in 1 .. k)
          /\ (i # 1 => i - 1 \in 1 .. k)
      BY <1>1, <1>2
    <3>2. m2.next[s[i]] = IF i = k THEN d ELSE s[i + 1]
      BY <1>16, <3>1
    <3>3. m2.prev[s[i]] = IF i = 1 THEN NULL ELSE s[i - 1]
      BY <1>16, <3>1
    <3>4. a[i] = s[i] /\ (i # k => a[i + 1] = s[i + 1]) /\ (i # 1 => a[i - 1] = s[i - 1])
      BY <1>18, <3>1
    <3> QED BY <3>2, <3>3, <3>4
  <2>3. m2.head[w] = First(a, d) /\ m2.prev[d] = Final(a)
    <3>1. k # 0 => 1 \in 1 .. k /\ k \in 1 .. k
      BY <1>2
    <3> QED BY <1>6, <1>17, <1>18, <3>1 DEF First, Final
  <2> QED BY <1>3, <1>17, <1>18, <2>1, <2>2, <2>3 DEF DequeAt
<1>21. ListAt(m2, t, l)
  <2>1. Distinct(l)
    <3> SUFFICES ASSUME NEW i \in 1 .. n, NEW j \in 1 .. n, l[i] = l[j]
                 PROVE  i = j
      BY <1>19 DEF Distinct
    <3>1. k + i \in 1 .. Len(s) /\ k + j \in 1 .. Len(s)
      BY <1>1, <1>2
    <3>2. k + i = k + j
      BY <1>1, <1>19, <3>1 DEF Distinct
    <3> QED BY <1>1, <1>2, <3>2
  <2>2. Forward(l, m2.next, NULL) /\ Backward(l, m2.prev)
    <3> SUFFICES ASSUME NEW i \in 1 .. n
                 PROVE  /\ m2.next[l[i]] = IF i = n THEN NULL ELSE l[i + 1]
                        /\ m2.prev[l[i]] = IF i = 1 THEN NULL ELSE l[i - 1]
      BY <1>19 DEF Forward, Backward
    <3>1. /\ k + i \in 1 .. Len(s) /\ (k + i = Len(s) <=> i = n) /\ (k + i = k + 1 <=> i = 1)
          /\ k + i # k /\ (i # n => i + 1 \in 1 .. n /\ k + i + 1 = k + (i + 1))
          /\ (i # 1 => i - 1 \in 1 .. n /\ k + i - 1 = k + (i - 1) /\ k + i # 1)
      <4>1. i \in Nat /\ 1 <= i /\ i <= n
        BY <1>1
      <4> QED BY <1>1, <1>2, <4>1
    <3>2. PICK j \in 1 .. Len(s) : j = k + i
      BY <3>1
    <3>3. m2.next[s[j]] = IF j = Len(s) THEN NULL ELSE s[j + 1]
      BY <1>16, <3>1, <3>2
    <3>4. m2.prev[s[j]] = IF j = 1 \/ j = k + 1 THEN NULL ELSE s[j - 1]
      BY <1>16
    <3>5. i # n => l[i + 1] = s[j + 1]
      BY <1>19, <3>1, <3>2
    <3>6. i # 1 => l[i - 1] = s[j - 1]
      <4>1. i # 1 => l[i - 1] = s[k + (i - 1)]
        BY <1>19, <3>1
      <4>2. j - 1 = k + (i - 1)
        BY <1>2, <3>2
      <4> QED BY <4>1, <4>2
    <3>7. l[i] = s[j]
      BY <1>19, <3>2
    <3> QED BY <3>1, <3>2, <3>3, <3>4, <3>5, <3>6, <3>7
  <2>3. l[1] = t
    BY <1>1, <1>3, <1>19
  <2> QED BY <1>19, <2>1, <2>2, <2>3 DEF ListAt, First
<1> QED BY <1>0, <1>5, <1>13, <1>14, <1>20, <1>21

\* An object taken from the free list has no links.
LEMMA FreePopAt ==
    ASSUME NEW m \in Mem, NEW w \in Workers, NEW s, FreeAt(m, w, s), s # <<>>,
           NEW m2, m2 = freelist_pop(m, w)
    PROVE  /\ Frame(m, m2, {}, {w}, {s[1]})
           /\ FreeAt(m2, w, Tail(s))
           /\ m.freelist[w] = s[1] /\ Loose(m2, s[1])
<1>1. s \in Seq(Tasks) /\ Distinct(s) /\ Len(s) \in Nat /\ 1 \in 1 .. Len(s)
  <2>1. s \in Seq(Tasks) /\ Distinct(s) /\ Len(s) \in Nat /\ Len(s) # 0
    BY EmptySeq DEF FreeAt
  <2>2. \A n \in Nat : n # 0 => 1 \in 1 .. n
    OBVIOUS
  <2> QED BY <2>1, <2>2, Zenon
<1>2. \A i \in 1 .. Len(s) : s[i] \in Tasks /\ s[i] \in Pointers
  BY <1>1, PointersDiffer
<1>3. PICK t, h, s2 : t = s[1] /\ h = m.next[t] /\ s2 = Tail(s)
  OBVIOUS
<1>4. m.freelist[w] = t /\ t \in Pointers /\ h \in Pointers /\ NULL \in Pointers
  BY <1>1, <1>2, <1>3, MemFields, PointersDiffer DEF FreeAt, First
<1>5. PICK nx, fl : nx = [m.next EXCEPT ![t] = NULL] /\ fl = [m.freelist EXCEPT ![w] = h]
  OBVIOUS
<1>6. /\ nx \in [Pointers -> Pointers] /\ fl \in [Workers -> Pointers]
      /\ \A o \in Pointers : nx[o] = IF o = t THEN NULL ELSE m.next[o]
      /\ \A v \in Workers : fl[v] = IF v = w THEN h ELSE m.freelist[v]
  BY <1>4, <1>5, MemFields
<1>7. m2 = [next |-> nx, prev |-> m.prev, head |-> m.head, tail |-> m.tail,
            num_tasks |-> m.num_tasks, freelist |-> fl]
  BY <1>3, <1>4, <1>5 DEF freelist_pop, Mem
<1>8. Frame(m, m2, {}, {w}, {t})
  <2>1. m2 \in Mem
    BY <1>6, <1>7, MemFields DEF Mem
  <2> QED BY <1>6, <1>7, <2>1 DEF Frame
<1>9. /\ s2 \in Seq(Tasks) /\ Len(s2) = Len(s) - 1 /\ (s2 = <<>> <=> Len(s2) = 0)
      /\ \A i \in 1 .. Len(s2) : s2[i] = s[i + 1]
  BY <1>1, <1>3, HeadTailProperties, EmptySeq
<1>10. \A i \in 1 .. Len(s2) : i + 1 \in 1 .. Len(s) /\ i + 1 # 1
  BY <1>1, <1>9
<1>11. Distinct(s2)
  <2> SUFFICES ASSUME NEW i \in 1 .. Len(s2), NEW j \in 1 .. Len(s2), s2[i] = s2[j]
               PROVE  i = j
    BY DEF Distinct
  <2>1. i + 1 = j + 1
    BY <1>1, <1>9, <1>10 DEF Distinct
  <2> QED BY <2>1
<1>12. ASSUME NEW i \in 1 .. Len(s2)
       PROVE  /\ m2.next[s2[i]] = IF i = Len(s2) THEN NULL ELSE s2[i + 1]
              /\ m2.prev[s2[i]] = NULL
  <2>1. PICK j \in 1 .. Len(s) : j = i + 1 /\ j # 1
    BY <1>10
  <2>2. s[j] # t /\ s[j] \in Pointers
    BY <1>1, <1>2, <1>3, <2>1 DEF Distinct
  <2>3. m.next[s[j]] = (IF j = Len(s) THEN NULL ELSE s[j + 1]) /\ m.prev[s[j]] = NULL
    BY DEF FreeAt, Forward
  <2>4. m2.next[s[j]] = (IF j = Len(s) THEN NULL ELSE s[j + 1]) /\ m2.prev[s[j]] = NULL
    BY <1>6, <1>7, <2>2, <2>3
  <2>5. s2[i] = s[j] /\ (j = Len(s) <=> i = Len(s2))
    BY <1>1, <1>9, <2>1
  <2>6. i # Len(s2) => s2[i + 1] = s[j + 1]
    BY <1>1, <1>9, <2>1
  <2> QED BY <2>4, <2>5, <2>6
<1>13. m2.freelist[w] = First(s2, NULL)
  <2>1. m.next[s[1]] = IF 1 = Len(s) THEN NULL ELSE s[1 + 1]
    BY <1>1 DEF FreeAt, Forward
  <2>2. (1 = Len(s) <=> s2 = <<>>) /\ (s2 # <<>> => s2[1] = s[1 + 1])
    BY <1>1, <1>9
  <2> QED BY <1>3, <1>6, <1>7, <2>1, <2>2 DEF First
<1>14. FreeAt(m2, w, s2)
  BY <1>9, <1>11, <1>12, <1>13 DEF FreeAt, Forward
<1>15. Loose(m2, t)
  <2>1. m.prev[s[1]] = NULL
    BY <1>1 DEF FreeAt
  <2> QED BY <1>3, <1>4, <1>6, <1>7, <2>1 DEF Loose
<1> QED BY <1>3, <1>4, <1>8, <1>14, <1>15

\* deque_task_cache adds an object to the free list.
LEMMA FreePushAt ==
    ASSUME NEW m \in Mem, NEW w \in Workers, NEW s, FreeAt(m, w, s),
           NEW t \in Tasks, t \notin Elements(s), NEW m2, m2 = deque_task_cache(m, w, t)
    PROVE  Frame(m, m2, {}, {w}, {t}) /\ FreeAt(m2, w, <<t>> \o s)
<1>1. s \in Seq(Tasks) /\ Distinct(s) /\ Len(s) \in Nat
  BY DEF FreeAt
<1>2. \A i \in 1 .. Len(s) : s[i] \in Tasks /\ s[i] \in Pointers /\ s[i] # t
  BY <1>1, PointersDiffer DEF Elements
<1>3. PICK h, s2 : h = m.freelist[w] /\ s2 = <<t>> \o s
  OBVIOUS
<1>4. t \in Pointers /\ h \in Pointers /\ NULL \in Pointers
  BY <1>3, MemFields, PointersDiffer
<1>5. PICK nx, pv, fl : /\ nx = [m.next EXCEPT ![t] = h] /\ pv = [m.prev EXCEPT ![t] = NULL]
                        /\ fl = [m.freelist EXCEPT ![w] = t]
  OBVIOUS
<1>6. /\ nx \in [Pointers -> Pointers] /\ fl \in [Workers -> Pointers]
      /\ pv \in [Pointers -> Pointers]
      /\ \A o \in Pointers : nx[o] = IF o = t THEN h ELSE m.next[o]
      /\ \A o \in Pointers : pv[o] = IF o = t THEN NULL ELSE m.prev[o]
      /\ \A v \in Workers : fl[v] = IF v = w THEN t ELSE m.freelist[v]
  BY <1>4, <1>5, MemFields
<1>7. m2 = [next |-> nx, prev |-> pv, head |-> m.head, tail |-> m.tail,
            num_tasks |-> m.num_tasks, freelist |-> fl]
  BY <1>3, <1>4, <1>5 DEF deque_task_cache, freelist_push, Mem
<1>8. Frame(m, m2, {}, {w}, {t})
  <2>1. m2 \in Mem
    BY <1>6, <1>7, MemFields DEF Mem
  <2> QED BY <1>6, <1>7, <2>1 DEF Frame
<1>9. /\ s2 \in Seq(Tasks) /\ Len(s2) = Len(s) + 1 /\ s2 # <<>> /\ s2[1] = t
      /\ \A i \in 2 .. Len(s2) : s2[i] = s[i - 1]
  BY <1>1, <1>3
<1>10. \A i \in 1 .. Len(s2) : i # 1 => i \in 2 .. Len(s2) /\ i - 1 \in 1 .. Len(s)
  BY <1>1, <1>9
<1>11. Distinct(s2)
  <2> SUFFICES ASSUME NEW i \in 1 .. Len(s2), NEW j \in 1 .. Len(s2), s2[i] = s2[j]
               PROVE  i = j
    BY DEF Distinct
  <2>1. i = 1 <=> j = 1
    BY <1>2, <1>9, <1>10
  <2>2. CASE i # 1 /\ j # 1
    <3>1. i - 1 = j - 1
      BY <1>1, <1>9, <1>10, <2>2 DEF Distinct
    <3> QED BY <3>1
  <2> QED BY <2>1, <2>2
<1>12. ASSUME NEW i \in 1 .. Len(s2)
       PROVE  /\ m2.next[s2[i]] = IF i = Len(s2) THEN NULL ELSE s2[i + 1]
              /\ m2.prev[s2[i]] = NULL
  <2>1. CASE i = 1
    <3>1. h = IF s = <<>> THEN NULL ELSE s[1]
      BY <1>3 DEF FreeAt, First
    <3>2. s = <<>> <=> 1 = Len(s2)
      BY <1>1, <1>9, EmptySeq
    <3>3. s # <<>> => s2[1 + 1] = s[1]
      BY <1>1, <1>9, <3>2
    <3> QED BY <1>4, <1>6, <1>7, <1>9, <2>1, <3>1, <3>2, <3>3
  <2>2. CASE i # 1
    <3>1. PICK j \in 1 .. Len(s) : j = i - 1
      BY <1>10, <2>2
    <3>2. m.next[s[j]] = (IF j = Len(s) THEN NULL ELSE s[j + 1]) /\ m.prev[s[j]] = NULL
      BY DEF FreeAt, Forward
    <3>3. m2.next[s[j]] = (IF j = Len(s) THEN NULL ELSE s[j + 1]) /\ m2.prev[s[j]] = NULL
      BY <1>2, <1>6, <1>7, <3>2
    <3>4. s2[i] = s[j] /\ (j = Len(s) <=> i = Len(s2))
      BY <1>1, <1>9, <1>10, <2>2, <3>1
    <3>5. i # Len(s2) => s2[i + 1] = s[j + 1]
      <4>1. i # Len(s2) => i + 1 \in 2 .. Len(s2) /\ i + 1 - 1 = j + 1
        BY <1>1, <1>9, <3>1
      <4>2. i # Len(s2) => s2[i + 1] = s[i + 1 - 1]
        BY <1>9, <4>1
      <4> QED BY <4>1, <4>2
    <3> QED BY <3>3, <3>4, <3>5
  <2> QED BY <2>1, <2>2
<1>13. m2.freelist[w] = First(s2, NULL)
  BY <1>6, <1>7, <1>9 DEF First
<1>14. FreeAt(m2, w, s2)
  BY <1>9, <1>11, <1>12, <1>13 DEF FreeAt, Forward
<1> QED BY <1>3, <1>8, <1>14

-----------------------------------------------------------------------------
(* The elements of lists *)

LEMMA ElementsOf ==
    ASSUME NEW S, NEW s \in Seq(S)
    PROVE  Elements(s) \subseteq S /\ \A i \in 1 .. Len(s) : s[i] \in Elements(s)
BY DEF Elements

LEMMA ElementsCons ==
    ASSUME NEW S, NEW s \in Seq(S), NEW t \in S
    PROVE  Elements(<<t>> \o s) = Elements(s) \cup {t}
<1>1. PICK s2 : s2 = <<t>> \o s
  OBVIOUS
<1>2. Len(s) \in Nat /\ Len(s2) = Len(s) + 1 /\ s2[1] = t /\ \A i \in 1 .. Len(s) : s2[i + 1] = s[i]
  BY <1>1
<1>3. \A i \in 1 .. Len(s2) : i # 1 => i - 1 \in 1 .. Len(s) /\ s2[i] = s[i - 1]
  BY <1>2
<1>4. Elements(s2) \subseteq Elements(s) \cup {t}
  BY <1>2, <1>3 DEF Elements
<1>5. Elements(s) \cup {t} \subseteq Elements(s2)
  <2>1. 1 \in 1 .. Len(s2) /\ \A i \in 1 .. Len(s) : i + 1 \in 1 .. Len(s2)
    BY <1>2
  <2> QED BY <1>2, <2>1 DEF Elements
<1> QED BY <1>1, <1>4, <1>5

LEMMA ElementsConcat ==
    ASSUME NEW S, NEW a \in Seq(S), NEW b \in Seq(S)
    PROVE  Elements(a \o b) = Elements(a) \cup Elements(b)
<1>1. PICK s : s = a \o b
  OBVIOUS
<1>2. /\ Len(a) \in Nat /\ Len(b) \in Nat /\ Len(s) = Len(a) + Len(b)
      /\ \A i \in 1 .. Len(a) : s[i] = a[i]
      /\ \A i \in 1 .. Len(b) : s[Len(a) + i] = b[i]
  BY <1>1
<1>3. \A i \in 1 .. Len(s) :
        \/ i \in 1 .. Len(a)
        \/ i - Len(a) \in 1 .. Len(b) /\ Len(a) + (i - Len(a)) = i
  BY <1>2
<1>4. \A i \in 1 .. Len(s) : s[i] \in Elements(a) \cup Elements(b)
  <2> TAKE i \in 1 .. Len(s)
  <2>1. CASE i \in 1 .. Len(a)
    BY <1>2, <2>1 DEF Elements
  <2>2. CASE i \notin 1 .. Len(a)
    <3>1. PICK j \in 1 .. Len(b) : s[i] = b[j]
      BY <1>2, <1>3, <2>2
    <3> QED BY <3>1 DEF Elements
  <2> QED BY <2>1, <2>2
<1>5. Elements(a) \cup Elements(b) \subseteq Elements(s)
  <2>1. /\ \A i \in 1 .. Len(a) : i \in 1 .. Len(s)
        /\ \A i \in 1 .. Len(b) : Len(a) + i \in 1 .. Len(s)
    BY <1>2
  <2> QED BY <1>2, <2>1 DEF Elements
<1>6. Elements(s) \subseteq Elements(a) \cup Elements(b)
  BY <1>4 DEF Elements
<1> QED BY <1>1, <1>5, <1>6

LEMMA ElementsTail ==
    ASSUME NEW S, NEW s \in Seq(S), s # <<>>, Distinct(s)
    PROVE  s[1] \in Elements(s) /\ Elements(Tail(s)) = Elements(s) \ {s[1]}
<1>1. PICK s2 : s2 = Tail(s)
  OBVIOUS
<1>2. Len(s) \in Nat /\ 1 \in 1 .. Len(s)
  <2>1. Len(s) \in Nat /\ Len(s) # 0
    BY EmptySeq
  <2>2. \A n \in Nat : n # 0 => 1 \in 1 .. n
    OBVIOUS
  <2> QED BY <2>1, <2>2, Zenon
<1>3. Len(s2) = Len(s) - 1 /\ \A i \in 1 .. Len(s2) : s2[i] = s[i + 1]
  BY <1>1, HeadTailProperties
<1>4. \A i \in 1 .. Len(s2) : i + 1 \in 1 .. Len(s) /\ i + 1 # 1
  BY <1>2, <1>3
<1>5. \A i \in 1 .. Len(s) : i # 1 => i - 1 \in 1 .. Len(s2) /\ s2[i - 1] = s[i]
  BY <1>2, <1>3
<1>6. \A i \in 1 .. Len(s2) : s2[i] \in Elements(s) /\ s2[i] # s[1]
  BY <1>2, <1>3, <1>4 DEF Elements, Distinct
<1>7. \A i \in 1 .. Len(s) : s[i] # s[1] => s[i] \in Elements(s2)
  BY <1>5 DEF Elements
<1>8. Elements(s2) \subseteq Elements(s) \ {s[1]}
  BY <1>6 DEF Elements
<1>9. Elements(s) \ {s[1]} \subseteq Elements(s2)
  BY <1>7 DEF Elements
<1>10. s[1] \in Elements(s)
  BY <1>2 DEF Elements
<1> QED BY <1>1, <1>8, <1>9, <1>10

LEMMA ElementsSplit ==
    ASSUME NEW S, NEW s \in Seq(S), Distinct(s), NEW k \in 0 .. Len(s)
    PROVE  /\ Elements(SubSeq(s, k + 1, Len(s))) \subseteq Elements(s)
           /\ Elements(SubSeq(s, 1, k)) = Elements(s) \ Elements(SubSeq(s, k + 1, Len(s)))
<1>1. PICK a, b : a = SubSeq(s, 1, k) /\ b = SubSeq(s, k + 1, Len(s))
  OBVIOUS
<1>2. Len(s) \in Nat /\ k \in Nat /\ k <= Len(s)
  OBVIOUS
<1>3. Len(a) = k /\ \A i \in 1 .. k : a[i] = s[i]
  BY <1>1, <1>2
<1>4. Len(b) = Len(s) - k /\ \A i \in 1 .. Len(s) - k : b[i] = s[k + i]
  <2>1. \A i \in k + 1 .. Len(s) : s[i] \in S
    BY <1>2
  <2>2. /\ Len(b) = IF k + 1 <= Len(s) THEN Len(s) - (k + 1) + 1 ELSE 0
        /\ \A i \in 1 .. Len(s) - (k + 1) + 1 : b[i] = s[(k + 1) + i - 1]
    BY <1>1, <1>2, <2>1, SubSeqProperties
  <2>3. Len(s) - (k + 1) + 1 = Len(s) - k /\ \A i \in 1 .. Len(s) - k : (k + 1) + i - 1 = k + i
    BY <1>2
  <2>4. Len(b) = Len(s) - k
    BY <1>2, <2>2
  <2> QED BY <2>2, <2>3, <2>4
<1>5. \A i \in 1 .. Len(b) : k + i \in 1 .. Len(s) /\ k + i \notin 1 .. k
  BY <1>2, <1>4
<1>6. Elements(b) \subseteq Elements(s)
  BY <1>4, <1>5 DEF Elements
<1>7. \A i \in 1 .. k : a[i] \in Elements(s) /\ a[i] \notin Elements(b)
  <2>1. \A i \in 1 .. k : i \in 1 .. Len(s)
    BY <1>2
  <2>2. \A i \in 1 .. k : \A j \in 1 .. Len(b) : s[i] # s[k + j]
    BY <1>5, <2>1 DEF Distinct
  <2> QED BY <1>3, <1>4, <2>1, <2>2 DEF Elements
<1>8. \A i \in 1 .. Len(s) : s[i] \in Elements(a) \/ s[i] \in Elements(b)
  <2> TAKE i \in 1 .. Len(s)
  <2>1. CASE i \in 1 .. k
    BY <1>3, <2>1 DEF Elements
  <2>2. CASE i \notin 1 .. k
    <3>1. i - k \in 1 .. Len(b) /\ k + (i - k) = i
      BY <1>2, <1>4, <2>2
    <3>2. b[i - k] = s[i]
      BY <1>4, <3>1
    <3> QED BY <3>1, <3>2 DEF Elements
  <2> QED BY <2>1, <2>2
<1>9. Elements(a) \subseteq Elements(s) \ Elements(b)
  BY <1>3, <1>7 DEF Elements
<1>10. \A x \in Elements(s) : x \in Elements(a) \/ x \in Elements(b)
  BY <1>8 DEF Elements
<1> QED BY <1>1, <1>6, <1>9, <1>10

-----------------------------------------------------------------------------
(* The inductive invariant *)

InDeque(w) == <<"deque", w>>
InLoot(w)  == <<"loot", w>>
InFree(w)  == <<"free", w>>
InHands(w) == <<"held", w>>
Gone   == <<"freed", 0>>
Unborn == <<"new", 0>>

Places == ({"deque", "loot", "free", "held"} \X Workers) \cup {Gone, Unborn}

\* m represents the deques D, the lists under way L and the free lists F; all
\* other objects that a worker may get have no links.
ListsOK(m, lt, hd, al, D, L, F) ==
    /\ m \in Mem /\ lt \in [Workers -> Pointers] /\ hd \in [Workers -> SUBSET Tasks]
    /\ al \in 0 .. MaxTasks
    /\ DOMAIN D = Workers /\ DOMAIN L = Workers /\ DOMAIN F = Workers
    /\ Loose(m, NULL)
    /\ \A w \in Workers : /\ DequeAt(m, w, D[w]) /\ ListAt(m, lt[w], L[w])
                          /\ FreeAt(m, w, F[w]) /\ \A t \in hd[w] : Loose(m, t)
    /\ \A t \in Tasks : t > al => Loose(m, t)

\* place says where each task is.
PlacesOK(hd, al, fr, D, L, F, place) ==
    /\ place \in [Tasks -> Places]
    /\ \A t \in Tasks :
        /\ \A w \in Workers : /\ t \in Elements(D[w]) <=> place[t] = InDeque(w)
                              /\ t \in Elements(L[w]) <=> place[t] = InLoot(w)
                              /\ t \in Elements(F[w]) <=> place[t] = InFree(w)
                              /\ t \in hd[w] <=> place[t] = InHands(w)
        /\ t \in fr <=> place[t] = Gone
        /\ t > al <=> place[t] = Unborn

Rep(m, lt, hd, al, fr, D, L, F) ==
    /\ ListsOK(m, lt, hd, al, D, L, F)
    /\ \E place : PlacesOK(hd, al, fr, D, L, F, place)

Inv == \E D, L, F : Rep(mem, loot, held, allocated, freed, D, L, F)

\* The tasks among the objects X are at the places Q.
Touches(place, X, Q) == \A o \in X : o \in Tasks => place[o] \in Q

\* What is represented stays so, when no object there is touched.
LEMMA Kept ==
    ASSUME NEW m, NEW lt, NEW hd, NEW al, NEW fr, NEW D, NEW L, NEW F, NEW place,
           ListsOK(m, lt, hd, al, D, L, F), PlacesOK(hd, al, fr, D, L, F, place),
           NEW m2, NEW A, NEW B, NEW X, Frame(m, m2, A, B, X), NULL \notin X,
           NEW Q, Touches(place, X, Q)
    PROVE  /\ \A v \in Workers \ A : InDeque(v) \notin Q /\ Dummy(v) \notin X
                                        => DequeAt(m2, v, D[v])
           /\ \A v \in Workers : InLoot(v) \notin Q => ListAt(m2, lt[v], L[v])
           /\ \A v \in Workers \ B : InFree(v) \notin Q => FreeAt(m2, v, F[v])
           /\ \A t \in Tasks : place[t] \notin Q /\ Loose(m, t) => Loose(m2, t)
           /\ Loose(m2, NULL) /\ m2 \in Mem
<1>1. \A v \in Workers : /\ Elements(D[v]) \subseteq Tasks /\ Elements(L[v]) \subseteq Tasks
                         /\ Elements(F[v]) \subseteq Tasks
  BY ElementsOf DEF ListsOK, DequeAt, ListAt, FreeAt
<1>2. ASSUME NEW v \in Workers \ A, InDeque(v) \notin Q, Dummy(v) \notin X
      PROVE  DequeAt(m2, v, D[v])
  <2>1. \A t \in Elements(D[v]) : t \notin X
    BY <1>1, <1>2 DEF PlacesOK, Touches
  <2>2. Objects(v, D[v]) \cap X = {}
    BY <1>2, <2>1 DEF Objects
  <2>3. DequeAt(m, v, D[v])
    BY DEF ListsOK
  <2> QED BY <2>2, <2>3, KeepDeque
<1>3. ASSUME NEW v \in Workers, InLoot(v) \notin Q
      PROVE  ListAt(m2, lt[v], L[v])
  <2>1. Elements(L[v]) \cap X = {}
    BY <1>1, <1>3 DEF PlacesOK, Touches
  <2>2. ListAt(m, lt[v], L[v])
    BY DEF ListsOK
  <2> QED BY <2>1, <2>2, KeepList
<1>4. ASSUME NEW v \in Workers \ B, InFree(v) \notin Q
      PROVE  FreeAt(m2, v, F[v])
  <2>1. Elements(F[v]) \cap X = {}
    BY <1>1, <1>4 DEF PlacesOK, Touches
  <2>2. FreeAt(m, v, F[v])
    BY DEF ListsOK
  <2> QED BY <2>1, <2>2, KeepFree
<1>5. ASSUME NEW t \in Tasks, place[t] \notin Q, Loose(m, t)
      PROVE  Loose(m2, t)
  <2>1. t \notin X /\ t \in Pointers
    BY <1>5, PointersDiffer DEF Touches
  <2> QED BY <1>5, <2>1 DEF Loose, Frame
<1>6. Loose(m2, NULL) /\ m2 \in Mem
  BY PointersDiffer DEF Loose, Frame, ListsOK
<1> QED BY <1>2, <1>3, <1>4, <1>5, <1>6

\* b is what is at place r, where a was, after S has moved to place q.
Moved(a, b, S, q, r) == b = IF q = r THEN a \cup S ELSE a \ S

\* The tasks S move to place q.
Move(hd, al, fr, D, L, F, hd2, al2, fr2, D2, L2, F2, S, q) ==
    /\ \A w \in Workers : /\ Moved(Elements(D[w]), Elements(D2[w]), S, q, InDeque(w))
                          /\ Moved(Elements(L[w]), Elements(L2[w]), S, q, InLoot(w))
                          /\ Moved(Elements(F[w]), Elements(F2[w]), S, q, InFree(w))
                          /\ Moved(hd[w], hd2[w], S, q, InHands(w))
    /\ Moved(fr \cap Tasks, fr2 \cap Tasks, S, q, Gone)
    /\ \A t \in Tasks : t > al2 <=> t > al /\ t \notin S

LEMMA MovePlaces ==
    ASSUME NEW hd, NEW al, NEW fr, NEW D, NEW L, NEW F, NEW place,
           PlacesOK(hd, al, fr, D, L, F, place), NEW S, S \subseteq Tasks,
           NEW q \in Places, q # Unborn,
           NEW hd2, NEW al2, NEW fr2, NEW D2, NEW L2, NEW F2,
           Move(hd, al, fr, D, L, F, hd2, al2, fr2, D2, L2, F2, S, q)
    PROVE  \E p : /\ PlacesOK(hd2, al2, fr2, D2, L2, F2, p)
                 /\ \A t \in Tasks : p[t] = IF t \in S THEN q ELSE place[t]
<1>1. PICK p : p = [t \in Tasks |-> IF t \in S THEN q ELSE place[t]]
  OBVIOUS
<1>2. p \in [Tasks -> Places]
  BY <1>1 DEF PlacesOK
<1>6. \A a, b, r : Moved(a, b, S, q, r) =>
        \A t : t \in b <=> IF t \in S THEN q = r ELSE t \in a
  BY DEF Moved
<1>3. ASSUME NEW t \in Tasks, NEW w \in Workers
      PROVE  /\ t \in Elements(D2[w]) <=> p[t] = InDeque(w)
             /\ t \in Elements(L2[w]) <=> p[t] = InLoot(w)
             /\ t \in Elements(F2[w]) <=> p[t] = InFree(w)
             /\ t \in hd2[w] <=> p[t] = InHands(w)
  <2>1. p[t] = IF t \in S THEN q ELSE place[t]
    BY <1>1
  <2>2. /\ t \in Elements(D2[w]) <=> IF t \in S THEN q = InDeque(w) ELSE t \in Elements(D[w])
        /\ t \in Elements(L2[w]) <=> IF t \in S THEN q = InLoot(w) ELSE t \in Elements(L[w])
        /\ t \in Elements(F2[w]) <=> IF t \in S THEN q = InFree(w) ELSE t \in Elements(F[w])
        /\ t \in hd2[w] <=> IF t \in S THEN q = InHands(w) ELSE t \in hd[w]
    BY <1>6 DEF Move
  <2> QED BY <2>1, <2>2 DEF PlacesOK
<1>4. ASSUME NEW t \in Tasks
      PROVE  (t \in fr2 <=> p[t] = Gone) /\ (t > al2 <=> p[t] = Unborn)
  <2>1. p[t] = IF t \in S THEN q ELSE place[t]
    BY <1>1
  <2>2. t \in fr2 <=> IF q = Gone THEN t \in fr \/ t \in S ELSE t \in fr /\ t \notin S
    BY DEF Move, Moved
  <2> QED BY <2>1, <2>2 DEF PlacesOK, Move
<1>5. PlacesOK(hd2, al2, fr2, D2, L2, F2, p)
  BY <1>2, <1>3, <1>4 DEF PlacesOK
<1> QED BY <1>1, <1>5

-----------------------------------------------------------------------------
(* What the operations do to the sequences.  Every action consists of a few   *)
(* moves between places: a worker gets a task into its hands, or puts it      *)
(* elsewhere.                                                                 *)

\* The set b at place r was a, before the tasks S have moved from p to q.
Shift(a, b, S, p, q, r) == b = IF r = p THEN a \ S ELSE a \cup S

\* Between m and m2 only the objects X have changed, which belong to p and q.
Local(m, m2, place, A, B, X, S, p, q) ==
    /\ Frame(m, m2, A, B, X) /\ NULL \notin X
    /\ \A v \in Workers : v \in A \/ Dummy(v) \in X => InDeque(v) \in {p, q}
    /\ \A v \in B : InFree(v) \in {p, q}
    /\ \A o \in X : o \in Tasks /\ o \notin S =>
        place[o] \in {p, q} /\ place[o] # Unborn /\ \A v \in Workers : place[o] # InHands(v)

\* The sequences and sets at p and q are as they should be, after the move.
DequeChange(m2, v, D, D2, S, p, q) ==
    IF InDeque(v) \in {p, q}
    THEN DequeAt(m2, v, D2[v]) /\ Shift(Elements(D[v]), Elements(D2[v]), S, p, q, InDeque(v))
    ELSE D2[v] = D[v]

LootChange(m2, v, lt, L, lt2, L2, S, p, q) ==
    IF InLoot(v) \in {p, q}
    THEN ListAt(m2, lt2[v], L2[v]) /\ Shift(Elements(L[v]), Elements(L2[v]), S, p, q, InLoot(v))
    ELSE lt2[v] = lt[v] /\ L2[v] = L[v]

FreeChange(m2, v, F, F2, S, p, q) ==
    IF InFree(v) \in {p, q}
    THEN FreeAt(m2, v, F2[v]) /\ Shift(Elements(F[v]), Elements(F2[v]), S, p, q, InFree(v))
    ELSE F2[v] = F[v]

HandsChange(m2, v, hd, hd2, S, p, q) ==
    /\ IF InHands(v) \in {p, q} THEN Shift(hd[v], hd2[v], S, p, q, InHands(v))
       ELSE hd2[v] = hd[v]
    /\ q = InHands(v) => \A t \in S : Loose(m2, t)

Changed(m2, lt, hd, al, fr, D, L, F, lt2, hd2, al2, fr2, D2, L2, F2, S, p, q) ==
    /\ \A v \in Workers : DequeChange(m2, v, D, D2, S, p, q)
    /\ \A v \in Workers : LootChange(m2, v, lt, L, lt2, L2, S, p, q)
    /\ \A v \in Workers : FreeChange(m2, v, F, F2, S, p, q)
    /\ \A v \in Workers : HandsChange(m2, v, hd, hd2, S, p, q)
    /\ IF q = Gone THEN fr2 \cap Tasks = (fr \cap Tasks) \cup S
       ELSE fr2 \cap Tasks = fr \cap Tasks
    /\ IF p = Unborn THEN \A t \in Tasks : t > al2 <=> t > al /\ t \notin S ELSE al2 = al

LEMMA Transfer ==
    ASSUME NEW m, NEW lt, NEW hd, NEW al, NEW fr, NEW D, NEW L, NEW F, NEW place,
           ListsOK(m, lt, hd, al, D, L, F), PlacesOK(hd, al, fr, D, L, F, place),
           NEW S, S \subseteq Tasks, NEW p \in Places, NEW q \in Places,
           \A t \in S : place[t] = p, p # q, p # Gone, q # Unborn,
           NEW m2, NEW A, NEW B, NEW X, Local(m, m2, place, A, B, X, S, p, q),
           NEW lt2 \in [Workers -> Pointers], NEW hd2 \in [Workers -> SUBSET Tasks],
           NEW al2 \in 0 .. MaxTasks, NEW fr2, NEW D2, NEW L2, NEW F2,
           DOMAIN D2 = Workers, DOMAIN L2 = Workers, DOMAIN F2 = Workers,
           Changed(m2, lt, hd, al, fr, D, L, F, lt2, hd2, al2, fr2, D2, L2, F2, S, p, q)
    PROVE  Rep(m2, lt2, hd2, al2, fr2, D2, L2, F2)
<1>1. PICK Q : Q = {place[o] : o \in X \cap Tasks} \cup {p, q}
  OBVIOUS
<1>2. Touches(place, X, Q) /\ Frame(m, m2, A, B, X) /\ NULL \notin X
  BY <1>1 DEF Touches, Local
<1>3. Q \subseteq {p, q}
  BY <1>1 DEF Local
<1>4. /\ \A v \in Workers \ A : InDeque(v) \notin Q /\ Dummy(v) \notin X
                                    => DequeAt(m2, v, D[v])
      /\ \A v \in Workers : InLoot(v) \notin Q => ListAt(m2, lt[v], L[v])
      /\ \A v \in Workers \ B : InFree(v) \notin Q => FreeAt(m2, v, F[v])
      /\ Loose(m2, NULL) /\ m2 \in Mem
  BY <1>2, Kept
<1>5. ASSUME NEW u \in Tasks, u \notin S, Loose(m, u),
             place[u] = Unborn \/ \E v \in Workers : place[u] = InHands(v)
      PROVE  Loose(m2, u)
  <2>1. u \notin X /\ u \in Pointers
    BY <1>5, PointersDiffer DEF Local
  <2> QED BY <1>2, <1>5, <2>1 DEF Loose, Frame
<1>6. ListsOK(m2, lt2, hd2, al2, D2, L2, F2)
  <2>1. ASSUME NEW v \in Workers
        PROVE  DequeAt(m2, v, D2[v])
    <3>1. CASE InDeque(v) \in {p, q}
      BY <3>1 DEF Changed, DequeChange, LootChange, FreeChange, HandsChange
    <3>2. CASE InDeque(v) \notin {p, q}
      <4>1. v \notin A /\ Dummy(v) \notin X
        BY <3>2 DEF Local
      <4>2. D2[v] = D[v]
        BY <3>2 DEF Changed, DequeChange, LootChange, FreeChange, HandsChange
      <4> QED BY <1>3, <1>4, <3>2, <4>1, <4>2
    <3> QED BY <3>1, <3>2
  <2>2. ASSUME NEW v \in Workers
        PROVE  ListAt(m2, lt2[v], L2[v])
    <3>1. CASE InLoot(v) \in {p, q}
      BY <3>1 DEF Changed, DequeChange, LootChange, FreeChange, HandsChange
    <3>2. CASE InLoot(v) \notin {p, q}
      <4>1. lt2[v] = lt[v] /\ L2[v] = L[v]
        BY <3>2 DEF Changed, DequeChange, LootChange, FreeChange, HandsChange
      <4> QED BY <1>3, <1>4, <3>2, <4>1
    <3> QED BY <3>1, <3>2
  <2>3. ASSUME NEW v \in Workers
        PROVE  FreeAt(m2, v, F2[v])
    <3>1. CASE InFree(v) \in {p, q}
      BY <3>1 DEF Changed, DequeChange, LootChange, FreeChange, HandsChange
    <3>2. CASE InFree(v) \notin {p, q}
      <4>1. v \notin B
        BY <3>2 DEF Local
      <4>2. F2[v] = F[v]
        BY <3>2 DEF Changed, DequeChange, LootChange, FreeChange, HandsChange
      <4> QED BY <1>3, <1>4, <3>2, <4>1, <4>2
    <3> QED BY <3>1, <3>2
  <2>4. ASSUME NEW v \in Workers, NEW u \in hd2[v]
        PROVE  Loose(m2, u)
    <3>1. u \in Tasks /\ (u \in hd[v] => place[u] = InHands(v) /\ Loose(m, u))
      BY DEF PlacesOK, ListsOK
    <3>2. CASE u \notin hd[v]
      <4>1. q = InHands(v) /\ u \in S
        BY <3>2, <2>4 DEF Changed, HandsChange, Shift
      <4> QED BY <4>1 DEF Changed, DequeChange, LootChange, FreeChange, HandsChange
    <3>3. CASE u \in hd[v] /\ u \notin S
      BY <1>5, <3>1, <3>3
    <3>4. CASE u \in hd[v] /\ u \in S
      <4>1. p = InHands(v)
        BY <3>1, <3>4
      <4>2. u \notin hd2[v]
        BY <3>4, <4>1 DEF Changed, HandsChange, Shift
      <4> QED BY <2>4, <4>2
    <3> QED BY <3>2, <3>3, <3>4
  <2>5. ASSUME NEW u \in Tasks, u > al2
        PROVE  Loose(m2, u)
    <3>1. u > al /\ u \notin S
      <4>1. CASE p = Unborn
        BY <2>5, <4>1 DEF Changed, DequeChange, LootChange, FreeChange, HandsChange
      <4>2. CASE p # Unborn
        <5>1. u > al
          BY <2>5, <4>2 DEF Changed, DequeChange, LootChange, FreeChange, HandsChange
        <5>2. place[u] = Unborn
          BY <5>1 DEF PlacesOK
        <5> QED BY <4>2, <5>1, <5>2
      <4> QED BY <4>1, <4>2
    <3>2. place[u] = Unborn /\ Loose(m, u)
      BY <3>1 DEF PlacesOK, ListsOK
    <3> QED BY <1>5, <3>1, <3>2
  <2> QED BY <1>4, <2>1, <2>2, <2>3, <2>4, <2>5 DEF ListsOK
<1>7. ASSUME NEW a, NEW b, NEW r, \A t \in S : t \in a <=> p = r,
             IF r \in {p, q} THEN Shift(a, b, S, p, q, r) ELSE b = a
      PROVE  Moved(a, b, S, q, r)
  BY <1>7 DEF Moved, Shift
<1>8. Move(hd, al, fr, D, L, F, hd2, al2, fr2, D2, L2, F2, S, q)
  <2>1. ASSUME NEW v \in Workers
        PROVE  /\ Moved(Elements(D[v]), Elements(D2[v]), S, q, InDeque(v))
               /\ Moved(Elements(L[v]), Elements(L2[v]), S, q, InLoot(v))
               /\ Moved(Elements(F[v]), Elements(F2[v]), S, q, InFree(v))
               /\ Moved(hd[v], hd2[v], S, q, InHands(v))
    <3>1. /\ \A t \in S : t \in Elements(D[v]) <=> p = InDeque(v)
          /\ \A t \in S : t \in Elements(L[v]) <=> p = InLoot(v)
          /\ \A t \in S : t \in Elements(F[v]) <=> p = InFree(v)
          /\ \A t \in S : t \in hd[v] <=> p = InHands(v)
      BY DEF PlacesOK
    <3>2. /\ IF InDeque(v) \in {p, q}
             THEN Shift(Elements(D[v]), Elements(D2[v]), S, p, q, InDeque(v))
             ELSE Elements(D2[v]) = Elements(D[v])
          /\ IF InLoot(v) \in {p, q}
             THEN Shift(Elements(L[v]), Elements(L2[v]), S, p, q, InLoot(v))
             ELSE Elements(L2[v]) = Elements(L[v])
          /\ IF InFree(v) \in {p, q}
             THEN Shift(Elements(F[v]), Elements(F2[v]), S, p, q, InFree(v))
             ELSE Elements(F2[v]) = Elements(F[v])
          /\ IF InHands(v) \in {p, q} THEN Shift(hd[v], hd2[v], S, p, q, InHands(v))
             ELSE hd2[v] = hd[v]
      BY DEF Changed, DequeChange, LootChange, FreeChange, HandsChange
    <3>3. Moved(Elements(D[v]), Elements(D2[v]), S, q, InDeque(v))
      BY <1>7, <3>1, <3>2
    <3>4. Moved(Elements(L[v]), Elements(L2[v]), S, q, InLoot(v))
      BY <1>7, <3>1, <3>2
    <3>5. Moved(Elements(F[v]), Elements(F2[v]), S, q, InFree(v))
      BY <1>7, <3>1, <3>2
    <3>6. Moved(hd[v], hd2[v], S, q, InHands(v))
      BY <1>7, <3>1, <3>2
    <3> QED BY <3>3, <3>4, <3>5, <3>6
  <2>2. Moved(fr \cap Tasks, fr2 \cap Tasks, S, q, Gone)
    <3>1. \A t \in S : t \notin fr
      BY DEF PlacesOK
    <3> QED BY <3>1 DEF Changed, Moved
  <2>3. \A u \in Tasks : u > al2 <=> u > al /\ u \notin S
    <3>1. CASE p = Unborn
      BY <3>1 DEF Changed, DequeChange, LootChange, FreeChange, HandsChange
    <3>2. CASE p # Unborn
      <4>1. al2 = al
        BY <3>2 DEF Changed, DequeChange, LootChange, FreeChange, HandsChange
      <4>2. \A u \in S : ~(u > al)
        BY <3>2 DEF PlacesOK
      <4> QED BY <4>1, <4>2
    <3> QED BY <3>1, <3>2
  <2> QED BY <2>1, <2>2, <2>3 DEF Move
<1>9. \E x : PlacesOK(hd2, al2, fr2, D2, L2, F2, x)
  BY <1>8, MovePlaces
<1> QED BY <1>6, <1>9 DEF Rep

\* deque_pop: from the front of the deque to the hands of its owner
LEMMA DequeToHands ==
    ASSUME NEW m, NEW lt, NEW hd, NEW al, NEW fr, NEW D, NEW L, NEW F,
           Rep(m, lt, hd, al, fr, D, L, F),
           NEW w \in Workers, D[w] # <<>>, NEW t, t = m.head[w],
           NEW m2, m2 = deque_pop(m, w)
    PROVE  /\ t \in Tasks /\ t = D[w][1] /\ t \notin hd[w]
           /\ Rep(m2, lt, [hd EXCEPT ![w] = @ \cup {t}], al, fr,
                  [D EXCEPT ![w] = Tail(D[w])], L, F)
<1>1. PICK place : PlacesOK(hd, al, fr, D, L, F, place)
  BY DEF Rep
<1>2. ListsOK(m, lt, hd, al, D, L, F)
  BY DEF Rep
<1>3. PICK s, X, S, p, q, hd2, D2 :
        /\ s = D[w] /\ X = Objects(w, s) /\ S = {t} /\ p = InDeque(w) /\ q = InHands(w)
        /\ hd2 = [hd EXCEPT ![w] = @ \cup {t}] /\ D2 = [D EXCEPT ![w] = Tail(s)]
  OBVIOUS
<1>4. m \in Mem /\ DequeAt(m, w, s) /\ s # <<>> /\ s \in Seq(Tasks) /\ Distinct(s)
  BY <1>2, <1>3 DEF ListsOK, DequeAt
<1>5. Frame(m, m2, {w}, {}, Objects(w, s)) /\ DequeAt(m2, w, Tail(s)) /\ t = s[1] /\ Loose(m2, t)
  BY <1>4, PopAt
<1>6. t \in Elements(s) /\ Elements(s) \subseteq Tasks /\ Elements(Tail(s)) = Elements(s) \ {t}
  BY <1>4, <1>5, ElementsOf, ElementsTail
<1>7. S \subseteq Tasks /\ \A u \in Elements(s) : place[u] = p
  BY <1>1, <1>3, <1>6 DEF PlacesOK
<1>8. /\ \A v \in Workers : /\ (InDeque(v) = p <=> v = w) /\ InDeque(v) # q
                            /\ InLoot(v) # p /\ InLoot(v) # q /\ InFree(v) # p /\ InFree(v) # q
                            /\ InHands(v) # p /\ (InHands(v) = q <=> v = w)
      /\ p # q /\ p # Gone /\ p # Unborn /\ q # Gone /\ q # Unborn
      /\ p \in Places /\ q \in Places
  BY <1>3 DEF InDeque, InLoot, InFree, InHands, Gone, Unborn, Places
<1>9. t \notin hd[w]
  BY <1>1, <1>6, <1>7, <1>8 DEF PlacesOK
<1>10. /\ \A v \in Workers \ {w} : hd2[v] = hd[v] /\ D2[v] = D[v]
       /\ hd2[w] = hd[w] \cup {t} /\ D2[w] = Tail(s) /\ DOMAIN D2 = Workers
       /\ hd2 \in [Workers -> SUBSET Tasks]
  BY <1>2, <1>3, <1>6 DEF ListsOK
<1>11. Local(m, m2, place, {w}, {}, X, S, p, q)
  <2>1. Frame(m, m2, {w}, {}, X) /\ NULL \notin X
    BY <1>3, <1>5, <1>6, PointersDiffer DEF Objects
  <2>2. \A v \in Workers : v \in {w} \/ Dummy(v) \in X => v = w
    BY <1>3, <1>6, PointersDiffer DEF Objects
  <2>3. \A o \in X : o \in Tasks => place[o] = p
    BY <1>3, <1>7, PointersDiffer DEF Objects
  <2> QED BY <1>8, <2>1, <2>2, <2>3 DEF Local
<1>12. Changed(m2, lt, hd, al, fr, D, L, F, lt, hd2, al, fr, D2, L, F, S, p, q)
  <2>1. \A x \in Workers : DequeChange(m2, x, D, D2, S, p, q)
    BY <1>3, <1>5, <1>6, <1>8, <1>10 DEF DequeChange, Shift
  <2>2. \A x \in Workers : LootChange(m2, x, lt, L, lt, L, S, p, q)
    BY <1>8 DEF LootChange
  <2>3. \A x \in Workers : FreeChange(m2, x, F, F, S, p, q)
    BY <1>8 DEF FreeChange
  <2>4. \A x \in Workers : HandsChange(m2, x, hd, hd2, S, p, q)
    BY <1>3, <1>5, <1>6, <1>8, <1>10 DEF HandsChange, Shift
  <2> QED BY <1>8, <2>1, <2>2, <2>3, <2>4 DEF Changed
<1>13. lt \in [Workers -> Pointers] /\ al \in 0 .. MaxTasks /\ DOMAIN L = Workers /\ DOMAIN F = Workers
  BY <1>2 DEF ListsOK
<1>14. Rep(m2, lt, hd2, al, fr, D2, L, F)
  <2>1. \A u \in S : place[u] = p
    BY <1>3, <1>6, <1>7
  <2> QED BY <1>1, <1>2, <1>7, <1>8, <1>10, <1>11, <1>12, <1>13, <2>1, Transfer
<1> QED BY <1>3, <1>5, <1>6, <1>9, <1>14

\* malloc: a new object, into the hands of w
LEMMA NewToHands ==
    ASSUME NEW m, NEW lt, NEW hd, NEW al, NEW fr, NEW D, NEW L, NEW F,
           Rep(m, lt, hd, al, fr, D, L, F),
           NEW w \in Workers, al + 1 <= MaxTasks
    PROVE  /\ al + 1 \in Tasks /\ al + 1 \notin hd[w]
           /\ Rep(m, lt, [hd EXCEPT ![w] = @ \cup {al + 1}], al + 1, fr, D, L, F)
<1>1. PICK place : PlacesOK(hd, al, fr, D, L, F, place)
  BY DEF Rep
<1>2. ListsOK(m, lt, hd, al, D, L, F)
  BY DEF Rep
<1>3. PICK t, S, p, q, hd2 :
        /\ t = al + 1 /\ S = {t} /\ p = Unborn /\ q = InHands(w)
        /\ hd2 = [hd EXCEPT ![w] = @ \cup {t}]
  OBVIOUS
<1>4. /\ m \in Mem /\ al \in 0 .. MaxTasks /\ al \in Nat /\ MaxTasks \in Nat
      /\ lt \in [Workers -> Pointers] /\ hd \in [Workers -> SUBSET Tasks]
      /\ DOMAIN D = Workers /\ DOMAIN L = Workers /\ DOMAIN F = Workers
  BY <1>2, DequeAssumption DEF ListsOK
<1>5. t \in Tasks /\ t > al /\ t \in 0 .. MaxTasks
  BY <1>3, <1>4 DEF Tasks
<1>6. Loose(m, t)
  BY <1>2, <1>5 DEF ListsOK
<1>7. S \subseteq Tasks /\ \A u \in S : place[u] = p
  BY <1>1, <1>3, <1>5 DEF PlacesOK
<1>8. /\ \A v \in Workers : /\ InDeque(v) # p /\ InDeque(v) # q
                            /\ InLoot(v) # p /\ InLoot(v) # q /\ InFree(v) # p /\ InFree(v) # q
                            /\ InHands(v) # p /\ (InHands(v) = q <=> v = w)
      /\ p # q /\ p # Gone /\ p = Unborn /\ q # Gone /\ q # Unborn
      /\ p \in Places /\ q \in Places
  BY <1>3 DEF InDeque, InLoot, InFree, InHands, Gone, Unborn, Places
<1>9. t \notin hd[w]
  BY <1>1, <1>3, <1>5, <1>7, <1>8 DEF PlacesOK
<1>10. /\ \A v \in Workers \ {w} : hd2[v] = hd[v]
       /\ hd2[w] = hd[w] \cup {t} /\ hd2 \in [Workers -> SUBSET Tasks]
  BY <1>3, <1>4, <1>5
<1>11. Local(m, m, place, {}, {}, {}, S, p, q)
  BY <1>4 DEF Local, Frame
<1>12. Changed(m, lt, hd, al, fr, D, L, F, lt, hd2, t, fr, D, L, F, S, p, q)
  <2>1. \A x \in Workers : DequeChange(m, x, D, D, S, p, q)
    BY <1>8 DEF DequeChange
  <2>2. \A x \in Workers : LootChange(m, x, lt, L, lt, L, S, p, q)
    BY <1>8 DEF LootChange
  <2>3. \A x \in Workers : FreeChange(m, x, F, F, S, p, q)
    BY <1>8 DEF FreeChange
  <2>4. \A x \in Workers : HandsChange(m, x, hd, hd2, S, p, q)
    BY <1>3, <1>6, <1>8, <1>10 DEF HandsChange, Shift
  <2>5. \A u \in Tasks : u > t <=> u > al /\ u \notin S
    BY <1>3, <1>4 DEF Tasks
  <2> QED BY <1>8, <2>1, <2>2, <2>3, <2>4, <2>5 DEF Changed
<1>13. Rep(m, lt, hd2, t, fr, D, L, F)
  BY <1>1, <1>2, <1>4, <1>5, <1>7, <1>8, <1>10, <1>11, <1>12, Transfer
<1> QED BY <1>3, <1>5, <1>9, <1>13

\* freelist_pop: from the free list to the hands of its owner
LEMMA FreeToHands ==
    ASSUME NEW m, NEW lt, NEW hd, NEW al, NEW fr, NEW D, NEW L, NEW F,
           Rep(m, lt, hd, al, fr, D, L, F),
           NEW w \in Workers, F[w] # <<>>, NEW t, t = m.freelist[w],
           NEW m2, m2 = freelist_pop(m, w)
    PROVE  /\ t \in Tasks /\ t = F[w][1] /\ t \notin hd[w]
           /\ Rep(m2, lt, [hd EXCEPT ![w] = @ \cup {t}], al, fr, D, L,
                  [F EXCEPT ![w] = Tail(F[w])])
<1>1. PICK place : PlacesOK(hd, al, fr, D, L, F, place)
  BY DEF Rep
<1>2. ListsOK(m, lt, hd, al, D, L, F)
  BY DEF Rep
<1>3. PICK s, X, S, p, q, hd2, F2 :
        /\ s = F[w] /\ X = {t} /\ S = {t} /\ p = InFree(w) /\ q = InHands(w)
        /\ hd2 = [hd EXCEPT ![w] = @ \cup {t}] /\ F2 = [F EXCEPT ![w] = Tail(s)]
  OBVIOUS
<1>4. /\ m \in Mem /\ al \in 0 .. MaxTasks
      /\ lt \in [Workers -> Pointers] /\ hd \in [Workers -> SUBSET Tasks]
      /\ DOMAIN D = Workers /\ DOMAIN L = Workers /\ DOMAIN F = Workers
  BY <1>2 DEF ListsOK
<1>5. FreeAt(m, w, s) /\ s # <<>> /\ s \in Seq(Tasks) /\ Distinct(s)
  BY <1>2, <1>3 DEF ListsOK, FreeAt
<1>6. Frame(m, m2, {}, {w}, {t}) /\ FreeAt(m2, w, Tail(s)) /\ t = s[1] /\ Loose(m2, t)
  BY <1>4, <1>5, FreePopAt
<1>7. t \in Elements(s) /\ Elements(s) \subseteq Tasks /\ Elements(Tail(s)) = Elements(s) \ {t}
  BY <1>5, <1>6, ElementsOf, ElementsTail
<1>8. /\ \A x \in Workers : /\ InDeque(x) # p /\ InDeque(x) # q
                            /\ InLoot(x) # p /\ InLoot(x) # q
                            /\ (InFree(x) = p <=> x = w) /\ InFree(x) # q
                            /\ InHands(x) # p /\ (InHands(x) = q <=> x = w)
      /\ p # q /\ p # Gone /\ p # Unborn /\ q # Gone /\ q # Unborn
      /\ p \in Places /\ q \in Places
  BY <1>3 DEF InDeque, InLoot, InFree, InHands, Gone, Unborn, Places
<1>9. S \subseteq Tasks /\ \A u \in S : place[u] = p
  BY <1>1, <1>3, <1>7 DEF PlacesOK
<1>10. /\ \A v \in Workers \ {w} : hd2[v] = hd[v] /\ F2[v] = F[v]
       /\ hd2[w] = hd[w] \cup {t} /\ F2[w] = Tail(s) /\ DOMAIN F2 = Workers
       /\ hd2 \in [Workers -> SUBSET Tasks]
  BY <1>3, <1>4, <1>7
<1>11. Local(m, m2, place, {}, {w}, X, S, p, q)
  <2>1. Frame(m, m2, {}, {w}, X) /\ NULL \notin X /\ \A v \in Workers : Dummy(v) \notin X
    BY <1>3, <1>6, <1>7, PointersDiffer
  <2> QED BY <1>3, <1>8, <2>1 DEF Local
<1>12. Changed(m2, lt, hd, al, fr, D, L, F, lt, hd2, al, fr, D, L, F2, S, p, q)
  <2>1. \A x \in Workers : DequeChange(m2, x, D, D, S, p, q)
    BY <1>8 DEF DequeChange
  <2>2. \A x \in Workers : LootChange(m2, x, lt, L, lt, L, S, p, q)
    BY <1>8 DEF LootChange
  <2>3. \A x \in Workers : FreeChange(m2, x, F, F2, S, p, q)
    BY <1>3, <1>6, <1>7, <1>8, <1>10 DEF FreeChange, Shift
  <2>4. \A x \in Workers : HandsChange(m2, x, hd, hd2, S, p, q)
    BY <1>3, <1>6, <1>7, <1>8, <1>10 DEF HandsChange, Shift
  <2> QED BY <1>8, <2>1, <2>2, <2>3, <2>4 DEF Changed
<1>13. Rep(m2, lt, hd2, al, fr, D, L, F2)
  BY <1>1, <1>2, <1>4, <1>8, <1>9, <1>10, <1>11, <1>12, Transfer
<1>14. t \notin hd[w]
  BY <1>1, <1>3, <1>8, <1>9 DEF PlacesOK
<1> QED BY <1>3, <1>6, <1>7, <1>13, <1>14

\* deque_push: from the hands of the owner to the front of its deque
LEMMA HandsToDeque ==
    ASSUME NEW m, NEW lt, NEW hd, NEW al, NEW fr, NEW D, NEW L, NEW F,
           Rep(m, lt, hd, al, fr, D, L, F),
           NEW w \in Workers, NEW t \in hd[w], NEW m2, m2 = deque_push(m, w, t)
    PROVE  Rep(m2, lt, [hd EXCEPT ![w] = @ \ {t}], al, fr,
               [D EXCEPT ![w] = <<t>> \o D[w]], L, F)
<1>1. PICK place : PlacesOK(hd, al, fr, D, L, F, place)
  BY DEF Rep
<1>2. ListsOK(m, lt, hd, al, D, L, F)
  BY DEF Rep
<1>3. PICK s, X, S, p, q, hd2, D2 :
        /\ s = D[w] /\ X = Objects(w, s) \cup {t} /\ S = {t}
        /\ p = InHands(w) /\ q = InDeque(w)
        /\ hd2 = [hd EXCEPT ![w] = @ \ {t}] /\ D2 = [D EXCEPT ![w] = <<t>> \o s]
  OBVIOUS
<1>4. /\ m \in Mem /\ al \in 0 .. MaxTasks
      /\ lt \in [Workers -> Pointers] /\ hd \in [Workers -> SUBSET Tasks]
      /\ DOMAIN D = Workers /\ DOMAIN L = Workers /\ DOMAIN F = Workers
  BY <1>2 DEF ListsOK
<1>8. /\ \A x \in Workers : /\ InDeque(x) # p /\ (InDeque(x) = q <=> x = w)
                            /\ InLoot(x) # p /\ InLoot(x) # q
                            /\ InFree(x) # p /\ InFree(x) # q
                            /\ (InHands(x) = p <=> x = w) /\ InHands(x) # q
      /\ p # q /\ p # Gone /\ p # Unborn /\ q # Gone /\ q # Unborn
      /\ p \in Places /\ q \in Places
  BY <1>3 DEF InDeque, InLoot, InFree, InHands, Gone, Unborn, Places
<1>5. DequeAt(m, w, s) /\ s \in Seq(Tasks) /\ t \in Tasks /\ m.prev[t] = NULL
  BY <1>2, <1>3, <1>4 DEF ListsOK, DequeAt, Loose
<1>6. S \subseteq Tasks /\ place[t] = p /\ t \notin Elements(s)
  BY <1>1, <1>3, <1>5, <1>8 DEF PlacesOK
<1>7. /\ Frame(m, m2, {w}, {}, Objects(w, s) \cup {t}) /\ DequeAt(m2, w, <<t>> \o s)
      /\ Elements(<<t>> \o s) = Elements(s) \cup {t} /\ Elements(s) \subseteq Tasks
  <2>1. Frame(m, m2, {w}, {}, Objects(w, s) \cup {t}) /\ DequeAt(m2, w, <<t>> \o s)
    BY <1>4, <1>5, <1>6, PushAt
  <2> QED BY <1>5, <2>1, ElementsCons, ElementsOf
<1>10. /\ \A v \in Workers \ {w} : hd2[v] = hd[v] /\ D2[v] = D[v]
       /\ hd2[w] = hd[w] \ {t} /\ D2[w] = <<t>> \o s /\ DOMAIN D2 = Workers
       /\ hd2 \in [Workers -> SUBSET Tasks]
  BY <1>3, <1>4
<1>11. Local(m, m2, place, {w}, {}, X, S, p, q)
  <2>1. Frame(m, m2, {w}, {}, X) /\ NULL \notin X
    BY <1>3, <1>5, <1>7, PointersDiffer DEF Objects
  <2>2. \A v \in Workers : v \in {w} \/ Dummy(v) \in X => v = w
    BY <1>3, <1>5, <1>7, PointersDiffer DEF Objects
  <2>3. \A o \in X : o \in Tasks /\ o \notin S => place[o] = q
    BY <1>1, <1>3, PointersDiffer DEF Objects, PlacesOK
  <2> QED BY <1>8, <2>1, <2>2, <2>3 DEF Local
<1>12. Changed(m2, lt, hd, al, fr, D, L, F, lt, hd2, al, fr, D2, L, F, S, p, q)
  <2>1. \A x \in Workers : DequeChange(m2, x, D, D2, S, p, q)
    BY <1>3, <1>7, <1>8, <1>10 DEF DequeChange, Shift
  <2>2. \A x \in Workers : LootChange(m2, x, lt, L, lt, L, S, p, q)
    BY <1>8 DEF LootChange
  <2>3. \A x \in Workers : FreeChange(m2, x, F, F, S, p, q)
    BY <1>8 DEF FreeChange
  <2>4. \A x \in Workers : HandsChange(m2, x, hd, hd2, S, p, q)
    BY <1>3, <1>7, <1>8, <1>10 DEF HandsChange, Shift
  <2> QED BY <1>8, <2>1, <2>2, <2>3, <2>4 DEF Changed
<1>13. Rep(m2, lt, hd2, al, fr, D2, L, F)
  <2>1. \A u \in S : place[u] = p
    BY <1>3, <1>6
  <2> QED BY <1>1, <1>2, <1>4, <1>6, <1>8, <1>10, <1>11, <1>12, <2>1, Transfer
<1> QED BY <1>3, <1>13

\* deque_task_cache: from the hands of a worker to its free list
LEMMA HandsToFree ==
    ASSUME NEW m, NEW lt, NEW hd, NEW al, NEW fr, NEW D, NEW L, NEW F,
           Rep(m, lt, hd, al, fr, D, L, F),
           NEW w \in Workers, NEW t \in hd[w], NEW m2, m2 = deque_task_cache(m, w, t)
    PROVE  Rep(m2, lt, [hd EXCEPT ![w] = @ \ {t}], al, fr, D, L,
               [F EXCEPT ![w] = <<t>> \o F[w]])
<1>1. PICK place : PlacesOK(hd, al, fr, D, L, F, place)
  BY DEF Rep
<1>2. ListsOK(m, lt, hd, al, D, L, F)
  BY DEF Rep
<1>3. PICK s, X, S, p, q, hd2, F2 :
        /\ s = F[w] /\ X = {t} /\ S = {t} /\ p = InHands(w) /\ q = InFree(w)
        /\ hd2 = [hd EXCEPT ![w] = @ \ {t}] /\ F2 = [F EXCEPT ![w] = <<t>> \o s]
  OBVIOUS
<1>4. /\ m \in Mem /\ al \in 0 .. MaxTasks
      /\ lt \in [Workers -> Pointers] /\ hd \in [Workers -> SUBSET Tasks]
      /\ DOMAIN D = Workers /\ DOMAIN L = Workers /\ DOMAIN F = Workers
  BY <1>2 DEF ListsOK
<1>8. /\ \A x \in Workers : /\ InDeque(x) # p /\ InDeque(x) # q
                            /\ InLoot(x) # p /\ InLoot(x) # q
                            /\ InFree(x) # p /\ (InFree(x) = q <=> x = w)
                            /\ (InHands(x) = p <=> x = w) /\ InHands(x) # q
      /\ p # q /\ p # Gone /\ p # Unborn /\ q # Gone /\ q # Unborn
      /\ p \in Places /\ q \in Places
  BY <1>3 DEF InDeque, InLoot, InFree, InHands, Gone, Unborn, Places
<1>5. FreeAt(m, w, s) /\ s \in Seq(Tasks) /\ t \in Tasks
  BY <1>2, <1>3, <1>4 DEF ListsOK, FreeAt
<1>6. S \subseteq Tasks /\ place[t] = p /\ t \notin Elements(s)
  BY <1>1, <1>3, <1>5, <1>8 DEF PlacesOK
<1>7. /\ Frame(m, m2, {}, {w}, {t}) /\ FreeAt(m2, w, <<t>> \o s)
      /\ Elements(<<t>> \o s) = Elements(s) \cup {t} /\ Elements(s) \subseteq Tasks
  <2>1. Frame(m, m2, {}, {w}, {t}) /\ FreeAt(m2, w, <<t>> \o s)
    BY <1>4, <1>5, <1>6, FreePushAt
  <2> QED BY <1>5, <2>1, ElementsCons, ElementsOf
<1>10. /\ \A v \in Workers \ {w} : hd2[v] = hd[v] /\ F2[v] = F[v]
       /\ hd2[w] = hd[w] \ {t} /\ F2[w] = <<t>> \o s /\ DOMAIN F2 = Workers
       /\ hd2 \in [Workers -> SUBSET Tasks]
  BY <1>3, <1>4
<1>11. Local(m, m2, place, {}, {w}, X, S, p, q)
  <2>1. Frame(m, m2, {}, {w}, X) /\ NULL \notin X /\ \A v \in Workers : Dummy(v) \notin X
    BY <1>3, <1>5, <1>7, PointersDiffer
  <2> QED BY <1>3, <1>8, <2>1 DEF Local
<1>12. Changed(m2, lt, hd, al, fr, D, L, F, lt, hd2, al, fr, D, L, F2, S, p, q)
  <2>1. \A x \in Workers : DequeChange(m2, x, D, D, S, p, q)
    BY <1>8 DEF DequeChange
  <2>2. \A x \in Workers : LootChange(m2, x, lt, L, lt, L, S, p, q)
    BY <1>8 DEF LootChange
  <2>3. \A x \in Workers : FreeChange(m2, x, F, F2, S, p, q)
    BY <1>3, <1>7, <1>8, <1>10 DEF FreeChange, Shift
  <2>4. \A x \in Workers : HandsChange(m2, x, hd, hd2, S, p, q)
    BY <1>3, <1>7, <1>8, <1>10 DEF HandsChange, Shift
  <2> QED BY <1>8, <2>1, <2>2, <2>3, <2>4 DEF Changed
<1>13. Rep(m2, lt, hd2, al, fr, D, L, F2)
  <2>1. \A u \in S : place[u] = p
    BY <1>3, <1>6
  <2> QED BY <1>1, <1>2, <1>4, <1>6, <1>8, <1>10, <1>11, <1>12, <2>1, Transfer
<1> QED BY <1>3, <1>13

\* free: a task that a worker has in its hands is gone.
LEMMA HandsToGone ==
    ASSUME NEW m, NEW lt, NEW hd, NEW al, NEW fr, NEW D, NEW L, NEW F,
           Rep(m, lt, hd, al, fr, D, L, F),
           NEW w \in Workers, NEW t \in hd[w]
    PROVE  Rep(m, lt, [hd EXCEPT ![w] = @ \ {t}], al, fr \cup {t}, D, L, F)
<1>1. PICK place : PlacesOK(hd, al, fr, D, L, F, place)
  BY DEF Rep
<1>2. ListsOK(m, lt, hd, al, D, L, F)
  BY DEF Rep
<1>3. PICK S, p, q, hd2, fr2 :
        /\ S = {t} /\ p = InHands(w) /\ q = Gone
        /\ hd2 = [hd EXCEPT ![w] = @ \ {t}] /\ fr2 = fr \cup {t}
  OBVIOUS
<1>4. /\ m \in Mem /\ al \in 0 .. MaxTasks
      /\ lt \in [Workers -> Pointers] /\ hd \in [Workers -> SUBSET Tasks]
      /\ DOMAIN D = Workers /\ DOMAIN L = Workers /\ DOMAIN F = Workers
  BY <1>2 DEF ListsOK
<1>8. /\ \A x \in Workers : /\ InDeque(x) # p /\ InDeque(x) # q
                            /\ InLoot(x) # p /\ InLoot(x) # q
                            /\ InFree(x) # p /\ InFree(x) # q
                            /\ (InHands(x) = p <=> x = w) /\ InHands(x) # q
      /\ p # q /\ p # Gone /\ p # Unborn /\ q = Gone /\ q # Unborn
      /\ p \in Places /\ q \in Places
  BY <1>3 DEF InDeque, InLoot, InFree, InHands, Gone, Unborn, Places
<1>5. S \subseteq Tasks /\ t \in Tasks
  BY <1>3, <1>4
<1>6. \A u \in S : place[u] = p
  BY <1>1, <1>3, <1>5 DEF PlacesOK
<1>10. /\ \A v \in Workers \ {w} : hd2[v] = hd[v]
       /\ hd2[w] = hd[w] \ {t} /\ hd2 \in [Workers -> SUBSET Tasks]
  BY <1>3, <1>4
<1>11. Local(m, m, place, {}, {}, {}, S, p, q)
  BY <1>4 DEF Local, Frame
<1>12. Changed(m, lt, hd, al, fr, D, L, F, lt, hd2, al, fr2, D, L, F, S, p, q)
  <2>1. \A x \in Workers : DequeChange(m, x, D, D, S, p, q)
    BY <1>8 DEF DequeChange
  <2>2. \A x \in Workers : LootChange(m, x, lt, L, lt, L, S, p, q)
    BY <1>8 DEF LootChange
  <2>3. \A x \in Workers : FreeChange(m, x, F, F, S, p, q)
    BY <1>8 DEF FreeChange
  <2>4. \A x \in Workers : HandsChange(m, x, hd, hd2, S, p, q)
    BY <1>3, <1>8, <1>10 DEF HandsChange, Shift
  <2>5. fr2 \cap Tasks = (fr \cap Tasks) \cup S
    BY <1>3, <1>5
  <2> QED BY <1>8, <2>1, <2>2, <2>3, <2>4, <2>5 DEF Changed
<1>13. Rep(m, lt, hd2, al, fr2, D, L, F)
  BY <1>1, <1>2, <1>4, <1>5, <1>6, <1>8, <1>10, <1>11, <1>12, Transfer
<1> QED BY <1>3, <1>13

\* A single task that v has in its hands is sent to w.
LEMMA HandsToLoot ==
    ASSUME NEW m, NEW lt, NEW hd, NEW al, NEW fr, NEW D, NEW L, NEW F,
           Rep(m, lt, hd, al, fr, D, L, F),
           NEW v \in Workers, NEW w \in Workers, NEW t \in hd[v], L[w] = <<>>
    PROVE  Rep(m, [lt EXCEPT ![w] = t], [hd EXCEPT ![v] = @ \ {t}], al, fr, D,
               [L EXCEPT ![w] = <<t>>], F)
<1>1. PICK place : PlacesOK(hd, al, fr, D, L, F, place)
  BY DEF Rep
<1>2. ListsOK(m, lt, hd, al, D, L, F)
  BY DEF Rep
<1>3. PICK l, S, p, q, lt2, hd2, L2 :
        /\ l = <<t>> /\ S = {t} /\ p = InHands(v) /\ q = InLoot(w)
        /\ lt2 = [lt EXCEPT ![w] = t] /\ hd2 = [hd EXCEPT ![v] = @ \ {t}]
        /\ L2 = [L EXCEPT ![w] = l]
  OBVIOUS
<1>4. /\ m \in Mem /\ al \in 0 .. MaxTasks
      /\ lt \in [Workers -> Pointers] /\ hd \in [Workers -> SUBSET Tasks]
      /\ DOMAIN D = Workers /\ DOMAIN L = Workers /\ DOMAIN F = Workers
  BY <1>2 DEF ListsOK
<1>8. /\ \A x \in Workers : /\ InDeque(x) # p /\ InDeque(x) # q
                            /\ InLoot(x) # p /\ (InLoot(x) = q <=> x = w)
                            /\ InFree(x) # p /\ InFree(x) # q
                            /\ (InHands(x) = p <=> x = v) /\ InHands(x) # q
      /\ p # q /\ p # Gone /\ p # Unborn /\ q # Gone /\ q # Unborn
      /\ p \in Places /\ q \in Places
  BY <1>3 DEF InDeque, InLoot, InFree, InHands, Gone, Unborn, Places
<1>5. S \subseteq Tasks /\ t \in Tasks /\ t \in Pointers /\ Loose(m, t)
  BY <1>2, <1>3, <1>4, PointersDiffer DEF ListsOK
<1>6. \A u \in S : place[u] = p
  BY <1>1, <1>3, <1>5 DEF PlacesOK
<1>7. Elements(l) = {t} /\ l \in Seq(Tasks) /\ Len(l) = 1 /\ l[1] = t /\ l # <<>>
  BY <1>3, <1>5 DEF Elements
<1>9. ListAt(m, t, l) /\ Elements(L[w]) = {}
  <2>1. ListAt(m, t, l)
    BY <1>5, <1>7 DEF ListAt, Distinct, First, Forward, Backward, Loose
  <2> QED BY <2>1 DEF Elements
<1>10. /\ \A x \in Workers \ {v} : hd2[x] = hd[x]
       /\ \A x \in Workers \ {w} : L2[x] = L[x] /\ lt2[x] = lt[x]
       /\ hd2[v] = hd[v] \ {t} /\ hd2 \in [Workers -> SUBSET Tasks]
       /\ L2[w] = l /\ lt2[w] = t /\ DOMAIN L2 = Workers /\ lt2 \in [Workers -> Pointers]
  BY <1>3, <1>4, <1>5
<1>11. Local(m, m, place, {}, {}, {}, S, p, q)
  BY <1>4 DEF Local, Frame
<1>12. Changed(m, lt, hd, al, fr, D, L, F, lt2, hd2, al, fr, D, L2, F, S, p, q)
  <2>1. \A x \in Workers : DequeChange(m, x, D, D, S, p, q)
    BY <1>8 DEF DequeChange
  <2>2. \A x \in Workers : LootChange(m, x, lt, L, lt2, L2, S, p, q)
    <3>1. ListAt(m, lt2[w], L2[w])
      BY <1>9, <1>10
    <3>2. S = {} \cup S /\ InLoot(w) # p /\ Elements(L2[w]) = S
      BY <1>3, <1>7, <1>8, <1>10
    <3>3. Shift(Elements(L[w]), Elements(L2[w]), S, p, q, InLoot(w))
      BY <1>9, <3>2, Zenon DEF Shift
    <3> QED BY <1>8, <1>10, <3>1, <3>3 DEF LootChange
  <2>3. \A x \in Workers : FreeChange(m, x, F, F, S, p, q)
    BY <1>8 DEF FreeChange
  <2>4. \A x \in Workers : HandsChange(m, x, hd, hd2, S, p, q)
    BY <1>3, <1>7, <1>8, <1>9, <1>10 DEF HandsChange, Shift
  <2> QED BY <1>8, <2>1, <2>2, <2>3, <2>4 DEF Changed
<1>13. Rep(m, lt2, hd2, al, fr, D, L2, F)
  BY <1>1, <1>2, <1>4, <1>5, <1>6, <1>8, <1>10, <1>11, <1>12, Transfer
<1> QED BY <1>3, <1>13

\* A single task has arrived.
LEMMA LootToHands ==
    ASSUME NEW m, NEW lt, NEW hd, NEW al, NEW fr, NEW D, NEW L, NEW F,
           Rep(m, lt, hd, al, fr, D, L, F),
           NEW w \in Workers, NEW t \in Tasks, L[w] = <<t>>
    PROVE  /\ t \notin hd[w]
           /\ Rep(m, [lt EXCEPT ![w] = NULL], [hd EXCEPT ![w] = @ \cup {t}], al, fr, D,
                  [L EXCEPT ![w] = <<>>], F)
<1>1. PICK place : PlacesOK(hd, al, fr, D, L, F, place)
  BY DEF Rep
<1>2. ListsOK(m, lt, hd, al, D, L, F)
  BY DEF Rep
<1>3. PICK l, S, p, q, lt2, hd2, L2 :
        /\ l = <<t>> /\ S = {t} /\ p = InLoot(w) /\ q = InHands(w)
        /\ lt2 = [lt EXCEPT ![w] = NULL] /\ hd2 = [hd EXCEPT ![w] = @ \cup {t}]
        /\ L2 = [L EXCEPT ![w] = <<>>]
  OBVIOUS
<1>4. /\ m \in Mem /\ al \in 0 .. MaxTasks
      /\ lt \in [Workers -> Pointers] /\ hd \in [Workers -> SUBSET Tasks]
      /\ DOMAIN D = Workers /\ DOMAIN L = Workers /\ DOMAIN F = Workers
  BY <1>2 DEF ListsOK
<1>8. /\ \A x \in Workers : /\ InDeque(x) # p /\ InDeque(x) # q
                            /\ (InLoot(x) = p <=> x = w) /\ InLoot(x) # q
                            /\ InFree(x) # p /\ InFree(x) # q
                            /\ InHands(x) # p /\ (InHands(x) = q <=> x = w)
      /\ p # q /\ p # Gone /\ p # Unborn /\ q # Gone /\ q # Unborn
      /\ p \in Places /\ q \in Places
  BY <1>3 DEF InDeque, InLoot, InFree, InHands, Gone, Unborn, Places
<1>5. Elements(l) = {t} /\ l \in Seq(Tasks) /\ Len(l) = 1 /\ l[1] = t /\ l # <<>>
  BY <1>3 DEF Elements
<1>6. ListAt(m, lt[w], l)
  BY <1>2, <1>3 DEF ListsOK
<1>7. Loose(m, t)
  BY <1>5, <1>6 DEF ListAt, Forward, Backward, Loose
<1>9. S \subseteq Tasks /\ \A u \in S : place[u] = p
  BY <1>1, <1>3, <1>5 DEF PlacesOK
<1>14. ListAt(m, NULL, <<>>) /\ Elements(<<>>) = {}
  BY DEF ListAt, Distinct, First, Forward, Backward, Elements
<1>10. /\ \A x \in Workers \ {w} : hd2[x] = hd[x] /\ L2[x] = L[x] /\ lt2[x] = lt[x]
       /\ hd2[w] = hd[w] \cup {t} /\ hd2 \in [Workers -> SUBSET Tasks]
       /\ L2[w] = <<>> /\ lt2[w] = NULL /\ DOMAIN L2 = Workers
       /\ lt2 \in [Workers -> Pointers]
  BY <1>3, <1>4, PointersDiffer
<1>11. Local(m, m, place, {}, {}, {}, S, p, q)
  BY <1>4 DEF Local, Frame
<1>12. Changed(m, lt, hd, al, fr, D, L, F, lt2, hd2, al, fr, D, L2, F, S, p, q)
  <2>1. \A x \in Workers : DequeChange(m, x, D, D, S, p, q)
    BY <1>8 DEF DequeChange
  <2>2. \A x \in Workers : LootChange(m, x, lt, L, lt2, L2, S, p, q)
    <3>1. ListAt(m, lt2[w], L2[w])
      BY <1>10, <1>14
    <3>2. Elements(L[w]) = S /\ Elements(L2[w]) = {} /\ {} = S \ S /\ InLoot(w) = p
      BY <1>3, <1>5, <1>8, <1>10, <1>14
    <3>3. Shift(Elements(L[w]), Elements(L2[w]), S, p, q, InLoot(w))
      BY <3>2, Zenon DEF Shift
    <3> QED BY <1>8, <1>10, <3>1, <3>3 DEF LootChange
  <2>3. \A x \in Workers : FreeChange(m, x, F, F, S, p, q)
    BY <1>8 DEF FreeChange
  <2>4. \A x \in Workers : HandsChange(m, x, hd, hd2, S, p, q)
    BY <1>3, <1>5, <1>7, <1>8, <1>10, <1>14 DEF HandsChange, Shift
  <2> QED BY <1>8, <2>1, <2>2, <2>3, <2>4 DEF Changed
<1>13. Rep(m, lt2, hd2, al, fr, D, L2, F)
  BY <1>1, <1>2, <1>4, <1>8, <1>9, <1>10, <1>11, <1>12, Transfer
<1>15. t \notin hd[w]
  BY <1>1, <1>3, <1>8, <1>9 DEF PlacesOK
<1> QED BY <1>3, <1>13, <1>15

\* deque_prepend: the tasks that have arrived, to the front of the deque
LEMMA LootToDeque ==
    ASSUME NEW m, NEW lt, NEW hd, NEW al, NEW fr, NEW D, NEW L, NEW F,
           Rep(m, lt, hd, al, fr, D, L, F),
           NEW w \in Workers, L[w] # <<>>, NEW m2, m2 = deque_prepend(m, w, lt[w])
    PROVE  Rep(m2, [lt EXCEPT ![w] = NULL], hd, al, fr,
               [D EXCEPT ![w] = L[w] \o D[w]], [L EXCEPT ![w] = <<>>], F)
<1>1. PICK place : PlacesOK(hd, al, fr, D, L, F, place)
  BY DEF Rep
<1>2. ListsOK(m, lt, hd, al, D, L, F)
  BY DEF Rep
<1>3. PICK s, l, X, S, p, q, lt2, D2, L2 :
        /\ s = D[w] /\ l = L[w] /\ X = Objects(w, s) \cup Elements(l) /\ S = Elements(l)
        /\ p = InLoot(w) /\ q = InDeque(w)
        /\ lt2 = [lt EXCEPT ![w] = NULL] /\ D2 = [D EXCEPT ![w] = l \o s]
        /\ L2 = [L EXCEPT ![w] = <<>>]
  OBVIOUS
<1>4. /\ m \in Mem /\ al \in 0 .. MaxTasks
      /\ lt \in [Workers -> Pointers] /\ hd \in [Workers -> SUBSET Tasks]
      /\ DOMAIN D = Workers /\ DOMAIN L = Workers /\ DOMAIN F = Workers
  BY <1>2 DEF ListsOK
<1>8. /\ \A x \in Workers : /\ InDeque(x) # p /\ (InDeque(x) = q <=> x = w)
                            /\ (InLoot(x) = p <=> x = w) /\ InLoot(x) # q
                            /\ InFree(x) # p /\ InFree(x) # q
                            /\ InHands(x) # p /\ InHands(x) # q
      /\ p # q /\ p # Gone /\ p # Unborn /\ q # Gone /\ q # Unborn
      /\ p \in Places /\ q \in Places
  BY <1>3 DEF InDeque, InLoot, InFree, InHands, Gone, Unborn, Places
<1>5. /\ DequeAt(m, w, s) /\ s \in Seq(Tasks)
      /\ ListAt(m, lt[w], l) /\ l \in Seq(Tasks) /\ l # <<>>
  BY <1>2, <1>3 DEF ListsOK, DequeAt, ListAt
<1>6. S \subseteq Tasks /\ Elements(s) \subseteq Tasks
  BY <1>3, <1>5, ElementsOf
<1>7. \A u \in S : place[u] = p
  BY <1>1, <1>3, <1>6 DEF PlacesOK
<1>9. Elements(l) \cap Elements(s) = {}
  BY <1>1, <1>3, <1>6, <1>7, <1>8 DEF PlacesOK
<1>14. /\ Frame(m, m2, {w}, {}, Objects(w, s) \cup Elements(l)) /\ DequeAt(m2, w, l \o s)
  BY <1>4, <1>5, <1>9, PrependAt
<1>15. Elements(l \o s) = Elements(s) \cup S
  <2>1. Elements(l \o s) = Elements(l) \cup Elements(s)
    BY <1>5, ElementsConcat
  <2> QED BY <1>3, <2>1
<1>16. ListAt(m2, NULL, <<>>) /\ Elements(<<>>) = {}
  BY DEF ListAt, Distinct, First, Forward, Backward, Elements
<1>10. /\ \A x \in Workers \ {w} : D2[x] = D[x] /\ L2[x] = L[x] /\ lt2[x] = lt[x]
       /\ D2[w] = l \o s /\ L2[w] = <<>> /\ lt2[w] = NULL
       /\ DOMAIN L2 = Workers /\ DOMAIN D2 = Workers /\ lt2 \in [Workers -> Pointers]
  BY <1>3, <1>4, PointersDiffer
<1>11. Local(m, m2, place, {w}, {}, X, S, p, q)
  <2>1. Frame(m, m2, {w}, {}, X) /\ NULL \notin X
    BY <1>3, <1>6, <1>14, PointersDiffer DEF Objects
  <2>2. \A v \in Workers : v \in {w} \/ Dummy(v) \in X => v = w
    BY <1>3, <1>6, PointersDiffer DEF Objects
  <2>3. \A o \in X : o \in Tasks /\ o \notin S => place[o] = q
    BY <1>1, <1>3, PointersDiffer DEF Objects, PlacesOK
  <2> QED BY <1>8, <2>1, <2>2, <2>3 DEF Local
<1>12. Changed(m2, lt, hd, al, fr, D, L, F, lt2, hd, al, fr, D2, L2, F, S, p, q)
  <2>1. \A x \in Workers : DequeChange(m2, x, D, D2, S, p, q)
    BY <1>3, <1>8, <1>10, <1>14, <1>15, <1>16 DEF DequeChange, Shift
  <2>2. \A x \in Workers : LootChange(m2, x, lt, L, lt2, L2, S, p, q)
    BY <1>3, <1>8, <1>10, <1>14, <1>15, <1>16 DEF LootChange, Shift
  <2>3. \A x \in Workers : FreeChange(m2, x, F, F, S, p, q)
    BY <1>8 DEF FreeChange
  <2>4. \A x \in Workers : HandsChange(m2, x, hd, hd, S, p, q)
    BY <1>8 DEF HandsChange
  <2> QED BY <1>8, <2>1, <2>2, <2>3, <2>4 DEF Changed
<1>13. Rep(m2, lt2, hd, al, fr, D2, L2, F)
  BY <1>1, <1>2, <1>4, <1>6, <1>7, <1>8, <1>10, <1>11, <1>12, Transfer
<1> QED BY <1>3, <1>13

\* deque_steal and its variants: the n oldest tasks of v are sent to w.
LEMMA DequeToLoot ==
    ASSUME NEW m, NEW lt, NEW hd, NEW al, NEW fr, NEW D, NEW L, NEW F,
           Rep(m, lt, hd, al, fr, D, L, F),
           NEW v \in Workers, NEW w \in Workers, L[w] = <<>>,
           NEW n \in 1 .. Len(D[v]), NEW m2, m2 = Unlink(m, v, n)
    PROVE  Rep(m2, [lt EXCEPT ![w] = Back(m, v, n)], hd, al, fr,
               [D EXCEPT ![v] = SubSeq(D[v], 1, Len(D[v]) - n)],
               [L EXCEPT ![w] = SubSeq(D[v], Len(D[v]) - n + 1, Len(D[v]))], F)
<1>1. PICK place : PlacesOK(hd, al, fr, D, L, F, place)
  BY DEF Rep
<1>2. ListsOK(m, lt, hd, al, D, L, F)
  BY DEF Rep
<1>3. PICK s, a, b, o, X, S, p, q, lt2, D2, L2 :
        /\ s = D[v] /\ a = SubSeq(s, 1, Len(s) - n) /\ b = SubSeq(s, Len(s) - n + 1, Len(s))
        /\ o = Back(m, v, n) /\ X = Objects(v, s) /\ S = Elements(b)
        /\ p = InDeque(v) /\ q = InLoot(w)
        /\ lt2 = [lt EXCEPT ![w] = o] /\ D2 = [D EXCEPT ![v] = a] /\ L2 = [L EXCEPT ![w] = b]
  OBVIOUS
<1>4. /\ m \in Mem /\ al \in 0 .. MaxTasks
      /\ lt \in [Workers -> Pointers] /\ hd \in [Workers -> SUBSET Tasks]
      /\ DOMAIN D = Workers /\ DOMAIN L = Workers /\ DOMAIN F = Workers
  BY <1>2 DEF ListsOK
<1>8. /\ \A x \in Workers : /\ (InDeque(x) = p <=> x = v) /\ InDeque(x) # q
                            /\ InLoot(x) # p /\ (InLoot(x) = q <=> x = w)
                            /\ InFree(x) # p /\ InFree(x) # q
                            /\ InHands(x) # p /\ InHands(x) # q
      /\ p # q /\ p # Gone /\ p # Unborn /\ q # Gone /\ q # Unborn
      /\ p \in Places /\ q \in Places
  BY <1>3 DEF InDeque, InLoot, InFree, InHands, Gone, Unborn, Places
<1>5. DequeAt(m, v, s) /\ s \in Seq(Tasks) /\ Distinct(s) /\ n \in 1 .. Len(s)
  BY <1>2, <1>3 DEF ListsOK, DequeAt
<1>6. Frame(m, m2, {v}, {}, Objects(v, s)) /\ DequeAt(m2, v, a) /\ ListAt(m2, o, b)
  <2>1. /\ Frame(m, m2, {v}, {}, Objects(v, s)) /\ DequeAt(m2, v, SubSeq(s, 1, Len(s) - n))
        /\ ListAt(m2, Back(m, v, n), SubSeq(s, Len(s) - n + 1, Len(s)))
    BY <1>4, <1>5, UnlinkAt
  <2> QED BY <1>3, <2>1
<1>7. Elements(a) = Elements(s) \ S /\ S \subseteq Elements(s) /\ Elements(s) \subseteq Tasks
  <2>1. Len(s) - n \in 0 .. Len(s) /\ Len(s) \in Nat
    BY <1>5
  <2>2. /\ Elements(SubSeq(s, Len(s) - n + 1, Len(s))) \subseteq Elements(s)
        /\ Elements(SubSeq(s, 1, Len(s) - n))
             = Elements(s) \ Elements(SubSeq(s, Len(s) - n + 1, Len(s)))
    BY <1>5, <2>1, ElementsSplit
  <2> QED BY <1>3, <1>5, <2>2, ElementsOf
<1>9. \A u \in Elements(s) : place[u] = p
  BY <1>1, <1>3, <1>7 DEF PlacesOK
<1>14. o \in Pointers
  BY <1>6, PointersDiffer, ElementsOf DEF ListAt, First, Frame
<1>10. /\ \A x \in Workers \ {v} : D2[x] = D[x]
       /\ \A x \in Workers \ {w} : L2[x] = L[x] /\ lt2[x] = lt[x]
       /\ D2[v] = a /\ L2[w] = b /\ lt2[w] = o
       /\ DOMAIN L2 = Workers /\ DOMAIN D2 = Workers /\ lt2 \in [Workers -> Pointers]
  BY <1>3, <1>4, <1>14
<1>11. Local(m, m2, place, {v}, {}, X, S, p, q)
  <2>1. Frame(m, m2, {v}, {}, X) /\ NULL \notin X
    BY <1>3, <1>6, <1>7, PointersDiffer DEF Objects
  <2>2. \A x \in Workers : x \in {v} \/ Dummy(x) \in X => x = v
    BY <1>3, <1>7, PointersDiffer DEF Objects
  <2>3. \A u \in X : u \in Tasks => place[u] = p
    BY <1>3, <1>9, PointersDiffer DEF Objects
  <2> QED BY <1>8, <2>1, <2>2, <2>3 DEF Local
<1>15. Elements(L[w]) = {}
  BY DEF Elements
<1>12. Changed(m2, lt, hd, al, fr, D, L, F, lt2, hd, al, fr, D2, L2, F, S, p, q)
  <2>1. \A x \in Workers : DequeChange(m2, x, D, D2, S, p, q)
    BY <1>3, <1>6, <1>7, <1>8, <1>10, <1>15 DEF DequeChange, Shift
  <2>2. \A x \in Workers : LootChange(m2, x, lt, L, lt2, L2, S, p, q)
    <3>1. ListAt(m2, lt2[w], L2[w])
      BY <1>6, <1>10
    <3>2. S = {} \cup S /\ InLoot(w) # p /\ Elements(L2[w]) = S
      BY <1>3, <1>8, <1>10
    <3>3. Shift(Elements(L[w]), Elements(L2[w]), S, p, q, InLoot(w))
      BY <1>15, <3>2, Zenon DEF Shift
    <3> QED BY <1>8, <1>10, <3>1, <3>3 DEF LootChange
  <2>3. \A x \in Workers : FreeChange(m2, x, F, F, S, p, q)
    BY <1>8 DEF FreeChange
  <2>4. \A x \in Workers : HandsChange(m2, x, hd, hd, S, p, q)
    BY <1>8 DEF HandsChange
  <2> QED BY <1>8, <2>1, <2>2, <2>3, <2>4 DEF Changed
<1>13. Rep(m2, lt2, hd, al, fr, D2, L2, F)
  <2>1. S \subseteq Tasks /\ \A u \in S : place[u] = p
    BY <1>7, <1>9
  <2> QED BY <1>1, <1>2, <1>4, <1>8, <1>10, <1>11, <1>12, <2>1, Transfer
<1> QED BY <1>3, <1>13

\* free of an object that is no task
LEMMA DummyGone ==
    ASSUME NEW m, NEW lt, NEW hd, NEW al, NEW fr, NEW D, NEW L, NEW F,
           Rep(m, lt, hd, al, fr, D, L, F), NEW w \in Workers
    PROVE  Rep(m, lt, hd, al, fr \cup {Dummy(w)}, D, L, F)
<1>1. PICK place : PlacesOK(hd, al, fr, D, L, F, place)
  BY DEF Rep
<1>2. PlacesOK(hd, al, fr \cup {Dummy(w)}, D, L, F, place)
  BY <1>1, PointersDiffer DEF PlacesOK
<1> QED BY <1>2 DEF Rep

\* A task that a worker has in its hands is nowhere else.
LEMMA HandsAlone ==
    ASSUME NEW m, NEW lt, NEW hd, NEW al, NEW fr, NEW D, NEW L, NEW F,
           Rep(m, lt, hd, al, fr, D, L, F), NEW w \in Workers, NEW t \in hd[w]
    PROVE  /\ t \in Tasks /\ Loose(m, t)
           /\ \A v \in Workers : t \notin Elements(D[v]) /\ t \notin Elements(L[v])
           /\ \A v \in Workers \ {w} : t \notin hd[v]
<1>1. PICK place : PlacesOK(hd, al, fr, D, L, F, place)
  BY DEF Rep
<1>2. t \in Tasks /\ Loose(m, t)
  BY DEF Rep, ListsOK
<1>3. place[t] = InHands(w)
  BY <1>1, <1>2 DEF PlacesOK
<1>4. \A v \in Workers : /\ InHands(w) # InDeque(v) /\ InHands(w) # InLoot(v)
                         /\ InHands(w) = InHands(v) => w = v
  BY DEF InHands, InDeque, InLoot
<1> QED BY <1>1, <1>2, <1>3, <1>4 DEF PlacesOK

LEMMA PutBack ==
    ASSUME NEW hd \in [Workers -> SUBSET Tasks], NEW w \in Workers, NEW t, t \notin hd[w]
    PROVE  [[hd EXCEPT ![w] = @ \cup {t}] EXCEPT ![w] = @ \ {t}] = hd
<1>1. (hd[w] \cup {t}) \ {t} = hd[w]
  OBVIOUS
<1> QED BY <1>1

\* What the pointers show is what they represent.
LEMMA View ==
    ASSUME NEW m, NEW lt, NEW hd, NEW al, NEW fr, NEW D, NEW L, NEW F,
           Rep(m, lt, hd, al, fr, D, L, F), NEW w \in Workers
    PROVE  /\ Path(m.next, m.head[w], m.tail[w]) = D[w]
           /\ Path(m.next, lt[w], NULL) = L[w]
           /\ Path(m.next, m.freelist[w], NULL) = F[w]
<1>1. DequeAt(m, w, D[w]) /\ ListAt(m, lt[w], L[w]) /\ FreeAt(m, w, F[w])
  BY DEF Rep, ListsOK
<1>2. /\ D[w] \in Seq(Tasks) /\ Distinct(D[w]) /\ Forward(D[w], m.next, Dummy(w))
      /\ m.tail[w] = Dummy(w) /\ m.head[w] = First(D[w], Dummy(w))
  BY <1>1 DEF DequeAt
<1>3. /\ L[w] \in Seq(Tasks) /\ Distinct(L[w]) /\ Forward(L[w], m.next, NULL)
      /\ lt[w] = First(L[w], NULL)
  BY <1>1 DEF ListAt
<1>4. /\ F[w] \in Seq(Tasks) /\ Distinct(F[w]) /\ Forward(F[w], m.next, NULL)
      /\ m.freelist[w] = First(F[w], NULL)
  BY <1>1 DEF FreeAt
<1>5. Len(D[w]) <= MaxTasks /\ Len(L[w]) <= MaxTasks /\ Len(F[w]) <= MaxTasks
  BY <1>2, <1>3, <1>4, DistinctBound
<1>6. Path(m.next, First(D[w], Dummy(w)), Dummy(w)) = D[w]
  BY <1>2, <1>5, PointersDiffer, PathIs
<1>7. Path(m.next, First(L[w], NULL), NULL) = L[w]
  BY <1>3, <1>5, PointersDiffer, PathIs
<1>8. Path(m.next, First(F[w], NULL), NULL) = F[w]
  BY <1>4, <1>5, PointersDiffer, PathIs
<1> QED BY <1>2, <1>3, <1>4, <1>6, <1>7, <1>8

\* The tests in the code, and what they say about the sequences
LEMMA Tests ==
    ASSUME NEW m, NEW lt, NEW hd, NEW al, NEW fr, NEW D, NEW L, NEW F,
           Rep(m, lt, hd, al, fr, D, L, F), NEW w \in Workers
    PROVE  /\ deque_empty(m, w) <=> D[w] = <<>>
           /\ lt[w] = NULL <=> L[w] = <<>>
           /\ m.freelist[w] = NULL <=> F[w] = <<>>
           /\ D[w] \in Seq(Tasks) /\ L[w] \in Seq(Tasks) /\ F[w] \in Seq(Tasks)
           /\ m.num_tasks[w] = Len(D[w]) /\ m.head[w] = First(D[w], Dummy(w))
           /\ lt[w] = First(L[w], NULL)
<1>1. DequeAt(m, w, D[w]) /\ ListAt(m, lt[w], L[w]) /\ FreeAt(m, w, F[w])
  BY DEF Rep, ListsOK
<1>2. \A s \in Seq(Tasks) : s # <<>> => Len(s) # 0 /\ s[1] \in Tasks
  <2> SUFFICES ASSUME NEW s \in Seq(Tasks), s # <<>> PROVE Len(s) # 0 /\ s[1] \in Tasks
    OBVIOUS
  <2>1. Len(s) \in Nat /\ Len(s) # 0
    BY EmptySeq
  <2>2. \A n \in Nat : n # 0 => 1 \in 1 .. n
    OBVIOUS
  <2>3. 1 \in 1 .. Len(s)
    BY <2>1, <2>2, Zenon
  <2> QED BY <2>1, <2>3
<1>3. deque_empty(m, w) <=> D[w] = <<>>
  <2>1. D[w] \in Seq(Tasks) /\ m.num_tasks[w] = Len(D[w]) /\ m.tail[w] = Dummy(w)
        /\ m.head[w] = First(D[w], Dummy(w))
    BY <1>1 DEF DequeAt
  <2>2. D[w] = <<>> => Len(D[w]) = 0
    OBVIOUS
  <2> QED BY <1>2, <2>1, <2>2 DEF deque_empty, First
<1>4. lt[w] = NULL <=> L[w] = <<>>
  BY <1>1, <1>2, PointersDiffer DEF ListAt, First
<1>5. m.freelist[w] = NULL <=> F[w] = <<>>
  BY <1>1, <1>2, PointersDiffer DEF FreeAt, First
<1> QED BY <1>1, <1>3, <1>4, <1>5 DEF DequeAt, ListAt, FreeAt

\* A thief gets one task, or at most half of them.
LEMMA LootSizeIs ==
    ASSUME NEW m, NEW w, m.num_tasks[w] \in Nat \ {0}, NEW max \in Nat \ {0},
           NEW n, n = LootSize(m, w, max)
    PROVE  n \in 1 .. m.num_tasks[w] /\ (n = 1 \/ 2 * n <= m.num_tasks[w])
BY DEF LootSize

-----------------------------------------------------------------------------
(* The actions *)

Now(D, L, F) == Rep(mem, loot, held, allocated, freed, D, L, F)

LEMMA NowTypes ==
    ASSUME NEW D, NEW L, NEW F, Now(D, L, F)
    PROVE  /\ mem \in Mem /\ loot \in [Workers -> Pointers]
           /\ held \in [Workers -> SUBSET Tasks] /\ allocated \in 0 .. MaxTasks
           /\ DOMAIN D = Workers /\ DOMAIN L = Workers /\ DOMAIN F = Workers
BY DEF Now, Rep, ListsOK

\* The task t is known to nobody.
Unknown(t, D, L) ==
    \A v \in Workers : t \notin Elements(D[v]) /\ t \notin Elements(L[v]) /\ t \notin held[v]

\* RT_task_alloc puts an object that nobody knows into the hands of the worker.
LEMMA Allocate ==
    ASSUME NEW D, NEW L, NEW F, Now(D, L, F), NEW w \in Workers,
           NEW t, NEW m2, NEW al2, al2 <= MaxTasks,
           t = deque_task_new(w).task, m2 = deque_task_new(w).mem,
           al2 = deque_task_new(w).allocated
    PROVE  \E F2 : /\ t \in Tasks /\ t \notin held[w] /\ Unknown(t, D, L) /\ Loose(m2, t)
                   /\ Rep(m2, loot, [held EXCEPT ![w] = @ \cup {t}], al2, freed, D, L, F2)
<1>1. PICK hd2 : hd2 = [held EXCEPT ![w] = @ \cup {t}]
  OBVIOUS
<1>2. \E F2 : /\ t \in Tasks /\ t \notin held[w]
              /\ Rep(m2, loot, hd2, al2, freed, D, L, F2)
  <2>1. CASE mem.freelist[w] = NULL
    <3>1. t = allocated + 1 /\ m2 = mem /\ al2 = allocated + 1
      BY <2>1 DEF deque_task_new
    <3>2. /\ allocated + 1 \in Tasks /\ allocated + 1 \notin held[w]
          /\ Rep(mem, loot, [held EXCEPT ![w] = @ \cup {allocated + 1}], allocated + 1, freed, D, L, F)
      BY <3>1, NewToHands DEF Now
    <3> QED BY <1>1, <3>1, <3>2
  <2>2. CASE mem.freelist[w] # NULL
    <3>1. t = mem.freelist[w] /\ m2 = freelist_pop(mem, w) /\ al2 = allocated
      BY <2>2 DEF deque_task_new
    <3>2. F[w] # <<>>
      BY <2>2, Tests DEF Now
    <3>3. /\ t \in Tasks /\ t \notin held[w]
          /\ Rep(m2, loot, [held EXCEPT ![w] = @ \cup {t}], allocated, freed, D, L,
                 [F EXCEPT ![w] = Tail(F[w])])
      BY <3>1, <3>2, FreeToHands DEF Now
    <3> QED BY <1>1, <3>1, <3>3
  <2> QED BY <2>1, <2>2
<1>3. PICK F2 : /\ t \in Tasks /\ t \notin held[w]
               /\ Rep(m2, loot, hd2, al2, freed, D, L, F2)
  BY <1>2
<1>4. t \in hd2[w] /\ \A v \in Workers \ {w} : hd2[v] = held[v]
  BY <1>1, NowTypes
<1>5. /\ Loose(m2, t)
      /\ \A v \in Workers : t \notin Elements(D[v]) /\ t \notin Elements(L[v])
      /\ \A v \in Workers \ {w} : t \notin hd2[v]
  BY <1>3, <1>4, HandsAlone
<1>6. Unknown(t, D, L)
  BY <1>3, <1>4, <1>5 DEF Unknown
<1> QED BY <1>1, <1>3, <1>5, <1>6

LEMMA PushStep ==
    ASSUME NEW D, NEW L, NEW F, Now(D, L, F), NEW w \in Workers, Push(w)
    PROVE  \E t, F2 :
             /\ t \in Tasks /\ Unknown(t, D, L) /\ held' = held
             /\ Rep(mem', loot', held', allocated', freed', [D EXCEPT ![w] = <<t>> \o D[w]], L, F2)
<1>1. PICK t, m1, al2 : /\ t = deque_task_new(w).task /\ m1 = deque_task_new(w).mem
                        /\ al2 = deque_task_new(w).allocated
  OBVIOUS
<1>2. /\ al2 <= MaxTasks /\ mem' = deque_push(m1, w, t) /\ allocated' = al2
      /\ UNCHANGED <<loot, held, freed>>
  BY <1>1 DEF Push
<1>3. PICK F2 : /\ t \in Tasks /\ t \notin held[w] /\ Unknown(t, D, L)
               /\ Rep(m1, loot, [held EXCEPT ![w] = @ \cup {t}], al2, freed, D, L, F2)
  BY <1>1, <1>2, Allocate
<1>4. PICK hd2 : hd2 = [held EXCEPT ![w] = @ \cup {t}]
  OBVIOUS
<1>5. t \in hd2[w] /\ [hd2 EXCEPT ![w] = @ \ {t}] = held
  BY <1>3, <1>4, NowTypes, PutBack
<1>6. Rep(mem', loot, [hd2 EXCEPT ![w] = @ \ {t}], al2, freed, [D EXCEPT ![w] = <<t>> \o D[w]], L, F2)
  BY <1>2, <1>3, <1>4, <1>5, HandsToDeque
<1> QED BY <1>2, <1>3, <1>5, <1>6

LEMMA PopStep ==
    ASSUME NEW D, NEW L, NEW F, Now(D, L, F), NEW w \in Workers, Pop(w)
    PROVE  /\ D[w] # <<>> /\ held' = [held EXCEPT ![w] = @ \cup {D[w][1]}]
           /\ Rep(mem', loot', held', allocated', freed', [D EXCEPT ![w] = Tail(D[w])], L, F)
<1>1. /\ ~deque_empty(mem, w) /\ mem' = deque_pop(mem, w)
      /\ held' = [held EXCEPT ![w] = @ \cup {mem.head[w]}] /\ UNCHANGED <<loot, allocated, freed>>
  BY DEF Pop
<1>2. D[w] # <<>>
  BY <1>1, Tests DEF Now
<1>3. PICK t : t = mem.head[w]
  OBVIOUS
<1>4. /\ t = D[w][1]
      /\ Rep(mem', loot, [held EXCEPT ![w] = @ \cup {t}], allocated, freed,
             [D EXCEPT ![w] = Tail(D[w])], L, F)
  <2>1. PICK m2 : m2 = deque_pop(mem, w)
    OBVIOUS
  <2>2. /\ t = D[w][1]
        /\ Rep(m2, loot, [held EXCEPT ![w] = @ \cup {t}], allocated, freed,
               [D EXCEPT ![w] = Tail(D[w])], L, F)
    BY <1>2, <1>3, <2>1, DequeToHands DEF Now
  <2> QED BY <1>1, <2>1, <2>2, Zenon
<1> QED BY <1>1, <1>2, <1>3, <1>4

LEMMA StealStep ==
    ASSUME NEW D, NEW L, NEW F, Now(D, L, F), NEW v \in Workers, NEW w \in Workers, Steal(v, w)
    PROVE  \E n \in 1 .. Len(D[v]) :
             /\ D[v] # <<>> /\ L[w] = <<>> /\ (n = 1 \/ 2 * n <= Len(D[v])) /\ held' = held
             /\ Rep(mem', loot', held', allocated', freed',
                    [D EXCEPT ![v] = SubSeq(D[v], 1, Len(D[v]) - n)],
                    [L EXCEPT ![w] = SubSeq(D[v], Len(D[v]) - n + 1, Len(D[v]))], F)
<1>1. PICK max \in 1 .. MaxTasks :
        /\ loot' = [loot EXCEPT ![w] = Back(mem, v, LootSize(mem, v, max))]
        /\ mem' = Unlink(mem, v, LootSize(mem, v, max))
  BY DEF Steal
<1>2. loot[w] = NULL /\ ~deque_empty(mem, v) /\ UNCHANGED <<held, allocated, freed>>
  BY DEF Steal
<1>3. L[w] = <<>> /\ D[v] # <<>> /\ D[v] \in Seq(Tasks) /\ mem.num_tasks[v] = Len(D[v])
  BY <1>2, Tests DEF Now
<1>4. PICK n : n = LootSize(mem, v, max)
  OBVIOUS
<1>5. n \in 1 .. Len(D[v]) /\ (n = 1 \/ 2 * n <= Len(D[v]))
  <2>1. Len(D[v]) \in Nat /\ Len(D[v]) # 0
    BY <1>3, EmptySeq
  <2>2. max \in Nat \ {0}
    BY DequeAssumption
  <2>3. mem.num_tasks[v] \in Nat \ {0}
    BY <1>3, <2>1
  <2>4. n \in 1 .. mem.num_tasks[v] /\ (n = 1 \/ 2 * n <= mem.num_tasks[v])
    BY <1>4, <2>2, <2>3, LootSizeIs
  <2> QED BY <1>3, <2>4, Zenon
<1>6. Rep(mem', [loot EXCEPT ![w] = Back(mem, v, n)], held, allocated, freed,
          [D EXCEPT ![v] = SubSeq(D[v], 1, Len(D[v]) - n)],
          [L EXCEPT ![w] = SubSeq(D[v], Len(D[v]) - n + 1, Len(D[v]))], F)
  BY <1>1, <1>3, <1>4, <1>5, DequeToLoot DEF Now
<1> QED BY <1>1, <1>2, <1>3, <1>4, <1>5, <1>6

LEMMA SplitStep ==
    ASSUME NEW D, NEW L, NEW F, Now(D, L, F), NEW v \in Workers, NEW w \in Workers, Split(v, w)
    PROVE  \E t, F2 :
             /\ t \in Tasks /\ Unknown(t, D, L) /\ L[w] = <<>> /\ held' = held
             /\ Rep(mem', loot', held', allocated', freed', D, [L EXCEPT ![w] = <<t>>], F2)
<1>1. PICK t, m1, al2 : /\ t = deque_task_new(v).task /\ m1 = deque_task_new(v).mem
                        /\ al2 = deque_task_new(v).allocated
  OBVIOUS
<1>2. PICK u \in held[v] : mem' = [m1 EXCEPT !.next[t] = mem.next[u], !.prev[t] = mem.prev[u]]
  BY <1>1 DEF Split
<1>3. /\ al2 <= MaxTasks /\ loot' = [loot EXCEPT ![w] = t] /\ allocated' = al2 /\ loot[w] = NULL
      /\ UNCHANGED <<held, freed>>
  BY <1>1 DEF Split
<1>4. PICK F2 : /\ t \in Tasks /\ t \notin held[v] /\ Unknown(t, D, L) /\ Loose(m1, t)
               /\ Rep(m1, loot, [held EXCEPT ![v] = @ \cup {t}], al2, freed, D, L, F2)
  BY <1>1, <1>3, Allocate
<1>5. PICK hd2 : hd2 = [held EXCEPT ![v] = @ \cup {t}]
  OBVIOUS
<1>6. t \in hd2[v] /\ [hd2 EXCEPT ![v] = @ \ {t}] = held
  BY <1>4, <1>5, NowTypes, PutBack
<1>7. L[w] = <<>>
  BY <1>3, Tests DEF Now
<1>8. mem' = m1
  <2>1. Loose(mem, u)
    BY HandsAlone DEF Now
  <2>2. m1 \in Mem /\ t \in Pointers
    BY <1>4, PointersDiffer DEF Rep, ListsOK
  <2>3. mem' = [next |-> [m1.next EXCEPT ![t] = NULL], prev |-> [m1.prev EXCEPT ![t] = NULL],
                head |-> m1.head, tail |-> m1.tail, num_tasks |-> m1.num_tasks,
                freelist |-> m1.freelist]
    BY <1>2, <2>1, <2>2 DEF Loose, Mem
  <2>5. m1 = [next |-> m1.next, prev |-> m1.prev, head |-> m1.head, tail |-> m1.tail,
              num_tasks |-> m1.num_tasks, freelist |-> m1.freelist]
    BY <2>2 DEF Mem
  <2>4. [m1.next EXCEPT ![t] = NULL] = m1.next /\ [m1.prev EXCEPT ![t] = NULL] = m1.prev
    BY <1>4, <2>2, MemFields DEF Loose
  <2> QED BY <2>3, <2>4, <2>5
<1>9. Rep(m1, [loot EXCEPT ![w] = t], [hd2 EXCEPT ![v] = @ \ {t}], al2, freed, D,
          [L EXCEPT ![w] = <<t>>], F2)
  BY <1>4, <1>5, <1>6, <1>7, HandsToLoot
<1> QED BY <1>3, <1>4, <1>6, <1>7, <1>8, <1>9

\* The tasks that have arrived are in the deque, except the first one.
Received(D, L, F, w, D2) ==
    /\ D2[w] = Tail(L[w]) \o D[w]
    /\ \A v \in Workers \ {w} : D2[v] = D[v]
    /\ Rep(mem', loot', held', allocated', freed', D2, [L EXCEPT ![w] = <<>>], F)

LEMMA ReceiveStep ==
    ASSUME NEW D, NEW L, NEW F, Now(D, L, F), NEW w \in Workers, Receive(w)
    PROVE  /\ L[w] # <<>> /\ held' = [held EXCEPT ![w] = @ \cup {L[w][1]}]
           /\ \E D2 : Received(D, L, F, w, D2)
<1>1. PICK t : t = loot[w]
  OBVIOUS
<1>2. /\ t # NULL /\ held' = [held EXCEPT ![w] = @ \cup {t}]
      /\ mem' = IF mem.next[t] = NULL THEN mem ELSE deque_pop(deque_prepend(mem, w, t), w)
      /\ loot' = [loot EXCEPT ![w] = NULL] /\ UNCHANGED <<allocated, freed>>
  BY <1>1 DEF Receive
<1>3. PICK l, s : l = L[w] /\ s = D[w]
  OBVIOUS
<1>4. l # <<>> /\ l \in Seq(Tasks) /\ s \in Seq(Tasks) /\ t = l[1]
  <2>1. l # <<>> /\ l \in Seq(Tasks) /\ s \in Seq(Tasks) /\ t = First(l, NULL)
    BY <1>1, <1>2, <1>3, Tests DEF Now
  <2> QED BY <2>1 DEF First
<1>5. Len(l) \in Nat /\ 1 \in 1 .. Len(l)
  <2>1. Len(l) \in Nat /\ Len(l) # 0
    BY <1>4, EmptySeq
  <2>2. \A n \in Nat : n # 0 => 1 \in 1 .. n
    OBVIOUS
  <2> QED BY <2>1, <2>2, Zenon
<1>6. t \in Tasks
  BY <1>4, <1>5
<1>7. Forward(l, mem.next, NULL)
  BY <1>3 DEF Now, Rep, ListsOK, ListAt
<1>8. CASE mem.next[t] = NULL
  <2>1. Len(l) = 1
    <3>1. Len(l) # 1 => 1 + 1 \in 1 .. Len(l)
      <4>1. \A n \in Nat : 1 \in 1 .. n /\ n # 1 => 1 + 1 \in 1 .. n
        OBVIOUS
      <4> QED BY <1>5, <4>1, Zenon
    <3>2. mem.next[l[1]] = IF 1 = Len(l) THEN NULL ELSE l[1 + 1]
      BY <1>5, <1>7 DEF Forward
    <3>3. Len(l) # 1 => l[1 + 1] \in Tasks
      BY <1>4, <3>1
    <3> QED BY <1>4, <1>8, <3>2, <3>3, PointersDiffer
  <2>2. l = <<t>> /\ Tail(l) = <<>>
    <3>1. <<t>> \in Seq(Tasks) /\ Len(<<t>>) = 1 /\ <<t>>[1] = t /\ Tail(<<t>>) = <<>>
      BY <1>6
    <3>2. \A i \in 1 .. Len(l) : l[i] = <<t>>[i]
      BY <1>4, <2>1
    <3>3. l = <<t>>
      BY <1>4, <2>1, <3>1, <3>2, SeqEqual
    <3> QED BY <3>1, <3>3
  <2>3. Rep(mem, [loot EXCEPT ![w] = NULL], [held EXCEPT ![w] = @ \cup {t}], allocated, freed, D,
            [L EXCEPT ![w] = <<>>], F)
    BY <1>3, <1>6, <2>2, LootToHands DEF Now
  <2>4. Tail(l) \o s = s
    BY <1>4, <2>2
  <2>5. Rep(mem', loot', held', allocated', freed', D, [L EXCEPT ![w] = <<>>], F)
    BY <1>2, <1>8, <2>3
  <2>6. Received(D, L, F, w, D)
    BY <1>3, <2>4, <2>5 DEF Received
  <2> QED BY <1>2, <1>3, <1>4, <2>6
<1>9. CASE mem.next[t] # NULL
  <2>1. PICK m1, D1, lt2, L2 : /\ m1 = deque_prepend(mem, w, loot[w])
                               /\ D1 = [D EXCEPT ![w] = L[w] \o D[w]]
                               /\ lt2 = [loot EXCEPT ![w] = NULL] /\ L2 = [L EXCEPT ![w] = <<>>]
    OBVIOUS
  <2>2. Rep(m1, lt2, held, allocated, freed, D1, L2, F)
    BY <1>3, <1>4, <2>1, LootToDeque DEF Now
  <2>3. D1[w] = l \o s /\ DOMAIN D1 = Workers /\ \A v \in Workers \ {w} : D1[v] = D[v]
    BY <1>3, <2>1, NowTypes
  <2>4. /\ l \o s \in Seq(Tasks) /\ l \o s # <<>> /\ (l \o s)[1] = t
        /\ Tail(l \o s) = Tail(l) \o s
    <3>1. PICK x : x = l \o s
      OBVIOUS
    <3>2. x \in Seq(Tasks) /\ Len(x) = Len(l) + Len(s) /\ Len(s) \in Nat
      BY <1>4, <3>1
    <3>3. x[1] = t
      BY <1>4, <1>5, <3>1
    <3>4. Len(x) # 0
      BY <1>5, <3>2
    <3>5. Tail(l) \in Seq(Tasks) /\ Len(Tail(l)) = Len(l) - 1
      BY <1>4
    <3>6. Tail(x) = Tail(l) \o s
      BY <1>4, <3>1, ConcatProperties
    <3> QED BY <3>1, <3>2, <3>3, <3>4, <3>6
  <2>5. m1.head[w] = t
    <3>1. m1.head[w] = First(D1[w], Dummy(w))
      BY <2>2, Tests
    <3> QED BY <2>3, <2>4, <3>1 DEF First
  <2>6. PICK D2 : D2 = [D1 EXCEPT ![w] = Tail(D1[w])]
    OBVIOUS
  <2>7. mem' = deque_pop(m1, w)
    BY <1>1, <1>2, <1>9, <2>1
  <2>8. Rep(mem', lt2, [held EXCEPT ![w] = @ \cup {t}], allocated, freed, D2, L2, F)
    BY <2>2, <2>3, <2>4, <2>5, <2>6, <2>7, DequeToHands
  <2>9. D2[w] = Tail(l) \o s /\ \A v \in Workers \ {w} : D2[v] = D[v]
    BY <2>3, <2>4, <2>6
  <2>10. Received(D, L, F, w, D2)
    BY <1>2, <1>3, <2>1, <2>8, <2>9 DEF Received
  <2> QED BY <1>2, <1>3, <1>4, <2>10
<1> QED BY <1>8, <1>9

LEMMA DoneStep ==
    ASSUME NEW D, NEW L, NEW F, Now(D, L, F), NEW w \in Workers, Done(w)
    PROVE  \E t, F2 :
             /\ t \in Tasks /\ t \in held[w] /\ held' = [held EXCEPT ![w] = @ \ {t}]
             /\ Rep(mem', loot', held', allocated', freed', D, L, F2)
<1>1. PICK t \in held[w] : /\ mem' = deque_task_cache(mem, w, t)
                          /\ held' = [held EXCEPT ![w] = @ \ {t}]
                          /\ UNCHANGED <<loot, allocated, freed>>
  BY DEF Done
<1>2. t \in Tasks
  BY NowTypes
<1>3. Rep(mem', loot, [held EXCEPT ![w] = @ \ {t}], allocated, freed, D, L,
          [F EXCEPT ![w] = <<t>> \o F[w]])
  BY <1>1, HandsToFree DEF Now
<1> QED BY <1>1, <1>2, <1>3

LEMMA DeleteTaskStep ==
    ASSUME NEW D, NEW L, NEW F, Now(D, L, F), NEW w \in Workers, DeleteTask(w)
    PROVE  /\ D[w] # <<>> /\ held' = held
           /\ Rep(mem', loot', held', allocated', freed', [D EXCEPT ![w] = Tail(D[w])], L, F)
<1>1. /\ ~deque_empty(mem, w) /\ mem' = deque_pop(mem, w)
      /\ freed' = freed \cup {mem.head[w]} /\ UNCHANGED <<loot, held, allocated>>
  BY DEF DeleteTask
<1>2. D[w] # <<>>
  BY <1>1, Tests DEF Now
<1>0. PICK t : t = mem.head[w]
  OBVIOUS
<1>3. PICK hd2, D2 : /\ hd2 = [held EXCEPT ![w] = @ \cup {t}]
                    /\ D2 = [D EXCEPT ![w] = Tail(D[w])]
  OBVIOUS
<1>4. t \notin held[w] /\ Rep(mem', loot, hd2, allocated, freed, D2, L, F)
  <2>1. PICK m2 : m2 = deque_pop(mem, w)
    OBVIOUS
  <2>2. /\ t \notin held[w]
        /\ Rep(m2, loot, [held EXCEPT ![w] = @ \cup {t}], allocated, freed,
               [D EXCEPT ![w] = Tail(D[w])], L, F)
    BY <1>0, <1>2, <2>1, DequeToHands DEF Now
  <2> QED BY <1>1, <1>3, <2>1, <2>2
<1>5. t \in hd2[w] /\ [hd2 EXCEPT ![w] = @ \ {t}] = held
  BY <1>3, <1>4, NowTypes, PutBack
<1>6. Rep(mem', loot, [hd2 EXCEPT ![w] = @ \ {t}], allocated, freed \cup {t}, D2, L, F)
  BY <1>4, <1>5, HandsToGone
<1> QED BY <1>0, <1>1, <1>2, <1>3, <1>5, <1>6

LEMMA DeleteFreelistStep ==
    ASSUME NEW D, NEW L, NEW F, Now(D, L, F), NEW w \in Workers, DeleteFreelist(w)
    PROVE  /\ held' = held
           /\ \E F2 : Rep(mem', loot', held', allocated', freed', D, L, F2)
<1>1. /\ mem.freelist[w] # NULL /\ mem' = freelist_pop(mem, w)
      /\ freed' = freed \cup {mem.freelist[w]} /\ UNCHANGED <<loot, held, allocated>>
  BY DEF DeleteFreelist
<1>2. F[w] # <<>>
  BY <1>1, Tests DEF Now
<1>0. PICK t : t = mem.freelist[w]
  OBVIOUS
<1>3. PICK hd2, F2 : /\ hd2 = [held EXCEPT ![w] = @ \cup {t}]
                    /\ F2 = [F EXCEPT ![w] = Tail(F[w])]
  OBVIOUS
<1>4. t \notin held[w] /\ Rep(mem', loot, hd2, allocated, freed, D, L, F2)
  <2>1. PICK m2 : m2 = freelist_pop(mem, w)
    OBVIOUS
  <2>2. /\ t \notin held[w]
        /\ Rep(m2, loot, [held EXCEPT ![w] = @ \cup {t}], allocated, freed, D, L,
               [F EXCEPT ![w] = Tail(F[w])])
    BY <1>0, <1>2, <2>1, FreeToHands DEF Now
  <2> QED BY <1>1, <1>3, <2>1, <2>2
<1>5. t \in hd2[w] /\ [hd2 EXCEPT ![w] = @ \ {t}] = held
  BY <1>3, <1>4, NowTypes, PutBack
<1>6. Rep(mem', loot, [hd2 EXCEPT ![w] = @ \ {t}], allocated, freed \cup {t}, D, L, F2)
  BY <1>4, <1>5, HandsToGone
<1> QED BY <1>0, <1>1, <1>3, <1>5, <1>6

LEMMA DeleteDummyStep ==
    ASSUME NEW D, NEW L, NEW F, Now(D, L, F), NEW w \in Workers, DeleteDummy(w)
    PROVE  held' = held /\ Rep(mem', loot', held', allocated', freed', D, L, F)
<1>1. /\ deque_empty(mem, w) /\ freed' = freed \cup {mem.head[w]}
      /\ UNCHANGED <<mem, loot, held, allocated>>
  BY DEF DeleteDummy
<1>2. D[w] = <<>> /\ mem.head[w] = First(D[w], Dummy(w))
  BY <1>1, Tests DEF Now
<1>3. mem.head[w] = Dummy(w)
  BY <1>2 DEF First
<1> QED BY <1>1, <1>3, DummyGone DEF Now

-----------------------------------------------------------------------------
(* The invariant holds *)

LEMMA InitInv ==
    Init => Inv
<1> SUFFICES ASSUME Init PROVE Inv
  OBVIOUS
<1>1. PICK E, place : /\ E = [w \in Workers |-> <<>>]
                      /\ place = [t \in Tasks |-> Unborn]
  OBVIOUS
<1>2. \A w \in Workers : E[w] = <<>> /\ Len(E[w]) = 0 /\ E[w] \in Seq(Tasks)
                          /\ Distinct(E[w]) /\ Elements(E[w]) = {}
  BY <1>1 DEF Distinct, Elements
<1>3. DOMAIN E = Workers
  BY <1>1
<1>4. mem \in Mem /\ loot \in [Workers -> Pointers] /\ held \in [Workers -> SUBSET Tasks]
      /\ allocated \in 0 .. MaxTasks
  BY PointersDiffer, DequeAssumption DEF Init, Mem
<1>5. \A o \in Pointers : Loose(mem, o)
  BY DEF Init, Loose
<1>6. ASSUME NEW w \in Workers
      PROVE  DequeAt(mem, w, E[w]) /\ ListAt(mem, loot[w], E[w]) /\ FreeAt(mem, w, E[w])
  <2>1. /\ mem.tail[w] = Dummy(w) /\ mem.head[w] = Dummy(w) /\ mem.num_tasks[w] = 0
        /\ mem.freelist[w] = NULL /\ loot[w] = NULL
        /\ mem.next[Dummy(w)] = NULL /\ mem.prev[Dummy(w)] = NULL
    BY PointersDiffer DEF Init
  <2>2. First(E[w], Dummy(w)) = Dummy(w) /\ First(E[w], NULL) = NULL /\ Final(E[w]) = NULL
    BY <1>2 DEF First, Final
  <2>3. /\ Forward(E[w], mem.next, Dummy(w)) /\ Forward(E[w], mem.next, NULL)
        /\ Backward(E[w], mem.prev) /\ \A i \in 1 .. Len(E[w]) : mem.prev[E[w][i]] = NULL
    BY <1>2 DEF Forward, Backward
  <2> QED BY <1>2, <2>1, <2>2, <2>3 DEF DequeAt, ListAt, FreeAt
<1>7. ListsOK(mem, loot, held, allocated, E, E, E)
  <2>1. \A w \in Workers : held[w] = {}
    BY DEF Init
  <2> QED BY <1>3, <1>4, <1>5, <1>6, <2>1, PointersDiffer DEF ListsOK
<1>8. PlacesOK(held, allocated, freed, E, E, E, place)
  <2>1. \A w \in Workers : /\ Unborn # InDeque(w) /\ Unborn # InLoot(w)
                           /\ Unborn # InFree(w) /\ Unborn # InHands(w)
    BY DEF Unborn, InDeque, InLoot, InFree, InHands
  <2>2. Unborn # Gone /\ Unborn \in Places
    BY DEF Unborn, Gone, Places
  <2>3. freed = {} /\ allocated = 0 /\ \A w \in Workers : held[w] = {}
    BY DEF Init
  <2>4. \A t \in Tasks : t > allocated
    BY <2>3, DequeAssumption DEF Tasks
  <2> QED BY <1>1, <1>2, <2>1, <2>2, <2>3, <2>4 DEF PlacesOK
<1> QED BY <1>7, <1>8 DEF Inv, Rep

LEMMA NextInv ==
    Inv /\ [Next]_vars => Inv'
<1> SUFFICES ASSUME Inv, [Next]_vars PROVE Inv'
  OBVIOUS
<1>0. PICK D, L, F : Now(D, L, F)
  BY DEF Inv, Now
<1>1. ASSUME NEW D2, NEW L2, NEW F2, Rep(mem', loot', held', allocated', freed', D2, L2, F2)
      PROVE  Inv'
  BY <1>1 DEF Inv
<1>2. ASSUME UNCHANGED <<mem, loot, held, allocated, freed>>
      PROVE  Inv'
  BY <1>0, <1>1, <1>2 DEF Now
<1>3. ASSUME NEW w \in Workers, Push(w) PROVE Inv'
  BY <1>0, <1>1, <1>3, PushStep
<1>4. ASSUME NEW w \in Workers, Pop(w) PROVE Inv'
  BY <1>0, <1>1, <1>4, PopStep
<1>5. ASSUME NEW w \in Workers, Receive(w) PROVE Inv'
  <2>1. PICK D2 : Received(D, L, F, w, D2)
    BY <1>0, <1>5, ReceiveStep
  <2>2. Rep(mem', loot', held', allocated', freed', D2, [L EXCEPT ![w] = <<>>], F)
    BY <2>1 DEF Received
  <2> QED BY <1>1, <2>2
<1>6. ASSUME NEW w \in Workers, Done(w) PROVE Inv'
  BY <1>0, <1>1, <1>6, DoneStep
<1>7. ASSUME NEW w \in Workers, DeleteTask(w) PROVE Inv'
  BY <1>0, <1>1, <1>7, DeleteTaskStep
<1>8. ASSUME NEW w \in Workers, DeleteDummy(w) PROVE Inv'
  BY <1>0, <1>1, <1>8, DeleteDummyStep
<1>9. ASSUME NEW w \in Workers, DeleteFreelist(w) PROVE Inv'
  BY <1>0, <1>1, <1>9, DeleteFreelistStep
<1>10. ASSUME NEW v \in Workers, NEW w \in Workers, Steal(v, w) PROVE Inv'
  <2>1. \E n \in 1 .. Len(D[v]) :
          /\ D[v] # <<>> /\ L[w] = <<>> /\ (n = 1 \/ 2 * n <= Len(D[v])) /\ held' = held
          /\ Rep(mem', loot', held', allocated', freed',
                 [D EXCEPT ![v] = SubSeq(D[v], 1, Len(D[v]) - n)],
                 [L EXCEPT ![w] = SubSeq(D[v], Len(D[v]) - n + 1, Len(D[v]))], F)
    BY <1>0, <1>10, StealStep, Zenon
  <2> QED BY <1>1, <2>1, Zenon
<1>11. ASSUME NEW v \in Workers, NEW w \in Workers, Split(v, w) PROVE Inv'
  BY <1>0, <1>1, <1>11, SplitStep
<1>12. CASE Exit
  BY <1>2, <1>12 DEF Exit
<1>13. CASE Terminated
  BY <1>2, <1>13 DEF Terminated, vars
<1>14. CASE UNCHANGED vars
  BY <1>2, <1>14 DEF vars
<1> QED
  BY <1>3, <1>4, <1>5, <1>6, <1>7, <1>8, <1>9, <1>10, <1>11, <1>12, <1>13, <1>14 DEF Next

-----------------------------------------------------------------------------
(* What the invariant says about the properties *)

LEMMA SeeLists ==
    ASSUME NEW D, NEW L, NEW F, Now(D, L, F), NEW w \in Workers
    PROVE  Contents(w) = D[w] /\ InTransit(w) = L[w] /\ Free(w) = F[w]
BY View DEF Now, Contents, InTransit, Free

\* A deque read backwards
LEMMA SeeBackwards ==
    ASSUME NEW m, NEW w \in Workers, NEW s, DequeAt(m, w, s)
    PROVE  Path(m.prev, m.prev[m.tail[w]], NULL) = Reversed(s)
<1>1. /\ s \in Seq(Tasks) /\ Len(s) \in Nat /\ Distinct(s) /\ Backward(s, m.prev)
      /\ m.tail[w] = Dummy(w) /\ m.prev[Dummy(w)] = Final(s)
  BY DEF DequeAt
<1>2. PICK r : r = Reversed(s)
  OBVIOUS
<1>3. r \in Seq(Tasks) /\ Len(r) = Len(s) /\ \A i \in 1 .. Len(s) : r[i] = s[Len(s) + 1 - i]
  <2>1. \A i \in 1 .. Len(s) : Len(s) + 1 - i \in 1 .. Len(s)
    BY <1>1
  <2>2. r = [i \in 1 .. Len(s) |-> s[Len(s) + 1 - i]]
    BY <1>2 DEF Reversed
  <2> QED BY <1>1, <2>1, <2>2
<1>4. Forward(r, m.prev, NULL)
  <2> SUFFICES ASSUME NEW i \in 1 .. Len(s)
               PROVE  m.prev[r[i]] = IF i = Len(s) THEN NULL ELSE r[i + 1]
    BY <1>3 DEF Forward
  <2>1. PICK j : j = Len(s) + 1 - i
    OBVIOUS
  <2>2. j \in 1 .. Len(s) /\ (j = 1 <=> i = Len(s))
    BY <1>1, <2>1
  <2>3. m.prev[s[j]] = IF j = 1 THEN NULL ELSE s[j - 1]
    BY <1>1, <2>2 DEF Backward
  <2>4. i # Len(s) => i + 1 \in 1 .. Len(s) /\ Len(s) + 1 - (i + 1) = j - 1
    BY <1>1, <2>1
  <2>5. r[i] = s[j] /\ (i # Len(s) => r[i + 1] = s[j - 1])
    BY <1>3, <2>1, <2>4
  <2> QED BY <2>2, <2>3, <2>5
<1>5. First(r, NULL) = Final(s)
  <2>1. CASE s = <<>>
    <3>1. Len(r) = 0
      BY <1>3, <2>1
    <3>2. r = <<>>
      BY <1>3, <3>1, EmptySeq
    <3> QED BY <2>1, <3>2 DEF First, Final
  <2>2. CASE s # <<>>
    <3>1. Len(s) # 0
      BY <1>1, <2>2, EmptySeq
    <3>2. \A n \in Nat : n # 0 => 1 \in 1 .. n /\ n + 1 - 1 = n
      OBVIOUS
    <3>3. 1 \in 1 .. Len(s) /\ Len(s) + 1 - 1 = Len(s)
      BY <1>1, <3>1, <3>2, Zenon
    <3>4. r[1] = s[Len(s)]
      BY <1>3, <3>3
    <3>5. r # <<>>
      BY <1>3, <3>1
    <3> QED BY <2>2, <3>4, <3>5 DEF First, Final
  <2> QED BY <2>1, <2>2
<1>6. Len(r) <= MaxTasks
  BY <1>1, <1>3, DistinctBound
<1>7. Path(m.prev, First(r, NULL), NULL) = r
  BY <1>3, <1>4, <1>6, PointersDiffer, PathIs
<1> QED BY <1>1, <1>2, <1>5, <1>7

LEMMA InvWellLinked ==
    Inv => WellLinked
<1> SUFFICES ASSUME Inv PROVE WellLinked
  OBVIOUS
<1>0. PICK D, L, F : Now(D, L, F)
  BY DEF Inv, Now
<1>1. ASSUME NEW w \in Workers
      PROVE  /\ mem.num_tasks[w] = Len(Contents(w))
             /\ Path(mem.prev, mem.prev[mem.tail[w]], NULL) = Reversed(Contents(w))
             /\ mem.next[mem.tail[w]] = NULL
  <2>1. Contents(w) = D[w]
    BY <1>0, SeeLists
  <2>2. DequeAt(mem, w, D[w])
    BY <1>0 DEF Now, Rep, ListsOK
  <2>3. Path(mem.prev, mem.prev[mem.tail[w]], NULL) = Reversed(D[w])
    BY <2>2, SeeBackwards
  <2> QED BY <2>1, <2>2, <2>3 DEF DequeAt
<1>2. ASSUME NEW w \in Workers, loot[w] # NULL
      PROVE  mem.prev[loot[w]] = NULL
  <2>1. ListAt(mem, loot[w], L[w])
    BY <1>0 DEF Now, Rep, ListsOK
  <2>2. L[w] \in Seq(Tasks) /\ loot[w] = L[w][1] /\ L[w] # <<>> /\ Backward(L[w], mem.prev)
    BY <1>2, <2>1 DEF ListAt, First
  <2>3. Len(L[w]) \in Nat /\ Len(L[w]) # 0
    BY <2>2, EmptySeq
  <2>4. \A n \in Nat : n # 0 => 1 \in 1 .. n
    OBVIOUS
  <2>5. 1 \in 1 .. Len(L[w])
    BY <2>3, <2>4, Zenon
  <2> QED BY <2>2, <2>5 DEF Backward
<1>3. \A w \in Workers : \A t \in held[w] : Loose(mem, t)
  BY <1>0 DEF Now, Rep, ListsOK
<1>4. Loose(mem, NULL)
  BY <1>0 DEF Now, Rep, ListsOK
<1> QED BY <1>1, <1>2, <1>3, <1>4 DEF WellLinked, Loose

LEMMA DistinctConcat ==
    ASSUME NEW S, NEW a \in Seq(S), NEW b \in Seq(S), Distinct(a), Distinct(b),
           Elements(a) \cap Elements(b) = {}
    PROVE  Distinct(a \o b)
<1>1. PICK s : s = a \o b
  OBVIOUS
<1>2. /\ Len(a) \in Nat /\ Len(b) \in Nat /\ Len(s) = Len(a) + Len(b)
      /\ \A i \in 1 .. Len(a) : s[i] = a[i]
      /\ \A i \in 1 .. Len(b) : s[Len(a) + i] = b[i]
  BY <1>1
<1> SUFFICES ASSUME NEW i \in 1 .. Len(s), NEW j \in 1 .. Len(s), s[i] = s[j]
             PROVE  i = j
  BY <1>1 DEF Distinct
<1>3. \A k \in 1 .. Len(s) :
        \/ k \in 1 .. Len(a) /\ s[k] = a[k]
        \/ k - Len(a) \in 1 .. Len(b) /\ s[k] = b[k - Len(a)]
  <2> SUFFICES ASSUME NEW k \in 1 .. Len(s), k \notin 1 .. Len(a)
               PROVE  k - Len(a) \in 1 .. Len(b) /\ s[k] = b[k - Len(a)]
    BY <1>2
  <2>1. k - Len(a) \in 1 .. Len(b) /\ Len(a) + (k - Len(a)) = k
    BY <1>2
  <2> QED BY <1>2, <2>1
<1>4. \A k \in 1 .. Len(a), l \in 1 .. Len(b) : a[k] # b[l]
  BY DEF Elements
<1>5. CASE i \in 1 .. Len(a) /\ s[i] = a[i]
  <2>1. j \in 1 .. Len(a) /\ s[j] = a[j]
    BY <1>3, <1>4, <1>5
  <2> QED BY <1>5, <2>1 DEF Distinct
<1>6. CASE i - Len(a) \in 1 .. Len(b) /\ s[i] = b[i - Len(a)]
  <2>1. j - Len(a) \in 1 .. Len(b) /\ s[j] = b[j - Len(a)]
    BY <1>3, <1>4, <1>6
  <2>2. i - Len(a) = j - Len(a)
    BY <1>6, <2>1 DEF Distinct
  <2> QED BY <1>2, <2>2
<1> QED BY <1>3, <1>5, <1>6

LEMMA DistinctCardinality ==
    ASSUME NEW S, NEW s \in Seq(S), Distinct(s)
    PROVE  Cardinality(Elements(s)) = Len(s)
<1>1. Len(s) \in Nat /\ s \in [1 .. Len(s) -> Elements(s)]
  BY DEF Elements
<1>2. s \in Bijection(1 .. Len(s), Elements(s))
  <2>1. \A x \in Elements(s) : \E i \in 1 .. Len(s) : s[i] = x
    BY DEF Elements
  <2> QED BY <1>1, <2>1 DEF Bijection, Injection, Surjection, IsInjective, Distinct
<1>3. ExistsBijection(1 .. Len(s), Elements(s))
  BY <1>2 DEF ExistsBijection
<1> QED BY <1>1, <1>3, FS_CountingElements

LEMMA InvOneOwner ==
    Inv => OneOwner
<1> SUFFICES ASSUME Inv PROVE OneOwner
  OBVIOUS
<1>0. PICK D, L, F : Now(D, L, F)
  BY DEF Inv, Now
<1>1. PICK place : PlacesOK(held, allocated, freed, D, L, F, place)
  BY <1>0 DEF Now, Rep
<1> DEFINE all(w) == Contents(w) \o InTransit(w) \o Free(w)
           owned(w) == Elements(all(w)) \cup held[w]
<1>2. ASSUME NEW w \in Workers
      PROVE  /\ D[w] \in Seq(Tasks) /\ L[w] \in Seq(Tasks) /\ F[w] \in Seq(Tasks)
             /\ Distinct(D[w]) /\ Distinct(L[w]) /\ Distinct(F[w])
  BY <1>0 DEF Now, Rep, ListsOK, DequeAt, ListAt, FreeAt
<1>3. ASSUME NEW w \in Workers
      PROVE  Elements(D[w]) \subseteq Tasks /\ Elements(L[w]) \subseteq Tasks
             /\ Elements(F[w]) \subseteq Tasks /\ held[w] \subseteq Tasks
  BY <1>0, <1>2, ElementsOf, NowTypes
<1>4. \A v, w \in Workers :
        /\ InDeque(v) # InLoot(w) /\ InDeque(v) # InFree(w) /\ InDeque(v) # InHands(w)
        /\ InLoot(v) # InFree(w) /\ InLoot(v) # InHands(w) /\ InFree(v) # InHands(w)
        /\ v # w => /\ InDeque(v) # InDeque(w) /\ InLoot(v) # InLoot(w)
                    /\ InFree(v) # InFree(w) /\ InHands(v) # InHands(w)
  BY DEF InDeque, InLoot, InFree, InHands
<1>5. \A w \in Workers : /\ InDeque(w) # Gone /\ InLoot(w) # Gone /\ InFree(w) # Gone
                         /\ InHands(w) # Gone /\ InDeque(w) # Unborn /\ InLoot(w) # Unborn
                         /\ InFree(w) # Unborn /\ InHands(w) # Unborn
  BY DEF InDeque, InLoot, InFree, InHands, Gone, Unborn
<1>6. ASSUME NEW w \in Workers
      PROVE  /\ all(w) = D[w] \o L[w] \o F[w]
             /\ Elements(all(w)) = Elements(D[w]) \cup Elements(L[w]) \cup Elements(F[w])
             /\ Cardinality(Elements(all(w))) = Len(all(w))
  <2>1. all(w) = D[w] \o L[w] \o F[w]
    <3>1. Contents(w) = D[w] /\ InTransit(w) = L[w] /\ Free(w) = F[w]
      BY <1>0, SeeLists
    <3> QED BY <3>1, Zenon
  <2>2. PICK a, b, c : a = D[w] /\ b = L[w] /\ c = F[w]
    OBVIOUS
  <2>3. /\ a \in Seq(Tasks) /\ b \in Seq(Tasks) /\ c \in Seq(Tasks)
        /\ Distinct(a) /\ Distinct(b) /\ Distinct(c)
    BY <1>2, <2>2
  <2>4. Elements(a) \cap Elements(b) = {} /\ (Elements(a) \cup Elements(b)) \cap Elements(c) = {}
    BY <1>1, <1>3, <1>4, <2>2 DEF PlacesOK
  <2>5. /\ a \o b \in Seq(Tasks) /\ Distinct(a \o b)
        /\ Elements(a \o b) = Elements(a) \cup Elements(b)
    BY <2>3, <2>4, DistinctConcat, ElementsConcat
  <2>6. PICK ab : ab = a \o b
    OBVIOUS
  <2>7. /\ ab \o c \in Seq(Tasks) /\ Distinct(ab \o c)
        /\ Elements(ab \o c) = Elements(ab) \cup Elements(c)
    <3>1. ab \in Seq(Tasks) /\ Distinct(ab) /\ Elements(ab) \cap Elements(c) = {}
      BY <2>4, <2>5, <2>6
    <3> QED BY <2>3, <3>1, DistinctConcat, ElementsConcat
  <2>8. Cardinality(Elements(ab \o c)) = Len(ab \o c)
    BY <2>7, DistinctCardinality
  <2>9. D[w] \o L[w] \o F[w] = ab \o c
    BY <2>2, <2>6
  <2> HIDE DEF all
  <2> QED BY <2>1, <2>2, <2>5, <2>6, <2>7, <2>8, <2>9
<1> HIDE DEF all
<1>7. ASSUME NEW w \in Workers, NEW t
      PROVE  t \in owned(w) <=>
               /\ t \in Tasks
               /\ place[t] \in {InDeque(w), InLoot(w), InFree(w), InHands(w)}
  BY <1>1, <1>3, <1>6 DEF PlacesOK
<1>8. ASSUME NEW w \in Workers
      PROVE  Elements(all(w)) \cap held[w] = {}
  <2> SUFFICES ASSUME NEW t \in held[w], t \in Elements(all(w)) PROVE FALSE
    OBVIOUS
  <2>1. t \in Tasks /\ (t \in Elements(D[w]) \/ t \in Elements(L[w]) \/ t \in Elements(F[w]))
    BY <1>3, <1>6
  <2>2. place[t] = InHands(w) /\ place[t] \in {InDeque(w), InLoot(w), InFree(w)}
    BY <1>1, <2>1 DEF PlacesOK
  <2> QED BY <1>4, <2>2
<1>9. ASSUME NEW w \in Workers
      PROVE  owned(w) \cap freed = {}
  <2> SUFFICES ASSUME NEW t \in owned(w), t \in freed PROVE FALSE
    OBVIOUS
  <2>1. t \in Tasks /\ place[t] \in {InDeque(w), InLoot(w), InFree(w), InHands(w)}
    BY <1>7
  <2>2. place[t] = Gone
    BY <1>1, <2>1 DEF PlacesOK
  <2> QED BY <1>5, <2>1, <2>2
<1>10. ASSUME NEW w \in Workers, NEW v \in Workers \ {w}
       PROVE  owned(v) \cap owned(w) = {}
  <2> SUFFICES ASSUME NEW t \in owned(v), t \in owned(w) PROVE FALSE
    OBVIOUS
  <2>1. /\ place[t] \in {InDeque(w), InLoot(w), InFree(w), InHands(w)}
        /\ place[t] \in {InDeque(v), InLoot(v), InFree(v), InHands(v)}
    BY <1>7
  <2> QED BY <1>4, <2>1
<1>11. (UNION {owned(w) : w \in Workers}) \cup (freed \cap Tasks) = 1 .. allocated
  <2> HIDE DEF owned
  <2>1. \A t \in Tasks : t \in 1 .. allocated <=> ~(t > allocated)
    BY <1>0, DequeAssumption, NowTypes DEF Tasks
  <2>2. 1 .. allocated \subseteq Tasks
    BY <1>0, DequeAssumption, NowTypes DEF Tasks
  <2>3. \A t \in Tasks : place[t] # Unborn =>
          \/ t \in freed
          \/ \E w \in Workers : t \in owned(w)
    <3> SUFFICES ASSUME NEW t \in Tasks, place[t] # Unborn, t \notin freed
                 PROVE  \E w \in Workers : t \in owned(w)
      OBVIOUS
    <3>1. place[t] \in Places /\ place[t] # Gone
      BY <1>1 DEF PlacesOK
    <3>2. PICK w \in Workers : place[t] \in {InDeque(w), InLoot(w), InFree(w), InHands(w)}
      BY <3>1 DEF Places, InDeque, InLoot, InFree, InHands
    <3> QED BY <1>7, <3>2
  <2>4. ASSUME NEW t, t \in freed \cap Tasks PROVE t \in 1 .. allocated
    <3>1. place[t] = Gone
      BY <1>1, <2>4 DEF PlacesOK
    <3>2. Gone # Unborn
      BY DEF Gone, Unborn
    <3> QED BY <1>1, <2>1, <2>4, <3>1, <3>2 DEF PlacesOK
  <2>5. ASSUME NEW w \in Workers, NEW t \in owned(w) PROVE t \in 1 .. allocated
    <3>1. t \in Tasks /\ place[t] # Unborn
      BY <1>5, <1>7
    <3> QED BY <1>1, <2>1, <3>1 DEF PlacesOK
  <2>6. ASSUME NEW t \in 1 .. allocated
        PROVE  t \in freed \cap Tasks \/ \E w \in Workers : t \in owned(w)
    <3>1. t \in Tasks /\ place[t] # Unborn
      BY <1>1, <2>1, <2>2 DEF PlacesOK
    <3> QED BY <2>3, <3>1
  <2> QED BY <2>4, <2>5, <2>6
<1> QED
  <2>1. \A w \in Workers :
          /\ Cardinality(Elements(all(w))) = Len(all(w)) /\ Elements(all(w)) \cap held[w] = {}
          /\ owned(w) \cap freed = {} /\ \A v \in Workers \ {w} : owned(v) \cap owned(w) = {}
    BY <1>6, <1>8, <1>9, <1>10
  <2> QED BY <1>11, <2>1 DEF OneOwner, all, owned

\* The pointers always represent sequences, and each task has one place.
THEOREM Representation == Spec => []Inv
BY InitInv, NextInv, PTL DEF Spec

\* Doubly linked lists stay so: what deque.c follows forwards and backwards is the
\* same list, num_tasks is its length, and a task that has left a deque has no
\* links but those to the tasks stolen together with it.
THEOREM Links == Spec => []WellLinked
<1>1. Inv => WellLinked
  BY InvWellLinked
<1> QED BY <1>1, Representation, PTL

\* No object is in two lists, or twice in one, or lost, or used when it is freed.
THEOREM Ownership == Spec => []OneOwner
<1>1. Inv => OneOwner
  BY InvOneOwner
<1> QED BY <1>1, Representation, PTL

-----------------------------------------------------------------------------
(* The lists implement sequences *)

Deques == [w \in Workers |-> Contents(w)]
Lists  == [w \in Workers |-> InTransit(w)]

LEMMA Seen ==
    ASSUME NEW D, NEW L, NEW F, Now(D, L, F)
    PROVE  Deques = [w \in Workers |-> D[w]] /\ Lists = [w \in Workers |-> L[w]]
BY SeeLists DEF Deques, Lists

LEMMA SeenLater ==
    ASSUME NEW D, NEW L, NEW F, Rep(mem', loot', held', allocated', freed', D, L, F)
    PROVE  Deques' = [w \in Workers |-> D[w]] /\ Lists' = [w \in Workers |-> L[w]]
<1>1. ASSUME NEW w \in Workers
      PROVE  Contents(w)' = D[w] /\ InTransit(w)' = L[w]
  <2>1. /\ Path(mem'.next, mem'.head[w], mem'.tail[w]) = D[w]
        /\ Path(mem'.next, loot'[w], NULL) = L[w]
    BY View
  <2> QED BY <2>1 DEF Contents, InTransit
<1> QED BY <1>1 DEF Deques, Lists

\* The initial state is the one of empty sequences ...
LEMMA InitImplements == Init => Abstract!Init
<1> SUFFICES ASSUME Init PROVE Abstract!Init
  OBVIOUS
<1>1. PICK D, L, F : Now(D, L, F)
  BY InitInv DEF Inv, Now
<1>2. \A w \in Workers : deque_empty(mem, w) /\ loot[w] = NULL
  BY DEF Init, deque_empty
<1>3. \A w \in Workers : D[w] = <<>> /\ L[w] = <<>>
  BY <1>1, <1>2, Tests DEF Now
<1>4. Deques = [w \in Workers |-> <<>>] /\ Lists = [w \in Workers |-> <<>>]
  BY <1>1, <1>3, Seen
<1>5. held = [w \in Workers |-> {}]
  BY DEF Init
<1> QED BY <1>4, <1>5 DEF Abstract!Init, Deques, Lists

LEMMA NotKnown ==
    ASSUME NEW D, NEW L, NEW F, Now(D, L, F), NEW t, Unknown(t, D, L)
    PROVE  t \notin Abstract!Known
<1>1. \A v \in Workers : Contents(v) = D[v] /\ InTransit(v) = L[v]
  BY SeeLists
<1>2. \A s : Abstract!Elements(s) = Elements(s)
  BY DEF Abstract!Elements, Elements
<1>3. \A v \in Workers : t \notin Elements(Contents(v)) /\ t \notin Elements(InTransit(v)) /\ t \notin held[v]
  BY <1>1 DEF Unknown
<1> QED BY <1>2, <1>3 DEF Abstract!Known

\* ... and every step is one of the sequences, or leaves them unchanged.
LEMMA NextImplements ==
    Inv /\ [Next]_vars => [Abstract!Next]_<<Deques, Lists, held>>
<1> SUFFICES ASSUME Inv, [Next]_vars
             PROVE  Abstract!Next \/ UNCHANGED <<Deques, Lists, held>>
  OBVIOUS
<1>0. PICK D, L, F : Now(D, L, F)
  BY DEF Inv, Now
<1>1. Deques = [v \in Workers |-> D[v]] /\ Lists = [v \in Workers |-> L[v]]
      /\ DOMAIN D = Workers /\ DOMAIN L = Workers
  BY <1>0, Seen, NowTypes
<1>2. ASSUME held' = held, NEW F2, Rep(mem', loot', held', allocated', freed', D, L, F2)
      PROVE  UNCHANGED <<Deques, Lists, held>>
  BY <1>1, <1>2, SeenLater
<1>3. ASSUME NEW w \in Workers, Push(w) PROVE Abstract!Next
  <2>1. PICK t, F2 :
          /\ t \in Tasks /\ Unknown(t, D, L) /\ held' = held
          /\ Rep(mem', loot', held', allocated', freed', [D EXCEPT ![w] = <<t>> \o D[w]], L, F2)
    BY <1>0, <1>3, PushStep
  <2>2. /\ Deques' = [v \in Workers |-> [D EXCEPT ![w] = <<t>> \o D[w]][v]]
        /\ Lists' = [v \in Workers |-> L[v]]
    <3>1. PICK D2 : D2 = [D EXCEPT ![w] = <<t>> \o D[w]]
      OBVIOUS
    <3>2. Rep(mem', loot', held', allocated', freed', D2, L, F2)
      BY <2>1, <3>1, Zenon
    <3>3. Deques' = [v \in Workers |-> D2[v]] /\ Lists' = [v \in Workers |-> L[v]]
      BY <3>2, SeenLater
    <3> QED BY <3>1, <3>3
  <2>3. Deques' = [Deques EXCEPT ![w] = <<t>> \o @] /\ Lists' = Lists
    BY <1>1, <2>2
  <2>4. t \notin Abstract!Known
    BY <1>0, <2>1, NotKnown
  <2>5. Abstract!Push(w, t)
    BY <2>1, <2>3, <2>4 DEF Abstract!Push, Deques, Lists
  <2> QED BY <2>1, <2>5 DEF Abstract!Next
<1>4. ASSUME NEW w \in Workers, Pop(w) PROVE Abstract!Next
  <2>1. /\ D[w] # <<>> /\ held' = [held EXCEPT ![w] = @ \cup {D[w][1]}]
        /\ Rep(mem', loot', held', allocated', freed', [D EXCEPT ![w] = Tail(D[w])], L, F)
    BY <1>0, <1>4, PopStep
  <2>2. /\ Deques' = [v \in Workers |-> [D EXCEPT ![w] = Tail(D[w])][v]]
        /\ Lists' = [v \in Workers |-> L[v]]
    <3>1. PICK D2 : D2 = [D EXCEPT ![w] = Tail(D[w])]
      OBVIOUS
    <3>2. Rep(mem', loot', held', allocated', freed', D2, L, F)
      BY <2>1, <3>1, Zenon
    <3>3. Deques' = [v \in Workers |-> D2[v]] /\ Lists' = [v \in Workers |-> L[v]]
      BY <3>2, SeenLater
    <3> QED BY <3>1, <3>3
  <2>3. Deques' = [Deques EXCEPT ![w] = Tail(@)] /\ Lists' = Lists /\ Deques[w] = D[w]
    BY <1>1, <2>2
  <2>4. Head(D[w]) = D[w][1]
    OBVIOUS
  <2>5. Abstract!Pop(w)
    BY <2>1, <2>3, <2>4 DEF Abstract!Pop, Deques, Lists
  <2> QED BY <2>5 DEF Abstract!Next
<1>5. ASSUME NEW w \in Workers, Receive(w) PROVE Abstract!Next
  <2>1. L[w] # <<>> /\ held' = [held EXCEPT ![w] = @ \cup {L[w][1]}]
    BY <1>0, <1>5, ReceiveStep
  <2>2. PICK D2 : Received(D, L, F, w, D2)
    BY <1>0, <1>5, ReceiveStep
  <2>3. /\ D2[w] = Tail(L[w]) \o D[w] /\ \A v \in Workers \ {w} : D2[v] = D[v]
        /\ Rep(mem', loot', held', allocated', freed', D2, [L EXCEPT ![w] = <<>>], F)
    BY <2>2 DEF Received
  <2>4. /\ Deques' = [v \in Workers |-> D2[v]]
        /\ Lists' = [v \in Workers |-> [L EXCEPT ![w] = <<>>][v]]
    <3>1. PICK L2 : L2 = [L EXCEPT ![w] = <<>>]
      OBVIOUS
    <3>2. Rep(mem', loot', held', allocated', freed', D2, L2, F)
      BY <2>3, <3>1, Zenon
    <3>3. Deques' = [v \in Workers |-> D2[v]] /\ Lists' = [v \in Workers |-> L2[v]]
      BY <3>2, SeenLater
    <3> QED BY <3>1, <3>3
  <2>5. Lists[w] = L[w] /\ Deques[w] = D[w] /\ Lists' = [Lists EXCEPT ![w] = <<>>]
    BY <1>1, <2>4
  <2>6. Deques' = [Deques EXCEPT ![w] = Tail(Lists[w]) \o @]
    BY <1>1, <2>3, <2>4
  <2>7. Head(L[w]) = L[w][1]
    OBVIOUS
  <2>8. Abstract!Receive(w)
    BY <2>1, <2>5, <2>6, <2>7 DEF Abstract!Receive, Deques, Lists
  <2> QED BY <2>8 DEF Abstract!Next
<1>6. ASSUME NEW w \in Workers, Done(w) PROVE Abstract!Next
  <2>1. PICK t, F2 :
          /\ t \in Tasks /\ t \in held[w] /\ held' = [held EXCEPT ![w] = @ \ {t}]
          /\ Rep(mem', loot', held', allocated', freed', D, L, F2)
    BY <1>0, <1>6, DoneStep
  <2>2. Deques' = Deques /\ Lists' = Lists
    BY <1>1, <2>1, SeenLater
  <2>3. Abstract!Done(w, t)
    BY <2>1, <2>2 DEF Abstract!Done, Deques, Lists
  <2> QED BY <2>1, <2>3 DEF Abstract!Next
<1>7. ASSUME NEW w \in Workers, DeleteTask(w) PROVE Abstract!Next
  <2>1. /\ D[w] # <<>> /\ held' = held
        /\ Rep(mem', loot', held', allocated', freed', [D EXCEPT ![w] = Tail(D[w])], L, F)
    BY <1>0, <1>7, DeleteTaskStep
  <2>2. /\ Deques' = [v \in Workers |-> [D EXCEPT ![w] = Tail(D[w])][v]]
        /\ Lists' = [v \in Workers |-> L[v]]
    <3>1. PICK D2 : D2 = [D EXCEPT ![w] = Tail(D[w])]
      OBVIOUS
    <3>2. Rep(mem', loot', held', allocated', freed', D2, L, F)
      BY <2>1, <3>1, Zenon
    <3>3. Deques' = [v \in Workers |-> D2[v]] /\ Lists' = [v \in Workers |-> L[v]]
      BY <3>2, SeenLater
    <3> QED BY <3>1, <3>3
  <2>3. Deques' = [Deques EXCEPT ![w] = Tail(@)] /\ Lists' = Lists /\ Deques[w] = D[w]
    BY <1>1, <2>2
  <2>4. Abstract!Discard(w)
    BY <2>1, <2>3 DEF Abstract!Discard, Deques, Lists
  <2> QED BY <2>4 DEF Abstract!Next
<1>8. ASSUME NEW w \in Workers, DeleteDummy(w) PROVE UNCHANGED <<Deques, Lists, held>>
  BY <1>0, <1>2, <1>8, DeleteDummyStep
<1>9. ASSUME NEW w \in Workers, DeleteFreelist(w) PROVE UNCHANGED <<Deques, Lists, held>>
  BY <1>0, <1>2, <1>9, DeleteFreelistStep
<1>10. ASSUME NEW v \in Workers, NEW w \in Workers, Steal(v, w) PROVE Abstract!Next
  <2>1. PICK n \in 1 .. Len(D[v]) :
          /\ D[v] # <<>> /\ L[w] = <<>> /\ (n = 1 \/ 2 * n <= Len(D[v])) /\ held' = held
          /\ Rep(mem', loot', held', allocated', freed',
                 [D EXCEPT ![v] = SubSeq(D[v], 1, Len(D[v]) - n)],
                 [L EXCEPT ![w] = SubSeq(D[v], Len(D[v]) - n + 1, Len(D[v]))], F)
    BY <1>0, <1>10, StealStep, Zenon
  <2>2. PICK a, b : /\ a = SubSeq(D[v], 1, Len(D[v]) - n)
                   /\ b = SubSeq(D[v], Len(D[v]) - n + 1, Len(D[v]))
    OBVIOUS
  <2>3. Rep(mem', loot', held', allocated', freed', [D EXCEPT ![v] = a], [L EXCEPT ![w] = b], F)
    BY <2>1, <2>2
  <2>4. /\ Deques' = [x \in Workers |-> [D EXCEPT ![v] = a][x]]
        /\ Lists' = [x \in Workers |-> [L EXCEPT ![w] = b][x]]
    <3>1. PICK D2, L2 : D2 = [D EXCEPT ![v] = a] /\ L2 = [L EXCEPT ![w] = b]
      OBVIOUS
    <3>2. Deques' = [x \in Workers |-> D2[x]] /\ Lists' = [x \in Workers |-> L2[x]]
      <4>1. Rep(mem', loot', held', allocated', freed', D2, L2, F)
        BY <2>3, <3>1
      <4> QED BY <4>1, SeenLater
    <3> QED BY <3>1, <3>2
  <2>5. /\ Deques' = [Deques EXCEPT ![v] = a] /\ Lists' = [Lists EXCEPT ![w] = b]
        /\ Deques[v] = D[v] /\ Lists[w] = L[w]
    BY <1>1, <2>4
  <2>6. Abstract!Steal(v, w, n)
    BY <2>1, <2>2, <2>5 DEF Abstract!Steal, Deques, Lists
  <2>7. n \in 1 .. Len(Deques[v])
    BY <2>5
  <2> QED BY <2>6, <2>7 DEF Abstract!Next, Deques
<1>11. ASSUME NEW v \in Workers, NEW w \in Workers, Split(v, w) PROVE Abstract!Next
  <2>1. PICK t, F2 :
          /\ t \in Tasks /\ Unknown(t, D, L) /\ L[w] = <<>> /\ held' = held
          /\ Rep(mem', loot', held', allocated', freed', D, [L EXCEPT ![w] = <<t>>], F2)
    BY <1>0, <1>11, SplitStep
  <2>2. /\ Deques' = [x \in Workers |-> D[x]]
        /\ Lists' = [x \in Workers |-> [L EXCEPT ![w] = <<t>>][x]]
    <3>1. PICK L2 : L2 = [L EXCEPT ![w] = <<t>>]
      OBVIOUS
    <3>2. Rep(mem', loot', held', allocated', freed', D, L2, F2)
      BY <2>1, <3>1, Zenon
    <3>3. Deques' = [x \in Workers |-> D[x]] /\ Lists' = [x \in Workers |-> L2[x]]
      BY <3>2, SeenLater
    <3> QED BY <3>1, <3>3
  <2>3. Deques' = Deques /\ Lists' = [Lists EXCEPT ![w] = <<t>>] /\ Lists[w] = <<>>
    BY <1>1, <2>1, <2>2
  <2>4. t \notin Abstract!Known
    BY <1>0, <2>1, NotKnown
  <2>5. Abstract!Split(w, t)
    BY <2>1, <2>3, <2>4 DEF Abstract!Split, Deques, Lists
  <2> QED BY <2>1, <2>5 DEF Abstract!Next
<1>12. CASE Exit \/ Terminated \/ UNCHANGED vars
  BY <1>12 DEF Exit, Terminated, vars, Deques, Lists, Contents, InTransit
<1> QED
  BY <1>3, <1>4, <1>5, <1>6, <1>7, <1>8, <1>9, <1>10, <1>11, <1>12 DEF Next

\* The linked lists of deque.c implement the sequences of DequeSpec, from which the
\* module Runtime is built: push and pop at the front, a thief gets the oldest tasks,
\* at most half of them, and they arrive in the order they had.
THEOREM DequeIsSequence == Spec => ImplementsSequence
<1>1. Inv /\ [Next]_vars => [Abstract!Next]_Abstract!vars
  BY NextImplements DEF Abstract!vars, Deques, Lists
<1> QED BY <1>1, InitImplements, Representation, PTL
        DEF Spec, ImplementsSequence, Abstract!Spec

=============================================================================
