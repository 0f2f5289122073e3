-------------------------- MODULE WriterLockProofs --------------------------
(***************************************************************************)
(* Theorems about WriterLock, for any process tree and whatever exits and  *)
(* starts while the release runs.                                          *)
(***************************************************************************)
EXTENDS WriterLock, Induction, SequenceTheorems

Born(p) == state[p] # "unborn"

\* Only the living hold the lock or have children.
TreeInv ==
  /\ \A p \in holds : Alive(p)
  /\ \A p \in Pids : parent[p] \in Pids => Alive(parent[p])

\* A process has the parent it was read with, unless that one exited.
TrueReading(r) ==
  /\ Born(r.pid) /\ (r.parent \in Pids => Born(r.parent))
  /\ parent[r.pid] \in {r.parent, 1}
  /\ r.parent \in Pids /\ Alive(r.parent) => parent[r.pid] = r.parent

\* After the i-th codex process of the climb, its parent was read: it is the next
\* of the chain, or it is not codex.
NextRead(i) ==
  chain[i].parent \in Pids =>
    \/ kind[chain[i].parent] # "codex"
    \/ i < Len(chain) /\ chain[i + 1].pid = chain[i].parent
    \/ i = Len(chain) /\ chain[i] = current

ChainInv ==
  pc = "climb" =>
    /\ chain # <<>> /\ current \in Readings /\ TrueReading(current)
    /\ \A i \in DOMAIN chain :
         TrueReading(chain[i]) /\ kind[chain[i].pid] = "codex" /\ NextRead(i)
    /\ Alive(chain[1].pid) => chain[1].pid \in holds

\* The climb goes up a tree: no process is above itself.
OrderedBy(rank) ==
  /\ \A p \in Pids : parent[p] \in Pids => rank[parent[p]] < rank[p]
  /\ pc = "climb" =>
       /\ \A i, j \in DOMAIN chain : i < j => rank[chain[j].pid] < rank[chain[i].pid]
       /\ \A i \in DOMAIN chain : rank[current.pid] <= rank[chain[i].pid]
       /\ current.parent \in Pids => rank[current.parent] < rank[current.pid]
TreeOrdered == \E rank \in [Pids -> Nat] : OrderedBy(rank)

\* A set of processes without a wrapper, with the parents of all but those that
\* have theirs in rest or under a process that could not be read.
ClearUpTo(A, rest) ==
  \A q \in A : /\ Born(q) /\ kind[q] # "wrapper"
               /\ parent[q] \in Pids \ unread => parent[q] \in A \cup rest

PathClear ==
  pc = "climb" =>
    \E A \in SUBSET Pids :
      /\ \A i \in DOMAIN chain : chain[i].pid \in A \cup {current.pid}
      /\ ClearUpTo(A, {current.pid})

Spared(p) == \E A \in SUBSET Pids : p \in A /\ ClearUpTo(A, {})

\* What is in stopping.
Stoppable(p) ==
  /\ Born(p) /\ kind[p] = "codex" /\ Spared(p)
  /\ parent[p] \in Pids \ unread =>
       parent[p] \in ToSet(stopping) \/ kind[parent[p]] # "codex"

InRun(p) == Alive(p) => p \in holds \/ \E q \in ToSet(stopping) : parent[q] = p

StopInv ==
  /\ \A p \in ToSet(stopping) : Stoppable(p) /\ InRun(p)
  /\ \A h \in todo : Born(h) /\ (Alive(h) => h \in holds)

LockInv == TreeInv /\ ChainInv /\ TreeOrdered /\ PathClear /\ StopInv
-----------------------------------------------------------------------------
(* Sequences of processes. *)

\* Parents come before their children, but for those in late.
Ordered(s, late) ==
  \A i, j \in DOMAIN s : parent[s[j]] = s[i] => i < j \/ s[i] \in late

\* s grown by the first n of new.
Grown(g, s, new) ==
  /\ g \in [0..Len(new) -> Seq(Pids)] /\ g[0] = s
  /\ \A n \in 1..Len(new) :
       g[n] = IF new[n] \in ToSet(g[n - 1]) THEN g[n - 1] ELSE Append(g[n - 1], new[n])

LEMMA AddUnseenGrows ==
  ASSUME NEW s \in Seq(Pids), NEW new \in Seq(Pids)
  PROVE  \E g : Grown(g, s, new) /\ AddUnseen(s, new) = g[Len(new)]
<1> DEFINE step == [n \in 1..Len(new) |-> [t \in Seq(Pids) |->
                      IF new[n] \in ToSet(t) THEN t ELSE Append(t, new[n])]]
           Def(g) == [n \in 0..Len(new) |->
                      IF n = 0 THEN s
                      ELSE IF new[n] \in ToSet(g[n - 1]) THEN g[n - 1]
                           ELSE Append(g[n - 1], new[n])]
<1>1. Len(new) \in Nat /\ \A n \in 1..Len(new) : new[n] \in Pids
  BY LenProperties, ElementOfSeq
<1>2. step \in [1..Len(new) -> [Seq(Pids) -> Seq(Pids)]]
  <2>1. ASSUME NEW n \in 1..Len(new), NEW t \in Seq(Pids)
        PROVE  Append(t, new[n]) \in Seq(Pids)
    BY <1>1, AppendProperties
  <2>2. QED BY <2>1
<1>3. ASSUME NEW n \in 1..Len(new), NEW t \in Seq(Pids)
      PROVE  step[n][t] = IF new[n] \in ToSet(t) THEN t ELSE Append(t, new[n])
  OBVIOUS
<1> HIDE DEF step
<1>4. PICK h : IsRecursion(h, Len(new), Seq(Pids), s, step)
  BY <1>1, <1>2, RecursionExists
<1>5. Grown(h, s, new)
  <2>1. h \in [0..Len(new) -> Seq(Pids)] /\ h[0] = s
    BY <1>4 DEF IsRecursion
  <2>2. ASSUME NEW n \in 1..Len(new)
        PROVE  h[n] = IF new[n] \in ToSet(h[n - 1]) THEN h[n - 1]
                      ELSE Append(h[n - 1], new[n])
    <3>1. n - 1 \in 0..Len(new)
      BY <1>1
    <3>2. h[n - 1] \in Seq(Pids) /\ h[n] = step[n][h[n - 1]]
      BY <1>4, <2>1, <3>1 DEF IsRecursion
    <3>3. QED BY <1>3, <3>2
  <2>3. QED BY <2>1, <2>2 DEF Grown
<1>6. h = Def(h)
  <2>1. h = [n \in 0..Len(new) |-> h[n]]
    BY <1>5 DEF Grown
  <2>2. ASSUME NEW n \in 0..Len(new) PROVE h[n] = Def(h)[n]
    <3>1. n = 0 \/ n \in 1..Len(new)
      BY <1>1
    <3>2. QED BY <1>5, <3>1 DEF Grown
  <2>3. QED BY <2>1, <2>2
<1> DEFINE added == CHOOSE g : g = Def(g)
<1>7. added = Def(added)
  BY <1>6
<1>8. AddUnseen(s, new) = added[Len(new)]
  BY DEF AddUnseen
<1> HIDE DEF added
<1>9. \A n \in 0..Len(new) : added[n] = h[n]
  <2>1. added[0] = h[0]
    <3>1. 0 \in 0..Len(new)
      BY <1>1
    <3>2. added[0] = s
      BY <1>7, <3>1
    <3>3. QED BY <1>5, <3>2 DEF Grown
  <2>2. ASSUME NEW n \in 1..Len(new), added[n - 1] = h[n - 1] PROVE added[n] = h[n]
    <3>1. n \in 0..Len(new) /\ n # 0
      BY <1>1
    <3>2. added[n] = IF new[n] \in ToSet(added[n - 1]) THEN added[n - 1]
                     ELSE Append(added[n - 1], new[n])
      BY <1>7, <3>1
    <3>3. QED BY <1>5, <2>2, <3>2 DEF Grown
  <2>3. QED BY <1>1, <2>1, <2>2, RecursionUnique
<1>10. Len(new) \in 0..Len(new)
  BY <1>1
<1>11. QED BY <1>5, <1>8, <1>9, <1>10

\* The n-th step of the loop.
LEMMA GrownStep ==
  ASSUME NEW s \in Seq(Pids), NEW new \in Seq(Pids), NEW g, Grown(g, s, new),
         NEW n \in 0..Len(new) - 1
  PROVE  /\ g[n] \in Seq(Pids) /\ new[n + 1] \in Pids
         /\ g[n + 1] = IF new[n + 1] \in ToSet(g[n]) THEN g[n] ELSE Append(g[n], new[n + 1])
<1>1. Len(new) \in Nat
  BY LenProperties
<1>2. n \in 0..Len(new) /\ n + 1 \in 1..Len(new) /\ (n + 1) - 1 = n
  BY <1>1
<1>3. new[n + 1] \in Pids
  BY <1>2, ElementOfSeq
<1>4. QED BY <1>2, <1>3 DEF Grown

LEMMA AppendOne ==
  ASSUME NEW t \in Seq(Pids), NEW p \in Pids
  PROVE  /\ Append(t, p) \in Seq(Pids) /\ Len(t) \in Nat /\ Len(Append(t, p)) = Len(t) + 1
         /\ DOMAIN t = 1..Len(t) /\ DOMAIN Append(t, p) = 1..Len(t) + 1
         /\ \A i \in 1..Len(t) : Append(t, p)[i] = t[i] /\ t[i] \in ToSet(t)
         /\ Append(t, p)[Len(t) + 1] = p
         /\ ToSet(Append(t, p)) = ToSet(t) \cup {p}
<1>1. /\ Append(t, p) \in Seq(Pids) /\ Len(t) \in Nat /\ Len(Append(t, p)) = Len(t) + 1
      /\ DOMAIN t = 1..Len(t) /\ DOMAIN Append(t, p) = 1..Len(t) + 1
      /\ \A i \in 1..Len(t) : Append(t, p)[i] = t[i]
      /\ Append(t, p)[Len(t) + 1] = p
  BY AppendProperties, LenProperties
<1>2. \A i \in 1..Len(t) : t[i] \in ToSet(t)
  BY <1>1 DEF ToSet
<1>3. ToSet(Append(t, p)) = ToSet(t) \cup {p}
  <2>1. ASSUME NEW x \in ToSet(Append(t, p)) PROVE x \in ToSet(t) \cup {p}
    <3>1. PICK i \in 1..Len(t) + 1 : x = Append(t, p)[i]
      BY <1>1 DEF ToSet
    <3>2. i \in 1..Len(t) \/ i = Len(t) + 1
      BY <1>1
    <3>3. QED BY <1>1, <1>2, <3>1, <3>2
  <2>2. ASSUME NEW x \in ToSet(t) PROVE x \in ToSet(Append(t, p))
    <3>1. PICK i \in 1..Len(t) : x = t[i]
      BY <1>1 DEF ToSet
    <3>2. i \in 1..Len(t) + 1
      BY <1>1
    <3>3. QED BY <1>1, <3>1, <3>2 DEF ToSet
  <2>3. p \in ToSet(Append(t, p))
    <3>1. Len(t) + 1 \in 1..Len(t) + 1
      BY <1>1
    <3>2. QED BY <1>1, <3>1 DEF ToSet
  <2>4. QED BY <2>1, <2>2, <2>3
<1>4. QED BY <1>1, <1>2, <1>3

\* What a release is to stop is never named twice, and none is dropped.
LEMMA AddUnseenSet ==
  ASSUME NEW s \in Seq(Pids), IsInjective(s), NEW new \in Seq(Pids)
  PROVE  LET r == AddUnseen(s, new) IN
           /\ r \in Seq(Pids) /\ IsInjective(r) /\ Len(s) <= Len(r)
           /\ ToSet(r) = ToSet(s) \cup ToSet(new)
<1>1. PICK g : Grown(g, s, new) /\ AddUnseen(s, new) = g[Len(new)]
  BY AddUnseenGrows
<1>2. Len(new) \in Nat /\ Len(s) \in Nat /\ DOMAIN new = 1..Len(new)
  BY LenProperties
<1> DEFINE Holds(n) == /\ g[n] \in Seq(Pids) /\ IsInjective(g[n]) /\ Len(s) <= Len(g[n])
                       /\ ToSet(g[n]) = ToSet(s) \cup {new[k] : k \in 1..n}
           T == {n \in 0..Len(new) : Holds(n)}
<1>3. 0 \in T
  <2>1. g[0] = s
    BY <1>1 DEF Grown
  <2>2. {new[k] : k \in 1..0} = {}
    OBVIOUS
  <2>3. Holds(0)
    BY <1>2, <2>1, <2>2
  <2>4. QED BY <1>2, <2>3
<1>4. ASSUME NEW n \in 0..Len(new) - 1, Holds(n) PROVE Holds(n + 1)
  <2>1. /\ g[n] \in Seq(Pids) /\ new[n + 1] \in Pids
        /\ g[n + 1] = IF new[n + 1] \in ToSet(g[n]) THEN g[n] ELSE Append(g[n], new[n + 1])
    BY <1>1, GrownStep
  <2>2. {new[k] : k \in 1..n + 1} = {new[k] : k \in 1..n} \cup {new[n + 1]}
    <3>1. 1..n + 1 = (1..n) \cup {n + 1}
      OBVIOUS
    <3>2. QED BY <3>1
  <2>3. CASE new[n + 1] \in ToSet(g[n])
    BY <1>4, <2>1, <2>2, <2>3
  <2>4. CASE new[n + 1] \notin ToSet(g[n])
    <3>1. PICK t, p : t = g[n] /\ p = new[n + 1]
      OBVIOUS
    <3>2. /\ Append(t, p) \in Seq(Pids) /\ Len(t) \in Nat /\ Len(Append(t, p)) = Len(t) + 1
          /\ DOMAIN t = 1..Len(t) /\ DOMAIN Append(t, p) = 1..Len(t) + 1
          /\ \A i \in 1..Len(t) : Append(t, p)[i] = t[i] /\ t[i] \in ToSet(t)
          /\ Append(t, p)[Len(t) + 1] = p
          /\ ToSet(Append(t, p)) = ToSet(t) \cup {p}
      BY <2>1, <3>1, AppendOne
    <3>3. IsInjective(Append(t, p))
      <4> SUFFICES ASSUME NEW i \in 1..Len(t) + 1, NEW j \in 1..Len(t) + 1,
                          Append(t, p)[i] = Append(t, p)[j]
                   PROVE  i = j
        BY <3>2 DEF IsInjective
      <4>1. i \in 1..Len(t) \/ i = Len(t) + 1
        BY <3>2
      <4>2. j \in 1..Len(t) \/ j = Len(t) + 1
        BY <3>2
      <4>3. \A a, b \in 1..Len(t) : t[a] = t[b] => a = b
        BY <1>4, <3>1, <3>2 DEF IsInjective
      <4>4. QED BY <2>4, <3>1, <3>2, <4>1, <4>2, <4>3
    <3>4. g[n + 1] = Append(t, p) /\ Len(s) <= Len(t)
      BY <1>4, <2>1, <2>4, <3>1
    <3>5. ToSet(g[n + 1]) = ToSet(s) \cup {new[k] : k \in 1..n + 1}
      <4>1. ToSet(g[n + 1]) = ToSet(g[n]) \cup {new[n + 1]}
        BY <3>1, <3>2, <3>4
      <4>2. QED BY <1>4, <2>2, <4>1
    <3>6. Len(s) <= Len(g[n + 1])
      BY <1>2, <3>2, <3>4
    <3>7. QED BY <3>2, <3>3, <3>4, <3>5, <3>6
  <2>5. QED BY <2>3, <2>4
<1>5. Holds(Len(new))
  <2>1. ASSUME NEW n \in 0..Len(new) - 1, n \in T PROVE n + 1 \in T
    <3>1. n + 1 \in 0..Len(new)
      BY <1>2
    <3>2. QED BY <1>4, <2>1, <3>1
  <2> HIDE DEF T
  <2>2. \A n \in 0..Len(new) : n \in T
    BY <1>2, <1>3, <2>1, InductionUpTo
  <2>3. Len(new) \in T
    BY <1>2, <2>2
  <2>4. QED BY <2>3 DEF T
<1>6. ToSet(new) = {new[k] : k \in 1..Len(new)}
  BY <1>2 DEF ToSet
<1>7. QED BY <1>1, <1>5, <1>6

\* New processes come after those already there and in their own order.
LEMMA AddUnseenOrdered ==
  ASSUME NEW late,
         NEW s \in Seq(Pids), Ordered(s, late), NEW new \in Seq(Pids), Ordered(new, late),
         \A b \in ToSet(s), p \in ToSet(new) : parent[b] = p => p \in ToSet(s) \cup late
  PROVE  Ordered(AddUnseen(s, new), late)
<1>1. PICK g : Grown(g, s, new) /\ AddUnseen(s, new) = g[Len(new)]
  BY AddUnseenGrows
<1>2. Len(new) \in Nat /\ DOMAIN new = 1..Len(new)
  BY LenProperties
<1> DEFINE Holds(n) == Ordered(g[n], late) /\ ToSet(g[n]) = ToSet(s) \cup {new[k] : k \in 1..n}
           T == {n \in 0..Len(new) : Holds(n)}
<1>3. 0 \in T
  <2>1. g[0] = s
    BY <1>1 DEF Grown
  <2>2. {new[k] : k \in 1..0} = {}
    OBVIOUS
  <2>3. Holds(0)
    BY <2>1, <2>2
  <2>4. QED BY <1>2, <2>3
<1>4. ASSUME NEW n \in 0..Len(new) - 1, Holds(n) PROVE Holds(n + 1)
  <2>1. /\ g[n] \in Seq(Pids) /\ new[n + 1] \in Pids
        /\ g[n + 1] = IF new[n + 1] \in ToSet(g[n]) THEN g[n] ELSE Append(g[n], new[n + 1])
    BY <1>1, GrownStep
  <2>2. {new[k] : k \in 1..n + 1} = {new[k] : k \in 1..n} \cup {new[n + 1]}
    <3>1. 1..n + 1 = (1..n) \cup {n + 1}
      OBVIOUS
    <3>2. QED BY <3>1
  <2>3. CASE new[n + 1] \in ToSet(g[n])
    BY <1>4, <2>1, <2>2, <2>3
  <2>4. CASE new[n + 1] \notin ToSet(g[n])
    <3>1. PICK t, p : t = g[n] /\ p = new[n + 1]
      OBVIOUS
    <3>2. /\ Append(t, p) \in Seq(Pids) /\ Len(t) \in Nat /\ Len(Append(t, p)) = Len(t) + 1
          /\ DOMAIN t = 1..Len(t) /\ DOMAIN Append(t, p) = 1..Len(t) + 1
          /\ \A i \in 1..Len(t) : Append(t, p)[i] = t[i] /\ t[i] \in ToSet(t)
          /\ Append(t, p)[Len(t) + 1] = p
          /\ ToSet(Append(t, p)) = ToSet(t) \cup {p}
      BY <2>1, <3>1, AppendOne
    <3>3. n + 1 \in 1..Len(new) /\ p \in ToSet(new)
      BY <1>2, <3>1 DEF ToSet
    <3>4. Ordered(Append(t, p), late)
      <4> SUFFICES ASSUME NEW i \in 1..Len(t) + 1, NEW j \in 1..Len(t) + 1,
                          parent[Append(t, p)[j]] = Append(t, p)[i],
                          Append(t, p)[i] \notin late
                   PROVE  i < j
        BY <3>2 DEF Ordered
      <4>1. CASE i \in 1..Len(t) /\ j \in 1..Len(t)
        <5>1. \A a, b \in 1..Len(t) : parent[t[b]] = t[a] => a < b \/ t[a] \in late
          BY <1>4, <3>1, <3>2 DEF Ordered
        <5>2. Append(t, p)[i] = t[i] /\ Append(t, p)[j] = t[j]
          BY <3>2, <4>1
        <5>3. QED BY <4>1, <5>1, <5>2
      <4>2. CASE i \in 1..Len(t) /\ j = Len(t) + 1
        BY <3>2, <4>2
      <4>3. CASE i = Len(t) + 1 /\ j \in 1..Len(t)
        <5>1. PICK b : b = t[j] /\ b \in ToSet(t) /\ parent[b] = p /\ p \notin late
          BY <3>2, <4>3
        <5>2. CASE b \in ToSet(s)
          BY <1>4, <2>4, <3>1, <3>3, <5>1, <5>2
        <5>3. CASE b \notin ToSet(s)
          <6>1. PICK k \in 1..n : b = new[k]
            BY <1>4, <3>1, <5>1, <5>3
          <6>2. k \in 1..Len(new) /\ ~(n + 1 < k)
            BY <1>2
          <6>3. parent[new[k]] = new[n + 1]
            BY <3>1, <5>1, <6>1
          <6>4. QED BY <1>2, <3>1, <3>3, <5>1, <6>2, <6>3 DEF Ordered
        <5>4. QED BY <5>2, <5>3
      <4>4. CASE i = Len(t) + 1 /\ j = Len(t) + 1
        <5>1. parent[new[n + 1]] = new[n + 1] /\ new[n + 1] \notin late
          BY <3>1, <3>2, <4>4
        <5>2. n + 1 < n + 1
          BY <1>2, <3>3, <5>1 DEF Ordered
        <5>3. QED BY <5>2
      <4>5. QED
        BY <3>2, <4>1, <4>2, <4>3, <4>4
    <3>5. g[n + 1] = Append(t, p)
      BY <2>1, <2>4, <3>1
    <3>6. QED BY <1>4, <2>2, <3>1, <3>2, <3>4, <3>5
  <2>5. QED BY <2>3, <2>4
<1>5. Holds(Len(new))
  <2>1. ASSUME NEW n \in 0..Len(new) - 1, n \in T PROVE n + 1 \in T
    <3>1. n + 1 \in 0..Len(new)
      BY <1>2
    <3>2. QED BY <1>4, <2>1, <3>1
  <2> HIDE DEF T
  <2>2. \A n \in 0..Len(new) : n \in T
    BY <1>2, <1>3, <2>1, InductionUpTo
  <2>3. Len(new) \in T
    BY <1>2, <2>2
  <2>4. QED BY <2>3 DEF T
<1>6. QED BY <1>1, <1>5

-----------------------------------------------------------------------------
(* The run of a climb. *)

LEMMA RunIs ==
  ASSUME chain \in Seq(Readings), chain # <<>>
  PROVE  \E m \in 1..Len(chain) :
           /\ Run(chain) = SubSeq(chain, 1, m)
           /\ \A i \in 2..m : chain[i - 1].parent = chain[i].pid
           /\ m < Len(chain) => chain[m].parent # chain[m + 1].pid
<1> DEFINE unbroken(n) == \A i \in 2..n : chain[i - 1].parent = chain[i].pid
           Longest(n) == /\ unbroken(n)
                         /\ \A m \in DOMAIN chain : unbroken(m) => m <= n
<1>1. Len(chain) \in Nat /\ Len(chain) > 0 /\ DOMAIN chain = 1..Len(chain)
  BY LenProperties, EmptySeq
<1>2. \E n \in DOMAIN chain : Longest(n)
  <2> DEFINE T == {n \in 1..Len(chain) : unbroken(n)}
  <2>1. 1 \in T
    BY <1>1
  <2>2. T \in SUBSET (0..Len(chain))
    BY <1>1
  <2> HIDE DEF T
  <2>3. PICK n \in T : \A m \in T : m <= n
    BY <1>1, <2>1, <2>2, GreatestNat
  <2>4. QED BY <1>1, <2>3 DEF T
<1> DEFINE m == CHOOSE n \in DOMAIN chain : Longest(n)
<1>3. m \in 1..Len(chain) /\ Longest(m)
  BY <1>1, <1>2
<1>4. Run(chain) = SubSeq(chain, 1, m)
  BY DEF Run
<1> HIDE DEF m
<1>5. ASSUME m < Len(chain), chain[m].parent = chain[m + 1].pid PROVE FALSE
  <2>1. m + 1 \in DOMAIN chain /\ ~(m + 1 <= m)
    BY <1>1, <1>3, <1>5
  <2>2. ASSUME NEW i \in 2..m + 1 PROVE chain[i - 1].parent = chain[i].pid
    <3>1. i \in 2..m \/ (i = m + 1 /\ i - 1 = m)
      BY <1>3
    <3>2. QED BY <1>3, <1>5, <3>1
  <2>3. QED BY <1>3, <2>1, <2>2
<1>6. QED BY <1>3, <1>4, <1>5

LEMMA TopDownIs ==
  ASSUME chain \in Seq(Readings), NEW m \in 1..Len(chain)
  PROVE  LET new == TopDown(SubSeq(chain, 1, m)) IN
           /\ new \in Seq(Pids) /\ Len(new) = m /\ DOMAIN new = 1..m
           /\ \A k \in 1..m : new[k] = chain[m + 1 - k].pid
           /\ ToSet(new) = {chain[i].pid : i \in 1..m}
<1> DEFINE run == SubSeq(chain, 1, m)
           new == TopDown(run)
<1>1. Len(chain) \in Nat /\ DOMAIN chain = 1..Len(chain) /\ m \in Nat /\ m <= Len(chain)
  BY LenProperties
<1>2. Len(run) = m /\ DOMAIN run = 1..m /\ \A i \in 1..m : run[i] = chain[i]
  BY <1>1
<1> HIDE DEF run
<1>3. new = [i \in 1..m |-> run[m + 1 - i].pid]
  BY <1>2 DEF TopDown
<1>4. \A k \in 1..m : m + 1 - k \in 1..m
  BY <1>1
<1>5. \A k \in 1..m : new[k] = chain[m + 1 - k].pid
  <2> SUFFICES ASSUME NEW k \in 1..m PROVE new[k] = chain[m + 1 - k].pid
    OBVIOUS
  <2>1. new[k] = run[m + 1 - k].pid
    BY <1>3
  <2>2. m + 1 - k \in 1..m
    BY <1>4
  <2>3. run[m + 1 - k] = chain[m + 1 - k]
    BY <1>2, <2>2
  <2>4. QED BY <2>1, <2>3
<1>6. \A i \in 1..m : chain[i].pid \in Pids
  <2>1. \A i \in 1..m : chain[i] \in Readings
    BY <1>1, ElementOfSeq
  <2>2. QED BY <2>1 DEF Readings
<1>7. new \in [1..m -> Pids]
  BY <1>3, <1>4, <1>5, <1>6
<1>8. new \in Seq(Pids) /\ Len(new) = m /\ DOMAIN new = 1..m
  BY <1>1, <1>7, IsASeq, LenProperties
<1> HIDE DEF new
<1>9. ToSet(new) = {chain[i].pid : i \in 1..m}
  <2>1. ASSUME NEW i \in 1..m PROVE chain[i].pid \in ToSet(new)
    <3>1. m + 1 - i \in 1..m /\ m + 1 - (m + 1 - i) = i
      BY <1>1
    <3>2. chain[i].pid = new[m + 1 - i]
      BY <1>5, <3>1
    <3>3. QED BY <1>8, <3>1, <3>2 DEF ToSet
  <2>2. ASSUME NEW x \in ToSet(new) PROVE x \in {chain[i].pid : i \in 1..m}
    <3>1. PICK k \in 1..m : x = new[k]
      BY <1>8 DEF ToSet
    <3>2. QED BY <1>4, <1>5, <3>1
  <2>3. QED BY <2>1, <2>2
<1>10. QED BY <1>5, <1>8, <1>9 DEF new, run

-----------------------------------------------------------------------------
(* The steps: first those that leave the tree and the climb as they are. *)

Inv == TypeOK /\ LockInv /\ ParentsFirst

LEMMA PidFacts == Pids \subseteq Nat /\ 1 \notin Pids /\ 0 \notin Pids
BY LockAssumption DEF Pids

LEMMA InitInv == Init => Inv
<1> SUFFICES ASSUME Init PROVE Inv
  OBVIOUS
<1>1. ToSet(stopping) = {} /\ DOMAIN stopping = {} /\ stopping \in Seq(Pids) /\ Len(stopping) = 0
      /\ chain \in Seq(Readings)
  <2>1. stopping = <<>> /\ chain = <<>>
    BY DEF Init
  <2>2. QED BY <2>1, EmptySeq DEF ToSet
<1>2. parent \in [Pids -> Nat] /\ \A p \in Pids : parent[p] \in Pids => /\ parent[p] < p
                                                   /\ parent[p] \in Processes
  BY PidFacts DEF Init, Pids
<1>3. TypeOK
  <2>1. IsInjective(stopping)
    BY <1>1 DEF IsInjective
  <2>2. kind \in [Pids -> Kinds] /\ holds \subseteq Pids
    BY DEF Init, Pids
  <2>3. state \in [Pids -> {"unborn", "alive", "dead"}]
    BY DEF Init
  <2>4. sent \in [{"TERM", "KILL"} -> SUBSET ToSet(stopping)]
    BY DEF Init
  <2>5. index \in 0..Len(stopping) /\ todo \subseteq Pids /\ current \in Readings \cup {Nobody}
        /\ pc = "find" /\ unread = {}
    BY <1>1 DEF Init
  <2>6. QED BY <1>1, <1>2, <2>1, <2>2, <2>3, <2>4, <2>5 DEF TypeOK
<1>4. TreeInv
  BY <1>2 DEF Init, TreeInv, Alive, Pids
<1>5. ChainInv /\ PathClear /\ pc # "climb"
  BY DEF Init, ChainInv, PathClear
<1>6. TreeOrdered
  <2> DEFINE rank == [p \in Pids |-> p]
  <2>1. rank \in [Pids -> Nat] /\ \A p \in Pids : parent[p] \in Pids => rank[parent[p]] < rank[p]
    BY <1>2, PidFacts
  <2>2. OrderedBy(rank)
    BY <1>5, <2>1 DEF OrderedBy
  <2>3. QED BY <2>1, <2>2 DEF TreeOrdered
<1>7. StopInv /\ ParentsFirst
  BY <1>1 DEF StopInv, ParentsFirst, Init
<1>8. QED BY <1>3, <1>4, <1>5, <1>6, <1>7 DEF Inv, LockInv

\* Signalling, waiting and giving up.
LEMMA QuietInv ==
  ASSUME LockInv, ParentsFirst, UNCHANGED <<systemVars, climbVars, stopping>>, pc' # "climb"
  PROVE  LockInv' /\ ParentsFirst'
<1>1. UNCHANGED <<kind, parent, state, holds, todo, unread, stopping>>
  BY DEF systemVars, climbVars
<1>2. TreeInv'
  BY <1>1 DEF LockInv, TreeInv, Alive
<1>3. ChainInv' /\ PathClear'
  BY DEF ChainInv, PathClear
<1>4. TreeOrdered'
  BY <1>1 DEF LockInv, TreeOrdered, OrderedBy
<1>5. StopInv'
  BY <1>1 DEF LockInv, StopInv, Alive, Stoppable, Spared, Born, ClearUpTo, InRun
<1>6. ParentsFirst'
  BY <1>1 DEF ParentsFirst
<1>7. QED BY <1>2, <1>3, <1>4, <1>5, <1>6 DEF LockInv

\* Nothing changes.
LEMMA StutterInv ==
  ASSUME Inv, UNCHANGED vars
  PROVE  Inv'
<1>1. UNCHANGED <<kind, parent, state, holds, pc, todo, current, chain, unread, stopping,
                  index, sent>>
  BY DEF vars, systemVars, climbVars, signalVars
<1>2. TypeOK'
  BY <1>1 DEF Inv, TypeOK
<1>3. TreeInv'
  BY <1>1 DEF Inv, LockInv, TreeInv, Alive
<1>4. ChainInv'
  BY <1>1 DEF Inv, LockInv, ChainInv, TrueReading, NextRead, Alive, Born
<1>5. TreeOrdered'
  BY <1>1 DEF Inv, LockInv, TreeOrdered, OrderedBy
<1>6. PathClear'
  BY <1>1 DEF Inv, LockInv, PathClear, ClearUpTo, Born
<1>7. StopInv' /\ ParentsFirst'
  BY <1>1 DEF Inv, LockInv, StopInv, Alive, Stoppable, Spared, Born, ClearUpTo, InRun,
              ParentsFirst
<1>8. QED BY <1>2, <1>3, <1>4, <1>5, <1>6, <1>7 DEF Inv, LockInv

LEMMA SendType ==
  ASSUME TypeOK, NEW signal \in {"TERM", "KILL"}, Send(signal), UNCHANGED pc
  PROVE  TypeOK'
<1>1. index + 1 \in 1..Len(stopping) /\ DOMAIN stopping = 1..Len(stopping)
        /\ Len(stopping) \in Nat
  BY LenProperties DEF TypeOK, Send
<1>2. stopping[index + 1] \in ToSet(stopping)
  BY <1>1 DEF ToSet
<1>3. sent' \in [{"TERM", "KILL"} -> SUBSET ToSet(stopping)]
  BY <1>2 DEF TypeOK, Send
<1>4. index' \in 0..Len(stopping)
  BY <1>1 DEF Send
<1>5. UNCHANGED <<kind, parent, state, holds, pc, todo, current, chain, unread, stopping>>
  BY DEF Send, systemVars, climbVars
<1>6. QED BY <1>3, <1>4, <1>5 DEF TypeOK

LEMMA SignalsInv ==
  ASSUME Inv,
         \/ Terminate \/ Kill \/ SignalFails \/ AllSignalled \/ LockFreed \/ WaitExpires
         \/ Refuse \/ RefuseHolder
  PROVE  Inv'
<1>1. UNCHANGED <<systemVars, climbVars, stopping>> /\ pc' # "climb"
  BY DEF Terminate, Kill, Send, SignalFails, AllSignalled, LockFreed, WaitExpires, Refuse,
         RefuseHolder, signalVars
<1>2. TypeOK'
  <2>1. CASE Terminate \/ Kill
    BY <2>1, SendType DEF Inv, Terminate, Kill
  <2>2. CASE SignalFails \/ AllSignalled \/ LockFreed \/ WaitExpires \/ Refuse \/ RefuseHolder
    <3>1. pc' \in {"await", "awaitKilled", "released", "refused", "kill"}
      BY <2>2 DEF SignalFails, AllSignalled, LockFreed, WaitExpires, Refuse, RefuseHolder
    <3>2. index' \in 0..Len(stopping) /\ sent' = sent
      BY <2>2, LenProperties DEF SignalFails, AllSignalled, LockFreed, WaitExpires, Refuse,
              RefuseHolder, signalVars, Inv, TypeOK
    <3>3. QED BY <1>1, <3>1, <3>2 DEF Inv, TypeOK, systemVars, climbVars
  <2>3. QED BY <2>1, <2>2
<1>3. QED BY <1>1, <1>2, QuietInv DEF Inv

LEMMA FindHoldersInv ==
  ASSUME Inv, FindHolders
  PROVE  Inv'
<1>1. UNCHANGED <<kind, parent, state, holds, current, chain, unread, stopping, index, sent>>
        /\ todo' = Holders /\ pc' \in {"refused", "holder"}
  BY DEF FindHolders, systemVars, signalVars
<1>2. Holders \subseteq holds /\ holds \subseteq Pids /\ \A h \in Holders : Born(h)
  BY DEF Holders, Alive, Born, Inv, TypeOK
<1>3. TypeOK'
  BY <1>1, <1>2 DEF Inv, TypeOK
<1>4. TreeInv'
  BY <1>1 DEF Inv, LockInv, TreeInv, Alive
<1>5. ChainInv' /\ PathClear'
  BY <1>1 DEF ChainInv, PathClear
<1>6. TreeOrdered'
  BY <1>1 DEF Inv, LockInv, TreeOrdered, OrderedBy
<1>7. StopInv' /\ ParentsFirst'
  BY <1>1, <1>2 DEF Inv, LockInv, StopInv, Alive, Stoppable, Spared, Born, ClearUpTo, InRun,
              ParentsFirst
<1>8. QED BY <1>3, <1>4, <1>5, <1>6, <1>7 DEF Inv, LockInv

-----------------------------------------------------------------------------
(* The climb. *)

LEMMA ReadingFacts ==
  ASSUME Inv, NEW p \in Pids, Alive(p)
  PROVE  /\ Reading(p) \in Readings /\ TrueReading(Reading(p))
         /\ Reading(p).pid = p /\ Reading(p).parent = parent[p]
<1>1. parent[p] \in Nat
  BY DEF Inv, TypeOK
<1>2. parent[p] \in Pids => Alive(parent[p])
  BY DEF Inv, LockInv, TreeInv
<1>3. QED BY <1>1, <1>2 DEF Reading, Readings, TrueReading, Born, Alive

\* A step of the climb changes nothing that was said of the system or of stopping.
LEMMA ClimbingInv ==
  ASSUME Inv, UNCHANGED <<kind, parent, state, holds, unread, stopping>>, todo' \subseteq todo
  PROVE  TreeInv' /\ StopInv' /\ ParentsFirst'
<1>1. TreeInv'
  BY DEF Inv, LockInv, TreeInv, Alive
<1>2. StopInv' /\ ParentsFirst'
  BY DEF Inv, LockInv, StopInv, Alive, Stoppable, Spared, Born, ClearUpTo, InRun, ParentsFirst
<1>3. QED BY <1>1, <1>2

LEMMA ReadHolderInv ==
  ASSUME Inv, NEW h \in Pids, ReadHolder(h)
  PROVE  Inv'
<1>1. UNCHANGED <<kind, parent, state, holds, unread, stopping, index, sent>>
        /\ todo' \subseteq todo /\ h \in todo
  BY DEF ReadHolder, systemVars, signalVars, climbVars
<1>2. TreeInv' /\ StopInv' /\ ParentsFirst'
  BY <1>1, ClimbingInv
<1>3. CASE Alive(h) /\ kind[h] = "codex"
  <2>1. pc' = "climb" /\ current' = Reading(h) /\ chain' = <<Reading(h)>>
    BY <1>3 DEF ReadHolder
  <2>2. /\ Reading(h) \in Readings /\ TrueReading(Reading(h))
        /\ Reading(h).pid = h /\ Reading(h).parent = parent[h]
    BY <1>3, ReadingFacts
  <2>3. /\ chain' \in Seq(Readings) /\ Len(chain') = 1 /\ DOMAIN chain' = 1..1
        /\ chain'[1] = Reading(h) /\ chain' # <<>>
    BY <2>1, <2>2
  <2>4. TypeOK'
    BY <1>1, <2>1, <2>2, <2>3 DEF Inv, TypeOK
  <2>5. ChainInv'
    <3>1. \A i \in DOMAIN chain' : i = 1
      BY <2>3
    <3>2. h \in holds'
      BY <1>1, <1>3 DEF Inv, LockInv, StopInv
    <3>3. \A i \in DOMAIN chain' : NextRead(i)'
      BY <2>1, <2>3, <3>1 DEF NextRead
    <3>4. kind'[chain'[1].pid] = "codex" /\ chain'[1].pid = h
      BY <1>1, <1>3, <2>2, <2>3
    <3>5. TrueReading(current)'
      BY <1>1, <2>1, <2>2 DEF TrueReading, Born, Alive
    <3>6. \A i \in DOMAIN chain' : TrueReading(chain[i])'
      <4> SUFFICES ASSUME NEW i \in DOMAIN chain' PROVE TrueReading(chain[i])'
        OBVIOUS
      <4>1. chain'[i] = Reading(h)
        BY <2>3, <3>1
      <4>2. QED BY <1>1, <2>2, <4>1 DEF TrueReading, Born, Alive
    <3>7. current' \in Readings
      BY <2>1, <2>2
    <3>8. QED BY <2>3, <3>1, <3>2, <3>3, <3>4, <3>5, <3>6, <3>7 DEF ChainInv
  <2>6. TreeOrdered'
    <3>1. PICK rank \in [Pids -> Nat] : OrderedBy(rank)
      BY DEF Inv, LockInv, TreeOrdered
    <3>2. \A p \in Pids : parent[p] \in Pids => rank[parent[p]] < rank[p]
      BY <3>1 DEF OrderedBy
    <3>3. \A i \in DOMAIN chain' : i = 1
      BY <2>3
    <3>4. rank[h] <= rank[h]
      BY <3>1
    <3>5. \A i \in DOMAIN chain' : chain'[i].pid = h
      BY <2>2, <2>3, <3>3
    <3>6. \A i, j \in DOMAIN chain' : ~(i < j)
      BY <3>3
    <3>7. current'.pid = h /\ current'.parent = parent[h]
      BY <2>1, <2>2
    <3>8. OrderedBy(rank)'
      BY <1>1, <3>2, <3>4, <3>5, <3>6, <3>7 DEF OrderedBy
    <3>9. QED BY <3>1, <3>8 DEF TreeOrdered
  <2>7. PathClear'
    <3>1. ClearUpTo({}, {current.pid})'
      BY DEF ClearUpTo
    <3>2. \A i \in DOMAIN chain' : chain'[i].pid = current'.pid
      <4>1. \A i \in DOMAIN chain' : i = 1
        BY <2>3
      <4>2. QED BY <2>1, <2>2, <2>3, <4>1
    <3>3. {} \in SUBSET Pids
      OBVIOUS
    <3>4. QED BY <3>1, <3>2, <3>3 DEF PathClear, ClearUpTo
  <2>8. QED BY <1>2, <2>4, <2>5, <2>6, <2>7 DEF Inv, LockInv
<1>4. QED BY <1>3 DEF ReadHolder

LEMMA ClimbInvLemma ==
  ASSUME Inv, Climb
  PROVE  Inv'
<1> DEFINE above == Reading(current.parent)
<1>1. /\ UNCHANGED <<kind, parent, state, holds, pc, todo, unread, stopping, index, sent>>
      /\ pc = "climb" /\ current' = above
      /\ chain' = IF kind[above.pid] = "codex" THEN Append(chain, above) ELSE chain
      /\ current.pid # Own /\ kind[current.pid] # "wrapper"
  BY DEF Climb, systemVars, signalVars, MustNotStop
<1>2. current.parent \in Pids /\ Alive(current.parent)
  BY DEF Climb, AtTop
<1>3. /\ chain \in Seq(Readings) /\ chain # <<>> /\ current \in Readings /\ TrueReading(current)
      /\ \A i \in DOMAIN chain :
           TrueReading(chain[i]) /\ kind[chain[i].pid] = "codex" /\ NextRead(i)
      /\ Alive(chain[1].pid) => chain[1].pid \in holds
  BY <1>1 DEF Inv, TypeOK, LockInv, ChainInv
<1>4. /\ above \in Readings /\ TrueReading(above)
      /\ above.pid = current.parent /\ above.parent = parent[current.parent]
  BY <1>2, ReadingFacts
<1> HIDE DEF above
<1>5. /\ Len(chain) \in Nat /\ Len(chain) > 0 /\ DOMAIN chain = 1..Len(chain)
      /\ \A i \in 1..Len(chain) : chain[i] \in Readings
  BY <1>3, LenProperties, EmptySeq, ElementOfSeq
<1>6. /\ chain' \in Seq(Readings) /\ chain' # <<>> /\ Len(chain') \in Nat
      /\ DOMAIN chain' = 1..Len(chain') /\ Len(chain) <= Len(chain')
      /\ \A i \in 1..Len(chain) : chain'[i] = chain[i]
      /\ \/ kind[above.pid] # "codex" /\ Len(chain') = Len(chain)
         \/ kind[above.pid] = "codex" /\ Len(chain') = Len(chain) + 1
              /\ chain'[Len(chain) + 1] = above
  <2>1. CASE kind[above.pid] = "codex"
    <3>1. chain' = Append(chain, above)
      BY <1>1, <2>1
    <3>2. /\ Append(chain, above) \in Seq(Readings) /\ Append(chain, above) # <<>>
          /\ Len(Append(chain, above)) = Len(chain) + 1
          /\ \A i \in 1..Len(chain) : Append(chain, above)[i] = chain[i]
          /\ Append(chain, above)[Len(chain) + 1] = above
      BY <1>3, <1>4, AppendProperties
    <3>3. DOMAIN chain' = 1..Len(chain')
      BY <3>1, <3>2, LenProperties
    <3>4. QED BY <1>5, <2>1, <3>1, <3>2, <3>3
  <2>2. CASE kind[above.pid] # "codex"
    <3>1. chain' = chain
      BY <1>1, <2>2
    <3>2. Len(chain') = Len(chain) /\ DOMAIN chain' = DOMAIN chain
      BY <3>1
    <3>3. chain' \in Seq(Readings) /\ chain' # <<>> /\ DOMAIN chain' = 1..Len(chain')
      BY <1>3, <1>5, <3>1, <3>2
    <3>4. Len(chain') \in Nat /\ Len(chain) <= Len(chain')
      BY <1>5, <3>2
    <3>5. \A i \in 1..Len(chain) : chain'[i] = chain[i]
      BY <3>1
    <3>6. QED BY <2>2, <3>2, <3>3, <3>4, <3>5
  <2>3. QED BY <2>1, <2>2
<1>7. \A i \in 1..Len(chain') :
        \/ i \in 1..Len(chain) /\ chain'[i] = chain[i]
        \/ i = Len(chain) + 1 /\ i = Len(chain') /\ chain'[i] = above /\ kind[above.pid] = "codex"
  <2> SUFFICES ASSUME NEW i \in 1..Len(chain'), i \notin 1..Len(chain)
               PROVE  i = Len(chain) + 1 /\ i = Len(chain') /\ kind[above.pid] = "codex"
    BY <1>6
  <2>1. CASE Len(chain') = Len(chain)
    BY <1>5, <2>1
  <2>2. CASE Len(chain') = Len(chain) + 1 /\ kind[above.pid] = "codex"
    BY <1>5, <2>2
  <2>3. QED BY <1>6, <2>1, <2>2
<1>8. TypeOK'
  BY <1>1, <1>4, <1>6 DEF Inv, TypeOK
<1>9. ChainInv'
  <2>1. TrueReading(current)'
    BY <1>1, <1>4 DEF TrueReading, Born, Alive
  <2>2. \A i \in 1..Len(chain') : TrueReading(chain[i])' /\ kind'[chain'[i].pid] = "codex"
    <3> SUFFICES ASSUME NEW i \in 1..Len(chain')
                 PROVE  TrueReading(chain[i])' /\ kind'[chain'[i].pid] = "codex"
      OBVIOUS
    <3>1. TrueReading(chain'[i]) /\ kind[chain'[i].pid] = "codex"
      BY <1>3, <1>4, <1>5, <1>7
    <3>2. QED BY <1>1, <3>1 DEF TrueReading, Born, Alive
  <2>3. \A i \in 1..Len(chain') : NextRead(i)'
    <3> SUFFICES ASSUME NEW i \in 1..Len(chain'), chain'[i].parent \in Pids,
                        kind[chain'[i].parent] = "codex"
                 PROVE  \/ i < Len(chain') /\ chain'[i + 1].pid = chain'[i].parent
                        \/ i = Len(chain') /\ chain'[i] = current'
      BY <1>1 DEF NextRead
    <3>1. CASE i = Len(chain) + 1
      <4>1. i \notin 1..Len(chain)
        BY <1>5, <3>1
      <4>2. i = Len(chain') /\ chain'[i] = above
        BY <1>7, <4>1
      <4>3. QED BY <1>1, <4>2
    <3>2. CASE i \in 1..Len(chain)
      <4>1. chain'[i] = chain[i] /\ NextRead(i)
        BY <1>3, <1>5, <1>6, <3>2
      <4>2. CASE i < Len(chain) /\ chain[i + 1].pid = chain[i].parent
        <5>1. i \in Nat /\ Len(chain) \in Nat /\ Len(chain') \in Nat /\ Len(chain) <= Len(chain')
          <6>1. Len(chain) \in Nat /\ Len(chain') \in Nat /\ Len(chain) <= Len(chain')
            BY <1>5, <1>6
          <6>2. QED BY <3>2, <6>1
        <5>2. i + 1 \in 1..Len(chain) /\ i < Len(chain')
          BY <4>2, <5>1
        <5>3. chain'[i + 1] = chain[i + 1]
          BY <1>6, <5>2
        <5>4. chain'[i + 1].pid = chain'[i].parent
          BY <4>1, <4>2, <5>3
        <5>5. QED BY <5>2, <5>4
      <4>3. CASE i = Len(chain) /\ chain[i] = current
        <5>1. kind[above.pid] = "codex" /\ above.pid = chain[i].parent
          BY <1>4, <4>1, <4>3
        <5>2. Len(chain') = Len(chain) + 1 /\ chain'[Len(chain) + 1] = above
          BY <1>6, <5>1
        <5>3. i < Len(chain') /\ chain'[i + 1] = above
          BY <1>5, <4>3, <5>2
        <5>4. chain'[i + 1].pid = chain'[i].parent
          BY <4>1, <5>1, <5>3
        <5>5. QED BY <5>3, <5>4
      <4>4. QED BY <4>1, <4>2, <4>3 DEF NextRead
    <3>3. QED BY <1>7, <3>1, <3>2
  <2>4. Alive(chain[1].pid)' => chain'[1].pid \in holds'
    <3>1. 1 \in 1..Len(chain)
      BY <1>5
    <3>2. QED BY <1>1, <1>3, <1>6, <3>1 DEF Alive
  <2>5. QED BY <1>1, <1>4, <1>6, <2>1, <2>2, <2>3, <2>4 DEF ChainInv
<1>10. TreeOrdered'
  <2>1. PICK rank \in [Pids -> Nat] : OrderedBy(rank)
    BY DEF Inv, LockInv, TreeOrdered
  <2>2. /\ \A p \in Pids : parent[p] \in Pids => rank[parent[p]] < rank[p]
        /\ \A i, j \in 1..Len(chain) : i < j => rank[chain[j].pid] < rank[chain[i].pid]
        /\ \A i \in 1..Len(chain) : rank[current.pid] <= rank[chain[i].pid]
        /\ rank[above.pid] < rank[current.pid]
    BY <1>1, <1>2, <1>4, <1>5, <2>1 DEF OrderedBy
  <2>3. /\ rank[above.pid] \in Nat /\ rank[current.pid] \in Nat
        /\ \A i \in 1..Len(chain) : rank[chain[i].pid] \in Nat
    BY <1>3, <1>4, <1>5 DEF Readings
  <2>4. \A i \in 1..Len(chain) : rank[above.pid] < rank[chain[i].pid]
    BY <2>2, <2>3
  <2>5. \A i, j \in 1..Len(chain') : i < j => rank[chain'[j].pid] < rank[chain'[i].pid]
    <3> SUFFICES ASSUME NEW i \in 1..Len(chain'), NEW j \in 1..Len(chain'), i < j
                 PROVE  rank[chain'[j].pid] < rank[chain'[i].pid]
      OBVIOUS
    <3>1. i \in 1..Len(chain) /\ chain'[i] = chain[i]
      <4>1. i # Len(chain')
        OBVIOUS
      <4>2. QED BY <1>7, <4>1
    <3>2. CASE j \in 1..Len(chain)
      BY <1>6, <2>2, <3>1, <3>2
    <3>3. CASE j = Len(chain) + 1
      <4>1. chain'[j] = above
        BY <1>5, <1>7, <3>3
      <4>2. QED BY <2>4, <3>1, <4>1
    <3>4. QED BY <1>7, <3>2, <3>3
  <2>6. \A i \in 1..Len(chain') : rank[above.pid] <= rank[chain'[i].pid]
    <3> SUFFICES ASSUME NEW i \in 1..Len(chain') PROVE rank[above.pid] <= rank[chain'[i].pid]
      OBVIOUS
    <3>1. CASE i \in 1..Len(chain) /\ chain'[i] = chain[i]
      BY <2>3, <2>4, <3>1
    <3>2. CASE chain'[i] = above
      BY <2>3, <3>2
    <3>3. QED BY <1>7, <3>1, <3>2
  <2>7. above.parent \in Pids => rank[above.parent] < rank[above.pid]
    BY <1>2, <1>4, <2>2
  <2>8. OrderedBy(rank)'
    BY <1>1, <1>6, <2>2, <2>5, <2>6, <2>7 DEF OrderedBy
  <2>9. QED BY <2>1, <2>8 DEF TreeOrdered
<1>11. PathClear'
  <2>1. PICK A \in SUBSET Pids : /\ \A i \in 1..Len(chain) : chain[i].pid \in A \cup {current.pid}
                                /\ ClearUpTo(A, {current.pid})
    BY <1>1, <1>5 DEF Inv, LockInv, PathClear
  <2>2. PICK B : B = A \cup {current.pid}
    OBVIOUS
  <2>3. B \in SUBSET Pids
    BY <1>3, <2>1, <2>2 DEF Readings
  <2>4. \A i \in 1..Len(chain') : chain'[i].pid \in B \cup {current'.pid}
    BY <1>1, <1>7, <2>1, <2>2
  <2>5. ASSUME NEW q \in B
        PROVE  /\ Born(q) /\ kind[q] # "wrapper"
               /\ parent[q] \in Pids \ unread => parent[q] \in B \cup {above.pid}
    <3>1. CASE q \in A
      BY <2>1, <2>2, <3>1 DEF ClearUpTo
    <3>2. CASE q = current.pid
      <4>1. Born(q) /\ kind[q] # "wrapper" /\ parent[q] \in {current.parent, 1}
        BY <1>1, <1>3, <3>2 DEF TrueReading
      <4>2. QED BY <1>4, <4>1, PidFacts
    <3>3. QED BY <2>2, <2>5, <3>1, <3>2
  <2>6. ClearUpTo(B, {current.pid})'
    BY <1>1, <2>5 DEF ClearUpTo, Born
  <2>7. QED BY <1>6, <2>3, <2>4, <2>6 DEF PathClear
<1>12. QED BY <1>1, <1>8, <1>9, <1>10, <1>11, ClimbingInv DEF Inv, LockInv


\* The processes of one climb come top-down.
LEMMA RunOrdered ==
  ASSUME Inv, pc = "climb", NEW m \in 1..Len(chain), NEW new \in Seq(Pids),
         DOMAIN new = 1..m, \A k \in 1..m : new[k] = chain[m + 1 - k].pid
  PROVE  Ordered(new, {})
<1>1. Len(chain) \in Nat /\ DOMAIN chain = 1..Len(chain) /\ chain \in Seq(Readings)
  BY LenProperties DEF Inv, TypeOK
<1>2. PICK rank \in [Pids -> Nat] : OrderedBy(rank)
  BY DEF Inv, LockInv, TreeOrdered
<1> SUFFICES ASSUME NEW i \in 1..m, NEW j \in 1..m, parent[new[j]] = new[i], ~(i < j)
             PROVE  FALSE
  BY DEF Ordered
<1>3. new[i] \in Pids /\ new[j] \in Pids
  BY ElementOfSeq, LenProperties
<1>4. rank[new[i]] < rank[new[j]] /\ rank[new[i]] \in Nat /\ rank[new[j]] \in Nat
  BY <1>2, <1>3 DEF OrderedBy
<1>5. i # j
  BY <1>4
<1>6. /\ m + 1 - i \in 1..Len(chain) /\ m + 1 - j \in 1..Len(chain)
      /\ m + 1 - i < m + 1 - j
  BY <1>1, <1>5
<1>7. rank[chain[m + 1 - j].pid] < rank[chain[m + 1 - i].pid]
  BY <1>1, <1>2, <1>6 DEF OrderedBy
<1>8. rank[new[j]] < rank[new[i]]
  BY <1>7
<1>9. QED BY <1>4, <1>8

\* The climb ended without a wrapper on the way.
LEMMA ClimbSpares ==
  ASSUME Inv, EndClimb, NEW i \in DOMAIN chain, NEW p, p = chain[i].pid
  PROVE  Spared(p)'
<1>1. /\ pc = "climb" /\ kind[current.pid] # "wrapper" /\ UNCHANGED <<kind, parent, state>>
      /\ unread \subseteq unread' /\ (~AtTop => current.parent \in unread')
  BY DEF EndClimb, MustNotStop, systemVars
<1>2. current \in Readings /\ TrueReading(current)
  BY <1>1 DEF Inv, LockInv, ChainInv
<1>3. current.pid \in Pids
  BY <1>2 DEF Readings
<1>4. parent[current.pid] \notin Pids \ unread'
  <2>1. parent[current.pid] \in Pids => Alive(parent[current.pid])
    BY <1>3 DEF Inv, LockInv, TreeInv
  <2>2. parent[current.pid] \in {current.parent, 1}
    BY <1>2 DEF TrueReading
  <2>3. QED BY <1>1, <2>1, <2>2, PidFacts DEF AtTop
<1>5. PICK A \in SUBSET Pids : /\ \A k \in DOMAIN chain : chain[k].pid \in A \cup {current.pid}
                              /\ ClearUpTo(A, {current.pid})
  BY <1>1 DEF Inv, LockInv, PathClear
<1>6. PICK B : B = A \cup {current.pid}
  OBVIOUS
<1>7. ASSUME NEW q \in B
      PROVE  Born(q)' /\ kind'[q] # "wrapper" /\ (parent'[q] \in Pids \ unread' => parent'[q] \in B)
  <2>1. CASE q \in A
    BY <1>1, <1>5, <1>6, <2>1 DEF ClearUpTo, Born
  <2>2. CASE q = current.pid
    BY <1>1, <1>2, <1>4, <2>2 DEF TrueReading, Born
  <2>3. QED BY <1>6, <1>7, <2>1, <2>2
<1>8. B \in SUBSET Pids /\ p \in B
  BY <1>3, <1>5, <1>6
<1>9. QED BY <1>7, <1>8 DEF Spared, ClearUpTo, Born

LEMMA EndClimbInv ==
  ASSUME Inv, EndClimb
  PROVE  Inv'
<1> DEFINE new == TopDown(Run(chain))
<1>1. /\ UNCHANGED <<kind, parent, state, holds, todo, index, sent>>
      /\ pc = "climb" /\ pc' \in {"term", "holder"}
      /\ unread' = IF AtTop THEN unread ELSE unread \cup {current.parent}
      /\ current' = Nobody /\ chain' = <<>>
      /\ stopping' = AddUnseen(stopping, new)
  BY DEF EndClimb, systemVars
<1>2. /\ chain \in Seq(Readings) /\ chain # <<>> /\ current \in Readings /\ TrueReading(current)
      /\ \A i \in DOMAIN chain :
           TrueReading(chain[i]) /\ kind[chain[i].pid] = "codex" /\ NextRead(i)
      /\ Alive(chain[1].pid) => chain[1].pid \in holds
  BY <1>1 DEF Inv, TypeOK, LockInv, ChainInv
<1>3. /\ Len(chain) \in Nat /\ DOMAIN chain = 1..Len(chain)
      /\ \A i \in 1..Len(chain) : chain[i].pid \in Pids
  <2>1. Len(chain) \in Nat /\ DOMAIN chain = 1..Len(chain)
    BY <1>2, LenProperties
  <2>2. \A i \in 1..Len(chain) : chain[i] \in Readings
    BY <1>2, ElementOfSeq
  <2>3. QED BY <2>1, <2>2 DEF Readings
<1>4. PICK m \in 1..Len(chain) :
        /\ Run(chain) = SubSeq(chain, 1, m)
        /\ \A i \in 2..m : chain[i - 1].parent = chain[i].pid
        /\ m < Len(chain) => chain[m].parent # chain[m + 1].pid
  BY <1>2, RunIs
<1>5. /\ new \in Seq(Pids) /\ DOMAIN new = 1..m
      /\ \A k \in 1..m : new[k] = chain[m + 1 - k].pid
      /\ ToSet(new) = {chain[i].pid : i \in 1..m}
  BY <1>2, <1>4, TopDownIs
<1> HIDE DEF new
<1>6. stopping \in Seq(Pids) /\ IsInjective(stopping)
  BY DEF Inv, TypeOK
<1>7. /\ stopping' \in Seq(Pids) /\ IsInjective(stopping') /\ Len(stopping) <= Len(stopping')
      /\ ToSet(stopping') = ToSet(stopping) \cup {chain[i].pid : i \in 1..m}
  BY <1>1, <1>5, <1>6, AddUnseenSet
<1>8. TypeOK'
  <2>1. index' \in 0..Len(stopping')
    <3>1. Len(stopping) \in Nat /\ Len(stopping') \in Nat
      BY <1>6, <1>7, LenProperties
    <3>2. index \in 0..Len(stopping)
      BY DEF Inv, TypeOK
    <3>3. QED BY <1>1, <1>7, <3>1, <3>2
  <2>2. sent' \in [{"TERM", "KILL"} -> SUBSET ToSet(stopping')]
    <3>1. sent \in [{"TERM", "KILL"} -> SUBSET ToSet(stopping)]
      BY DEF Inv, TypeOK
    <3>2. QED BY <1>1, <1>7, <3>1
  <2>3. chain' \in Seq(Readings) /\ current' \in Readings \cup {Nobody}
    BY <1>1
  <2>4. unread' \subseteq Pids
    BY <1>1 DEF AtTop, Inv, TypeOK
  <2>5. QED BY <1>1, <1>7, <2>1, <2>2, <2>3, <2>4 DEF Inv, TypeOK
<1>9. TreeInv' /\ ChainInv' /\ PathClear'
  BY <1>1 DEF Inv, LockInv, TreeInv, Alive, ChainInv, PathClear
<1>10. TreeOrdered'
  BY <1>1 DEF Inv, LockInv, TreeOrdered, OrderedBy
<1>11. ASSUME NEW p, NEW i \in 1..m, p = chain[i].pid
       PROVE  /\ Born(p) /\ kind[p] = "codex" /\ Spared(p)'
              /\ parent[p] \in Pids \ unread' =>
                   parent[p] \in ToSet(stopping') \/ kind[parent[p]] # "codex"
  <2>1. i \in DOMAIN chain /\ i \in 1..Len(chain)
    BY <1>3
  <2>2. /\ Born(p) /\ kind[p] = "codex" /\ NextRead(i)
        /\ parent[p] \in {chain[i].parent, 1}
    BY <1>2, <1>11, <2>1 DEF TrueReading
  <2>3. Spared(p)'
    BY <1>11, <2>1, ClimbSpares
  <2>4. ASSUME parent[p] \in Pids \ unread', kind[parent[p]] = "codex"
        PROVE  parent[p] \in ToSet(stopping')
    <3>1. parent[p] = chain[i].parent
      BY <2>2, <2>4, PidFacts
    <3>2. CASE i < Len(chain) /\ chain[i + 1].pid = chain[i].parent
      <4>1. i # m
        BY <1>4, <3>2
      <4>2. i + 1 \in 1..m
        BY <1>3, <4>1
      <4>3. QED BY <1>7, <3>1, <3>2, <4>2
    <3>3. CASE i = Len(chain) /\ chain[i] = current
      <4>1. Alive(parent[p])
        BY <1>3, <1>11, <2>1, <2>4 DEF Inv, LockInv, TreeInv
      <4>2. QED BY <1>1, <2>4, <3>1, <3>3, <4>1 DEF AtTop
    <3>4. QED BY <2>2, <2>4, <3>1, <3>2, <3>3 DEF NextRead
  <2>5. QED BY <2>2, <2>3, <2>4
<1>12. ASSUME NEW p \in ToSet(stopping') PROVE Stoppable(p)'
  <2>1. CASE p \in ToSet(stopping)
    <3>1. /\ Born(p) /\ kind[p] = "codex" /\ Spared(p)
          /\ parent[p] \in Pids \ unread =>
               parent[p] \in ToSet(stopping) \/ kind[parent[p]] # "codex"
      BY <2>1 DEF Inv, LockInv, StopInv, Stoppable
    <3>2. Spared(p)'
      BY <1>1, <3>1 DEF Spared, ClearUpTo, Born
    <3>3. QED BY <1>1, <1>7, <3>1, <3>2 DEF Stoppable, Born
  <2>2. CASE p \in {chain[i].pid : i \in 1..m}
    <3>1. PICK i \in 1..m : p = chain[i].pid
      BY <2>2
    <3>2. QED BY <1>1, <1>11, <3>1 DEF Stoppable, Born
  <2>3. QED BY <1>7, <1>12, <2>1, <2>2
<1>13. ASSUME NEW p \in ToSet(stopping') PROVE InRun(p)'
  <2>1. CASE p \in ToSet(stopping)
    BY <1>1, <1>7, <2>1 DEF Inv, LockInv, StopInv, InRun, Alive
  <2>2. CASE p \in {chain[i].pid : i \in 1..m}
    <3>1. PICK i \in 1..m : p = chain[i].pid
      BY <2>2
    <3>2. CASE i = 1
      BY <1>1, <1>2, <3>1, <3>2 DEF InRun, Alive
    <3>3. CASE i # 1
      <4>1. i \in 2..m /\ i - 1 \in 1..m /\ i - 1 \in DOMAIN chain
        BY <1>3, <3>3
      <4>2. chain[i - 1].parent = p /\ p \in Pids
        BY <1>3, <1>4, <3>1, <4>1
      <4>3. Alive(p) => parent[chain[i - 1].pid] = p
        BY <1>2, <4>1, <4>2 DEF TrueReading
      <4>4. chain[i - 1].pid \in ToSet(stopping')
        BY <1>7, <4>1
      <4>5. QED BY <1>1, <4>3, <4>4 DEF InRun, Alive
    <3>4. QED BY <3>2, <3>3
  <2>3. QED BY <1>7, <1>13, <2>1, <2>2
<1>14. StopInv'
  <2>1. \A h \in todo' : Born(h)' /\ (Alive(h)' => h \in holds')
    BY <1>1 DEF Inv, LockInv, StopInv, Alive, Born
  <2>2. QED BY <1>12, <1>13, <2>1 DEF StopInv
<1>15. ParentsFirst'
  <2>1. Ordered(new, {})
    BY <1>1, <1>5, RunOrdered
  <2>2. PICK late : late = unread'
    OBVIOUS
  <2>3. Ordered(new, late)
    BY <2>1 DEF Ordered
  <2>4. Ordered(stopping, late)
    BY <1>1, <2>2 DEF Inv, ParentsFirst, Ordered
  <2>5. ASSUME NEW b \in ToSet(stopping), NEW p \in ToSet(new), parent[b] = p
        PROVE  p \in ToSet(stopping) \cup late
    <3>1. PICK i \in 1..m : p = chain[i].pid
      BY <1>5, <2>5
    <3>2. p \in Pids /\ kind[p] = "codex"
      BY <1>2, <1>3, <3>1
    <3>3. Stoppable(b)
      BY DEF Inv, LockInv, StopInv
    <3>4. QED BY <1>1, <2>2, <2>5, <3>2, <3>3 DEF Stoppable
  <2>6. Ordered(stopping', late)
    BY <1>1, <1>5, <1>6, <2>3, <2>4, <2>5, AddUnseenOrdered
  <2>7. QED BY <1>1, <2>2, <2>6 DEF ParentsFirst, Ordered
<1>16. QED BY <1>8, <1>9, <1>10, <1>14, <1>15 DEF Inv, LockInv

-----------------------------------------------------------------------------
(* The other processes. *)

\* Whoever was born keeps its parent, or is left to init when that parent exits;
\* whoever lives on keeps the lock.
Keeps ==
  /\ UNCHANGED <<kind, pc, todo, current, chain, unread, stopping, index, sent>>
  /\ \A r \in Pids : Born(r) =>
       /\ Born(r)' /\ (Alive(r)' => Alive(r))
       /\ parent'[r] = parent[r] \/ (parent'[r] = 1 /\ state'[parent[r]] = "dead")
  /\ \A r \in holds : Alive(r)' => r \in holds'

LEMMA KeepsReadings ==
  ASSUME Inv, Keeps, NEW r \in Readings, TrueReading(r)
  PROVE  TrueReading(r)'
<1>1. r.pid \in Pids /\ Born(r.pid)
  BY DEF Readings, TrueReading
<1>2. Born(r.pid)' /\ (r.parent \in Pids => Born(r.parent)')
  BY <1>1 DEF Keeps, TrueReading
<1>3. parent'[r.pid] \in {r.parent, 1}
  BY <1>1 DEF Keeps, TrueReading
<1>4. r.parent \in Pids /\ Alive(r.parent)' => parent'[r.pid] = r.parent
  <2> SUFFICES ASSUME r.parent \in Pids, Alive(r.parent)' PROVE parent'[r.pid] = r.parent
    OBVIOUS
  <2>1. Alive(r.parent)
    BY DEF Keeps, TrueReading
  <2>2. parent[r.pid] = r.parent
    BY <2>1 DEF TrueReading
  <2>3. QED BY <1>1, <2>2 DEF Keeps, Alive
<1>5. QED BY <1>2, <1>3, <1>4 DEF TrueReading, Born, Alive

LEMMA KeepsClear ==
  ASSUME Keeps, NEW A \in SUBSET Pids, NEW rest, ClearUpTo(A, rest)
  PROVE  ClearUpTo(A, rest)'
<1> SUFFICES ASSUME NEW q \in A
             PROVE  /\ Born(q)' /\ kind'[q] # "wrapper"
                    /\ parent'[q] \in Pids \ unread' => parent'[q] \in A \cup rest
  BY DEF ClearUpTo, Born
<1>1. q \in Pids /\ Born(q) /\ kind[q] # "wrapper"
  BY DEF ClearUpTo
<1>2. Born(q)' /\ (parent'[q] = parent[q] \/ parent'[q] = 1)
  BY <1>1 DEF Keeps
<1>3. parent[q] \in Pids \ unread => parent[q] \in A \cup rest
  BY DEF ClearUpTo
<1>4. kind'[q] # "wrapper" /\ unread' = unread
  BY <1>1 DEF Keeps
<1>5. QED BY <1>2, <1>3, <1>4, PidFacts

LEMMA KeepsInv ==
  ASSUME Inv, Keeps
  PROVE  ChainInv' /\ PathClear' /\ StopInv' /\ ParentsFirst'
<1>1. /\ UNCHANGED <<kind, pc, todo, current, chain, unread, stopping>>
      /\ chain \in Seq(Readings) /\ stopping \in Seq(Pids) /\ holds \subseteq Pids
  BY DEF Keeps, Inv, TypeOK
<1>2. PathClear'
  <2> SUFFICES ASSUME pc = "climb" PROVE PathClear'
    BY <1>1 DEF PathClear
  <2>1. PICK A \in SUBSET Pids : /\ \A i \in DOMAIN chain : chain[i].pid \in A \cup {current.pid}
                                /\ ClearUpTo(A, {current.pid})
    BY DEF Inv, LockInv, PathClear
  <2>2. PICK c : c = current.pid
    OBVIOUS
  <2>3. ClearUpTo(A, {c})'
    BY <2>1, <2>2, KeepsClear
  <2>4. ClearUpTo(A, {current.pid})'
    BY <1>1, <2>2, <2>3 DEF ClearUpTo, Born
  <2>5. \A i \in DOMAIN chain' : chain'[i].pid \in A \cup {current'.pid}
    BY <1>1, <2>1
  <2>6. QED BY <2>4, <2>5 DEF PathClear
<1>3. ASSUME NEW p \in ToSet(stopping) PROVE Stoppable(p)'
  <2>1. p \in Pids
    BY <1>1, <1>3, ElementOfSeq, LenProperties DEF ToSet
  <2>2. /\ Born(p) /\ kind[p] = "codex" /\ Spared(p)
        /\ parent[p] \in Pids \ unread =>
             parent[p] \in ToSet(stopping) \/ kind[parent[p]] # "codex"
    BY <1>3 DEF Inv, LockInv, StopInv, Stoppable
  <2>3. PICK A \in SUBSET Pids : p \in A /\ ClearUpTo(A, {})
    BY <2>2 DEF Spared
  <2>4. ClearUpTo(A, {})'
    BY <2>3, KeepsClear
  <2>5. Spared(p)'
    BY <2>3, <2>4 DEF Spared
  <2>6. Born(p)' /\ (parent'[p] = parent[p] \/ parent'[p] = 1)
    BY <2>1, <2>2 DEF Keeps
  <2>7. QED BY <1>1, <2>2, <2>5, <2>6, PidFacts DEF Stoppable
<1>4. ParentsFirst'
  <2> SUFFICES ASSUME NEW i \in DOMAIN stopping, NEW j \in DOMAIN stopping,
                      parent'[stopping[j]] = stopping[i]
               PROVE  i < j \/ stopping[i] \in unread
    BY <1>1 DEF ParentsFirst
  <2>1. stopping[i] \in Pids /\ stopping[j] \in Pids /\ stopping[j] \in ToSet(stopping)
    BY <1>1, ElementOfSeq, LenProperties DEF ToSet
  <2>2. Born(stopping[j])
    BY <2>1 DEF Inv, LockInv, StopInv, Stoppable
  <2>3. parent[stopping[j]] = stopping[i]
    BY <2>1, <2>2, PidFacts DEF Keeps
  <2>4. QED BY <2>3 DEF Inv, ParentsFirst
<1>5. ChainInv'
  <2> SUFFICES ASSUME pc = "climb" PROVE ChainInv'
    BY <1>1 DEF ChainInv
  <2>1. /\ chain # <<>> /\ current \in Readings /\ TrueReading(current)
        /\ \A i \in DOMAIN chain :
             TrueReading(chain[i]) /\ kind[chain[i].pid] = "codex" /\ NextRead(i)
    BY DEF Inv, LockInv, ChainInv
  <2>2. TrueReading(current)'
    <3>1. PICK r \in Readings : r = current
      BY <2>1
    <3>2. TrueReading(r)'
      BY <2>1, <3>1, KeepsReadings
    <3>3. QED BY <1>1, <3>1, <3>2 DEF TrueReading, Born, Alive
  <2>3. ASSUME NEW i \in DOMAIN chain PROVE TrueReading(chain[i])'
    <3>1. PICK r \in Readings : r = chain[i]
      BY <1>1, ElementOfSeq, LenProperties
    <3>2. TrueReading(r)'
      BY <2>1, <3>1, KeepsReadings
    <3>3. QED BY <1>1, <3>1, <3>2 DEF TrueReading, Born, Alive
  <2>4. \A i \in DOMAIN chain : NextRead(i)'
    BY <1>1, <2>1 DEF NextRead
  <2>5. Alive(chain[1].pid)' => chain[1].pid \in holds'
    <3>1. Len(chain) \in Nat /\ Len(chain) > 0 /\ DOMAIN chain = 1..Len(chain)
      BY <1>1, <2>1, LenProperties, EmptySeq
    <3>2. chain[1] \in Readings /\ TrueReading(chain[1])
      BY <1>1, <2>1, <3>1, ElementOfSeq
    <3>3. PICK p : p = chain[1].pid
      OBVIOUS
    <3>4. p \in Pids /\ Born(p) /\ (Alive(p) => p \in holds)
      BY <3>2, <3>3 DEF Readings, TrueReading, Inv, LockInv, ChainInv
    <3>5. Alive(p)' => p \in holds'
      BY <3>4 DEF Keeps
    <3>6. QED BY <1>1, <3>3, <3>5 DEF Alive
  <2>6. QED BY <1>1, <2>1, <2>2, <2>3, <2>4, <2>5 DEF ChainInv
<1>6. StopInv'
  <2>1. ASSUME NEW p \in ToSet(stopping), Alive(p)'
        PROVE  p \in holds' \/ \E q \in ToSet(stopping) : parent'[q] = p
    <3>1. \A q \in ToSet(stopping) : q \in Pids /\ Born(q)
      <4>1. \A q \in ToSet(stopping) : q \in Pids
        BY <1>1, ElementOfSeq, LenProperties DEF ToSet
      <4>2. QED BY <4>1 DEF Inv, LockInv, StopInv, Stoppable
    <3>2. Alive(p) /\ InRun(p)
      BY <2>1, <3>1 DEF Keeps, Inv, LockInv, StopInv
    <3>3. CASE p \in holds
      BY <2>1, <3>3 DEF Keeps
    <3>4. ASSUME NEW q \in ToSet(stopping), parent[q] = p PROVE parent'[q] = p
      BY <2>1, <3>1, <3>4 DEF Keeps, Alive
    <3>5. QED BY <3>2, <3>3, <3>4 DEF InRun
  <2>2. \A h \in todo : Born(h)' /\ (Alive(h)' => h \in holds')
    <3>1. \A h \in todo : h \in Pids
      BY DEF Inv, TypeOK
    <3>2. QED BY <3>1 DEF Keeps, Inv, LockInv, StopInv
  <2>3. QED BY <1>1, <1>3, <2>1, <2>2 DEF StopInv, InRun, Alive, Born
<1>7. QED BY <1>2, <1>4, <1>5, <1>6

LEMMA ExitsInv ==
  ASSUME Inv, NEW p \in Pids, Exits(p)
  PROVE  Inv'
<1>1. /\ Alive(p) /\ state' = [state EXCEPT ![p] = "dead"] /\ holds' = holds \ {p}
      /\ parent' = [q \in Pids |-> IF parent[q] = p THEN 1 ELSE parent[q]]
      /\ UNCHANGED <<kind, pc, todo, current, chain, unread, stopping, index, sent>>
  BY DEF Exits, climbVars, signalVars
<1>2. state \in [Pids -> {"unborn", "alive", "dead"}] /\ parent \in [Pids -> Nat]
  BY DEF Inv, TypeOK
<1>3. holds \subseteq Pids /\ state'[p] = "dead"
  BY <1>1, <1>2 DEF Inv, TypeOK
<1>4. \A q \in Pids : parent'[q] = parent[q] \/ (parent'[q] = 1 /\ parent[q] = p)
  BY <1>1
<1>5. \A q \in Pids : (Born(q) => Born(q)') /\ (Alive(q)' => Alive(q) /\ q # p)
  BY <1>1, <1>2 DEF Born, Alive
<1>6. Keeps
  BY <1>1, <1>3, <1>4, <1>5 DEF Keeps
<1>7. TypeOK'
  <2>1. parent' \in [Pids -> Nat]
    BY <1>1, <1>2
  <2>2. state' \in [Pids -> {"unborn", "alive", "dead"}]
    BY <1>1, <1>2
  <2>3. QED BY <1>1, <2>1, <2>2 DEF Inv, TypeOK
<1>8. TreeInv'
  <2>1. \A q \in holds' : Alive(q)'
    BY <1>1, <1>2 DEF Inv, LockInv, TreeInv, Alive, TypeOK
  <2>2. ASSUME NEW q \in Pids, parent'[q] \in Pids PROVE state'[parent'[q]] = "alive"
    <3>1. parent'[q] = parent[q] /\ parent[q] # p
      BY <1>1, <2>2, PidFacts
    <3>2. Alive(parent[q])
      BY <2>2, <3>1 DEF Inv, LockInv, TreeInv
    <3>3. QED BY <1>1, <1>2, <2>2, <3>1, <3>2 DEF Alive
  <2>3. QED BY <2>1, <2>2 DEF TreeInv, Alive
<1>9. TreeOrdered'
  <2>1. PICK rank \in [Pids -> Nat] : OrderedBy(rank)
    BY DEF Inv, LockInv, TreeOrdered
  <2>2. OrderedBy(rank)'
    BY <1>1, <1>4, <2>1, PidFacts DEF OrderedBy
  <2>3. QED BY <2>1, <2>2 DEF TreeOrdered
<1>10. ChainInv' /\ PathClear' /\ StopInv' /\ ParentsFirst'
  BY <1>6, KeepsInv
<1>11. QED BY <1>7, <1>8, <1>9, <1>10 DEF Inv, LockInv

LEMMA CodexStartsInv ==
  ASSUME Inv, NEW p \in Pids, NEW q \in Later, CodexStarts(p, q)
  PROVE  Inv'
<1>1. /\ Alive(p) /\ state[q] = "unborn" /\ Holders = {} /\ q \in Pids /\ p # q
      /\ state' = [state EXCEPT ![q] = "alive"] /\ parent' = [parent EXCEPT ![q] = p]
      /\ holds' = {q}
      /\ UNCHANGED <<kind, pc, todo, current, chain, unread, stopping, index, sent>>
  BY DEF CodexStarts, climbVars, signalVars, Alive, Pids
<1>2. state \in [Pids -> {"unborn", "alive", "dead"}] /\ parent \in [Pids -> Nat]
  BY DEF Inv, TypeOK
<1>3. holds = {}
  BY <1>1 DEF Holders, Inv, LockInv, TreeInv
<1>5. \A r \in Pids : r # q => state'[r] = state[r] /\ parent'[r] = parent[r]
  BY <1>1, <1>2
<1>6. \A r \in Pids : Born(r) => /\ r # q /\ Born(r)' /\ parent'[r] = parent[r]
                                 /\ Alive(r)' => Alive(r)
  BY <1>1, <1>5 DEF Born, Alive
<1>7. Keeps
  BY <1>1, <1>3, <1>6 DEF Keeps
<1>8. TypeOK'
  <2>1. parent' \in [Pids -> Nat]
    BY <1>1, <1>2, PidFacts
  <2>2. state' \in [Pids -> {"unborn", "alive", "dead"}]
    BY <1>1, <1>2
  <2>3. holds' \subseteq Pids
    BY <1>1
  <2>4. QED BY <1>1, <2>1, <2>2, <2>3 DEF Inv, TypeOK
<1>9. state'[q] = "alive" /\ parent'[q] = p /\ state'[p] = "alive"
  BY <1>1, <1>2 DEF Alive
<1>10. \A r \in Pids : parent[r] \in Pids => Alive(parent[r]) /\ parent[r] # q
  BY <1>1 DEF Inv, LockInv, TreeInv, Alive
<1>11. TreeInv'
  <2>1. ASSUME NEW r \in Pids, parent'[r] \in Pids PROVE state'[parent'[r]] = "alive"
    <3>1. CASE r = q
      BY <1>9, <3>1
    <3>2. CASE r # q
      BY <1>5, <1>10, <2>1, <3>2 DEF Alive
    <3>3. QED BY <3>1, <3>2
  <2>2. QED BY <1>1, <1>9, <2>1 DEF TreeInv, Alive
<1>12. TreeOrdered'
  <2>1. PICK rank \in [Pids -> Nat] : OrderedBy(rank)
    BY DEF Inv, LockInv, TreeOrdered
  <2>2. PICK up : up = [rank EXCEPT ![q] = rank[p] + 1]
    OBVIOUS
  <2>3. /\ up \in [Pids -> Nat] /\ up[q] = rank[p] + 1 /\ rank[p] \in Nat
        /\ \A r \in Pids : r # q => up[r] = rank[r]
    BY <1>1, <2>1, <2>2
  <2>4. ASSUME NEW r \in Pids, parent'[r] \in Pids PROVE up[parent'[r]] < up[r]
    <3>1. CASE r = q
      <4>1. parent'[r] = p /\ up[p] = rank[p]
        BY <1>1, <1>9, <2>3, <3>1
      <4>2. QED BY <2>3, <3>1, <4>1
    <3>2. CASE r # q
      <4>1. parent'[r] = parent[r] /\ parent[r] # q /\ rank[parent[r]] < rank[r]
        BY <1>5, <1>10, <2>1, <2>4, <3>2 DEF OrderedBy
      <4>2. QED BY <2>3, <2>4, <3>2, <4>1
    <3>3. QED BY <3>1, <3>2
  <2>5. ASSUME pc = "climb"
        PROVE  /\ \A i, j \in DOMAIN chain : i < j => up[chain[j].pid] < up[chain[i].pid]
               /\ \A i \in DOMAIN chain : up[current.pid] <= up[chain[i].pid]
               /\ current.parent \in Pids => up[current.parent] < up[current.pid]
    <3>1. /\ current \in Readings /\ TrueReading(current)
          /\ \A i \in DOMAIN chain : TrueReading(chain[i])
      BY <2>5 DEF Inv, LockInv, ChainInv
    <3>2. current.pid \in Pids /\ \A i \in DOMAIN chain : chain[i].pid \in Pids
      <4>1. \A i \in DOMAIN chain : chain[i] \in Readings
        BY ElementOfSeq, LenProperties DEF Inv, TypeOK
      <4>2. QED BY <3>1, <4>1 DEF Readings
    <3>3. up[current.pid] = rank[current.pid]
      BY <1>6, <2>3, <3>1, <3>2 DEF TrueReading
    <3>4. current.parent \in Pids => up[current.parent] = rank[current.parent]
      BY <1>6, <2>3, <3>1 DEF TrueReading
    <3>5. \A i \in DOMAIN chain : up[chain[i].pid] = rank[chain[i].pid]
      BY <1>6, <2>3, <3>1, <3>2 DEF TrueReading
    <3>6. QED BY <2>1, <2>5, <3>3, <3>4, <3>5 DEF OrderedBy
  <2>6. OrderedBy(up)'
    BY <1>1, <2>4, <2>5 DEF OrderedBy
  <2>7. QED BY <2>3, <2>6 DEF TreeOrdered
<1>13. ChainInv' /\ PathClear' /\ StopInv' /\ ParentsFirst'
  BY <1>7, KeepsInv
<1>14. QED BY <1>8, <1>11, <1>12, <1>13 DEF Inv, LockInv

LEMMA NextInv == Inv /\ [Next]_vars => Inv'
<1> SUFFICES ASSUME Inv, [Next]_vars PROVE Inv'
  OBVIOUS
<1>1. CASE FindHolders
  BY <1>1, FindHoldersInv
<1>2. CASE \E h \in Pids : ReadHolder(h)
  BY <1>2, ReadHolderInv
<1>3. CASE Climb
  BY <1>3, ClimbInvLemma
<1>4. CASE EndClimb
  BY <1>4, EndClimbInv
<1>5. CASE \/ Terminate \/ Kill \/ SignalFails \/ AllSignalled \/ LockFreed \/ WaitExpires
           \/ Refuse \/ RefuseHolder
  BY <1>5, SignalsInv
<1>6. CASE \E p \in Pids : Exits(p)
  BY <1>6, ExitsInv
<1>7. CASE \E p \in Pids, q \in Later : CodexStarts(p, q)
  BY <1>7, CodexStartsInv
<1>8. CASE UNCHANGED vars
  BY <1>8, StutterInv
<1>9. QED BY <1>1, <1>2, <1>3, <1>4, <1>5, <1>6, <1>7, <1>8 DEF Next, Release, System

-----------------------------------------------------------------------------
(* The lineage of a process. *)

Closed(C) == \A r \in C : parent[r] \in Pids \ unread => parent[r] \in C

\* The processes above p end at the top of the tree, so a set that holds p and the
\* parents of its members holds them all.
LEMMA LineageIn ==
  ASSUME Inv, NEW A \in SUBSET Pids, Closed(A), NEW p \in A
  PROVE  Lineage(p) \subseteq A
<1> DEFINE Def(g) == [q \in Pids |->
                       {q} \cup IF parent[q] \in Pids \ unread THEN g[parent[q]] ELSE {}]
           h == [q \in Pids |-> {r \in Pids : \A C \in SUBSET Pids :
                                                q \in C /\ Closed(C) => r \in C}]
           up == CHOOSE g : g = Def(g)
<1>1. h = Def(h)
  <2> SUFFICES ASSUME NEW q \in Pids
               PROVE  h[q] = {q} \cup IF parent[q] \in Pids \ unread THEN h[parent[q]] ELSE {}
    OBVIOUS
  <2>1. q \in h[q]
    OBVIOUS
  <2>2. ASSUME parent[q] \in Pids \ unread PROVE h[parent[q]] \subseteq h[q]
    BY <2>2 DEF Closed
  <2>3. ASSUME NEW x \in h[q], parent[q] \notin Pids \ unread PROVE x = q
    <3>1. Closed({q})
      BY <2>3 DEF Closed
    <3>2. {q} \in SUBSET Pids
      OBVIOUS
    <3>3. QED BY <3>1, <3>2
  <2>4. ASSUME NEW x \in h[q], parent[q] \in Pids \ unread PROVE x \in {q} \cup h[parent[q]]
    <3>1. parent[q] \in h[parent[q]]
      BY <2>4
    <3>2. \A r \in h[parent[q]] : parent[r] \in Pids \ unread => parent[r] \in h[parent[q]]
      BY <2>4 DEF Closed
    <3>3. PICK B : B = {q} \cup h[parent[q]]
      OBVIOUS
    <3>4. B \in SUBSET Pids
      BY <2>4, <3>3
    <3>5. Closed(B)
      BY <3>1, <3>2, <3>3 DEF Closed
    <3>6. q \in B
      BY <3>3
    <3>7. x \in B
      BY <2>4, <3>4, <3>5, <3>6
    <3>8. QED BY <3>3, <3>7
  <2>5. CASE parent[q] \in Pids \ unread
    BY <2>1, <2>2, <2>4, <2>5
  <2>6. CASE parent[q] \notin Pids \ unread
    BY <2>1, <2>3, <2>6
  <2>7. QED BY <2>5, <2>6
<1>2. up = Def(up)
  <2> HIDE DEF h, Def
  <2>1. QED BY <1>1
<1>3. Lineage(p) = up[p]
  BY DEF Lineage
<1>4. \A q \in Pids : up[q] = {q} \cup IF parent[q] \in Pids \ unread THEN up[parent[q]] ELSE {}
  <2> HIDE DEF up, h
  <2>1. QED BY <1>2
<1> HIDE DEF h, up, Def
<1>5. PICK rank \in [Pids -> Nat] : OrderedBy(rank)
  BY DEF Inv, LockInv, TreeOrdered
<1>6. \A q \in A : up[q] \subseteq A
  <2> SUFFICES ASSUME NEW e \in A, ~(up[e] \subseteq A) PROVE FALSE
    OBVIOUS
  <2> DEFINE T == {rank[q] : q \in {r \in A : ~(up[r] \subseteq A)}}
  <2>1. T \in SUBSET Nat /\ T # {}
    BY <1>5
  <2> HIDE DEF T
  <2>2. PICK n \in T : \A k \in T : n <= k
    BY <2>1, LeastNat
  <2>3. PICK q \in A : n = rank[q] /\ ~(up[q] \subseteq A)
    BY <2>2 DEF T
  <2>4. ASSUME parent[q] \in Pids \ unread PROVE up[parent[q]] \subseteq A
    <3>1. parent[q] \in A /\ rank[parent[q]] < rank[q]
      BY <1>5, <2>3, <2>4 DEF Closed, OrderedBy
    <3>2. rank[parent[q]] \in Nat /\ rank[q] \in Nat
      BY <1>5, <2>4
    <3>3. rank[parent[q]] \notin T
      BY <2>2, <2>3, <3>1, <3>2
    <3>4. QED BY <3>1, <3>3 DEF T
  <2>5. up[q] = {q} \cup IF parent[q] \in Pids \ unread THEN up[parent[q]] ELSE {}
    BY <1>4, <2>3
  <2>6. up[q] \subseteq A
    BY <2>3, <2>4, <2>5
  <2>7. QED BY <2>3, <2>6
<1>7. QED BY <1>3, <1>6

\* No process that is to be stopped runs under a wrapper.
LEMMA StoppingSpares ==
  ASSUME Inv, NEW p \in ToSet(stopping), NEW q \in Lineage(p)
  PROVE  kind[q] # "wrapper"
<1>1. PICK A \in SUBSET Pids : p \in A /\ ClearUpTo(A, {})
  BY DEF Inv, LockInv, StopInv, Stoppable, Spared
<1>2. Closed(A)
  BY <1>1 DEF Closed, ClearUpTo
<1>3. q \in A
  BY <1>1, <1>2, LineageIn
<1>4. QED BY <1>1, <1>3 DEF ClearUpTo

-----------------------------------------------------------------------------
\* The state of the release and of the processes keeps its types; no process is
\* to be stopped twice, and each signal went to processes that are to be stopped.
THEOREM TypeCorrect == Spec => []TypeOK
<1>1. Init => Inv
  BY InitInv
<1>2. Inv /\ [Next]_vars => Inv'
  BY NextInv
<1>3. Inv => TypeOK
  BY DEF Inv
<1>4. QED BY <1>1, <1>2, <1>3, PTL DEF Spec

\* Whatever tree the codex processes make up, in whatever order the holders are
\* found and whatever exits meanwhile, a process comes after its parent in the
\* order of the signals, unless the parent could not be read on an earlier climb.
THEOREM AlwaysParentsFirst == Spec => []ParentsFirst
<1>1. Init => Inv
  BY InitInv
<1>2. Inv /\ [Next]_vars => Inv'
  BY NextInv
<1>3. Inv => ParentsFirst
  BY DEF Inv
<1>4. QED BY <1>1, <1>2, <1>3, PTL DEF Spec

\* Only codex is signalled, and only the unbroken runs of codex from the holders
\* upward: what is alive of them holds the lock or has a child among them, however
\* much of the tree exits during the climbs.
THEOREM OnlyTheRunStopped == Spec => []StopsOnlyTheRun
<1>1. Init => Inv
  BY InitInv
<1>2. Inv /\ [Next]_vars => Inv'
  BY NextInv
<1>3. ASSUME Inv PROVE StopsOnlyTheRun
  <2>1. \A p \in ToSet(stopping) : kind[p] = "codex"
    BY <1>3 DEF Inv, LockInv, StopInv, Stoppable
  <2>2. Signalled \subseteq ToSet(stopping)
    BY <1>3 DEF Inv, TypeOK, Signalled
  <2>3. \A p \in ToSet(stopping) : InRun(p)
    BY <1>3 DEF Inv, LockInv, StopInv
  <2>4. QED BY <2>1, <2>2, <2>3 DEF StopsOnlyTheRun, InRun
<1>4. QED BY <1>1, <1>2, <1>3, PTL DEF Spec

\* However the tree changes between the readings and the signal, no process is
\* signalled below a living wrapper, unless a living process between them could
\* not be read (releaseThreadWriterLock).
THEOREM BridgeSessionsSpared == Spec => SparesBridgeSessions
<1>1. Init => Inv
  BY InitInv
<1>2. Inv /\ [Next]_vars => Inv'
  BY NextInv
<1>3. ASSUME Inv, Inv', [Next]_vars
      PROVE  [\A signal \in DOMAIN sent : \A p \in sent'[signal] \ sent[signal] :
                Alive(p) => \A q \in Lineage(p) : kind[q] # "wrapper"]_vars
  <2>1. ASSUME NEW signal \in DOMAIN sent, NEW p \in sent'[signal] \ sent[signal]
        PROVE  p \in ToSet(stopping)
    <3>1. sent \in [{"TERM", "KILL"} -> SUBSET ToSet(stopping)]
            /\ sent' \in [{"TERM", "KILL"} -> SUBSET ToSet(stopping')]
      BY <1>3 DEF Inv, TypeOK
    <3>2. p \in ToSet(stopping')
      BY <2>1, <3>1
    <3>3. stopping' = stopping
      <4>1. sent' # sent
        BY <2>1
      <4>2. CASE Release
        BY <4>1, <4>2 DEF Release, FindHolders, ReadHolder, RefuseHolder, Refuse, Climb,
                         EndClimb, Terminate, Kill, Send, SignalFails, AllSignalled, LockFreed, WaitExpires,
                         signalVars
      <4>3. CASE System
        BY <4>1, <4>3 DEF System, Exits, CodexStarts, signalVars
      <4>4. CASE UNCHANGED vars
        BY <4>1, <4>4 DEF vars, signalVars
      <4>5. QED BY <1>3, <4>2, <4>3, <4>4 DEF Next
    <3>4. QED BY <3>2, <3>3
  <2>2. QED BY <1>3, <2>1, StoppingSpares
<1>4. QED BY <1>1, <1>2, <1>3, PTL DEF Spec, SparesBridgeSessions
=============================================================================
