---------------------------- MODULE DList_proofs ----------------------------
(***************************************************************************)
(* Proofs about the list package of DList: whatever calls are made, every  *)
(* list is a line of nodes whose pointers agree in both directions.        *)
(***************************************************************************)
EXTENDS DList, SetInduction, FiniteSetTheorems, TLAPS

-----------------------------------------------------------------------------
(* Loops *)

\* A sequence that begins with x and goes on by f is what the turns of f make.
LEMMA RepeatIs ==
    ASSUME NEW f, NEW x, NEW n \in Nat, NEW g, g[0] = x,
           \A i \in 0..(n - 1) : f[g[i]] = g[i + 1]
    PROVE  Repeat(f, x, n) = g[n]
<1>. DEFINE Turn(t) == t = [i \in 0..n |-> IF i = 0 THEN x ELSE f[t[i - 1]]]
            here == [i \in 0..n |-> g[i]]
            turn == CHOOSE t : Turn(t)
<1>1. Turn(here)
  <2>1. ASSUME NEW i \in 0..n PROVE here[i] = IF i = 0 THEN x ELSE f[here[i - 1]]
    <3>1. CASE i = 0
      BY <3>1
    <3>2. CASE i # 0
      <4>1. i - 1 \in 0..(n - 1) /\ i - 1 \in 0..n /\ (i - 1) + 1 = i
        BY <3>2
      <4>. QED
        BY <3>2, <4>1
    <3>. QED
      BY <3>1, <3>2
  <2>. QED
    BY <2>1, Zenon
<1>. HIDE DEF here
<1>2. Turn(turn)
  BY <1>1, Zenon
<1>3. Repeat(f, x, n) = turn[n]
  BY DEF Repeat
<1>. HIDE DEF turn
<1>4. \A i \in 0..n : turn[i] = IF i = 0 THEN x ELSE f[turn[i - 1]]
  BY <1>2, Zenon
<1>. DEFINE Same == {i \in Nat : i <= n => turn[i] = g[i]}
<1>5. 0 \in Same
  BY <1>4
<1>6. ASSUME NEW i \in Nat, i \in Same PROVE i + 1 \in Same
  <2>. SUFFICES ASSUME i + 1 <= n PROVE turn[i + 1] = g[i + 1]
    OBVIOUS
  <2>1. i \in 0..(n - 1) /\ i + 1 \in 0..n /\ i + 1 # 0 /\ (i + 1) - 1 = i
    OBVIOUS
  <2>2. turn[i + 1] = f[turn[i]]
    BY <1>4, <2>1
  <2>3. turn[i] = g[i]
    BY <1>6, <2>1
  <2>. QED
    BY <2>1, <2>2, <2>3
<1>7. \A i \in Nat : i \in Same => i + 1 \in Same
  BY <1>6
<1>8. Nat \subseteq Same
  <2>. HIDE DEF Same
  <2>. QED
    BY <1>5, <1>7, SetInduction
<1>. QED
  BY <1>3, <1>8

\* Turns of f stay in a set that f does not leave.
LEMMA RepeatStays ==
    ASSUME NEW S, NEW f, NEW x \in S, NEW n \in Nat, \A y \in S : f[y] \in S
    PROVE  Repeat(f, x, n) \in S
<1>. DEFINE step == [p \in Nat \X S |-> f[p[2]]]
<1>1. step \in [Nat \X S -> S]
  OBVIOUS
<1>2. \A i \in Nat, y \in S : step[<<i, y>>] = f[y]
  OBVIOUS
<1>. HIDE DEF step
<1>3. PICK g \in [Nat -> S] : GoesOn(g, x, step)
  BY <1>1, SetRecursion
<1>4. g[0] = x /\ \A i \in 0..(n - 1) : f[g[i]] = g[i + 1]
  <2>1. g[0] = x /\ \A i \in Nat : g[i + 1] = step[<<i, g[i]>>]
    BY <1>3 DEF GoesOn
  <2>2. ASSUME NEW i \in 0..(n - 1) PROVE f[g[i]] = g[i + 1]
    <3>1. i \in Nat /\ g[i] \in S
      OBVIOUS
    <3>2. step[<<i, g[i]>>] = f[g[i]]
      BY <1>2, <3>1
    <3>. QED
      BY <2>1, <3>1, <3>2
  <2>. QED
    BY <2>1, <2>2
<1>5. Repeat(f, x, n) = g[n]
  BY <1>4, RepeatIs
<1>. QED
  BY <1>5

-----------------------------------------------------------------------------
(* Types *)

Links == LinkNode \cup {NoLink}

RawControl == [count : Nat, start : Pointers, end : Pointers, current : Pointers]

\* A heap whose parts have their types, counts of any size.
Typed(h) == h \in [node : [Nodes -> Links], ctl : [Lists -> RawControl]]

\* A record with another next or prev is still a link node.
LEMMA LinkFields ==
    ASSUME NEW r \in LinkNode, NEW p \in Pointers
    PROVE  /\ [r EXCEPT !.next = p] \in LinkNode
           /\ [r EXCEPT !.next = p].next = p
           /\ [r EXCEPT !.next = p].prev = r.prev
           /\ [r EXCEPT !.next = p].owner = r.owner
           /\ [r EXCEPT !.prev = p] \in LinkNode
           /\ [r EXCEPT !.prev = p].prev = p
           /\ [r EXCEPT !.prev = p].next = r.next
           /\ [r EXCEPT !.prev = p].owner = r.owner
BY DEF LinkNode

\* Link nodes that hold the same item, under the same tag.
SameItem(a, b) == a.tag = b.tag /\ a.data = b.data

\* The pointers of a node can change without its item.
LEMMA LinkItem ==
    ASSUME NEW r \in Links, NEW p
    PROVE  SameItem([r EXCEPT !.next = p], r) /\ SameItem([r EXCEPT !.prev = p], r)
BY DEF Links, LinkNode, NoLink, SameItem

\* Join changes no item.
LEMMA JoinItems ==
    ASSUME NEW nd \in [Nodes -> Links], NEW a, NEW b, a # b, NEW m \in Nodes
    PROVE  SameItem(Join(nd, a, b)[m], nd[m])
<1>1. CASE m = a
  <2>1. Join(nd, a, b)[m] = [nd[m] EXCEPT !.next = b]
    BY <1>1 DEF Join
  <2>. QED
    BY <2>1, LinkItem
<1>2. CASE m # a /\ m = b
  <2>1. Join(nd, a, b)[m] = [nd[m] EXCEPT !.prev = a]
    BY <1>2 DEF Join
  <2>. QED
    BY <2>1, LinkItem
<1>3. CASE m # a /\ m # b
  <2>1. Join(nd, a, b)[m] = nd[m]
    BY <1>3 DEF Join
  <2>. QED
    BY <2>1 DEF SameItem
<1>. QED
  BY <1>1, <1>2, <1>3

\* A node with an owner is a link node, and has the fields of one.
LEMMA Owned ==
    ASSUME NEW r \in Links, r.owner # NoList
    PROVE  r \in LinkNode /\ r.next \in Pointers /\ r.prev \in Pointers
BY DEF Links, LinkNode, NoLink

SetEnds(c, l, x, y) == [c EXCEPT ![l].start = x, ![l].end = y]
SetCurrent(c, l, x) == [c EXCEPT ![l].current = x]

\* What an update of a control node does to its fields.
LEMMA ControlFields ==
    ASSUME NEW c \in [Lists -> RawControl], NEW l \in Lists,
           NEW x \in Pointers, NEW y \in Pointers
    PROVE  /\ SetEnds(c, l, x, y) \in [Lists -> RawControl]
           /\ \A z \in Lists \ {l} : SetEnds(c, l, x, y)[z] = c[z]
           /\ SetEnds(c, l, x, y)[l].start = x
           /\ SetEnds(c, l, x, y)[l].end = y
           /\ SetEnds(c, l, x, y)[l].count = c[l].count
           /\ SetEnds(c, l, x, y)[l].current = c[l].current
           /\ SetCurrent(c, l, x) \in [Lists -> RawControl]
           /\ \A z \in Lists \ {l} : SetCurrent(c, l, x)[z] = c[z]
           /\ SetCurrent(c, l, x)[l].start = c[l].start
           /\ SetCurrent(c, l, x)[l].end = c[l].end
           /\ SetCurrent(c, l, x)[l].count = c[l].count
           /\ SetCurrent(c, l, x)[l].current = x
<1>1. /\ SetEnds(c, l, x, y) \in [Lists -> RawControl]
      /\ \A z \in Lists \ {l} : SetEnds(c, l, x, y)[z] = c[z]
      /\ SetEnds(c, l, x, y)[l].start = x
      /\ SetEnds(c, l, x, y)[l].end = y
      /\ SetEnds(c, l, x, y)[l].count = c[l].count
      /\ SetEnds(c, l, x, y)[l].current = c[l].current
  BY DEF RawControl, SetEnds
<1>2. /\ SetCurrent(c, l, x) \in [Lists -> RawControl]
      /\ \A z \in Lists \ {l} : SetCurrent(c, l, x)[z] = c[z]
      /\ SetCurrent(c, l, x)[l].start = c[l].start
      /\ SetCurrent(c, l, x)[l].end = c[l].end
      /\ SetCurrent(c, l, x)[l].count = c[l].count
      /\ SetCurrent(c, l, x)[l].current = x
  BY DEF RawControl, SetCurrent
<1>. QED
  BY <1>1, <1>2

\* What Join does to the fields.
LEMMA JoinFields ==
    ASSUME NEW nd \in [Nodes -> Links], NEW a \in Pointers, NEW b \in Pointers,
           a # b, a # NoNode => nd[a].owner # NoList,
           b # NoNode => nd[b].owner # NoList
    PROVE  /\ Join(nd, a, b) \in [Nodes -> Links]
           /\ \A m \in Nodes :
                 /\ Join(nd, a, b)[m].owner = nd[m].owner
                 /\ Join(nd, a, b)[m].next = IF m = a THEN b ELSE nd[m].next
                 /\ Join(nd, a, b)[m].prev = IF m = b THEN a ELSE nd[m].prev
<1>1. ASSUME NEW m \in Nodes
      PROVE  /\ Join(nd, a, b)[m] \in Links
             /\ Join(nd, a, b)[m].owner = nd[m].owner
             /\ Join(nd, a, b)[m].next = IF m = a THEN b ELSE nd[m].next
             /\ Join(nd, a, b)[m].prev = IF m = b THEN a ELSE nd[m].prev
  <2>0. m # NoNode
    BY DListAssumption
  <2>1. CASE m = a
    <3>1. Join(nd, a, b)[m] = [nd[m] EXCEPT !.next = b]
      BY <2>1 DEF Join
    <3>2. nd[m] \in LinkNode
      BY <2>0, <2>1, Owned
    <3>3. /\ [nd[m] EXCEPT !.next = b] \in LinkNode
          /\ [nd[m] EXCEPT !.next = b].next = b
          /\ [nd[m] EXCEPT !.next = b].prev = nd[m].prev
          /\ [nd[m] EXCEPT !.next = b].owner = nd[m].owner
      BY <3>2, LinkFields
    <3>. QED
      BY <2>1, <3>1, <3>3 DEF Links
  <2>2. CASE m = b
    <3>1. Join(nd, a, b)[m] = [nd[m] EXCEPT !.prev = a]
      BY <2>2 DEF Join
    <3>2. nd[m] \in LinkNode
      BY <2>0, <2>2, Owned
    <3>3. /\ [nd[m] EXCEPT !.prev = a] \in LinkNode
          /\ [nd[m] EXCEPT !.prev = a].prev = a
          /\ [nd[m] EXCEPT !.prev = a].next = nd[m].next
          /\ [nd[m] EXCEPT !.prev = a].owner = nd[m].owner
      BY <3>2, LinkFields
    <3>. QED
      BY <2>2, <3>1, <3>3 DEF Links
  <2>3. CASE m # a /\ m # b
    <3>1. Join(nd, a, b)[m] = nd[m]
      BY <2>3 DEF Join
    <3>. QED
      BY <2>3, <3>1
  <2>. QED
    BY <2>1, <2>2, <2>3
<1>2. Join(nd, a, b) \in [Nodes -> Links]
  BY <1>1 DEF Join
<1>. QED
  BY <1>1, <1>2

-----------------------------------------------------------------------------
(* The invariant *)

\* NULL, or an item of the list.
Place(h, l, x) == x \in Pointers /\ (x # NoNode => h.node[x].owner = l)

\* List l of heap h is the line of nodes w[1], ..., w[n]; w is NULL outside.
Line(h, l, w, n) ==
    /\ n \in Nat /\ w \in [Int -> Pointers]
    /\ \A i \in Int : w[i] # NoNode <=> i \in 1..n
    /\ \A i, j \in 1..n : w[i] = w[j] => i = j
    /\ \A i \in 1..n : /\ h.node[w[i]].owner = l
                       /\ h.node[w[i]].next = w[i + 1]
                       /\ h.node[w[i]].prev = w[i - 1]
    /\ \A m \in Nodes : h.node[m].owner = l => \E i \in 1..n : w[i] = m
    /\ h.ctl[l].count = n /\ h.ctl[l].start = w[1] /\ h.ctl[l].end = w[n]
    /\ Place(h, l, h.ctl[l].current)
    /\ h.ctl[l].current = NoNode <=> n = 0

IsLine(h, l) == \E n \in Nat, w \in [Int -> Pointers] : Line(h, l, w, n)

\* A heap in which every list is a line.
Good(h) == Typed(h) /\ \A l \in Lists : IsLine(h, l)

\* What a call on the lists of L leaves alone.
Elsewhere(h, k, L) ==
    \A x \in Lists \ L :
        /\ k.ctl[x] = h.ctl[x]
        /\ \A m \in Nodes :
              /\ k.node[m].owner = x <=> h.node[m].owner = x
              /\ h.node[m].owner = x => /\ k.node[m].next = h.node[m].next
                                        /\ k.node[m].prev = h.node[m].prev

\* A line stays when its nodes and its control node do.
LEMMA LineStays ==
    ASSUME NEW h, NEW k, NEW L, Elsewhere(h, k, L), NEW x \in Lists \ L,
           NEW w, NEW n, Line(h, x, w, n)
    PROVE  Line(k, x, w, n)
<1>1. k.ctl[x] = h.ctl[x]
  BY DEF Elsewhere
<1>2. \A m \in Nodes :
         /\ k.node[m].owner = x <=> h.node[m].owner = x
         /\ h.node[m].owner = x => /\ k.node[m].next = h.node[m].next
                                   /\ k.node[m].prev = h.node[m].prev
  BY DEF Elsewhere
<1>3. \A i \in 1..n : w[i] \in Nodes
  BY DEF Line, Pointers
<1>4. ASSUME NEW i \in 1..n
      PROVE  /\ k.node[w[i]].owner = x
             /\ k.node[w[i]].next = w[i + 1]
             /\ k.node[w[i]].prev = w[i - 1]
  BY <1>2, <1>3 DEF Line
<1>5. Place(k, x, k.ctl[x].current)
  BY <1>1, <1>2 DEF Line, Place, Pointers
<1>. QED
  BY <1>1, <1>2, <1>4, <1>5 DEF Line

LEMMA StaysGood ==
    ASSUME NEW h, Good(h), NEW k, Typed(k), NEW L, Elsewhere(h, k, L),
           \A x \in L : IsLine(k, x)
    PROVE  Good(k)
<1>1. ASSUME NEW x \in Lists \ L PROVE IsLine(k, x)
  <2>1. PICK n \in Nat, w \in [Int -> Pointers] : Line(h, x, w, n)
    BY DEF Good, IsLine
  <2>2. Line(k, x, w, n)
    BY <2>1, LineStays
  <2>. QED
    BY <2>2 DEF IsLine
<1>. QED
  BY <1>1 DEF Good

\* Heap g is h with nodes f[1], ..., f[k] put between w[p] and w[p + 1].
Between(h, g, l, w, n, p, k, f) ==
    /\ \A i \in 1..k : f[i] \in Nodes /\ h.node[f[i]].owner # l
    /\ \A i, j \in 1..k : f[i] = f[j] => i = j
    /\ \A i \in 1..k :
          /\ g.node[f[i]].owner = l
          /\ g.node[f[i]].next = IF i < k THEN f[i + 1] ELSE w[p + 1]
          /\ g.node[f[i]].prev = IF i > 1 THEN f[i - 1] ELSE w[p]
    /\ \A m \in Nodes : (\A i \in 1..k : f[i] # m) =>
          /\ g.node[m].owner = l <=> h.node[m].owner = l
          /\ h.node[m].owner = l =>
                /\ g.node[m].next = IF m = w[p] THEN f[1] ELSE h.node[m].next
                /\ g.node[m].prev = IF m = w[p + 1] THEN f[k] ELSE h.node[m].prev
    /\ g.ctl[l].count = n + k
    /\ g.ctl[l].start = IF p = 0 THEN f[1] ELSE w[1]
    /\ g.ctl[l].end = IF p = n THEN f[k] ELSE w[n]
    /\ g.ctl[l].current # NoNode /\ Place(g, l, g.ctl[l].current)

\* Line w once f[1], ..., f[k] are put in after its p-th node.
Spliced(w, p, k, f) ==
    [i \in Int |-> IF i <= p THEN w[i] ELSE IF i <= p + k THEN f[i - p] ELSE w[i - k]]

LEMMA Inserted ==
    ASSUME NEW h, NEW g, NEW l \in Lists, NEW w, NEW n, Line(h, l, w, n),
           NEW p \in 0..n, NEW k \in Nat \ {0}, NEW f,
           Between(h, g, l, w, n, p, k, f)
    PROVE  Line(g, l, Spliced(w, p, k, f), n + k) /\ IsLine(g, l)
<1>. USE DEF Between
<1>. DEFINE v == [i \in Int |-> IF i <= p THEN w[i]
                               ELSE IF i <= p + k THEN f[i - p] ELSE w[i - k]]
<1>v. v = Spliced(w, p, k, f)
  BY DEF Spliced
<1>0. n \in Nat /\ w \in [Int -> Pointers] /\ NoNode \notin Nodes
  BY DListAssumption DEF Line
<1>1. \A i \in 1..n : w[i] \in Nodes /\ (\A j \in 1..k : f[j] # w[i])
  BY DEF Line, Pointers
<1>2. /\ \A i \in Int : i <= p => v[i] = w[i]
      /\ \A i \in Int : i > p /\ i <= p + k => v[i] = f[i - p]
      /\ \A i \in Int : i > p + k => v[i] = w[i - k]
  BY <1>0
<1>3. v \in [Int -> Pointers]
  <2>1. ASSUME NEW i \in Int PROVE v[i] \in Pointers
    <3>1. CASE i <= p
      BY <1>0, <1>2, <3>1
    <3>2. CASE i > p /\ i <= p + k
      <4>1. i - p \in 1..k
        BY <1>0, <3>2
      <4>. QED
        BY <1>2, <3>2, <4>1 DEF Pointers
    <3>3. CASE i > p + k
      BY <1>0, <1>2, <3>3
    <3>. QED
      BY <1>0, <3>1, <3>2, <3>3
  <2>. QED
    BY <2>1, Zenon
<1>. HIDE DEF v
<1>4. ASSUME NEW i \in Int PROVE v[i] # NoNode <=> i \in 1..(n + k)
  <2>1. CASE i <= p
    BY <1>0, <1>2, <2>1 DEF Line
  <2>2. CASE i > p /\ i <= p + k
    <3>1. i - p \in 1..k /\ i \in 1..(n + k)
      BY <1>0, <2>2
    <3>. QED
      BY <1>0, <1>2, <2>2, <3>1
  <2>3. CASE i > p + k
    <3>1. i - k \in Int /\ (i - k \in 1..n <=> i \in 1..(n + k))
      BY <1>0, <2>3
    <3>. QED
      BY <1>0, <1>2, <2>3, <3>1 DEF Line
  <2>. QED
    BY <1>0, <2>1, <2>2, <2>3
\* Where a position of v comes from.
<1>5. ASSUME NEW i \in 1..(n + k)
      PROVE  \/ i \in 1..n /\ i <= p /\ v[i] = w[i]
             \/ i - p \in 1..k /\ v[i] = f[i - p]
             \/ i - k \in 1..n /\ i > p + k /\ v[i] = w[i - k]
  BY <1>0, <1>2
<1>6. ASSUME NEW i \in 1..(n + k), NEW j \in 1..(n + k), v[i] = v[j]
      PROVE  i = j
  <2>1. \A a, b \in 1..n : w[a] = w[b] => a = b
    BY DEF Line
  <2>2. \A a \in 1..n, b \in 1..k : f[b] # w[a]
    BY <1>1
  <2>0. \A a, b \in 1..k : f[a] = f[b] => a = b
    OBVIOUS
  <2>3. CASE i \in 1..n /\ i <= p /\ v[i] = w[i]
    <3>1. CASE j \in 1..n /\ j <= p /\ v[j] = w[j]
      <4>1. w[i] = w[j]
        BY <1>6, <2>3, <3>1
      <4>2. i = j
        BY <2>1, <2>3, <3>1, <4>1
      <4>. QED
        BY <1>0, <2>3, <3>1, <4>2
    <3>2. CASE j - p \in 1..k /\ v[j] = f[j - p]
      <4>1. w[i] = f[j - p]
        BY <1>6, <2>3, <3>2
      <4>. QED
        BY <2>2, <2>3, <3>2, <4>1
    <3>3. CASE j - k \in 1..n /\ j > p + k /\ v[j] = w[j - k]
      <4>1. w[i] = w[j - k]
        BY <1>6, <2>3, <3>3
      <4>2. i = j - k
        BY <2>1, <2>3, <3>3, <4>1
      <4>. QED
        BY <1>0, <2>3, <3>3, <4>2
    <3>. QED
      BY <1>5, <3>1, <3>2, <3>3
  <2>4. CASE i - p \in 1..k /\ v[i] = f[i - p]
    <3>1. CASE j \in 1..n /\ j <= p /\ v[j] = w[j]
      <4>1. f[i - p] = w[j]
        BY <1>6, <2>4, <3>1
      <4>. QED
        BY <2>2, <2>4, <3>1, <4>1
    <3>2. CASE j - p \in 1..k /\ v[j] = f[j - p]
      <4>1. f[i - p] = f[j - p]
        BY <1>6, <2>4, <3>2
      <4>2. i - p = j - p
        BY <2>0, <2>4, <3>2, <4>1
      <4>. QED
        BY <1>0, <2>4, <3>2, <4>2
    <3>3. CASE j - k \in 1..n /\ j > p + k /\ v[j] = w[j - k]
      <4>1. f[i - p] = w[j - k]
        BY <1>6, <2>4, <3>3
      <4>. QED
        BY <2>2, <2>4, <3>3, <4>1
    <3>. QED
      BY <1>5, <3>1, <3>2, <3>3
  <2>5. CASE i - k \in 1..n /\ i > p + k /\ v[i] = w[i - k]
    <3>1. CASE j \in 1..n /\ j <= p /\ v[j] = w[j]
      <4>1. w[i - k] = w[j]
        BY <1>6, <2>5, <3>1
      <4>2. i - k = j
        BY <2>1, <2>5, <3>1, <4>1
      <4>. QED
        BY <1>0, <2>5, <3>1, <4>2
    <3>2. CASE j - p \in 1..k /\ v[j] = f[j - p]
      <4>1. w[i - k] = f[j - p]
        BY <1>6, <2>5, <3>2
      <4>. QED
        BY <2>2, <2>5, <3>2, <4>1
    <3>3. CASE j - k \in 1..n /\ j > p + k /\ v[j] = w[j - k]
      <4>1. w[i - k] = w[j - k]
        BY <1>6, <2>5, <3>3
      <4>2. i - k = j - k
        BY <2>1, <2>5, <3>3, <4>1
      <4>. QED
        BY <1>0, <2>5, <3>3, <4>2
    <3>. QED
      BY <1>5, <3>1, <3>2, <3>3
  <2>. QED
    BY <1>5, <2>3, <2>4, <2>5
<1>7. ASSUME NEW i \in 1..(n + k)
      PROVE  /\ g.node[v[i]].owner = l
             /\ g.node[v[i]].next = v[i + 1]
             /\ g.node[v[i]].prev = v[i - 1]
  <2>1. ASSUME NEW a \in 1..n
        PROVE  /\ g.node[w[a]].owner = l
               /\ g.node[w[a]].next = IF a = p THEN f[1] ELSE w[a + 1]
               /\ g.node[w[a]].prev = IF a = p + 1 THEN f[k] ELSE w[a - 1]
    <3>1. w[a] \in Nodes /\ h.node[w[a]].owner = l
          /\ h.node[w[a]].next = w[a + 1] /\ h.node[w[a]].prev = w[a - 1]
      BY <1>1 DEF Line
    <3>2. (w[a] = w[p] <=> a = p) /\ (w[a] = w[p + 1] <=> a = p + 1)
      BY <1>0 DEF Line
    <3>. QED
      BY <1>1, <3>1, <3>2
  <2>2. CASE i \in 1..n /\ i <= p /\ v[i] = w[i]
    <3>1. CASE i < p
      BY <1>0, <1>2, <2>1, <2>2, <3>1
    <3>2. CASE i = p
      <4>1. v[i + 1] = f[1]
        BY <1>0, <1>2, <3>2
      <4>. QED
        BY <1>0, <1>2, <2>1, <2>2, <3>2, <4>1
    <3>. QED
      BY <1>0, <2>2, <3>1, <3>2
  <2>3. CASE i - p \in 1..k /\ v[i] = f[i - p]
    <3>1. v[i + 1] = IF i - p < k THEN f[(i - p) + 1] ELSE w[p + 1]
      <4>1. CASE i - p < k
        <5>1. i + 1 > p /\ i + 1 <= p + k /\ i + 1 \in Int /\ (i + 1) - p = (i - p) + 1
          BY <1>0, <2>3, <4>1
        <5>. QED
          BY <1>2, <4>1, <5>1
      <4>2. CASE ~(i - p < k)
        <5>1. i + 1 > p + k /\ i + 1 \in Int /\ (i + 1) - k = p + 1
          BY <1>0, <2>3, <4>2
        <5>. QED
          BY <1>2, <4>2, <5>1
      <4>. QED
        BY <4>1, <4>2
    <3>2. v[i - 1] = IF i - p > 1 THEN f[(i - p) - 1] ELSE w[p]
      <4>1. CASE i - p > 1
        <5>1. i - 1 > p /\ i - 1 <= p + k /\ i - 1 \in Int /\ (i - 1) - p = (i - p) - 1
          BY <1>0, <2>3, <4>1
        <5>. QED
          BY <1>2, <4>1, <5>1
      <4>2. CASE ~(i - p > 1)
        <5>1. i - 1 = p
          BY <1>0, <2>3, <4>2
        <5>. QED
          BY <1>0, <1>2, <4>2, <5>1
      <4>. QED
        BY <4>1, <4>2
    <3>. QED
      BY <2>3, <3>1, <3>2
  <2>4. CASE i - k \in 1..n /\ i > p + k /\ v[i] = w[i - k]
    <3>1. v[i + 1] = w[(i - k) + 1]
      <4>1. i + 1 > p + k /\ i + 1 \in Int /\ (i + 1) - k = (i - k) + 1
        BY <1>0, <2>4
      <4>. QED
        BY <1>2, <4>1
    <3>2. v[i - 1] = IF i - k = p + 1 THEN f[k] ELSE w[(i - k) - 1]
      <4>1. CASE i - k = p + 1
        <5>1. i - 1 > p /\ i - 1 <= p + k /\ i - 1 \in Int /\ (i - 1) - p = k
          BY <1>0, <2>4, <4>1
        <5>. QED
          BY <1>2, <4>1, <5>1
      <4>2. CASE i - k # p + 1
        <5>1. i - 1 > p + k /\ i - 1 \in Int /\ (i - 1) - k = (i - k) - 1
          BY <1>0, <2>4, <4>2
        <5>. QED
          BY <1>2, <4>2, <5>1
      <4>. QED
        BY <4>1, <4>2
    <3>3. i - k # p
      BY <1>0, <2>4
    <3>. QED
      BY <2>1, <2>4, <3>1, <3>2, <3>3
  <2>. QED
    BY <1>5, <2>2, <2>3, <2>4
<1>8. ASSUME NEW m \in Nodes, g.node[m].owner = l
      PROVE  \E i \in 1..(n + k) : v[i] = m
  <2>1. CASE \E a \in 1..k : f[a] = m
    <3>1. PICK a \in 1..k : f[a] = m
      BY <2>1
    <3>2. a + p \in 1..(n + k) /\ a + p > p /\ a + p <= p + k /\ (a + p) - p = a
      BY <1>0
    <3>3. v[a + p] = m
      BY <1>2, <3>1, <3>2
    <3>. QED
      BY <3>2, <3>3
  <2>2. CASE \A a \in 1..k : f[a] # m
    <3>1. PICK a \in 1..n : w[a] = m
      BY <1>8, <2>2 DEF Line
    <3>2. CASE a <= p
      <4>1. a \in 1..(n + k) /\ v[a] = m
        BY <1>0, <1>2, <3>1, <3>2
      <4>. QED
        BY <4>1
    <3>3. CASE a > p
      <4>1. a + k \in 1..(n + k) /\ a + k > p + k /\ (a + k) - k = a
        BY <1>0, <3>3
      <4>2. v[a + k] = m
        BY <1>2, <3>1, <4>1
      <4>. QED
        BY <4>1, <4>2
    <3>. QED
      BY <1>0, <3>2, <3>3
  <2>. QED
    BY <2>1, <2>2
<1>9. g.ctl[l].start = v[1] /\ g.ctl[l].end = v[n + k]
  <2>1. v[1] = IF p = 0 THEN f[1] ELSE w[1]
    BY <1>0, <1>2
  <2>2. v[n + k] = IF p = n THEN f[k] ELSE w[n]
    <3>1. CASE p = n
      <4>1. n + k > p /\ n + k <= p + k /\ n + k \in Int /\ (n + k) - p = k
        BY <1>0, <3>1
      <4>. QED
        BY <1>2, <3>1, <4>1
    <3>2. CASE p # n
      <4>1. n + k > p + k /\ n + k \in Int /\ (n + k) - k = n
        BY <1>0, <3>2
      <4>. QED
        BY <1>2, <3>2, <4>1
    <3>. QED
      BY <3>1, <3>2
  <2>. QED
    BY <2>1, <2>2
<1>10. n + k \in Nat /\ n + k # 0
  BY <1>0
<1>11. Line(g, l, v, n + k)
  BY <1>3, <1>4, <1>6, <1>7, <1>8, <1>9, <1>10 DEF Line
<1>. QED
  BY <1>v, <1>3, <1>10, <1>11 DEF IsLine

\* Heap g is h with node w[j] taken out of the line.
Without(h, g, l, w, n, j) ==
    /\ g.node[w[j]].owner # l
    /\ \A m \in Nodes \ {w[j]} :
          /\ g.node[m].owner = l <=> h.node[m].owner = l
          /\ h.node[m].owner = l =>
                /\ g.node[m].next = IF m = w[j - 1] THEN w[j + 1] ELSE h.node[m].next
                /\ g.node[m].prev = IF m = w[j + 1] THEN w[j - 1] ELSE h.node[m].prev
    /\ g.ctl[l].count = n - 1
    /\ g.ctl[l].start = IF j = 1 THEN w[2] ELSE w[1]
    /\ g.ctl[l].end = IF j = n THEN w[n - 1] ELSE w[n]
    /\ Place(g, l, g.ctl[l].current)
    /\ g.ctl[l].current = NoNode <=> n = 1

\* Line w without its j-th node.
CutOut(w, j) == [i \in Int |-> IF i < j THEN w[i] ELSE w[i + 1]]

LEMMA Removed ==
    ASSUME NEW h, NEW g, NEW l \in Lists, NEW w, NEW n, Line(h, l, w, n),
           NEW j \in 1..n, Without(h, g, l, w, n, j)
    PROVE  Line(g, l, CutOut(w, j), n - 1) /\ IsLine(g, l)
<1>. USE DEF Without
<1>. DEFINE v == [i \in Int |-> IF i < j THEN w[i] ELSE w[i + 1]]
<1>v. v = CutOut(w, j)
  BY DEF CutOut
<1>0. n \in Nat /\ w \in [Int -> Pointers] /\ NoNode \notin Nodes
  BY DListAssumption DEF Line
<1>1. \A a \in 1..n : w[a] \in Nodes
  BY DEF Line, Pointers
<1>2. /\ \A i \in Int : i < j => v[i] = w[i]
      /\ \A i \in Int : i >= j => v[i] = w[i + 1]
  BY <1>0
<1>3. v \in [Int -> Pointers]
  <2>1. ASSUME NEW i \in Int PROVE v[i] \in Pointers
    BY <1>0, <1>2
  <2>. QED
    BY <2>1, Zenon
<1>. HIDE DEF v
<1>4. ASSUME NEW i \in Int PROVE v[i] # NoNode <=> i \in 1..(n - 1)
  <2>1. CASE i < j
    <3>1. i \in 1..n <=> i \in 1..(n - 1)
      BY <1>0, <2>1
    <3>. QED
      BY <1>2, <2>1, <3>1 DEF Line
  <2>2. CASE i >= j
    <3>1. i + 1 \in Int /\ (i + 1 \in 1..n <=> i \in 1..(n - 1))
      BY <1>0, <2>2
    <3>. QED
      BY <1>2, <2>2, <3>1 DEF Line
  <2>. QED
    BY <1>0, <2>1, <2>2
<1>5. \A a, b \in 1..n : w[a] = w[b] => a = b
  BY DEF Line
\* Where a position of v comes from.
<1>6. ASSUME NEW i \in 1..(n - 1)
      PROVE  \/ i \in 1..n /\ i < j /\ v[i] = w[i]
             \/ i + 1 \in 1..n /\ i >= j /\ v[i] = w[i + 1]
  BY <1>0, <1>2
<1>7. ASSUME NEW i \in 1..(n - 1), NEW b \in 1..(n - 1), v[i] = v[b]
      PROVE  i = b
  <2>1. CASE i < j /\ b < j
    BY <1>0, <1>2, <1>5, <1>7, <2>1
  <2>2. CASE i < j /\ b >= j
    <3>1. w[i] = w[b + 1] /\ i \in 1..n /\ b + 1 \in 1..n
      BY <1>0, <1>2, <1>7, <2>2
    <3>2. i = b + 1
      BY <1>5, <3>1
    <3>. QED
      BY <1>0, <2>2, <3>2
  <2>3. CASE i >= j /\ b < j
    <3>1. w[i + 1] = w[b] /\ i + 1 \in 1..n /\ b \in 1..n
      BY <1>0, <1>2, <1>7, <2>3
    <3>2. i + 1 = b
      BY <1>5, <3>1
    <3>. QED
      BY <1>0, <2>3, <3>2
  <2>4. CASE i >= j /\ b >= j
    <3>1. w[i + 1] = w[b + 1] /\ i + 1 \in 1..n /\ b + 1 \in 1..n
      BY <1>0, <1>2, <1>7, <2>4
    <3>2. i + 1 = b + 1
      BY <1>5, <3>1
    <3>. QED
      BY <1>0, <3>2
  <2>. QED
    BY <1>0, <2>1, <2>2, <2>3, <2>4
<1>8. ASSUME NEW a \in 1..n, a # j
      PROVE  /\ g.node[w[a]].owner = l
             /\ g.node[w[a]].next = IF a = j - 1 THEN w[j + 1] ELSE w[a + 1]
             /\ g.node[w[a]].prev = IF a = j + 1 THEN w[j - 1] ELSE w[a - 1]
  <2>1. /\ w[a] \in Nodes /\ h.node[w[a]].owner = l
        /\ h.node[w[a]].next = w[a + 1] /\ h.node[w[a]].prev = w[a - 1]
    BY <1>1 DEF Line
  <2>2. w[a] # w[j]
    BY <1>5, <1>8
  <2>3. (w[a] = w[j - 1] <=> a = j - 1) /\ (w[a] = w[j + 1] <=> a = j + 1)
    BY <1>0 DEF Line
  <2>. QED
    BY <2>1, <2>2, <2>3
<1>9. ASSUME NEW i \in 1..(n - 1)
      PROVE  /\ g.node[v[i]].owner = l
             /\ g.node[v[i]].next = v[i + 1]
             /\ g.node[v[i]].prev = v[i - 1]
  <2>1. CASE i < j
    <3>1. i \in 1..n /\ i # j /\ i # j + 1 /\ v[i] = w[i] /\ v[i - 1] = w[i - 1]
      BY <1>0, <1>2, <2>1
    <3>2. v[i + 1] = IF i = j - 1 THEN w[j + 1] ELSE w[i + 1]
      <4>1. CASE i = j - 1
        BY <1>0, <1>2, <4>1
      <4>2. CASE i # j - 1
        BY <1>0, <1>2, <2>1, <4>2
      <4>. QED
        BY <4>1, <4>2
    <3>. QED
      BY <1>8, <3>1, <3>2
  <2>2. CASE i >= j
    <3>1. /\ i + 1 \in 1..n /\ i + 1 # j /\ i + 1 # j - 1 /\ v[i] = w[i + 1]
          /\ v[i + 1] = w[(i + 1) + 1]
      BY <1>0, <1>2, <2>2
    <3>2. v[i - 1] = IF i + 1 = j + 1 THEN w[j - 1] ELSE w[(i + 1) - 1]
      <4>1. CASE i = j
        BY <1>0, <1>2, <4>1
      <4>2. CASE i # j
        <5>1. i - 1 \in Int /\ i - 1 >= j /\ (i - 1) + 1 = (i + 1) - 1
          BY <1>0, <2>2, <4>2
        <5>2. v[i - 1] = w[(i - 1) + 1]
          BY <1>2, <5>1
        <5>. QED
          BY <1>0, <4>2, <5>1, <5>2
      <4>. QED
        BY <4>1, <4>2
    <3>. QED
      BY <1>8, <3>1, <3>2
  <2>. QED
    BY <1>0, <2>1, <2>2
<1>10. ASSUME NEW m \in Nodes, g.node[m].owner = l
       PROVE  \E i \in 1..(n - 1) : v[i] = m
  <2>1. m # w[j]
    BY <1>10
  <2>2. PICK a \in 1..n : w[a] = m
    BY <1>10, <2>1 DEF Line
  <2>3. CASE a < j
    <3>1. a \in 1..(n - 1) /\ v[a] = m
      BY <1>0, <1>2, <2>2, <2>3
    <3>. QED
      BY <3>1
  <2>4. CASE a > j
    <3>1. a - 1 \in 1..(n - 1) /\ a - 1 >= j /\ (a - 1) + 1 = a
      BY <1>0, <2>4
    <3>2. v[a - 1] = m
      BY <1>2, <2>2, <3>1
    <3>. QED
      BY <3>1, <3>2
  <2>. QED
    BY <1>0, <2>1, <2>2, <2>3, <2>4
<1>11. g.ctl[l].start = v[1] /\ g.ctl[l].end = v[n - 1]
  <2>1. v[1] = IF j = 1 THEN w[2] ELSE w[1]
    BY <1>0, <1>2
  <2>2. CASE j = n
    <3>1. v[n - 1] = w[n - 1]
      BY <1>0, <1>2, <2>2
    <3>. QED
      BY <2>1, <2>2, <3>1
  <2>3. CASE j # n
    <3>1. n - 1 \in Int /\ n - 1 >= j /\ (n - 1) + 1 = n
      BY <1>0, <2>3
    <3>2. v[n - 1] = w[n]
      BY <1>2, <3>1
    <3>. QED
      BY <2>1, <2>3, <3>2
  <2>. QED
    BY <2>2, <2>3
<1>12. n - 1 \in Nat /\ (n = 1 <=> n - 1 = 0)
  BY <1>0
<1>13. Line(g, l, v, n - 1)
  BY <1>3, <1>4, <1>7, <1>9, <1>10, <1>11, <1>12 DEF Line
<1>. QED
  BY <1>v, <1>3, <1>12, <1>13 DEF IsLine

\* The line after node w[j] has moved to just before w[i].
MovedUp(w, i, j) ==
    [k \in Int |-> IF k = i THEN w[j]
                   ELSE IF k > i /\ k <= j THEN w[k - 1] ELSE w[k]]

\* Heap g is h with node w[j] moved to just before w[i].
Earlier(h, g, l, w, n, i, j) ==
    /\ \A m \in Nodes :
          /\ g.node[m].owner = h.node[m].owner
          /\ h.node[m].owner = l =>
                /\ g.node[m].next = IF m = w[j] THEN w[i]
                                    ELSE IF m = w[j - 1] THEN w[j + 1]
                                    ELSE IF m = w[i - 1] THEN w[j]
                                    ELSE h.node[m].next
                /\ g.node[m].prev = IF m = w[j] THEN w[i - 1]
                                    ELSE IF m = w[i] THEN w[j]
                                    ELSE IF m = w[j + 1] THEN w[j - 1]
                                    ELSE h.node[m].prev
    /\ g.ctl[l].count = n
    /\ g.ctl[l].start = IF i = 1 THEN w[j] ELSE w[1]
    /\ g.ctl[l].end = IF j = n THEN w[n - 1] ELSE w[n]
    /\ g.ctl[l].current = h.ctl[l].current

LEMMA Moved ==
    ASSUME NEW h, NEW g, NEW l \in Lists, NEW w, NEW n, Line(h, l, w, n),
           NEW i \in 1..n, NEW j \in 1..n, i < j, Earlier(h, g, l, w, n, i, j)
    PROVE  MovedUp(w, i, j) \in [Int -> Pointers] /\ Line(g, l, MovedUp(w, i, j), n)
<1>. USE DEF Earlier
<1>. DEFINE v == MovedUp(w, i, j)
<1>0. n \in Nat /\ w \in [Int -> Pointers] /\ NoNode \notin Nodes
  BY DListAssumption DEF Line
<1>1. \A a \in 1..n : w[a] \in Nodes
  BY DEF Line, Pointers
<1>2. /\ v[i] = w[j]
      /\ \A k \in Int : k > i /\ k <= j => v[k] = w[k - 1]
      /\ \A k \in Int : k < i \/ k > j => v[k] = w[k]
  BY <1>0 DEF MovedUp
<1>3. v \in [Int -> Pointers]
  BY <1>0 DEF MovedUp
<1>. HIDE DEF v
<1>4. \A a, b \in 1..n : w[a] = w[b] => a = b
  BY DEF Line
<1>5. ASSUME NEW k \in Int PROVE v[k] # NoNode <=> k \in 1..n
  <2>1. CASE k = i
    BY <1>0, <1>1, <1>2, <2>1
  <2>2. CASE k > i /\ k <= j
    <3>1. k - 1 \in 1..n /\ k \in 1..n
      BY <1>0, <2>2
    <3>. QED
      BY <1>0, <1>1, <1>2, <2>2, <3>1
  <2>3. CASE k < i \/ k > j
    BY <1>2, <2>3 DEF Line
  <2>. QED
    BY <1>0, <2>1, <2>2, <2>3
\* The position of w a position of v comes from.
<1>. DEFINE from == [k \in 1..n |-> IF k = i THEN j
                                   ELSE IF k > i /\ k <= j THEN k - 1 ELSE k]
<1>6. \A k \in 1..n : from[k] \in 1..n /\ v[k] = w[from[k]]
  BY <1>0, <1>2
<1>7. \A k, b \in 1..n : from[k] = from[b] => k = b
  BY <1>0
<1>8. \A a \in 1..n : \E k \in 1..n : from[k] = a
  <2>1. ASSUME NEW a \in 1..n PROVE \E k \in 1..n : from[k] = a
    <3>1. CASE a = j
      BY <3>1
    <3>2. CASE a >= i /\ a < j
      <4>1. a + 1 \in 1..n /\ from[a + 1] = a
        BY <1>0, <3>2
      <4>. QED
        BY <4>1
    <3>3. CASE a < i \/ a > j
      <4>1. from[a] = a
        BY <1>0, <3>3
      <4>. QED
        BY <4>1
    <3>. QED
      BY <1>0, <3>1, <3>2, <3>3
  <2>. QED
    BY <2>1
<1>9. \A k, b \in 1..n : v[k] = v[b] => k = b
  <2>. HIDE DEF from
  <2>. QED
    BY <1>4, <1>6, <1>7
<1>10. ASSUME NEW m \in Nodes, g.node[m].owner = l
       PROVE  \E k \in 1..n : v[k] = m
  <2>. HIDE DEF from
  <2>1. PICK a \in 1..n : w[a] = m
    BY <1>10 DEF Line
  <2>. QED
    BY <1>6, <1>8, <2>1
<1>11. ASSUME NEW a \in 1..n
       PROVE  /\ g.node[w[a]].owner = l
              /\ g.node[w[a]].next = IF a = j THEN w[i] ELSE IF a = j - 1 THEN w[j + 1]
                                     ELSE IF a = i - 1 THEN w[j] ELSE w[a + 1]
              /\ g.node[w[a]].prev = IF a = j THEN w[i - 1] ELSE IF a = i THEN w[j]
                                     ELSE IF a = j + 1 THEN w[j - 1] ELSE w[a - 1]
  <2>1. /\ w[a] \in Nodes /\ h.node[w[a]].owner = l
        /\ h.node[w[a]].next = w[a + 1] /\ h.node[w[a]].prev = w[a - 1]
    BY <1>1 DEF Line
  <2>2. /\ w[a] = w[j] <=> a = j
        /\ w[a] = w[i] <=> a = i
        /\ w[a] = w[j - 1] <=> a = j - 1
        /\ w[a] = w[j + 1] <=> a = j + 1
        /\ w[a] = w[i - 1] <=> a = i - 1
    <3>1. ASSUME NEW b \in Int PROVE w[a] = w[b] <=> a = b
      <4>1. CASE b \in 1..n
        BY <1>4, <4>1
      <4>2. CASE b \notin 1..n
        BY <1>1, <4>2 DEF Line
      <4>. QED
        BY <4>1, <4>2
    <3>2. j - 1 \in Int /\ j + 1 \in Int /\ i - 1 \in Int /\ i \in Int /\ j \in Int
      BY <1>0
    <3>. QED
      BY <3>1, <3>2
  <2>. QED
    BY <2>1, <2>2
<1>12. ASSUME NEW k \in 1..n
       PROVE  /\ g.node[v[k]].owner = l
              /\ g.node[v[k]].next = v[k + 1]
              /\ g.node[v[k]].prev = v[k - 1]
  <2>1. v[k] = w[from[k]] /\ from[k] \in 1..n
    BY <1>6
  <2>2. CASE k = i
    <3>1. from[k] = j /\ v[k + 1] = w[i] /\ v[k - 1] = w[i - 1]
      BY <1>0, <1>2, <2>2
    <3>. QED
      BY <1>11, <2>1, <3>1
  <2>3. CASE k > i /\ k <= j
    <3>1. from[k] = k - 1 /\ k - 1 # j /\ k - 1 # i - 1 /\ k - 1 # j + 1
      BY <1>0, <2>3
    <3>2. v[k + 1] = IF k - 1 = j - 1 THEN w[j + 1] ELSE w[(k - 1) + 1]
      BY <1>0, <1>2, <2>3
    <3>3. v[k - 1] = IF k - 1 = i THEN w[j] ELSE w[(k - 1) - 1]
      BY <1>0, <1>2, <2>3
    <3>. QED
      BY <1>11, <2>1, <3>1, <3>2, <3>3
  <2>4. CASE k < i
    <3>1. from[k] = k /\ k # j /\ k # j - 1 /\ k # i /\ k # j + 1
      BY <1>0, <2>4
    <3>2. v[k + 1] = IF k = i - 1 THEN w[j] ELSE w[k + 1]
      BY <1>0, <1>2, <2>4
    <3>3. v[k - 1] = w[k - 1]
      BY <1>0, <1>2, <2>4
    <3>. QED
      BY <1>11, <2>1, <3>1, <3>2, <3>3
  <2>5. CASE k > j
    <3>1. from[k] = k /\ k # j /\ k # j - 1 /\ k # i - 1 /\ k # i
      BY <1>0, <2>5
    <3>2. v[k + 1] = w[k + 1]
      BY <1>0, <1>2, <2>5
    <3>3. v[k - 1] = IF k = j + 1 THEN w[j - 1] ELSE w[k - 1]
      <4>1. CASE k = j + 1
        <5>1. k - 1 \in Int /\ k - 1 > i /\ k - 1 <= j /\ (k - 1) - 1 = j - 1
          BY <1>0, <4>1
        <5>. QED
          BY <1>2, <4>1, <5>1
      <4>2. CASE k # j + 1
        BY <1>0, <1>2, <2>5, <4>2
      <4>. QED
        BY <4>1, <4>2
    <3>. QED
      BY <1>11, <2>1, <3>1, <3>2, <3>3
  <2>. QED
    BY <1>0, <2>2, <2>3, <2>4, <2>5
<1>13. g.ctl[l].start = v[1] /\ g.ctl[l].end = v[n]
  <2>1. v[1] = IF i = 1 THEN w[j] ELSE w[1]
    BY <1>0, <1>2
  <2>2. v[n] = IF j = n THEN w[n - 1] ELSE w[n]
    BY <1>0, <1>2
  <2>. QED
    BY <2>1, <2>2
<1>14. Place(g, l, g.ctl[l].current) /\ (g.ctl[l].current = NoNode <=> n = 0)
  BY <1>0 DEF Line, Place, Pointers
<1>15. Line(g, l, v, n)
  <2>. HIDE DEF from
  <2>. QED
    BY <1>0, <1>3, <1>5, <1>9, <1>10, <1>12, <1>13, <1>14 DEF Line
<1>. QED
  BY <1>3, <1>15 DEF v
-----------------------------------------------------------------------------
(* Lines and heaps *)

\* An item is somewhere on the line of its list.
LEMMA OnLine ==
    ASSUME NEW h, Good(h), NEW l \in Lists, NEW x \in Nodes, h.node[x].owner = l
    PROVE  \E n \in Nat, w \in [Int -> Pointers] :
              Line(h, l, w, n) /\ \E i \in 1..n : w[i] = x
<1>1. PICK n \in Nat, w \in [Int -> Pointers] : Line(h, l, w, n)
  BY DEF Good, IsLine
<1>2. \E i \in 1..n : w[i] = x
  BY <1>1 DEF Line
<1>. QED
  BY <1>1, <1>2

\* The neighbours of an item are items of the list or NULL.
LEMMA Neighbours ==
    ASSUME NEW h, Good(h), NEW l \in Lists, NEW x \in Nodes, h.node[x].owner = l
    PROVE  Place(h, l, h.node[x].next) /\ Place(h, l, h.node[x].prev)
<1>1. PICK n \in Nat, w \in [Int -> Pointers] :
         Line(h, l, w, n) /\ \E i \in 1..n : w[i] = x
  BY OnLine
<1>2. PICK i \in 1..n : w[i] = x
  BY <1>1
<1>3. ASSUME NEW k \in Int PROVE Place(h, l, w[k])
  BY <1>1 DEF Line, Place
<1>4. h.node[x].next = w[i + 1] /\ h.node[x].prev = w[i - 1]
  BY <1>1, <1>2 DEF Line
<1>. QED
  BY <1>3, <1>4

\* So are the ends and the cursor of a list.
LEMMA Ends ==
    ASSUME NEW h, Good(h), NEW l \in Lists
    PROVE  /\ Place(h, l, h.ctl[l].start) /\ Place(h, l, h.ctl[l].end)
           /\ Place(h, l, h.ctl[l].current)
           /\ h.ctl[l].current = NoNode <=> h.ctl[l].count = 0
           /\ h.ctl[l].start = NoNode <=> h.ctl[l].count = 0
           /\ h.ctl[l].end = NoNode <=> h.ctl[l].count = 0
<1>1. PICK n \in Nat, w \in [Int -> Pointers] : Line(h, l, w, n)
  BY DEF Good, IsLine
<1>2. ASSUME NEW k \in Int PROVE Place(h, l, w[k])
  BY <1>1 DEF Line, Place
<1>3. (w[1] = NoNode <=> n = 0) /\ (w[n] = NoNode <=> n = 0)
  BY <1>1 DEF Line
<1>. QED
  BY <1>1, <1>2, <1>3 DEF Line

\* A line is no longer than there are nodes.
LEMMA LineFits ==
    ASSUME NEW h, NEW l, NEW w, NEW n, Line(h, l, w, n)
    PROVE  n \in 0..Cardinality(Nodes)
<1>1. IsFiniteSet(Nodes) /\ Cardinality(Nodes) \in Nat /\ n \in Nat
  BY DListAssumption, FS_CardinalityType DEF Line
<1>2. IsFiniteSet(1..n) /\ Cardinality(1..n) = n
  BY <1>1, FS_Interval
<1>. DEFINE f == [i \in 1..n |-> w[i]]
<1>3. \A i \in 1..n : w[i] \in Nodes
  BY DEF Line, Pointers
<1>4. f \in [1..n -> Nodes]
  BY <1>3
<1>5. \A i, j \in 1..n : f[i] = f[j] => i = j
  BY DEF Line
<1>6. CASE Cardinality(Nodes) < n
  <2>. HIDE DEF f
  <2>1. \E i, j \in 1..n : i # j /\ f[i] = f[j]
    BY <1>1, <1>2, <1>4, <1>6, FS_PigeonHole
  <2>. QED
    BY <1>5, <2>1
<1>. QED
  BY <1>1, <1>6

\* A good heap is a heap.
LEMMA GoodHeap ==
    ASSUME NEW h, Good(h)
    PROVE  h \in Heaps
<1>1. ASSUME NEW l \in Lists PROVE h.ctl[l] \in ControlNode
  <2>1. PICK n \in Nat, w \in [Int -> Pointers] : Line(h, l, w, n)
    BY DEF Good, IsLine
  <2>2. h.ctl[l].count \in 0..Cardinality(Nodes)
    <3>1. n \in 0..Cardinality(Nodes)
      BY <2>1, LineFits
    <3>. QED
      BY <2>1, <3>1 DEF Line
  <2>3. h.ctl[l] \in RawControl
    BY DEF Good, Typed
  <2>. QED
    BY <2>2, <2>3 DEF RawControl, ControlNode
<1>2. h.ctl \in [Lists -> ControlNode]
  BY <1>1 DEF Good, Typed
<1>. QED
  BY <1>2 DEF Good, Typed, Heaps, Links

-----------------------------------------------------------------------------
(* The pointer surgery keeps a heap good *)

\* The gap a mode names is between neighbours of the line.
LEMMA GapOnLine ==
    ASSUME NEW h, NEW l, NEW w, NEW n, Line(h, l, w, n), NEW i \in 1..n,
           NEW g, g.ctl[l] = h.ctl[l], g.node[w[i]].next = w[i + 1],
           g.node[w[i]].prev = w[i - 1], NEW mode \in Modes
    PROVE  \E p \in 0..n : Gap(g, l, w[i], mode) = <<w[p], w[p + 1]>>
<1>0. n \in Nat /\ w[0] = NoNode /\ w[n + 1] = NoNode
      /\ h.ctl[l].start = w[1] /\ h.ctl[l].end = w[n]
  BY DEF Line
<1>1. (w[1] = w[i] <=> i = 1) /\ (w[n] = w[i] <=> i = n)
  BY <1>0 DEF Line
<1>2. CASE mode = "InsertAtStart"
  <2>1. Gap(g, l, w[i], mode) = <<w[0], w[0 + 1]>>
    BY <1>0, <1>2 DEF Gap
  <2>. QED
    BY <1>0, <2>1
<1>3. CASE mode = "InsertBefore"
  <2>1. Gap(g, l, w[i], mode) = <<w[i - 1], w[(i - 1) + 1]>>
    <3>1. CASE i = 1
      BY <1>0, <1>1, <1>3, <3>1 DEF Gap, GapBefore
    <3>2. CASE i # 1
      BY <1>0, <1>1, <1>3, <3>2 DEF Gap, GapBefore
    <3>. QED
      BY <3>1, <3>2
  <2>2. i - 1 \in 0..n
    BY <1>0
  <2>. QED
    BY <2>1, <2>2
<1>4. CASE mode = "InsertAfter"
  <2>1. Gap(g, l, w[i], mode) = <<w[i], w[i + 1]>>
    <3>1. CASE i = n
      BY <1>0, <1>1, <1>4, <3>1 DEF Gap, GapAfter
    <3>2. CASE i # n
      BY <1>0, <1>1, <1>4, <3>2 DEF Gap, GapAfter
    <3>. QED
      BY <3>1, <3>2
  <2>2. i \in 0..n
    BY <1>0
  <2>. QED
    BY <2>1, <2>2
<1>5. CASE mode = "AppendToList"
  <2>1. Gap(g, l, w[i], mode) = <<w[n], w[n + 1]>>
    BY <1>0, <1>5 DEF Gap
  <2>. QED
    BY <1>0, <2>1
<1>. QED
  BY <1>2, <1>3, <1>4, <1>5 DEF Modes
\* Heap h0 is h with free nodes f[1], ..., f[k] made into a chain of list l that
\* nothing points to yet.
Fresh(h, h0, l, f, k) ==
    /\ Typed(h0) /\ h0.ctl = h.ctl
    /\ \A i \in 1..k :
          /\ f[i] \in Nodes /\ h.node[f[i]].owner = NoList
          /\ h0.node[f[i]].owner = l
          /\ h0.node[f[i]].next = IF i < k THEN f[i + 1] ELSE NoNode
          /\ h0.node[f[i]].prev = IF i > 1 THEN f[i - 1] ELSE NoNode
    /\ \A i, j \in 1..k : f[i] = f[j] => i = j
    /\ \A m \in Nodes : (\A i \in 1..k : f[i] # m) => h0.node[m] = h.node[m]

\* Heap g is h0 with the chain linked into the gap between a and b of list l.
Entered(h0, g, l, f, k, a, b) ==
    LET c == h0.ctl[l]
        alone == c.current = NoNode
    IN  /\ g.ctl \in [Lists -> RawControl] /\ g = [node |-> g.node, ctl |-> g.ctl]
        /\ \A x \in Lists \ {l} : g.ctl[x] = h0.ctl[x]
        /\ g.node = IF alone THEN h0.node ELSE Join(Join(h0.node, a, f[1]), f[k], b)
        /\ g.ctl[l].count = c.count + k
        /\ g.ctl[l].start = IF alone \/ a = NoNode THEN f[1] ELSE c.start
        /\ g.ctl[l].end = IF alone \/ b = NoNode THEN f[k] ELSE c.end
        /\ g.ctl[l].current \in {f[1], c.current}
        /\ alone => g.ctl[l].current = f[1]

\* Heap g is h with a chain of fresh nodes linked into the gap a mode names, or
\* into an empty list.
Entering(h, g, l, k, f, h0) ==
    /\ k \in Nat \ {0} /\ Fresh(h, h0, l, f, k)
    /\ \E c \in Pointers, mode \in Modes, at \in {h, h0} :
          /\ Place(h, l, c) /\ (c = NoNode => h.ctl[l].current = NoNode)
          /\ Entered(h0, g, l, f, k, Gap(at, l, c, mode)[1], Gap(at, l, c, mode)[2])

\* Heap g has the chain in one place of the line w of length n, and every item as
\* it was.
Gained(h, g, l, k, f, h0, n, w) ==
    /\ Good(g) /\ Elsewhere(h, g, {l})
    /\ \E p \in 0..n : Line(g, l, Spliced(w, p, k, f), n + k)
    /\ \A m \in Nodes : SameItem(g.node[m], h0.node[m])
    /\ \A m \in Nodes : (\A i \in 1..k : f[i] # m) => SameItem(g.node[m], h.node[m])
    /\ g.ctl[l].current \in {f[1], h.ctl[l].current}
    /\ n = 0 => g.ctl[l].current = f[1]

\* Linking the chain in makes a good heap.
LEMMA EnteredLine ==
    ASSUME NEW h, Good(h), NEW l \in Lists, NEW k, NEW f, NEW h0, NEW g,
           Entering(h, g, l, k, f, h0), NEW n, NEW w, Line(h, l, w, n)
    PROVE  Gained(h, g, l, k, f, h0, n, w)
<1>0. k \in Nat \ {0} /\ n \in Nat /\ w \in [Int -> Pointers]
  BY DEF Entering, Line
<1>. USE <1>0
<1>p. PICK c \in Pointers, mode \in Modes, at \in {h, h0} :
         /\ Place(h, l, c) /\ (c = NoNode => h.ctl[l].current = NoNode)
         /\ Entered(h0, g, l, f, k, Gap(at, l, c, mode)[1], Gap(at, l, c, mode)[2])
  BY DEF Entering
<1>. DEFINE alone == h.ctl[l].current = NoNode
            a == Gap(at, l, c, mode)[1]
            b == Gap(at, l, c, mode)[2]
<1>1. NoNode \notin Nodes /\ NoList \notin Lists
  BY DListAssumption
<1>2. /\ h.node \in [Nodes -> Links] /\ h.ctl \in [Lists -> RawControl]
      /\ h0.node \in [Nodes -> Links] /\ h0.ctl = h.ctl
  BY DEF Good, Typed, Fresh, Entering
<1>3. /\ \A i \in 1..k :
            /\ f[i] \in Nodes /\ h.node[f[i]].owner = NoList
            /\ h0.node[f[i]].owner = l
            /\ h0.node[f[i]].next = IF i < k THEN f[i + 1] ELSE NoNode
            /\ h0.node[f[i]].prev = IF i > 1 THEN f[i - 1] ELSE NoNode
      /\ \A i, j \in 1..k : f[i] = f[j] => i = j
      /\ \A m \in Nodes : (\A i \in 1..k : f[i] # m) => h0.node[m] = h.node[m]
  BY DEF Fresh, Entering
<1>4. Line(h, l, w, n)
  OBVIOUS
<1>5. /\ h.ctl[l].count = n /\ h.ctl[l].start = w[1] /\ h.ctl[l].end = w[n]
      /\ (h.ctl[l].current = NoNode <=> n = 0) /\ Place(h, l, h.ctl[l].current)
  BY <1>4 DEF Line
\* A node of the list is not one of the chain, and linking starts from it as it was.
<1>6. ASSUME NEW m \in Nodes, h.node[m].owner \in Lists
      PROVE  h0.node[m] = h.node[m] /\ \A i \in 1..k : f[i] # m
  <2>1. \A i \in 1..k : f[i] # m
    BY <1>1, <1>3, <1>6
  <2>. QED
    BY <1>3, <2>1
\* The gap, in an empty list the one there is.
<1>7. PICK p \in 0..n : ~alone => a = w[p] /\ b = w[p + 1]
  <2>1. CASE alone
    BY <2>1
  <2>2. CASE ~alone
    <3>1. c \in Nodes /\ h.node[c].owner = l
      BY <1>1, <1>p, <2>2 DEF Place, Pointers
    <3>2. PICK i \in 1..n : w[i] = c
      BY <1>4, <3>1 DEF Line
    <3>3. at.node[w[i]].next = w[i + 1] /\ at.node[w[i]].prev = w[i - 1]
      BY <1>4, <1>6, <3>1, <3>2 DEF Line
    <3>4. at.ctl[l] = h.ctl[l]
      BY <1>2
    <3>5. \E p \in 0..n : Gap(at, l, w[i], mode) = <<w[p], w[p + 1]>>
      BY <1>4, <3>3, <3>4, GapOnLine
    <3>. QED
      BY <3>2, <3>5
  <2>. QED
    BY <2>1, <2>2
<1>8. alone => n = 0 /\ p = 0 /\ w[p] = NoNode /\ w[p + 1] = NoNode
  BY <1>4, <1>5, <1>7 DEF Line
<1>9. /\ g.ctl \in [Lists -> RawControl] /\ g = [node |-> g.node, ctl |-> g.ctl]
      /\ \A x \in Lists \ {l} : g.ctl[x] = h.ctl[x]
      /\ g.node = IF alone THEN h0.node ELSE Join(Join(h0.node, a, f[1]), f[k], b)
      /\ g.ctl[l].count = n + k
      /\ g.ctl[l].start = IF alone \/ a = NoNode THEN f[1] ELSE w[1]
      /\ g.ctl[l].end = IF alone \/ b = NoNode THEN f[k] ELSE w[n]
      /\ g.ctl[l].current \in {f[1], h.ctl[l].current}
      /\ alone => g.ctl[l].current = f[1]
  BY <1>2, <1>5, <1>p DEF Entered
<1>. HIDE DEF a, b
<1>10. ASSUME NEW i \in Int
       PROVE  /\ w[i] \in Pointers /\ \A j \in 1..k : w[i] # f[j]
              /\ w[i] # NoNode => h.node[w[i]].owner = l /\ h0.node[w[i]].owner = l
  <2>1. CASE w[i] = NoNode
    BY <1>1, <1>3, <2>1 DEF Pointers
  <2>2. CASE w[i] # NoNode
    <3>1. i \in 1..n /\ w[i] \in Nodes
      BY <1>4, <2>2 DEF Line, Pointers
    <3>2. h.node[w[i]].owner = l
      BY <1>4, <3>1 DEF Line
    <3>. QED
      BY <1>6, <3>1, <3>2 DEF Pointers
  <2>. QED
    BY <2>1, <2>2
<1>11. p \in Int /\ p + 1 \in Int /\ 1 \in 1..k /\ k \in 1..k
  OBVIOUS
\* The nodes once the chain is linked.
<1>12. /\ g.node \in [Nodes -> Links]
       /\ \A m \in Nodes :
             /\ g.node[m].owner = h0.node[m].owner
             /\ g.node[m].next = IF ~alone /\ m = f[k] THEN w[p + 1]
                                 ELSE IF m = w[p] THEN f[1] ELSE h0.node[m].next
             /\ g.node[m].prev = IF m = w[p + 1] THEN f[k]
                                 ELSE IF ~alone /\ m = f[1] THEN w[p] ELSE h0.node[m].prev
  <2>1. CASE alone
    <3>1. g.node = h0.node
      BY <1>9, <2>1
    <3>2. \A m \in Nodes : m # w[p] /\ m # w[p + 1]
      BY <1>1, <1>8, <2>1
    <3>. QED
      BY <1>2, <2>1, <3>1, <3>2
  <2>2. CASE ~alone
    <3>. DEFINE j1 == Join(h0.node, w[p], f[1])
                j2 == Join(j1, f[k], w[p + 1])
    <3>1. g.node = j2
      BY <1>7, <1>9, <2>2
    <3>2. /\ f[1] \in Pointers /\ h0.node[f[1]].owner # NoList /\ f[1] \in Nodes
          /\ f[k] \in Pointers /\ h0.node[f[k]].owner # NoList /\ f[k] \in Nodes
      BY <1>1, <1>3, <1>11 DEF Pointers
    <3>3. /\ w[p] \in Pointers /\ w[p] # f[1] /\ w[p + 1] \in Pointers /\ w[p + 1] # f[k]
          /\ (w[p] # NoNode => h0.node[w[p]].owner # NoList)
          /\ (w[p + 1] # NoNode => h0.node[w[p + 1]].owner # NoList)
      BY <1>1, <1>10, <1>11
    <3>4. /\ j1 \in [Nodes -> Links]
          /\ \A m \in Nodes :
                /\ j1[m].owner = h0.node[m].owner
                /\ j1[m].next = IF m = w[p] THEN f[1] ELSE h0.node[m].next
                /\ j1[m].prev = IF m = f[1] THEN w[p] ELSE h0.node[m].prev
      BY <1>2, <3>2, <3>3, JoinFields
    <3>. HIDE DEF j1
    <3>5. j1[f[k]].owner # NoList /\ (w[p + 1] # NoNode => j1[w[p + 1]].owner # NoList)
      BY <3>2, <3>3, <3>4 DEF Pointers
    <3>6. /\ j2 \in [Nodes -> Links]
          /\ \A m \in Nodes :
                /\ j2[m].owner = j1[m].owner
                /\ j2[m].next = IF m = f[k] THEN w[p + 1] ELSE j1[m].next
                /\ j2[m].prev = IF m = w[p + 1] THEN f[k] ELSE j1[m].prev
      BY <3>2, <3>3, <3>4, <3>5, JoinFields
    <3>. HIDE DEF j2
    <3>. QED
      BY <2>2, <3>1, <3>4, <3>6
  <2>. QED
    BY <2>1, <2>2
<1>i. ASSUME NEW m \in Nodes
      PROVE  SameItem(g.node[m], h0.node[m])
  <2>1. CASE alone
    BY <1>9, <2>1 DEF SameItem
  <2>2. CASE ~alone
    <3>. DEFINE j1 == Join(h0.node, w[p], f[1])
    <3>1. g.node = Join(j1, f[k], w[p + 1])
      BY <1>7, <1>9, <2>2
    <3>2. /\ f[1] \in Pointers /\ h0.node[f[1]].owner # NoList /\ w[p] \in Pointers
          /\ w[p] # f[1] /\ (w[p] # NoNode => h0.node[w[p]].owner # NoList)
      BY <1>1, <1>3, <1>10, <1>11 DEF Pointers
    <3>3. j1 \in [Nodes -> Links]
      BY <1>2, <3>2, JoinFields
    <3>4. SameItem(j1[m], h0.node[m])
      BY <1>2, <3>2, JoinItems
    <3>. HIDE DEF j1
    <3>5. SameItem(g.node[m], j1[m])
      <4>1. f[k] # w[p + 1]
        BY <1>10, <1>11
      <4>. QED
        BY <3>1, <3>3, <4>1, JoinItems
    <3>. QED
      BY <3>4, <3>5 DEF SameItem
  <2>. QED
    BY <2>1, <2>2
<1>13. Typed(g)
  BY <1>9, <1>12 DEF Typed
<1>c. n = 0 => g.ctl[l].current = f[1]
  BY <1>5, <1>9
<1>. HIDE DEF alone
<1>14. Elsewhere(h, g, {l})
  <2>1. ASSUME NEW x \in Lists \ {l}, NEW m \in Nodes
        PROVE  /\ g.node[m].owner = x <=> h.node[m].owner = x
               /\ h.node[m].owner = x => /\ g.node[m].next = h.node[m].next
                                         /\ g.node[m].prev = h.node[m].prev
    <3>1. CASE \E i \in 1..k : f[i] = m
      <4>1. h.node[m].owner = NoList /\ g.node[m].owner = l
        BY <1>3, <1>12, <3>1
      <4>. QED
        BY <1>1, <4>1
    <3>2. CASE \A i \in 1..k : f[i] # m
      <4>1. h0.node[m] = h.node[m] /\ m # f[1] /\ m # f[k]
        BY <1>3, <1>11, <3>2
      <4>2. h.node[m].owner = x => m # w[p] /\ m # w[p + 1]
        BY <1>1, <1>10, <1>11
      <4>. QED
        BY <1>12, <4>1, <4>2
    <3>. QED
      BY <3>1, <3>2
  <2>. QED
    BY <1>9, <2>1 DEF Elsewhere
<1>15. Between(h, g, l, w, n, p, k, f)
  <2>1. \A i \in 1..k : f[i] \in Nodes /\ h.node[f[i]].owner # l
    BY <1>1, <1>3
  <2>2. ASSUME NEW i \in 1..k
        PROVE  /\ g.node[f[i]].owner = l
               /\ g.node[f[i]].next = IF i < k THEN f[i + 1] ELSE w[p + 1]
               /\ g.node[f[i]].prev = IF i > 1 THEN f[i - 1] ELSE w[p]
    <3>1. /\ f[i] \in Nodes /\ f[i] # w[p] /\ f[i] # w[p + 1]
          /\ (f[i] = f[k] <=> i = k) /\ (f[i] = f[1] <=> i = 1)
      BY <1>3, <1>10, <1>11
    <3>2. /\ h0.node[f[i]].owner = l
          /\ h0.node[f[i]].next = IF i < k THEN f[i + 1] ELSE NoNode
          /\ h0.node[f[i]].prev = IF i > 1 THEN f[i - 1] ELSE NoNode
      BY <1>3
    <3>3. /\ g.node[f[i]].owner = l
          /\ g.node[f[i]].next = IF ~alone /\ i = k THEN w[p + 1] ELSE h0.node[f[i]].next
          /\ g.node[f[i]].prev = IF ~alone /\ i = 1 THEN w[p] ELSE h0.node[f[i]].prev
      BY <1>12, <3>1, <3>2
    <3>. QED
      BY <1>8, <3>2, <3>3
  <2>3. ASSUME NEW m \in Nodes, \A i \in 1..k : f[i] # m
        PROVE  /\ g.node[m].owner = l <=> h.node[m].owner = l
               /\ h.node[m].owner = l =>
                     /\ g.node[m].next = IF m = w[p] THEN f[1] ELSE h.node[m].next
                     /\ g.node[m].prev = IF m = w[p + 1] THEN f[k] ELSE h.node[m].prev
    <3>1. h0.node[m] = h.node[m] /\ m # f[1] /\ m # f[k]
      BY <1>3, <1>11, <2>3
    <3>. QED
      BY <1>12, <3>1
  <2>4. /\ g.ctl[l].start = IF p = 0 THEN f[1] ELSE w[1]
        /\ g.ctl[l].end = IF p = n THEN f[k] ELSE w[n]
    <3>1. (w[p] = NoNode <=> p = 0) /\ (w[p + 1] = NoNode <=> p = n)
      BY <1>4 DEF Line
    <3>. QED
      BY <1>7, <1>8, <1>9, <3>1
  <2>5. Place(g, l, g.ctl[l].current) /\ g.ctl[l].current # NoNode
    <3>1. CASE g.ctl[l].current = f[1]
      <4>1. f[1] \in Nodes /\ g.node[f[1]].owner = l
        BY <1>11, <2>1, <2>2
      <4>. QED
        BY <1>1, <3>1, <4>1 DEF Place, Pointers
    <3>2. CASE g.ctl[l].current # f[1]
      <4>1. g.ctl[l].current = h.ctl[l].current /\ ~alone
        BY <1>9, <3>2
      <4>2. h.ctl[l].current \in Nodes /\ h.node[h.ctl[l].current].owner = l
        BY <1>5, <4>1 DEF Place, Pointers, alone
      <4>3. g.node[h.ctl[l].current].owner = l
        BY <1>6, <1>12, <4>2
      <4>. QED
        BY <1>1, <4>1, <4>2, <4>3 DEF Place, Pointers
    <3>. QED
      BY <3>1, <3>2
  <2>. QED
    BY <1>3, <1>9, <2>1, <2>2, <2>3, <2>4, <2>5 DEF Between
<1>16. Line(g, l, Spliced(w, p, k, f), n + k) /\ IsLine(g, l)
  BY <1>4, <1>15, Inserted
<1>17. Good(g)
  BY <1>13, <1>14, <1>16, StaysGood
<1>18. ASSUME NEW m \in Nodes, \A i \in 1..k : f[i] # m
       PROVE  SameItem(g.node[m], h.node[m])
  BY <1>3, <1>i, <1>18
<1>. QED
  BY <1>9, <1>14, <1>16, <1>17, <1>18, <1>i, <1>c DEF Gained

\* The chain of one node.
Lone(x) == [i \in 1..1 |-> x]

\* InsertObject puts a free node on the list: the heap is that of the new node
\* linked into the gap.
LEMMA EnterFits ==
    ASSUME NEW h, Good(h), NEW l \in Lists, NEW n \in Nodes,
           h.node[n].owner = NoList, NEW tag \in Tags, NEW data \in Objects,
           NEW c \in Pointers, NEW mode \in Modes, NEW makeCurrent \in BOOLEAN
    PROVE  \E h0 : /\ Fresh(h, h0, l, Lone(n), 1)
                   /\ Entered(h0, Enter(h, l, n, tag, data, c, mode, makeCurrent), l,
                              Lone(n), 1, Gap(h0, l, c, mode)[1], Gap(h0, l, c, mode)[2])
                   /\ h0.node[n].tag = tag /\ h0.node[n].data = data
<1>. DEFINE new == [NoLink EXCEPT !.owner = l, !.tag = tag, !.data = data]
            h0 == [h EXCEPT !.node[n] = new]
            gap == Gap(h0, l, c, mode)
            alone == h.ctl[l].current = NoNode
            h1 == IF alone THEN [h0 EXCEPT !.ctl[l].start = n, !.ctl[l].end = n]
                           ELSE Splice(h0, l, n, n, gap[1], gap[2])
            e == [h1 EXCEPT !.ctl[l].count = @ + 1,
                            !.ctl[l].current = IF alone \/ makeCurrent THEN n ELSE @]
            f == Lone(n)
<1>0. Enter(h, l, n, tag, data, c, mode, makeCurrent) = e
  BY DEF Enter
<1>1. n \in Pointers /\ f[1] = n /\ \A i \in 1..1 : i = 1
  BY DEF Pointers, Lone
<1>2. Typed(h) /\ h.ctl \in [Lists -> RawControl]
  BY DEF Good, Typed
<1>3. /\ new \in LinkNode /\ new.owner = l /\ new.next = NoNode /\ new.prev = NoNode
      /\ new.tag = tag /\ new.data = data
  BY DEF NoLink, LinkNode, Pointers
<1>. HIDE DEF new
<1>4. /\ Typed(h0) /\ h0.ctl = h.ctl
      /\ h0.node[n] = new /\ \A m \in Nodes \ {n} : h0.node[m] = h.node[m]
  BY <1>2, <1>3 DEF Links, Typed
<1>. HIDE DEF h0, gap, f
<1>5. Fresh(h, h0, l, f, 1)
  BY <1>1, <1>3, <1>4 DEF Fresh
<1>6. /\ h1.ctl \in [Lists -> RawControl] /\ h1 = [node |-> h1.node, ctl |-> h1.ctl]
      /\ h1.node = IF alone THEN h0.node
                            ELSE Join(Join(h0.node, gap[1], n), n, gap[2])
      /\ \A x \in Lists \ {l} : h1.ctl[x] = h0.ctl[x]
      /\ h1.ctl[l].start = IF alone \/ gap[1] = NoNode THEN n ELSE h0.ctl[l].start
      /\ h1.ctl[l].end = IF alone \/ gap[2] = NoNode THEN n ELSE h0.ctl[l].end
      /\ h1.ctl[l].count = h0.ctl[l].count /\ h1.ctl[l].current = h0.ctl[l].current
  <2>1. CASE alone
    <3>1. h1 = [h0 EXCEPT !.ctl[l].start = n, !.ctl[l].end = n]
      BY <2>1
    <3>. HIDE DEF h1
    <3>2. Typed(h0) /\ n \in Pointers
      BY <1>1, <1>4
    <3>3. /\ Typed(h1) /\ h1.node = h0.node
          /\ \A x \in Lists \ {l} : h1.ctl[x] = h0.ctl[x]
          /\ h1.ctl[l].start = n /\ h1.ctl[l].end = n
          /\ h1.ctl[l].count = h0.ctl[l].count /\ h1.ctl[l].current = h0.ctl[l].current
      BY <3>1, <3>2 DEF Typed, RawControl
    <3>. QED
      BY <2>1, <3>3 DEF Typed
  <2>2. CASE ~alone
    <3>. DEFINE x == IF gap[1] = NoNode THEN n ELSE h0.ctl[l].start
                y == IF gap[2] = NoNode THEN n ELSE h0.ctl[l].end
    <3>1. /\ h1.ctl = SetEnds(h0.ctl, l, x, y)
          /\ h1 = [node |-> h1.node, ctl |-> h1.ctl]
          /\ h1.node = Join(Join(h0.node, gap[1], n), n, gap[2])
      BY <1>2, <1>4, <2>2 DEF Splice, SetEnds
    <3>. HIDE DEF h1
    <3>2. x \in Pointers /\ y \in Pointers
      BY <1>1, <1>2, <1>4 DEF RawControl
    <3>3. /\ h1.ctl \in [Lists -> RawControl]
          /\ \A z \in Lists \ {l} : h1.ctl[z] = h0.ctl[z]
          /\ h1.ctl[l].start = x /\ h1.ctl[l].end = y
          /\ h1.ctl[l].count = h0.ctl[l].count /\ h1.ctl[l].current = h0.ctl[l].current
      <4>. HIDE DEF x, y
      <4>. QED
        BY <1>2, <1>4, <3>1, <3>2, ControlFields
    <3>. QED
      BY <2>2, <3>1, <3>3
  <2>. QED
    BY <2>1, <2>2
<1>. HIDE DEF h1
<1>7. Entered(h0, e, l, f, 1, gap[1], gap[2])
  <2>. DEFINE y == IF alone \/ makeCurrent THEN n ELSE h1.ctl[l].current
              more == h0.ctl[l].count + 1
  <2>1. /\ e = [h1 EXCEPT !.ctl[l].count = more, !.ctl[l].current = y]
        /\ more \in Nat /\ y \in Pointers
    BY <1>1, <1>2, <1>4, <1>6 DEF RawControl
  <2>2. y \in {n, h0.ctl[l].current} /\ (alone => y = n)
    BY <1>6
  <2>. HIDE DEF y, e, more, alone
  <2>3. h1 \in [node : {h1.node}, ctl : [Lists -> RawControl]]
    BY <1>6
  <2>4. e \in [node : {h1.node}, ctl : [Lists -> RawControl]]
        /\ (\A z \in Lists \ {l} : e.ctl[z] = h1.ctl[z])
        /\ e.ctl[l].start = h1.ctl[l].start /\ e.ctl[l].end = h1.ctl[l].end
        /\ e.ctl[l].count = more /\ e.ctl[l].current = y
    BY <2>1, <2>3 DEF RawControl
  <2>5. /\ e.node = h1.node /\ e.ctl \in [Lists -> RawControl]
        /\ e = [node |-> e.node, ctl |-> e.ctl]
    BY <2>4
  <2>. QED
    BY <1>1, <1>4, <1>6, <2>2, <2>4, <2>5 DEF Entered, more, alone
<1>. HIDE DEF e
<1>8. Entered(h0, Enter(h, l, n, tag, data, c, mode, makeCurrent), l, f, 1,
              Gap(h0, l, c, mode)[1], Gap(h0, l, c, mode)[2])
  BY <1>0, <1>7 DEF gap
<1>9. h0.node[n].tag = tag /\ h0.node[n].data = data
  BY <1>3, <1>4
<1>. QED
  BY <1>5, <1>8, <1>9 DEF f

\* The line after an insertion, and what becomes of items and cursor.
LEMMA EnterLine ==
    ASSUME NEW h, Good(h), NEW l \in Lists, NEW x \in Nodes,
           h.node[x].owner = NoList, NEW tag \in Tags, NEW data \in Objects,
           NEW c \in Pointers, Place(h, l, c),
           c = NoNode => h.ctl[l].current = NoNode,
           NEW mode \in Modes, NEW makeCurrent \in BOOLEAN, NEW e,
           e = Enter(h, l, x, tag, data, c, mode, makeCurrent),
           NEW n, NEW w, Line(h, l, w, n)
    PROVE  /\ Good(e) /\ Elsewhere(h, e, {l})
           /\ \E p \in 0..n : Line(e, l, Spliced(w, p, 1, Lone(x)), n + 1)
           /\ e.node[x].tag = tag /\ e.node[x].data = data
           /\ \A m \in Nodes \ {x} : SameItem(e.node[m], h.node[m])
           /\ e.ctl[l].current \in {x, h.ctl[l].current}
           /\ n = 0 => e.ctl[l].current = x
<1>1. PICK h0 : /\ Fresh(h, h0, l, Lone(x), 1)
                /\ Entered(h0, e, l, Lone(x), 1, Gap(h0, l, c, mode)[1],
                           Gap(h0, l, c, mode)[2])
                /\ h0.node[x].tag = tag /\ h0.node[x].data = data
  BY EnterFits
<1>2. /\ 1 \in Nat \ {0} /\ Lone(x)[1] = x /\ \A i \in 1..1 : Lone(x)[i] = x
      /\ n \in Nat /\ w \in [Int -> Pointers]
  BY DEF Lone, Line
<1>3. Entering(h, e, l, 1, Lone(x), h0)
  BY <1>1, <1>2 DEF Entering
<1>g. Gained(h, e, l, 1, Lone(x), h0, n, w)
  BY <1>3, EnteredLine
<1>4. /\ Good(e) /\ Elsewhere(h, e, {l})
      /\ \E p \in 0..n : Line(e, l, Spliced(w, p, 1, Lone(x)), n + 1)
      /\ \A m \in Nodes : SameItem(e.node[m], h0.node[m])
      /\ \A m \in Nodes : (\A i \in 1..1 : Lone(x)[i] # m) =>
            SameItem(e.node[m], h.node[m])
      /\ e.ctl[l].current \in {Lone(x)[1], h.ctl[l].current}
      /\ n = 0 => e.ctl[l].current = Lone(x)[1]
  BY <1>g DEF Gained
<1>5. e.node[x].tag = tag /\ e.node[x].data = data
  BY <1>1, <1>4 DEF SameItem
<1>6. \A m \in Nodes \ {x} : SameItem(e.node[m], h.node[m])
  BY <1>2, <1>4
<1>. QED
  BY <1>2, <1>4, <1>5, <1>6

LEMMA EnterGood ==
    ASSUME NEW h, Good(h), NEW l \in Lists, NEW n \in Nodes,
           h.node[n].owner = NoList, NEW tag \in Tags, NEW data \in Objects,
           NEW c \in Pointers, Place(h, l, c),
           c = NoNode => h.ctl[l].current = NoNode,
           NEW mode \in Modes, NEW makeCurrent \in BOOLEAN
    PROVE  Good(Enter(h, l, n, tag, data, c, mode, makeCurrent))
<1>1. PICK k \in Nat, w \in [Int -> Pointers] : Line(h, l, w, k)
  BY DEF Good, IsLine
<1>. QED
  BY <1>1, EnterLine

\* Heap u is h with node j of the line w of length n gone.
Lost(h, u, l, n, w, j) ==
    /\ Good(u) /\ Elsewhere(h, u, {l}) /\ Line(u, l, CutOut(w, j), n - 1)
    /\ \A m \in Nodes : u.node[m].owner = IF m = w[j] THEN NoList ELSE h.node[m].owner
    /\ \A m \in Nodes \ {w[j]} : SameItem(u.node[m], h.node[m])
    /\ u.ctl[l].current = IF h.ctl[l].current = w[j]
                            THEN IF j < n THEN w[j + 1] ELSE w[j - 1]
                            ELSE h.ctl[l].current

\* ExtractObject takes an item off its list, frees it, and touches the owner of
\* no other node.
LEMMA UnlinkLine ==
    ASSUME NEW h, Good(h), NEW l \in Lists, NEW n, NEW w, Line(h, l, w, n),
           NEW j \in 1..n, NEW x, x = w[j]
    PROVE  Lost(h, Unlink(h, l, x), l, n, w, j)
<1>x. /\ n \in Nat /\ w \in [Int -> Pointers]
      /\ x \in Nodes /\ h.node[x].owner = l
  BY DEF Line, Pointers
<1>. USE <1>x
<1>. DEFINE u == Unlink(h, l, x)
            after == h.node[x].next
            before == h.node[x].prev
            c == h.ctl[l]
            d == [count |-> OneLess(c.count),
                  start |-> IF c.start = x THEN after ELSE c.start,
                  end |-> IF c.end = x THEN before ELSE c.end,
                  current |-> IF c.current = x THEN Heir(after, before) ELSE c.current]
            nd == [m \in Nodes |->
                      CASE m = x -> NoLink
                        [] m = before /\ m # x -> [h.node[m] EXCEPT !.next = after]
                        [] m = after /\ m # x -> [h.node[m] EXCEPT !.prev = before]
                        [] OTHER -> h.node[m]]
<1>0. u = [node |-> nd, ctl |-> [h.ctl EXCEPT ![l] = d]]
  BY DEF Unlink
<1>1. NoNode \notin Nodes /\ NoList \notin Lists
  BY DListAssumption
<1>2. h.node \in [Nodes -> Links] /\ h.ctl \in [Lists -> RawControl]
  BY DEF Good, Typed
<1>3. Line(h, l, w, n)
  OBVIOUS
<1>4. w[j] = x
  OBVIOUS
<1>5. /\ after = w[j + 1] /\ before = w[j - 1]
      /\ c.count = n /\ c.start = w[1] /\ c.end = w[n]
  BY <1>3, <1>4 DEF Line
<1>6. \A i, k \in 1..n : w[i] = w[k] => i = k
  BY <1>3 DEF Line
<1>7. ASSUME NEW i \in Int, i \in 1..n
      PROVE  w[i] \in Nodes /\ h.node[w[i]].owner = l /\ h.node[w[i]] \in LinkNode
  <2>1. w[i] \in Nodes /\ h.node[w[i]].owner = l
    BY <1>3, <1>7 DEF Line, Pointers
  <2>2. h.node[w[i]] \in LinkNode
    BY <1>1, <1>2, <2>1, Owned
  <2>. QED
    BY <2>1, <2>2
<1>8. \A i \in Int : i \notin 1..n => w[i] = NoNode
  BY <1>3 DEF Line
<1>9. /\ after \in Pointers /\ before \in Pointers /\ after # x /\ before # x
      /\ after # NoNode => /\ after \in Nodes /\ h.node[after].owner = l
                           /\ h.node[after] \in LinkNode
      /\ before # NoNode => /\ before \in Nodes /\ h.node[before].owner = l
                            /\ h.node[before] \in LinkNode
      /\ after = NoNode <=> j = n
      /\ before = NoNode <=> j = 1
      /\ after = before => after = NoNode
  <2>1. CASE j = n
    <3>1. after = NoNode
      BY <1>5, <1>8, <2>1
    <3>2. CASE j = 1
      <4>1. before = NoNode
        BY <1>5, <1>8, <3>2
      <4>. QED
        BY <1>1, <2>1, <3>1, <3>2, <4>1 DEF Pointers
    <3>3. CASE j # 1
      <4>1. j - 1 \in 1..n /\ j - 1 # j
        BY <3>3
      <4>2. before # x /\ before \in Nodes
        BY <1>4, <1>5, <1>6, <1>7, <4>1
      <4>. QED
        BY <1>1, <1>5, <1>7, <2>1, <3>1, <3>3, <4>1, <4>2 DEF Pointers
    <3>. QED
      BY <3>2, <3>3
  <2>2. CASE j # n
    <3>1. j + 1 \in 1..n /\ j + 1 # j
      BY <2>2
    <3>2. after # x /\ after \in Nodes
      BY <1>4, <1>5, <1>6, <1>7, <3>1
    <3>3. CASE j = 1
      <4>1. before = NoNode
        BY <1>5, <1>8, <3>3
      <4>. QED
        BY <1>1, <1>5, <1>7, <2>2, <3>1, <3>2, <3>3, <4>1 DEF Pointers
    <3>4. CASE j # 1
      <4>1. j - 1 \in 1..n /\ j - 1 # j /\ j - 1 # j + 1
        BY <3>4
      <4>2. before # x /\ before \in Nodes /\ before # after
        BY <1>4, <1>5, <1>6, <1>7, <3>1, <4>1
      <4>. QED
        BY <1>1, <1>5, <1>7, <2>2, <3>1, <3>2, <3>4, <4>1, <4>2 DEF Pointers
    <3>. QED
      BY <3>3, <3>4
  <2>. QED
    BY <2>1, <2>2
<1>10. x \in Nodes /\ h.node[x].owner = l /\ h.node[x].owner # NoList /\ h.node[x] \in LinkNode
  BY <1>1, <1>2, <1>4, <1>7, Owned
<1>11. ASSUME NEW m \in Nodes
       PROVE  /\ nd[m] \in Links
              /\ nd[m].owner = IF m = x THEN NoList ELSE h.node[m].owner
              /\ m # x =>
                    /\ nd[m].next = IF m = before THEN after ELSE h.node[m].next
                    /\ nd[m].prev = IF m = after THEN before ELSE h.node[m].prev
  <2>1. CASE m = x
    <3>1. nd[m] = NoLink
      BY <2>1
    <3>. HIDE DEF nd
    <3>. QED
      BY <2>1, <3>1 DEF Links, NoLink
  <2>2. CASE m # x /\ m = before
    <3>1. h.node[m] \in LinkNode /\ m # after
      BY <1>1, <1>9, <2>2
    <3>2. nd[m] = [h.node[m] EXCEPT !.next = after]
      <4>. HIDE DEF after, before
      <4>. QED
        BY <2>2, <3>1
    <3>3. /\ [h.node[m] EXCEPT !.next = after] \in LinkNode
          /\ [h.node[m] EXCEPT !.next = after].next = after
          /\ [h.node[m] EXCEPT !.next = after].prev = h.node[m].prev
          /\ [h.node[m] EXCEPT !.next = after].owner = h.node[m].owner
      BY <1>9, <3>1, LinkFields
    <3>. HIDE DEF nd
    <3>. QED
      BY <2>2, <3>2, <3>1, <3>3 DEF Links
  <2>3. CASE m # x /\ m # before /\ m = after
    <3>1. nd[m] = [h.node[m] EXCEPT !.prev = before]
      BY <2>3
    <3>2. h.node[m] \in LinkNode
      BY <1>1, <1>9, <2>3
    <3>3. /\ [h.node[m] EXCEPT !.prev = before] \in LinkNode
          /\ [h.node[m] EXCEPT !.prev = before].prev = before
          /\ [h.node[m] EXCEPT !.prev = before].next = h.node[m].next
          /\ [h.node[m] EXCEPT !.prev = before].owner = h.node[m].owner
      BY <1>9, <3>2, LinkFields
    <3>. HIDE DEF nd
    <3>. QED
      BY <2>3, <3>1, <3>2, <3>3 DEF Links
  <2>4. CASE m # x /\ m # before /\ m # after
    <3>1. nd[m] = h.node[m]
      BY <2>4
    <3>. HIDE DEF nd
    <3>. QED
      BY <1>2, <2>4, <3>1
  <2>. QED
    BY <2>1, <2>2, <2>3, <2>4
<1>i. ASSUME NEW m \in Nodes, m # x
      PROVE  SameItem(nd[m], h.node[m])
  <2>1. CASE m = before
    <3>1. m # after
      BY <1>1, <1>9, <2>1
    <3>2. nd[m] = [h.node[m] EXCEPT !.next = after]
      <4>. HIDE DEF after, before
      <4>. QED
        BY <1>i, <2>1, <3>1
    <3>3. h.node[m] \in Links
      BY <1>2
    <3>. HIDE DEF nd, after, before
    <3>4. SameItem([h.node[m] EXCEPT !.next = after], h.node[m])
      BY <3>3, LinkItem
    <3>. QED
      BY <3>2, <3>4
  <2>2. CASE m # before /\ m = after
    <3>1. nd[m] = [h.node[m] EXCEPT !.prev = before]
      BY <1>i, <2>2
    <3>2. h.node[m] \in Links
      BY <1>2
    <3>. HIDE DEF nd, after, before
    <3>3. SameItem([h.node[m] EXCEPT !.prev = before], h.node[m])
      BY <3>2, LinkItem
    <3>. QED
      BY <3>1, <3>3
  <2>3. CASE m # before /\ m # after
    <3>1. nd[m] = h.node[m]
      BY <1>i, <2>3
    <3>. QED
      BY <3>1 DEF SameItem
  <2>. QED
    BY <2>1, <2>2, <2>3
<1>12. /\ d \in RawControl /\ d.count = n - 1
       /\ d.start = IF j = 1 THEN w[2] ELSE w[1]
       /\ d.end = IF j = n THEN w[n - 1] ELSE w[n]
       /\ d.current = IF c.current = x THEN (IF after # NoNode THEN after ELSE before)
                                       ELSE c.current
  <2>1. n - 1 \in Nat
    BY <1>3
  <2>2. (w[1] = x <=> j = 1) /\ (w[n] = x <=> j = n)
    BY <1>4, <1>6
  <2>3. /\ j = 1 => after = w[2]
        /\ j = n => before = w[n - 1]
    BY <1>5
  <2>4. c \in RawControl
    BY <1>2
  <2>5. OneLess(c.count) = n - 1
    BY <1>5 DEF OneLess
  <2>. HIDE DEF after, before, c
  <2>. QED
    BY <1>5, <1>9, <2>1, <2>2, <2>3, <2>4, <2>5 DEF RawControl, Heir
<1>13. /\ u.node = nd /\ nd \in [Nodes -> Links]
       /\ u.ctl[l] = d /\ \A z \in Lists \ {l} : u.ctl[z] = h.ctl[z]
       /\ Typed(u)
  <2>1. nd \in [Nodes -> Links]
    BY <1>11
  <2>. HIDE DEF nd, d, u
  <2>. QED
    BY <1>0, <1>2, <1>12, <2>1 DEF Typed
<1>. HIDE DEF u, nd, d
<1>14. Elsewhere(h, u, {l})
  <2>1. ASSUME NEW z \in Lists \ {l}, NEW m \in Nodes
        PROVE  /\ u.node[m].owner = z <=> h.node[m].owner = z
               /\ h.node[m].owner = z => /\ u.node[m].next = h.node[m].next
                                         /\ u.node[m].prev = h.node[m].prev
    <3>1. CASE m = x
      BY <1>1, <1>10, <1>11, <1>13, <3>1
    <3>2. CASE m # x
      <4>1. h.node[m].owner = z => m # after /\ m # before
        BY <1>1, <1>9
      <4>. HIDE DEF after, before
      <4>. QED
        BY <1>11, <1>13, <3>2, <4>1
    <3>. QED
      BY <3>1, <3>2
  <2>. QED
    BY <1>13, <2>1 DEF Elsewhere
<1>15. Without(h, u, l, w, n, j)
  <2>1. u.node[w[j]].owner # l
    BY <1>1, <1>4, <1>11, <1>13
  <2>2. ASSUME NEW m \in Nodes \ {w[j]}
        PROVE  /\ u.node[m].owner = l <=> h.node[m].owner = l
               /\ h.node[m].owner = l =>
                     /\ u.node[m].next = IF m = w[j - 1] THEN w[j + 1] ELSE h.node[m].next
                     /\ u.node[m].prev = IF m = w[j + 1] THEN w[j - 1] ELSE h.node[m].prev
    <3>. HIDE DEF after, before
    <3>. QED
      BY <1>4, <1>5, <1>11, <1>13
  <2>3. Place(h, l, c.current) /\ (c.current = NoNode <=> n = 0)
    BY <1>3 DEF Line
  <2>4. n - 1 \in Nat /\ n # 0
    BY <1>3
  <2>5. u.ctl[l].current = NoNode <=> n = 1
    <3>. HIDE DEF after, before, c
    <3>1. CASE c.current = x
      <4>1. u.ctl[l].current = IF after # NoNode THEN after ELSE before
        BY <1>12, <1>13, <3>1
      <4>2. (j = n /\ j = 1) <=> n = 1
        BY <1>3
      <4>. QED
        BY <1>9, <4>1, <4>2
    <3>2. CASE c.current # x
      <4>1. u.ctl[l].current = c.current
        BY <1>12, <1>13, <3>2
      <4>2. c.current \in Nodes /\ h.node[c.current].owner = l
        BY <2>3, <2>4 DEF Place, Pointers
      <4>3. PICK k \in 1..n : w[k] = c.current
        BY <1>3, <4>2 DEF Line
      <4>4. k # j
        BY <1>4, <3>2, <4>3
      <4>5. n # 1
        BY <4>4
      <4>. QED
        BY <1>1, <4>1, <4>2, <4>5
    <3>. QED
      BY <3>1, <3>2
  <2>6. Place(u, l, u.ctl[l].current)
    <3>. HIDE DEF after, before, c
    <3>. QED
      BY <1>1, <1>9, <1>11, <1>12, <1>13, <2>3 DEF Place, Pointers
  <2>. QED
    BY <1>12, <1>13, <2>1, <2>2, <2>5, <2>6 DEF Without
<1>16. Line(u, l, CutOut(w, j), n - 1) /\ IsLine(u, l)
  BY <1>3, <1>15, Removed
<1>17. Good(u)
  BY <1>13, <1>14, <1>16, StaysGood
<1>18. u.ctl[l].current = IF h.ctl[l].current = x
                             THEN IF j < n THEN w[j + 1] ELSE w[j - 1]
                             ELSE h.ctl[l].current
  <2>1. after # NoNode <=> j < n
    BY <1>9
  <2>2. after = w[j + 1] /\ before = w[j - 1]
    BY <1>5
  <2>. HIDE DEF after, before
  <2>. QED
    BY <1>12, <1>13, <2>1, <2>2
<1>19. \A m \in Nodes \ {x} : SameItem(u.node[m], h.node[m])
  BY <1>13, <1>i
<1>20. \A m \in Nodes : u.node[m].owner = IF m = x THEN NoList ELSE h.node[m].owner
  BY <1>11, <1>13
<1>. QED
  BY <1>14, <1>16, <1>17, <1>18, <1>19, <1>20 DEF u, Lost

LEMMA UnlinkGood ==
    ASSUME NEW h, Good(h), NEW l \in Lists, NEW x \in Nodes, h.node[x].owner = l
    PROVE  /\ Good(Unlink(h, l, x))
           /\ \A m \in Nodes : Unlink(h, l, x).node[m].owner
                               = IF m = x THEN NoList ELSE h.node[m].owner
<1>1. PICK n \in Nat, w \in [Int -> Pointers] :
         Line(h, l, w, n) /\ \E i \in 1..n : w[i] = x
  BY OnLine
<1>2. PICK j \in 1..n : w[j] = x
  BY <1>1
<1>. QED
  <2>1. Lost(h, Unlink(h, l, x), l, n, w, j)
    BY <1>1, <1>2, UnlinkLine
  <2>. HIDE DEF Lost
  <2>. QED
    BY <1>2, <2>1 DEF Lost

SetNext(nd, a, b) == [nd EXCEPT ![a].next = b]
SetPrev(nd, a, b) == [nd EXCEPT ![a].prev = b]

\* Setting one pointer of an item.
LEMMA SetFields ==
    ASSUME NEW nd \in [Nodes -> Links], NEW a \in Nodes, nd[a].owner # NoList,
           NEW b \in Pointers
    PROVE  /\ SetNext(nd, a, b) \in [Nodes -> Links]
           /\ SetPrev(nd, a, b) \in [Nodes -> Links]
           /\ \A m \in Nodes :
                 /\ SetNext(nd, a, b)[m].owner = nd[m].owner
                 /\ SetNext(nd, a, b)[m].next = IF m = a THEN b ELSE nd[m].next
                 /\ SetNext(nd, a, b)[m].prev = nd[m].prev
                 /\ SetPrev(nd, a, b)[m].owner = nd[m].owner
                 /\ SetPrev(nd, a, b)[m].next = nd[m].next
                 /\ SetPrev(nd, a, b)[m].prev = IF m = a THEN b ELSE nd[m].prev
<1>1. nd[a] \in LinkNode
  BY Owned
<1>2. /\ SetNext(nd, a, b)[a] = [nd[a] EXCEPT !.next = b]
      /\ SetPrev(nd, a, b)[a] = [nd[a] EXCEPT !.prev = b]
      /\ \A m \in Nodes \ {a} : SetNext(nd, a, b)[m] = nd[m] /\ SetPrev(nd, a, b)[m] = nd[m]
  BY DEF SetNext, SetPrev
<1>3. /\ [nd[a] EXCEPT !.next = b] \in LinkNode
      /\ [nd[a] EXCEPT !.next = b].next = b
      /\ [nd[a] EXCEPT !.next = b].prev = nd[a].prev
      /\ [nd[a] EXCEPT !.next = b].owner = nd[a].owner
      /\ [nd[a] EXCEPT !.prev = b] \in LinkNode
      /\ [nd[a] EXCEPT !.prev = b].prev = b
      /\ [nd[a] EXCEPT !.prev = b].next = nd[a].next
      /\ [nd[a] EXCEPT !.prev = b].owner = nd[a].owner
  BY <1>1, LinkFields
<1>4. \A m \in Nodes : SetNext(nd, a, b)[m] \in Links /\ SetPrev(nd, a, b)[m] \in Links
  BY <1>2, <1>3 DEF Links
<1>5. SetNext(nd, a, b) \in [Nodes -> Links] /\ SetPrev(nd, a, b) \in [Nodes -> Links]
  BY <1>4 DEF SetNext, SetPrev
<1>. QED
  BY <1>2, <1>3, <1>5

\* It changes no item.
LEMMA SetItems ==
    ASSUME NEW nd \in [Nodes -> Links], NEW a, NEW b, NEW m \in Nodes
    PROVE  SameItem(SetNext(nd, a, b)[m], nd[m]) /\ SameItem(SetPrev(nd, a, b)[m], nd[m])
<1>1. CASE m = a
  <2>1. /\ SetNext(nd, a, b)[m] = [nd[m] EXCEPT !.next = b]
        /\ SetPrev(nd, a, b)[m] = [nd[m] EXCEPT !.prev = b]
    BY <1>1 DEF SetNext, SetPrev
  <2>. QED
    BY <2>1, LinkItem
<1>2. CASE m # a
  <2>1. SetNext(nd, a, b)[m] = nd[m] /\ SetPrev(nd, a, b)[m] = nd[m]
    BY <1>2 DEF SetNext, SetPrev
  <2>. QED
    BY <2>1 DEF SameItem
<1>. QED
  BY <1>1, <1>2

\* A node of a list moved to before an earlier one of the list: the others of the
\* line keep their order, and no item, cursor or other list changes.
LEMMA MoveBeforeGood ==
    ASSUME NEW h, Good(h), NEW l \in Lists, NEW w \in [Int -> Pointers], NEW n \in Nat,
           Line(h, l, w, n), NEW i \in 1..n, NEW j \in 1..n, i < j
    PROVE  /\ Good(MoveBefore(h, l, w[j], w[i]))
           /\ MovedUp(w, i, j) \in [Int -> Pointers]
           /\ Line(MoveBefore(h, l, w[j], w[i]), l, MovedUp(w, i, j), n)
           /\ Elsewhere(h, MoveBefore(h, l, w[j], w[i]), {l})
           /\ \A m \in Nodes :
                 SameItem(MoveBefore(h, l, w[j], w[i]).node[m], h.node[m])
           /\ MoveBefore(h, l, w[j], w[i]).ctl[l].current = h.ctl[l].current
<1>. DEFINE x == w[j]
            y == w[i]
            after == h.node[x].next
            before == h.node[x].prev
            nd1 == SetNext(h.node, before, after)
            nd2 == IF after = NoNode THEN nd1 ELSE SetPrev(nd1, after, before)
            p == nd2[y].prev
            nd3 == IF p = NoNode THEN nd2 ELSE SetNext(nd2, p, x)
            nd4 == SetPrev(nd3, x, p)
            nd5 == SetNext(nd4, x, y)
            nd6 == SetPrev(nd5, y, x)
            g == MoveBefore(h, l, x, y)
<1>1. NoNode \notin Nodes /\ NoList \notin Lists
  BY DListAssumption
<1>2. h.node \in [Nodes -> Links] /\ h.ctl \in [Lists -> RawControl]
  BY DEF Good, Typed
<1>3. \A a, b \in 1..n : w[a] = w[b] => a = b
  BY DEF Line
<1>4. ASSUME NEW k \in Int, k \in 1..n
      PROVE  w[k] \in Nodes /\ h.node[w[k]].owner = l
  BY <1>4 DEF Line, Pointers
<1>5. \A k \in Int : k \notin 1..n => w[k] = NoNode
  BY DEF Line
<1>6. /\ i \in Int /\ j \in Int /\ j - 1 \in 1..n /\ j - 1 # j /\ i # j
      /\ j + 1 \in Int /\ i - 1 \in Int
  OBVIOUS
<1>7. /\ after = w[j + 1] /\ before = w[j - 1]
      /\ h.ctl[l].count = n /\ h.ctl[l].start = w[1] /\ h.ctl[l].end = w[n]
      /\ h.node[y].prev = w[i - 1]
  BY DEF Line
<1>8. /\ x \in Nodes /\ h.node[x].owner = l
      /\ y \in Nodes /\ h.node[y].owner = l
      /\ before \in Nodes /\ h.node[before].owner = l
      /\ after \in Pointers /\ (after # NoNode => after \in Nodes /\ h.node[after].owner = l)
      /\ w[i - 1] \in Pointers
      /\ w[i - 1] # NoNode => w[i - 1] \in Nodes /\ h.node[w[i - 1]].owner = l
  BY <1>4, <1>5, <1>6, <1>7 DEF Pointers
<1>9. /\ y # after /\ x # y /\ before # x /\ after # x /\ after # before
      /\ w[i - 1] # x /\ w[i - 1] # before /\ (w[i - 1] # NoNode => w[i - 1] # after)
      /\ w[i - 1] # y
  <2>1. \A a, b \in Int : w[a] = w[b] => a = b \/ w[a] = NoNode
    BY <1>3, <1>5
  <2>2. x # NoNode /\ y # NoNode /\ before # NoNode
    BY <1>1, <1>8
  <2>3. x # y /\ before # x /\ after # x /\ w[i - 1] # x
    BY <1>6, <1>7, <2>1, <2>2
  <2>4. y # after /\ w[i - 1] # y
    BY <1>6, <1>7, <2>1, <2>2
  <2>5. after # before /\ w[i - 1] # before /\ (w[i - 1] # NoNode => w[i - 1] # after)
    BY <1>6, <1>7, <2>1, <2>2
  <2>. QED
    BY <2>3, <2>4, <2>5
<1>10. /\ nd1 \in [Nodes -> Links]
       /\ \A m \in Nodes : /\ nd1[m].owner = h.node[m].owner
                           /\ nd1[m].next = IF m = before THEN after ELSE h.node[m].next
                           /\ nd1[m].prev = h.node[m].prev
  BY <1>1, <1>2, <1>8, SetFields
<1>. HIDE DEF nd1, x, y, after, before
<1>11. /\ nd2 \in [Nodes -> Links]
       /\ \A m \in Nodes : /\ nd2[m].owner = h.node[m].owner
                           /\ nd2[m].next = IF m = before THEN after ELSE h.node[m].next
                           /\ nd2[m].prev = IF m = after THEN before ELSE h.node[m].prev
  <2>1. CASE after = NoNode
    <3>1. nd2 = nd1
      BY <2>1
    <3>. HIDE DEF nd2
    <3>. QED
      BY <1>1, <1>10, <2>1, <3>1
  <2>2. CASE after # NoNode
    <3>1. nd2 = SetPrev(nd1, after, before)
      BY <2>2
    <3>2. after \in Nodes /\ nd1[after].owner # NoList /\ before \in Pointers
      BY <1>1, <1>8, <1>10, <2>2 DEF Pointers
    <3>. HIDE DEF nd2
    <3>3. /\ nd2 \in [Nodes -> Links]
          /\ \A m \in Nodes : /\ nd2[m].owner = nd1[m].owner
                              /\ nd2[m].next = nd1[m].next
                              /\ nd2[m].prev = IF m = after THEN before ELSE nd1[m].prev
      BY <1>10, <3>1, <3>2, SetFields
    <3>. QED
      BY <1>10, <3>3
  <2>. QED
    BY <2>1, <2>2
<1>i2. \A m \in Nodes : SameItem(nd2[m], h.node[m])
  <2>1. \A m \in Nodes : SameItem(nd1[m], h.node[m])
    BY <1>2, SetItems DEF nd1
  <2>2. \A m \in Nodes : SameItem(SetPrev(nd1, after, before)[m], nd1[m])
    BY <1>10, SetItems
  <2>. QED
    BY <2>1, <2>2 DEF SameItem
<1>12. p = w[i - 1]
  BY <1>7, <1>8, <1>9, <1>11
<1>. HIDE DEF nd2, p
<1>13. /\ nd3 \in [Nodes -> Links]
       /\ \A m \in Nodes : /\ nd3[m].owner = h.node[m].owner
                           /\ nd3[m].next = IF m = p THEN x
                                            ELSE IF m = before THEN after ELSE h.node[m].next
                           /\ nd3[m].prev = IF m = after THEN before ELSE h.node[m].prev
  <2>1. CASE p = NoNode
    <3>1. nd3 = nd2
      BY <2>1
    <3>. HIDE DEF nd3
    <3>. QED
      BY <1>1, <1>11, <2>1, <3>1
  <2>2. CASE p # NoNode
    <3>1. nd3 = SetNext(nd2, p, x)
      BY <2>2
    <3>2. p \in Nodes /\ nd2[p].owner # NoList /\ x \in Pointers
      BY <1>1, <1>8, <1>11, <1>12, <2>2 DEF Pointers
    <3>. HIDE DEF nd3
    <3>3. /\ nd3 \in [Nodes -> Links]
          /\ \A m \in Nodes : /\ nd3[m].owner = nd2[m].owner
                              /\ nd3[m].next = IF m = p THEN x ELSE nd2[m].next
                              /\ nd3[m].prev = nd2[m].prev
      BY <1>11, <3>1, <3>2, SetFields
    <3>. QED
      BY <1>11, <3>3
  <2>. QED
    BY <2>1, <2>2
<1>i3. \A m \in Nodes : SameItem(nd3[m], h.node[m])
  <2>1. \A m \in Nodes : SameItem(SetNext(nd2, p, x)[m], nd2[m])
    BY <1>11, SetItems
  <2>. QED
    BY <1>i2, <2>1 DEF SameItem
<1>. HIDE DEF nd3
<1>14. p \in Pointers /\ x \in Pointers /\ y \in Pointers
  BY <1>8, <1>12 DEF Pointers
<1>15. /\ nd4 \in [Nodes -> Links]
       /\ \A m \in Nodes : /\ nd4[m].owner = nd3[m].owner
                           /\ nd4[m].next = nd3[m].next
                           /\ nd4[m].prev = IF m = x THEN p ELSE nd3[m].prev
  <2>1. nd3[x].owner # NoList
    BY <1>1, <1>8, <1>13
  <2>. QED
    BY <1>8, <1>13, <1>14, <2>1, SetFields
<1>. HIDE DEF nd4
<1>16. /\ nd5 \in [Nodes -> Links]
       /\ \A m \in Nodes : /\ nd5[m].owner = nd4[m].owner
                           /\ nd5[m].next = IF m = x THEN y ELSE nd4[m].next
                           /\ nd5[m].prev = nd4[m].prev
  <2>1. nd4[x].owner # NoList
    BY <1>1, <1>8, <1>13, <1>15
  <2>. QED
    BY <1>8, <1>15, <1>14, <2>1, SetFields
<1>. HIDE DEF nd5
<1>17. /\ nd6 \in [Nodes -> Links]
       /\ \A m \in Nodes : /\ nd6[m].owner = nd5[m].owner
                           /\ nd6[m].next = nd5[m].next
                           /\ nd6[m].prev = IF m = y THEN x ELSE nd5[m].prev
  <2>1. nd5[y].owner # NoList
    BY <1>1, <1>8, <1>13, <1>15, <1>16
  <2>. QED
    BY <1>8, <1>16, <1>14, <2>1, SetFields
<1>i6. \A m \in Nodes : SameItem(nd6[m], h.node[m])
  <2>1. \A m \in Nodes : SameItem(nd4[m], nd3[m])
    BY <1>13, SetItems DEF nd4
  <2>2. \A m \in Nodes : SameItem(nd5[m], nd4[m])
    BY <1>15, SetItems DEF nd5
  <2>3. \A m \in Nodes : SameItem(nd6[m], nd5[m])
    BY <1>16, SetItems
  <2>. QED
    BY <1>i3, <2>1, <2>2, <2>3 DEF SameItem
<1>18. g.node = nd6
  BY DEF MoveBefore, SetNext, SetPrev, nd1, nd2, nd3, nd4, nd5, p, after, before
<1>. HIDE DEF nd6
<1>19. /\ g = [node |-> g.node, ctl |-> g.ctl]
       /\ g.ctl = [h.ctl EXCEPT ![l].end = IF @ = x THEN before ELSE @,
                                ![l].start = IF @ = y THEN x ELSE @]
  <2>1. g = [node |-> g.node, ctl |-> g.ctl]
    <3>1. \E a, b : g = [node |-> a, ctl |-> b]
      BY Zenon DEF MoveBefore
    <3>. HIDE DEF g
    <3>2. PICK a, b : g = [node |-> a, ctl |-> b]
      BY <3>1
    <3>. QED
      BY <3>2
  <2>2. g.ctl = [h.ctl EXCEPT ![l].end = IF @ = x THEN h.node[x].prev ELSE @,
                              ![l].start = IF @ = y THEN x ELSE @]
    BY DEF MoveBefore
  <2>. QED
    BY <2>1, <2>2 DEF before
<1>. HIDE DEF g
<1>20. /\ g.ctl \in [Lists -> RawControl]
       /\ \A z \in Lists \ {l} : g.ctl[z] = h.ctl[z]
       /\ g.ctl[l].start = IF h.ctl[l].start = y THEN x ELSE h.ctl[l].start
       /\ g.ctl[l].end = IF h.ctl[l].end = x THEN before ELSE h.ctl[l].end
       /\ g.ctl[l].count = h.ctl[l].count /\ g.ctl[l].current = h.ctl[l].current
  <2>1. before \in Pointers
    BY <1>8 DEF Pointers
  <2>. QED
    BY <1>2, <1>14, <1>19, <2>1 DEF RawControl
<1>21. Typed(g)
  BY <1>17, <1>18, <1>19, <1>20 DEF Typed
\* All together.
<1>22. ASSUME NEW m \in Nodes
       PROVE  /\ g.node[m].owner = h.node[m].owner
              /\ g.node[m].next = IF m = x THEN y ELSE IF m = p THEN x
                                  ELSE IF m = before THEN after ELSE h.node[m].next
              /\ g.node[m].prev = IF m = y THEN x ELSE IF m = x THEN p
                                  ELSE IF m = after THEN before ELSE h.node[m].prev
  BY <1>13, <1>15, <1>16, <1>17, <1>18
<1>23. Elsewhere(h, g, {l})
  <2>1. ASSUME NEW z \in Lists \ {l}, NEW m \in Nodes, h.node[m].owner = z
        PROVE  g.node[m].next = h.node[m].next /\ g.node[m].prev = h.node[m].prev
    <3>1. m # x /\ m # y /\ m # p /\ m # before /\ m # after
      BY <1>1, <1>8, <1>12, <2>1
    <3>. QED
      BY <1>22, <3>1
  <2>. QED
    BY <1>20, <1>22, <2>1 DEF Elsewhere
<1>24. Earlier(h, g, l, w, n, i, j)
  <2>1. ASSUME NEW m \in Nodes
        PROVE  /\ g.node[m].owner = h.node[m].owner
               /\ g.node[m].next = IF m = w[j] THEN w[i]
                                   ELSE IF m = w[j - 1] THEN w[j + 1]
                                   ELSE IF m = w[i - 1] THEN w[j] ELSE h.node[m].next
               /\ g.node[m].prev = IF m = w[j] THEN w[i - 1]
                                   ELSE IF m = w[i] THEN w[j]
                                   ELSE IF m = w[j + 1] THEN w[j - 1] ELSE h.node[m].prev
    BY <1>7, <1>9, <1>12, <1>22 DEF x, y
  <2>2. (w[1] = w[i] <=> i = 1) /\ (w[n] = w[j] <=> j = n)
    BY <1>3
  <2>3. /\ g.ctl[l].start = IF i = 1 THEN w[j] ELSE w[1]
        /\ g.ctl[l].end = IF j = n THEN w[n - 1] ELSE w[n]
    BY <1>7, <1>20, <2>2 DEF x, y
  <2>. QED
    BY <1>7, <1>20, <2>1, <2>3 DEF Earlier
<1>25. MovedUp(w, i, j) \in [Int -> Pointers] /\ Line(g, l, MovedUp(w, i, j), n)
  BY <1>24, Moved
<1>26. IsLine(g, l)
  BY <1>25 DEF IsLine
<1>27. Good(g)
  BY <1>21, <1>23, <1>26, StaysGood
<1>28. \A m \in Nodes : SameItem(g.node[m], h.node[m])
  BY <1>18, <1>i6
<1>29. g.ctl[l].current = h.ctl[l].current
  BY <1>20
<1>. QED
  BY <1>23, <1>25, <1>27, <1>28, <1>29 DEF g, x, y
-----------------------------------------------------------------------------
(* SortList keeps a heap good *)

\* The node k links on from a place of the line is k places on.
LEMMA AheadOnLine ==
    ASSUME NEW h, NEW l, NEW w, NEW n, Line(h, l, w, n),
           NEW i \in 1..(n + 1), NEW k \in Nat
    PROVE  Ahead(h, w[i], k) = w[i + k]
<1>. DEFINE g == [a \in Nat |-> w[i + a]]
<1>0. n \in Nat /\ w \in [Int -> Pointers] /\ NoNode \notin Nodes
  BY DListAssumption DEF Line
<1>1. ASSUME NEW a \in 0..(k - 1) PROVE Following(h)[g[a]] = g[a + 1]
  <2>1. /\ a \in Nat /\ a + 1 \in Nat /\ i + a \in Int /\ i + (a + 1) = (i + a) + 1
        /\ (i + a) + 1 \in Int
    BY <1>0
  <2>2. g[a] = w[i + a] /\ g[a + 1] = w[(i + a) + 1] /\ w[i + a] \in Pointers
    BY <1>0, <2>1
  <2>. HIDE DEF g
  <2>3. CASE i + a \in 1..n
    <3>1. w[i + a] # NoNode /\ h.node[w[i + a]].next = w[(i + a) + 1]
      BY <2>1, <2>3 DEF Line
    <3>. QED
      BY <2>2, <3>1 DEF Following
  <2>4. CASE i + a \notin 1..n
    <3>1. w[i + a] = NoNode /\ w[(i + a) + 1] = NoNode
      <4>1. (i + a) + 1 \notin 1..n
        BY <1>0, <2>1, <2>4
      <4>. QED
        BY <2>1, <2>4, <4>1 DEF Line
    <3>. QED
      BY <2>2, <3>1 DEF Following
  <2>. QED
    BY <2>3, <2>4
<1>2. g[0] = w[i] /\ g[k] = w[i + k]
  BY <1>0
<1>. HIDE DEF g
<1>3. \A a \in 0..(k - 1) : Following(h)[g[a]] = g[a + 1]
  BY <1>1
<1>4. Repeat(Following(h), w[i], k) = g[k]
  BY <1>2, <1>3, RepeatIs
<1>. QED
  BY <1>2, <1>4 DEF Ahead

LEMMA AheadPlace ==
    ASSUME NEW h, Good(h), NEW l \in Lists, NEW x, Place(h, l, x), NEW k \in Nat
    PROVE  Place(h, l, Ahead(h, x, k))
<1>1. PICK n \in Nat, w \in [Int -> Pointers] : Line(h, l, w, n)
  BY DEF Good, IsLine
<1>2. PICK i \in 1..(n + 1) : w[i] = x
  <2>1. CASE x = NoNode
    <3>1. n + 1 \in 1..(n + 1) /\ w[n + 1] = NoNode
      BY <1>1 DEF Line
    <3>. QED
      BY <2>1, <3>1
  <2>2. CASE x # NoNode
    <3>1. x \in Nodes /\ h.node[x].owner = l
      BY <2>2 DEF Place, Pointers
    <3>2. \E i \in 1..n : w[i] = x
      BY <1>1, <3>1 DEF Line
    <3>. QED
      BY <3>2
  <2>. QED
    BY <2>1, <2>2
<1>3. Ahead(h, x, k) = w[i + k]
  <2>1. Ahead(h, w[i], k) = w[i + k]
    BY <1>1, AheadOnLine
  <2>. QED
    BY <1>2, <2>1
<1>4. i + k \in Int
  OBVIOUS
<1>5. Place(h, l, w[i + k])
  BY <1>1, <1>4 DEF Line, Place
<1>. QED
  BY <1>3, <1>5

MergeRecord == [heap : Heaps, failed : BOOLEAN, m1 : Pointers, m2 : Pointers,
                s1 : Nat, s2 : Nat]

\* A merge between two turns: m2 is s1 places after m1.
MergeState(l) ==
    {r \in MergeRecord :
        /\ Good(r.heap)
        /\ \E n \in Nat, w \in [Int -> Pointers] :
              /\ Line(r.heap, l, w, n)
              /\ \E i \in 1..n : w[i] = r.m1 /\ w[i + r.s1] = r.m2}

LEMMA MergingStays ==
    ASSUME NEW l \in Lists, NEW refused, NEW r \in MergeState(l)
    PROVE  Merging(l, refused)[r] \in MergeState(l)
<1>. DEFINE h == r.heap
            q == Merging(l, refused)[r]
<1>. SUFFICES q \in MergeState(l)
  OBVIOUS
<1>1. r \in MergeRecord /\ Good(h)
  BY DEF MergeState
<1>2. PICK n \in Nat, w \in [Int -> Pointers] :
         /\ Line(h, l, w, n)
         /\ \E i \in 1..n : w[i] = r.m1 /\ w[i + r.s1] = r.m2
  BY DEF MergeState
<1>3. PICK i \in 1..n : w[i] = r.m1 /\ w[i + r.s1] = r.m2
  BY <1>2
<1>4. q = IF r.failed \/ NoNode \in {r.m1, r.m2} \/ 0 \in {r.s1, r.s2} THEN r
          ELSE IF refused \in {h.node[r.m1].data, h.node[r.m2].data}
          THEN [r EXCEPT !.failed = TRUE]
          ELSE IF InOrder(h, r.m1, r.m2)
          THEN [r EXCEPT !.m1 = h.node[r.m1].next, !.s1 = @ - 1]
          ELSE [r EXCEPT !.heap = MoveBefore(h, l, r.m2, r.m1),
                         !.m2 = h.node[r.m2].next, !.s2 = @ - 1]
  BY <1>1 DEF Merging, MergeRecord
<1>5. CASE q = r
  BY <1>5
<1>. DEFINE over == r.failed \/ NoNode \in {r.m1, r.m2} \/ 0 \in {r.s1, r.s2}
<1>6. CASE q = [r EXCEPT !.failed = TRUE]
  <2>. HIDE DEF q
  <2>1. q \in MergeRecord /\ q.heap = h /\ q.m1 = r.m1 /\ q.m2 = r.m2 /\ q.s1 = r.s1
    BY <1>1, <1>6 DEF MergeRecord
  <2>. QED
    BY <1>1, <1>2, <2>1 DEF MergeState
<1>7. ~over => /\ r.m2 # NoNode /\ r.s1 \in Nat \ {0} /\ r.s2 \in Nat \ {0}
               /\ i + r.s1 \in 1..n /\ i + 1 \in 1..n
               /\ h.node[r.m1].next = w[i + 1]
               /\ h.node[r.m2].next = w[(i + r.s1) + 1]
  <2>. SUFFICES ASSUME ~over
       PROVE  /\ r.m2 # NoNode /\ r.s1 \in Nat \ {0} /\ r.s2 \in Nat \ {0}
              /\ i + r.s1 \in 1..n /\ i + 1 \in 1..n
              /\ h.node[r.m1].next = w[i + 1]
              /\ h.node[r.m2].next = w[(i + r.s1) + 1]
    OBVIOUS
  <2>1. r.m2 # NoNode /\ r.s1 \in Nat \ {0} /\ r.s2 \in Nat \ {0}
    BY <1>1 DEF MergeRecord
  <2>2. i + r.s1 \in Int /\ w[i + r.s1] # NoNode
    BY <1>3, <2>1
  <2>3. i + r.s1 \in 1..n
    BY <1>2, <2>2 DEF Line
  <2>4. i + 1 \in 1..n
    BY <2>1, <2>3
  <2>5. h.node[r.m1].next = w[i + 1] /\ h.node[r.m2].next = w[(i + r.s1) + 1]
    BY <1>2, <1>3, <2>3 DEF Line
  <2>. QED
    BY <2>1, <2>3, <2>4, <2>5
<1>8. CASE ~over /\ q = [r EXCEPT !.m1 = h.node[r.m1].next, !.s1 = @ - 1]
  <2>. DEFINE s == r.s1 - 1
  <2>0. s \in Nat /\ (i + 1) + s = i + r.s1 /\ w[i + 1] \in Pointers
    BY <1>7, <1>8
  <2>1. q = [r EXCEPT !.m1 = w[i + 1], !.s1 = s]
    BY <1>7, <1>8
  <2>. HIDE DEF q, s
  <2>2. q \in MergeRecord /\ q.heap = h /\ q.m1 = w[i + 1] /\ q.m2 = r.m2 /\ q.s1 = s
    BY <1>1, <2>0, <2>1 DEF MergeRecord
  <2>3. w[(i + 1) + q.s1] = q.m2
    BY <1>3, <2>0, <2>2
  <2>4. i + 1 \in 1..n
    BY <1>7, <1>8
  <2>5. \E k \in 1..n : w[k] = q.m1 /\ w[k + q.s1] = q.m2
    BY <2>2, <2>3, <2>4
  <2>. QED
    BY <1>1, <1>2, <2>2, <2>5 DEF MergeState
<1>9. CASE ~over /\ q = [r EXCEPT !.heap = MoveBefore(h, l, r.m2, r.m1),
                                  !.m2 = h.node[r.m2].next, !.s2 = @ - 1]
  <2>. DEFINE j == i + r.s1
              v == MovedUp(w, i, j)
              g == MoveBefore(h, l, w[j], w[i])
              s == r.s2 - 1
  <2>1. j \in 1..n /\ i < j /\ s \in Nat
    BY <1>7, <1>9
  <2>2. Good(g) /\ v \in [Int -> Pointers] /\ Line(g, l, v, n)
    BY <1>1, <1>2, <2>1, MoveBeforeGood
  <2>3. v[i + 1] = w[i] /\ v[(i + 1) + r.s1] = w[j + 1]
    <3>1. i + 1 > i /\ i + 1 <= j /\ (i + 1) - 1 = i
      BY <2>1
    <3>2. (i + 1) + r.s1 = j + 1 /\ j + 1 > j /\ j + 1 # i
      BY <1>7, <1>9, <2>1
    <3>3. v[i + 1] = w[i]
      BY <3>1 DEF MovedUp
    <3>4. v[j + 1] = w[j + 1]
      BY <2>1, <3>2 DEF MovedUp
    <3>. QED
      BY <3>2, <3>3, <3>4
  <2>4. w[j + 1] \in Pointers /\ g \in Heaps
    BY <2>1, <2>2, GoodHeap
  <2>5. q = [r EXCEPT !.heap = g, !.m2 = w[j + 1], !.s2 = s]
    BY <1>3, <1>7, <1>9
  <2>. HIDE DEF q, s, g, v, j
  <2>6. q \in MergeRecord /\ q.heap = g /\ q.m1 = r.m1 /\ q.m2 = w[j + 1] /\ q.s1 = r.s1
    BY <1>1, <2>1, <2>4, <2>5 DEF MergeRecord
  <2>7. i + 1 \in 1..n
    BY <1>7, <1>9
  <2>8. \E k \in 1..n : v[k] = q.m1 /\ v[k + q.s1] = q.m2
    BY <1>3, <2>3, <2>6, <2>7
  <2>. QED
    BY <2>2, <2>6, <2>8 DEF MergeState
<1>10. \/ q = r
       \/ q = [r EXCEPT !.failed = TRUE]
       \/ ~over /\ q = [r EXCEPT !.m1 = h.node[r.m1].next, !.s1 = @ - 1]
       \/ ~over /\ q = [r EXCEPT !.heap = MoveBefore(h, l, r.m2, r.m1),
                                 !.m2 = h.node[r.m2].next, !.s2 = @ - 1]
  <2>. HIDE DEF q, h
  <2>. QED
    BY <1>4, Zenon
<1>. HIDE DEF q, over
<1>. QED
  BY <1>5, <1>6, <1>8, <1>9, <1>10

\* What a pass over the list keeps between two pairs of runs.
PassRecord == [heap : Heaps, failed : BOOLEAN, rest : Pointers]
PassState(l) == {r \in PassRecord : Good(r.heap) /\ Place(r.heap, l, r.rest)}

LEMMA MergeStays ==
    ASSUME NEW h, Good(h), NEW l \in Lists, NEW m \in Nodes, h.node[m].owner = l,
           NEW k \in Nat, NEW refused
    PROVE  Merge(h, l, m, k, refused) \in PassState(l)
<1>. DEFINE r0 == [heap |-> h, failed |-> FALSE, m1 |-> m,
                   m2 |-> Ahead(h, m, k), s1 |-> k, s2 |-> k]
            r == Repeat(Merging(l, refused), r0, 2 * k)
<1>1. PICK n \in Nat, w \in [Int -> Pointers] :
         Line(h, l, w, n) /\ \E i \in 1..n : w[i] = m
  BY OnLine
<1>2. PICK i \in 1..n : w[i] = m
  BY <1>1
<1>3. Ahead(h, m, k) = w[i + k] /\ w[i + k] \in Pointers
  <2>1. i \in 1..(n + 1) /\ i + k \in Int
    OBVIOUS
  <2>. QED
    BY <1>1, <1>2, <2>1, AheadOnLine
<1>4. h \in Heaps
  BY GoodHeap
<1>5. r0 \in MergeState(l)
  <2>1. /\ r0 \in MergeRecord /\ r0.heap = h /\ r0.m1 = m /\ r0.m2 = w[i + k]
        /\ r0.s1 = k
    BY <1>3, <1>4 DEF MergeRecord, Pointers
  <2>. HIDE DEF r0
  <2>2. \E j \in 1..n : w[j] = r0.m1 /\ w[j + r0.s1] = r0.m2
    BY <1>2, <2>1
  <2>. QED
    BY <1>1, <2>1, <2>2 DEF MergeState
<1>. HIDE DEF r0
<1>6. r \in MergeState(l)
  <2>1. \A y \in MergeState(l) : Merging(l, refused)[y] \in MergeState(l)
    BY MergingStays
  <2>2. 2 * k \in Nat
    OBVIOUS
  <2>. QED
    BY <1>5, <2>1, <2>2, RepeatStays
<1>7. Merge(h, l, m, k, refused)
        = [heap |-> r.heap, failed |-> r.failed, rest |-> Ahead(r.heap, r.m2, r.s2)]
  BY DEF Merge, r0
<1>. HIDE DEF r
<1>8. r \in MergeRecord /\ Good(r.heap) /\ Place(r.heap, l, r.m2)
  <2>1. PICK n1 \in Nat, v \in [Int -> Pointers] :
           /\ Line(r.heap, l, v, n1)
           /\ \E j \in 1..n1 : v[j] = r.m1 /\ v[j + r.s1] = r.m2
    BY <1>6 DEF MergeState
  <2>2. PICK j \in 1..n1 : v[j + r.s1] = r.m2
    BY <2>1
  <2>3. r \in MergeRecord /\ Good(r.heap)
    BY <1>6 DEF MergeState
  <2>4. j + r.s1 \in Int
    BY <2>3 DEF MergeRecord
  <2>5. Place(r.heap, l, v[j + r.s1])
    BY <2>1, <2>4 DEF Line, Place
  <2>. QED
    BY <2>2, <2>3, <2>5
<1>9. Place(r.heap, l, Ahead(r.heap, r.m2, r.s2))
  <2>1. r.s2 \in Nat
    BY <1>8 DEF MergeRecord
  <2>. QED
    BY <1>8, <2>1, AheadPlace
<1>. QED
  BY <1>7, <1>8, <1>9 DEF PassState, PassRecord, MergeRecord, Place

LEMMA PassStays ==
    ASSUME NEW h, Good(h), NEW l \in Lists, NEW k \in Nat, NEW refused
    PROVE  Pass(h, l, k, refused) \in PassState(l)
<1>. DEFINE Pairing == [r \in PassRecord |->
                           IF r.failed \/ r.rest = NoNode THEN r
                           ELSE Merge(r.heap, l, r.rest, k, refused)]
            r0 == [heap |-> h, failed |-> FALSE, rest |-> h.ctl[l].start]
<1>1. Pass(h, l, k, refused) = Repeat(Pairing, r0, h.ctl[l].count)
  BY DEF Pass, PassRecord
<1>2. ASSUME NEW r \in PassState(l) PROVE Pairing[r] \in PassState(l)
  <2>0. r \in PassRecord /\ Good(r.heap) /\ Place(r.heap, l, r.rest)
    BY DEF PassState
  <2>1. Pairing[r] = IF r.failed \/ r.rest = NoNode THEN r
                     ELSE Merge(r.heap, l, r.rest, k, refused)
    BY <2>0
  <2>. HIDE DEF Pairing
  <2>2. CASE r.failed \/ r.rest = NoNode
    BY <2>1, <2>2
  <2>3. CASE ~(r.failed \/ r.rest = NoNode)
    <3>1. r.rest \in Nodes /\ r.heap.node[r.rest].owner = l
      BY <2>0, <2>3 DEF Place, Pointers
    <3>2. Merge(r.heap, l, r.rest, k, refused) \in PassState(l)
      BY <2>0, <3>1, MergeStays
    <3>. QED
      BY <2>1, <2>3, <3>2
  <2>. QED
    BY <2>2, <2>3
<1>3. r0 \in PassState(l)
  <2>1. h \in Heaps /\ Place(h, l, h.ctl[l].start)
    BY GoodHeap, Ends
  <2>. QED
    BY <2>1 DEF PassState, PassRecord, Place
<1>4. h.ctl[l].count \in Nat
  BY DEF Good, Typed, RawControl
<1>5. \A r \in PassState(l) : Pairing[r] \in PassState(l)
  BY <1>2
<1>. HIDE DEF Pairing, r0
<1>6. Repeat(Pairing, r0, h.ctl[l].count) \in PassState(l)
  BY <1>3, <1>4, <1>5, RepeatStays
<1>. QED
  BY <1>1, <1>6

\* Sorting, whether or not Compare fails on the way, leaves a good heap.
LEMMA PassesGood ==
    ASSUME NEW h, Good(h), NEW l \in Lists, NEW refused
    PROVE  Good(Passes(h, l, refused).heap)
<1>. DEFINE SortRecord == [heap : Heaps, failed : BOOLEAN, size : Nat]
            SortState == {r \in SortRecord : Good(r.heap)}
            Doubling == [r \in SortRecord |->
                            IF r.failed \/ h.ctl[l].count <= r.size THEN r
                            ELSE LET p == Pass(r.heap, l, r.size, refused)
                                 IN  [heap |-> p.heap, failed |-> p.failed,
                                      size |-> 2 * r.size]]
            r0 == [heap |-> h, failed |-> FALSE, size |-> 1]
<1>1. Passes(h, l, refused) = Repeat(Doubling, r0, h.ctl[l].count)
  BY DEF Passes
<1>2. ASSUME NEW r \in SortState PROVE Doubling[r] \in SortState
  <2>. DEFINE p == Pass(r.heap, l, r.size, refused)
  <2>1. r.size \in Nat /\ 2 * r.size \in Nat /\ Good(r.heap)
    OBVIOUS
  <2>2. p \in PassState(l)
    BY <2>1, PassStays
  <2>3. Doubling[r] = IF r.failed \/ h.ctl[l].count <= r.size THEN r
                      ELSE [heap |-> p.heap, failed |-> p.failed, size |-> 2 * r.size]
    OBVIOUS
  <2>. HIDE DEF Doubling, p
  <2>4. [heap |-> p.heap, failed |-> p.failed, size |-> 2 * r.size] \in SortState
    BY <2>1, <2>2 DEF PassState, PassRecord
  <2>. QED
    BY <2>3, <2>4
<1>3. r0 \in SortState
  BY GoodHeap
<1>4. h.ctl[l].count \in Nat
  BY DEF Good, Typed, RawControl
<1>5. \A r \in SortState : Doubling[r] \in SortState
  BY <1>2
<1>6. Repeat(Doubling, r0, h.ctl[l].count) \in SortState
  <2>. HIDE DEF Doubling, SortState, r0
  <2>. QED
    BY <1>3, <1>4, <1>5, RepeatStays
<1>. HIDE DEF Doubling, r0
<1>. QED
  BY <1>1, <1>6
-----------------------------------------------------------------------------
(* Walks *)

Prefix(v, m) == [i \in 1..m |-> v[i]]

LEMMA PrefixSeq ==
    ASSUME NEW v, NEW m \in Nat, \A i \in 1..m : v[i] \in Nodes
    PROVE  /\ Prefix(v, m) \in Seq(Nodes) /\ Len(Prefix(v, m)) = m
           /\ DOMAIN Prefix(v, m) = 1..m
           /\ \A i \in 1..m : Prefix(v, m)[i] = v[i]
           /\ Prefix(v, m) = << >> <=> m = 0
           /\ v[m + 1] \in Nodes => Append(Prefix(v, m), v[m + 1]) = Prefix(v, m + 1)
<1>1. /\ Prefix(v, m) \in Seq(Nodes) /\ Len(Prefix(v, m)) = m
      /\ DOMAIN Prefix(v, m) = 1..m
      /\ \A i \in 1..m : Prefix(v, m)[i] = v[i]
  BY DEF Prefix
<1>2. Prefix(v, m) = << >> <=> m = 0
  <2>1. m = 0 => Prefix(v, m) = << >>
    BY <1>1
  <2>2. Prefix(v, m) = << >> => m = 0
    BY <1>1
  <2>. QED
    BY <2>1, <2>2
<1>3. ASSUME v[m + 1] \in Nodes
      PROVE  Append(Prefix(v, m), v[m + 1]) = Prefix(v, m + 1)
  <2>1. \A i \in 1..(m + 1) : v[i] \in Nodes
    BY <1>3
  <2>2. /\ Prefix(v, m + 1) \in Seq(Nodes) /\ Len(Prefix(v, m + 1)) = m + 1
        /\ \A i \in 1..(m + 1) : Prefix(v, m + 1)[i] = v[i]
    BY <2>1 DEF Prefix
  <2>3. /\ Append(Prefix(v, m), v[m + 1]) \in Seq(Nodes)
        /\ Len(Append(Prefix(v, m), v[m + 1])) = m + 1
        /\ \A i \in 1..m : Append(Prefix(v, m), v[m + 1])[i] = Prefix(v, m)[i]
        /\ Append(Prefix(v, m), v[m + 1])[m + 1] = v[m + 1]
    BY <1>1, <1>3
  <2>4. \A i \in 1..(m + 1) : Append(Prefix(v, m), v[m + 1])[i] = Prefix(v, m + 1)[i]
    BY <1>1, <2>2, <2>3
  <2>. QED
    BY <2>2, <2>3, <2>4
<1>. QED
  BY <1>1, <1>2, <1>3

\* The pointers of one direction run along v[1], ..., v[n].
Along(h, forward, v, n) ==
    /\ \A i \in Int : v[i] # NoNode <=> i \in 1..n
    /\ \A i \in 1..n : (IF forward THEN h.node[v[i]].next ELSE h.node[v[i]].prev)
                       = v[i + 1]

LEMMA ChainIs ==
    ASSUME NEW h, NEW forward \in BOOLEAN, NEW n \in Nat, NEW v \in [Int -> Pointers],
           Along(h, forward, v, n), NEW fuel \in Nat
    PROVE  Chain(h, v[1], forward, fuel) = Prefix(v, IF fuel <= n THEN fuel ELSE n)
<1>. USE DEF Along
<1>. DEFINE Meeting == [s \in Seq(Nodes) |->
                LET next == IF s = << >> THEN v[1]
                            ELSE IF forward THEN h.node[Last(s)].next
                            ELSE h.node[Last(s)].prev
                IN  IF next = NoNode THEN s ELSE Append(s, next)]
            g == [k \in Nat |-> Prefix(v, IF k <= n THEN k ELSE n)]
<1>1. Chain(h, v[1], forward, fuel) = Repeat(Meeting, << >>, fuel)
  BY DEF Chain
<1>2. \A i \in 1..n : v[i] \in Nodes
  BY DEF Pointers
<1>3. \A k \in Nat : g[k] = Prefix(v, IF k <= n THEN k ELSE n)
  OBVIOUS
<1>4. ASSUME NEW k \in 0..(fuel - 1) PROVE Meeting[g[k]] = g[k + 1]
  <2>. DEFINE m == IF k <= n THEN k ELSE n
              s == Prefix(v, m)
              next == IF s = << >> THEN v[1]
                      ELSE IF forward THEN h.node[Last(s)].next ELSE h.node[Last(s)].prev
  <2>1. m \in Nat /\ m <= n /\ k \in Nat /\ k + 1 \in Nat
    OBVIOUS
  <2>2. g[k] = s
    BY <1>3, <2>1
  <2>. HIDE DEF m
  <2>3. \A i \in 1..m : v[i] \in Nodes
    BY <1>2, <2>1
  <2>4. /\ s \in Seq(Nodes) /\ Len(s) = m /\ (\A i \in 1..m : s[i] = v[i])
        /\ (s = << >> <=> m = 0)
        /\ (v[m + 1] \in Nodes => Append(s, v[m + 1]) = Prefix(v, m + 1))
    BY <2>1, <2>3, PrefixSeq
  <2>5. Meeting[s] = IF next = NoNode THEN s ELSE Append(s, next)
    BY <2>4
  <2>. HIDE DEF g, Meeting, s
  <2>6. next = v[m + 1]
    <3>1. CASE m = 0
      BY <2>4, <3>1
    <3>2. CASE m # 0
      <4>1. m \in 1..n /\ s # << >> /\ Last(s) = v[m]
        BY <2>1, <2>4, <3>2 DEF Last
      <4>2. (IF forward THEN h.node[v[m]].next ELSE h.node[v[m]].prev) = v[m + 1]
        BY <4>1
      <4>. QED
        BY <4>1, <4>2
    <3>. QED
      BY <3>1, <3>2
  <2>. HIDE DEF next
  <2>7. CASE m < n
    <3>1. m + 1 \in 1..n /\ m = k /\ k + 1 <= n
      BY <2>1, <2>7 DEF m
    <3>2. v[m + 1] # NoNode /\ v[m + 1] \in Nodes
      BY <1>2, <3>1
    <3>3. g[k + 1] = Prefix(v, k + 1)
      BY <1>3, <2>1, <3>1
    <3>. QED
      BY <2>2, <2>4, <2>5, <2>6, <3>1, <3>2, <3>3
  <2>8. CASE m = n
    <3>1. m + 1 \in Int /\ m + 1 \notin 1..n
      BY <2>1, <2>8
    <3>2. v[m + 1] = NoNode
      BY <3>1
    <3>3. g[k + 1] = Prefix(v, m)
      BY <1>3, <2>1, <2>8 DEF m
    <3>. QED
      BY <2>2, <2>5, <2>6, <3>2, <3>3 DEF s
  <2>. QED
    BY <2>1, <2>7, <2>8
<1>5. g[0] = << >>
  <2>1. g[0] = Prefix(v, 0)
    BY <1>3
  <2>2. Prefix(v, 0) = << >>
    BY DEF Prefix
  <2>. QED
    BY <2>1, <2>2
<1>6. \A k \in 0..(fuel - 1) : Meeting[g[k]] = g[k + 1]
  BY <1>4
<1>. HIDE DEF g, Meeting
<1>7. Repeat(Meeting, << >>, fuel) = g[fuel]
  BY <1>5, <1>6, RepeatIs
<1>. QED
  BY <1>1, <1>3, <1>7

\* Walking a list meets the nodes of its line.
LEMMA WalkIs ==
    ASSUME NEW h, NEW l, NEW w, NEW n, Line(h, l, w, n)
    PROVE  Walk(h, l) = Prefix(w, n)
<1>0. n \in Nat /\ w \in [Int -> Pointers] /\ n + 1 \in Nat /\ ~(n + 1 <= n)
      /\ h.ctl[l].count = n /\ h.ctl[l].start = w[1]
  BY DEF Line
<1>1. \A i \in Int : w[i] # NoNode <=> i \in 1..n
  BY DEF Line
<1>2. \A i \in 1..n : (IF TRUE THEN h.node[w[i]].next ELSE h.node[w[i]].prev) = w[i + 1]
  BY DEF Line
<1>3. Along(h, TRUE, w, n)
  BY <1>1, <1>2 DEF Along
<1>4. Chain(h, w[1], TRUE, n + 1) = Prefix(w, IF n + 1 <= n THEN n + 1 ELSE n)
  BY <1>0, <1>3, ChainIs
<1>. QED
  BY <1>0, <1>4 DEF Walk

\* So does walking back from its end.
LEMMA WalkBackIs ==
    ASSUME NEW h, NEW l, NEW w, NEW n, Line(h, l, w, n)
    PROVE  Chain(h, h.ctl[l].end, FALSE, h.ctl[l].count + 1)
           = Prefix([i \in Int |-> w[(n + 1) - i]], n)
<1>0. n \in Nat /\ w \in [Int -> Pointers] /\ n + 1 \in Nat /\ ~(n + 1 <= n)
      /\ h.ctl[l].count = n /\ h.ctl[l].start = w[1] /\ h.ctl[l].end = w[n]
  BY DEF Line
<1>. DEFINE v == [i \in Int |-> w[(n + 1) - i]]
<1>2. v \in [Int -> Pointers] /\ v[1] = w[n]
  BY <1>0
<1>3. Chain(h, v[1], FALSE, n + 1) = Prefix(v, n)
  <2>1. ASSUME NEW i \in Int PROVE v[i] # NoNode <=> i \in 1..n
    <3>1. (n + 1) - i \in Int /\ ((n + 1) - i \in 1..n <=> i \in 1..n)
      BY <1>0
    <3>. QED
      BY <3>1 DEF Line
  <2>2. ASSUME NEW i \in 1..n
        PROVE  (IF FALSE THEN h.node[v[i]].next ELSE h.node[v[i]].prev) = v[i + 1]
    <3>1. (n + 1) - i \in 1..n /\ ((n + 1) - i) - 1 = (n + 1) - (i + 1)
      BY <1>0
    <3>2. h.node[w[(n + 1) - i]].prev = w[((n + 1) - i) - 1]
      BY <3>1 DEF Line
    <3>3. v[i] = w[(n + 1) - i] /\ v[i + 1] = w[(n + 1) - (i + 1)]
      BY <1>0
    <3>. QED
      BY <3>1, <3>2, <3>3
  <2>. HIDE DEF v
  <2>3. Along(h, FALSE, v, n)
    BY <2>1, <2>2 DEF Along
  <2>4. Chain(h, v[1], FALSE, n + 1) = Prefix(v, IF n + 1 <= n THEN n + 1 ELSE n)
    <3>1. v \in [Int -> Pointers] /\ n \in Nat /\ n + 1 \in Nat /\ FALSE \in BOOLEAN
      BY <1>0, <1>2
    <3>. QED
      BY <2>3, <3>1, ChainIs
  <2>. QED
    BY <1>0, <2>4
<1>. QED
  BY <1>0, <1>2, <1>3
-----------------------------------------------------------------------------
(* The other operations keep a heap good *)

\* A list with no nodes is a line.
LEMMA NoLine ==
    ASSUME NEW g, NEW l \in Lists, g.ctl[l] = CreateList,
           \A m \in Nodes : g.node[m].owner # l
    PROVE  IsLine(g, l)
<1>. DEFINE w == [i \in Int |-> NoNode]
<1>1. NoNode \notin Nodes
  BY DListAssumption
<1>2. /\ g.ctl[l].count = 0 /\ g.ctl[l].start = NoNode /\ g.ctl[l].end = NoNode
      /\ g.ctl[l].current = NoNode
  BY DEF CreateList
<1>3. /\ w \in [Int -> Pointers] /\ w[0] = NoNode /\ w[1] = NoNode
      /\ \A i \in Int : w[i] = NoNode
  BY DEF Pointers
<1>. HIDE DEF w
<1>4. Line(g, l, w, 0)
  BY <1>1, <1>2, <1>3 DEF Line, Place, Pointers
<1>. QED
  BY <1>3, <1>4 DEF IsLine

\* Heap g is h with the nodes of one list freed.
Emptying(h, g, l) ==
    /\ Typed(g)
    /\ \A m \in Nodes : g.node[m] = IF h.node[m].owner = l THEN NoLink ELSE h.node[m]
    /\ \A x \in Lists \ {l} : g.ctl[x] = h.ctl[x]
    /\ g.ctl[l] = CreateList

LEMMA EmptyingGood ==
    ASSUME NEW h, Good(h), NEW l \in Lists, NEW g, Emptying(h, g, l)
    PROVE  Good(g)
<1>1. NoNode \notin Nodes /\ NoList \notin Lists
  BY DListAssumption
<1>2. NoLink.owner = NoList
  BY DEF NoLink
<1>3. Elsewhere(h, g, {l})
  BY <1>1, <1>2 DEF Emptying, Elsewhere
<1>4. IsLine(g, l)
  <2>1. \A m \in Nodes : g.node[m].owner # l
    BY <1>1, <1>2 DEF Emptying
  <2>. QED
    BY <2>1, NoLine DEF Emptying
<1>5. Typed(g)
  BY DEF Emptying
<1>. QED
  BY <1>3, <1>4, <1>5, StaysGood

\* DeleteAllItems, and DestroyList after it, free the nodes of the list.
LEMMA EmptiedGood ==
    ASSUME NEW h, Good(h), NEW l \in Lists
    PROVE  /\ Good(Emptied(h, l)) /\ Emptying(h, Emptied(h, l), l)
           /\ Good([Emptied(h, l) EXCEPT !.ctl[l] = CreateList])
           /\ Emptying(h, [Emptied(h, l) EXCEPT !.ctl[l] = CreateList], l)
<1>. DEFINE gone == {Walk(h, l)[i] : i \in 1..h.ctl[l].count}
            g == Emptied(h, l)
            d == [g EXCEPT !.ctl[l] = CreateList]
            nd == [n \in Nodes |-> IF n \in gone THEN NoLink ELSE h.node[n]]
            left == [CreateList EXCEPT !.start =
                        IF Walk(h, l) = << >> THEN NoNode
                        ELSE h.node[Walk(h, l)[h.ctl[l].count]].next]
<1>0. g = [node |-> nd, ctl |-> [h.ctl EXCEPT ![l] = left]]
  BY DEF Emptied
<1>1. NoNode \notin Nodes /\ NoList \notin Lists
  BY DListAssumption
<1>2. h.node \in [Nodes -> Links] /\ h.ctl \in [Lists -> RawControl]
  BY DEF Good, Typed
<1>3. PICK n \in Nat, w \in [Int -> Pointers] : Line(h, l, w, n)
  BY DEF Good, IsLine
<1>4. \A i \in 1..n : w[i] \in Nodes
  BY <1>3 DEF Line, Pointers
<1>5. /\ Walk(h, l) = Prefix(w, n) /\ h.ctl[l].count = n
      /\ (Prefix(w, n) = << >> <=> n = 0)
      /\ \A i \in 1..n : Prefix(w, n)[i] = w[i]
  <2>1. Walk(h, l) = Prefix(w, n)
    BY <1>3, WalkIs
  <2>2. (Prefix(w, n) = << >> <=> n = 0) /\ \A i \in 1..n : Prefix(w, n)[i] = w[i]
    BY <1>4, PrefixSeq
  <2>. QED
    BY <1>3, <2>1, <2>2 DEF Line
<1>6. ASSUME NEW m \in Nodes PROVE m \in gone <=> h.node[m].owner = l
  <2>1. \A i \in 1..n : Walk(h, l)[i] = w[i]
    BY <1>5
  <2>2. gone = {w[i] : i \in 1..n}
    BY <1>5, <2>1
  <2>3. h.node[m].owner = l <=> \E i \in 1..n : w[i] = m
    BY <1>3 DEF Line
  <2>. HIDE DEF gone
  <2>. QED
    BY <2>2, <2>3
<1>7. left = CreateList
  <2>1. (IF Walk(h, l) = << >> THEN NoNode ELSE h.node[Walk(h, l)[h.ctl[l].count]].next)
        = NoNode
    <3>1. CASE n = 0
      BY <1>5, <3>1
    <3>2. CASE n # 0
      <4>1. n \in 1..n /\ Walk(h, l)[h.ctl[l].count] = w[n] /\ Walk(h, l) # << >>
        BY <1>5, <3>2
      <4>2. h.node[w[n]].next = NoNode
        BY <1>3, <4>1 DEF Line
      <4>. QED
        BY <4>1, <4>2
    <3>. QED
      BY <3>1, <3>2
  <2>2. left = [CreateList EXCEPT !.start = NoNode]
    BY <2>1
  <2>. QED
    BY <2>2 DEF CreateList
<1>8. CreateList \in RawControl /\ NoLink \in Links
  BY DEF CreateList, RawControl, Pointers, Links
<1>9. nd \in [Nodes -> Links]
      /\ \A m \in Nodes : nd[m] = IF h.node[m].owner = l THEN NoLink ELSE h.node[m]
  <2>. HIDE DEF gone
  <2>. QED
    BY <1>2, <1>6, <1>8
<1>. HIDE DEF nd, left
<1>10. /\ g = [node |-> nd, ctl |-> [h.ctl EXCEPT ![l] = CreateList]]
  BY <1>0, <1>7
<1>. HIDE DEF g
<1>11. Emptying(h, g, l)
  BY <1>2, <1>8, <1>9, <1>10 DEF Emptying, Typed
<1>12. Emptying(h, d, l)
  <2>1. Typed(d) /\ d.node = g.node /\ d.ctl[l] = CreateList
        /\ \A x \in Lists \ {l} : d.ctl[x] = g.ctl[x]
    BY <1>8, <1>11 DEF Emptying, Typed
  <2>. HIDE DEF d
  <2>. QED
    BY <1>11, <2>1 DEF Emptying
<1>13. Good(g) /\ Good(d)
  BY <1>11, <1>12, EmptyingGood
<1>. QED
  BY <1>11, <1>12, <1>13 DEF g

\* Only cursors, tags and objects differ.
SameLines(h, g) ==
    /\ Typed(g)
    /\ \A m \in Nodes : /\ g.node[m].owner = h.node[m].owner
                        /\ g.node[m].next = h.node[m].next
                        /\ g.node[m].prev = h.node[m].prev
    /\ \A x \in Lists :
          /\ g.ctl[x].count = h.ctl[x].count
          /\ g.ctl[x].start = h.ctl[x].start /\ g.ctl[x].end = h.ctl[x].end
          /\ Place(h, x, g.ctl[x].current)
          /\ g.ctl[x].current = NoNode <=> h.ctl[x].count = 0

LEMMA SameLinesGood ==
    ASSUME NEW h, Good(h), NEW g, SameLines(h, g)
    PROVE  Good(g)
<1>1. ASSUME NEW l \in Lists PROVE IsLine(g, l)
  <2>1. PICK n \in Nat, w \in [Int -> Pointers] : Line(h, l, w, n)
    BY DEF Good, IsLine
  <2>2. \A i \in 1..n : w[i] \in Nodes
    BY <2>1 DEF Line, Pointers
  <2>3. \A i \in 1..n : /\ g.node[w[i]].owner = l
                        /\ g.node[w[i]].next = w[i + 1]
                        /\ g.node[w[i]].prev = w[i - 1]
    BY <2>1, <2>2 DEF Line, SameLines
  <2>4. \A m \in Nodes : g.node[m].owner = l => \E i \in 1..n : w[i] = m
    BY <2>1 DEF Line, SameLines
  <2>5. /\ g.ctl[l].count = n /\ g.ctl[l].start = w[1] /\ g.ctl[l].end = w[n]
        /\ g.ctl[l].current = NoNode <=> n = 0
    BY <2>1 DEF Line, SameLines
  <2>6. Place(g, l, g.ctl[l].current)
    BY DEF SameLines, Place, Pointers
  <2>7. Line(g, l, w, n)
    BY <2>1, <2>3, <2>4, <2>5, <2>6 DEF Line
  <2>. QED
    BY <2>7 DEF IsLine
<1>. QED
  BY <1>1 DEF Good, SameLines

\* The cursor is put on an item, or on the end of an empty list.
LEMMA CursorGood ==
    ASSUME NEW h, Good(h), NEW l \in Lists, NEW x, Place(h, l, x),
           x = NoNode <=> h.ctl[l].count = 0
    PROVE  Good([h EXCEPT !.ctl[l].current = x])
<1>. DEFINE g == [h EXCEPT !.ctl[l].current = x]
<1>1. Typed(h) /\ x \in Pointers
  BY DEF Good, Place
<1>2. /\ Typed(g) /\ g.node = h.node
      /\ \A z \in Lists \ {l} : g.ctl[z] = h.ctl[z]
      /\ g.ctl[l].start = h.ctl[l].start /\ g.ctl[l].end = h.ctl[l].end
      /\ g.ctl[l].count = h.ctl[l].count /\ g.ctl[l].current = x
  BY <1>1 DEF Typed, RawControl
<1>. HIDE DEF g
<1>3. \A z \in Lists : Place(h, z, h.ctl[z].current)
                       /\ (h.ctl[z].current = NoNode <=> h.ctl[z].count = 0)
  BY Ends
<1>4. SameLines(h, g)
  BY <1>2, <1>3 DEF SameLines
<1>5. Good(g)
  BY <1>4, SameLinesGood
<1>. QED
  BY <1>5 DEF g

\* An item is given another tag and object.
LEMMA ReplaceGood ==
    ASSUME NEW h, Good(h), NEW l \in Lists, NEW x \in Nodes, h.node[x].owner = l,
           NEW tag \in Tags, NEW data \in Objects, NEW r,
           r = [h.node[x] EXCEPT !.tag = tag, !.data = data]
    PROVE  Good([h EXCEPT !.node[x] = r])
<1>. DEFINE g == [h EXCEPT !.node[x] = r]
<1>1. h.node[x] \in LinkNode
  <2>1. h.node[x] \in Links /\ h.node[x].owner # NoList
    BY DListAssumption DEF Good, Typed
  <2>. QED
    BY <2>1, Owned
<1>2. /\ r \in LinkNode /\ r.owner = h.node[x].owner
      /\ r.next = h.node[x].next /\ r.prev = h.node[x].prev
  BY <1>1 DEF LinkNode
<1>3. Typed(h) /\ r \in Links
  BY <1>2 DEF Good, Links
<1>4. /\ Typed(g) /\ g.ctl = h.ctl /\ g.node[x] = r
      /\ \A m \in Nodes \ {x} : g.node[m] = h.node[m]
  BY <1>3 DEF Typed
<1>. HIDE DEF g
<1>5. \A z \in Lists : Place(h, z, h.ctl[z].current)
                       /\ (h.ctl[z].current = NoNode <=> h.ctl[z].count = 0)
  BY Ends
<1>6. SameLines(h, g)
  BY <1>2, <1>4, <1>5 DEF SameLines
<1>7. Good(g)
  BY <1>6, SameLinesGood
<1>. QED
  BY <1>7 DEF g

\* PruneList between two turns.
PruneRecord == [heap : Heaps, at : Pointers, code : Codes]
PruneState(l) == {r \in PruneRecord : Good(r.heap) /\ Place(r.heap, l, r.at)}

LEMMA PruningStays ==
    ASSUME NEW l \in Lists, NEW kill, NEW r \in PruneState(l)
    PROVE  Pruning(l, kill)[r] \in PruneState(l)
<1>. DEFINE h == r.heap
            verdict == kill[h.node[r.at].data]
            before == h.node[r.at].prev
            h1 == Unlink(h, l, r.at)
            on == IF before # NoNode THEN h1.node[before].next ELSE h1.ctl[l].start
            q == Pruning(l, kill)[r]
            heap == IF verdict \in {"kill", "killstop"} THEN h1 ELSE h
            at == CASE verdict = "keep" -> h.node[r.at].next
                    [] verdict = "kill" -> on
                    [] OTHER -> NoNode
            code == IF verdict \in {"fail", "killfail"} THEN "Failed" ELSE "Success"
<1>0. r \in PruneRecord /\ Good(h) /\ Place(h, l, r.at)
  BY DEF PruneState
<1>1. q = IF r.at = NoNode THEN r ELSE [heap |-> heap, at |-> at, code |-> code]
  BY <1>0 DEF Pruning, PruneRecord
<1>2. CASE r.at = NoNode
  BY <1>1, <1>2
<1>3. CASE r.at # NoNode
  <2>1. r.at \in Nodes /\ h.node[r.at].owner = l
    BY <1>0, <1>3 DEF Place, Pointers
  <2>2. /\ Good(h1) /\ \A m \in Nodes : h1.node[m].owner
                                     = IF m = r.at THEN NoList ELSE h.node[m].owner
    BY <1>0, <2>1, UnlinkGood
  <2>. HIDE DEF h1
  <2>3. Place(h, l, h.node[r.at].next) /\ Place(h, l, before)
    BY <1>0, <2>1, Neighbours
  <2>4. before # r.at
    <3>1. PICK n \in Nat, w \in [Int -> Pointers] :
             Line(h, l, w, n) /\ \E i \in 1..n : w[i] = r.at
      <4>. HIDE DEF h
      <4>1. Good(h)
        BY <1>0
      <4>. QED
        BY <2>1, <4>1, OnLine
    <3>2. PICK i \in 1..n : w[i] = r.at
      BY <3>1
    <3>3. before = w[i - 1]
      BY <3>1, <3>2 DEF Line
    <3>4. CASE i = 1
      <4>1. w[0] = NoNode
        BY <3>1 DEF Line
      <4>. QED
        BY <1>3, <3>3, <3>4, <4>1
    <3>5. CASE i # 1
      <4>1. i - 1 \in 1..n /\ i - 1 # i
        BY <3>5
      <4>2. w[i - 1] # w[i]
        BY <3>1, <4>1 DEF Line
      <4>. QED
        BY <3>2, <3>3, <4>2
    <3>. QED
      BY <3>4, <3>5
  <2>5. Place(h1, l, on)
    <3>1. CASE before # NoNode
      <4>1. before \in Nodes /\ h1.node[before].owner = l
        BY <2>2, <2>3, <2>4, <3>1 DEF Place, Pointers
      <4>2. Place(h1, l, h1.node[before].next)
        BY <2>2, <4>1, Neighbours
      <4>. QED
        BY <3>1, <4>2
    <3>2. CASE before = NoNode
      <4>1. Place(h1, l, h1.ctl[l].start)
        BY <2>2, Ends
      <4>. QED
        BY <3>2, <4>1
    <3>. QED
      BY <3>1, <3>2
  <2>6. Good(heap) /\ heap \in Heaps
    <3>1. Good(heap)
      BY <1>0, <2>2
    <3>. HIDE DEF heap
    <3>. QED
      BY <3>1, GoodHeap
  <2>7. Place(heap, l, at)
    <3>. HIDE DEF verdict, on, h
    <3>1. CASE verdict = "keep"
      BY <2>3, <3>1
    <3>2. CASE verdict = "kill"
      BY <2>5, <3>2
    <3>3. CASE verdict \notin {"keep", "kill"}
      BY <3>3 DEF Place, Pointers
    <3>. QED
      BY <3>1, <3>2, <3>3
  <2>8. code \in Codes
    BY DEF Codes
  <2>. HIDE DEF heap, at, code, q
  <2>9. q = [heap |-> heap, at |-> at, code |-> code]
    BY <1>1, <1>3
  <2>10. q \in PruneState(l)
    BY <2>6, <2>7, <2>8, <2>9 DEF PruneState, PruneRecord, Place
  <2>. QED
    BY <2>10 DEF q
<1>. QED
  BY <1>2, <1>3

\* Pruning a list, however it ends, leaves a good heap.
LEMMA PrunedGood ==
    ASSUME NEW h, Good(h), NEW l \in Lists, NEW kill
    PROVE  LET r == Repeat(Pruning(l, kill),
                           [heap |-> h, at |-> h.ctl[l].start, code |-> "Success"],
                           h.ctl[l].count)
           IN  Good(r.heap) /\ r.code \in Codes
<1>. DEFINE r0 == [heap |-> h, at |-> h.ctl[l].start, code |-> "Success"]
            r == Repeat(Pruning(l, kill), r0, h.ctl[l].count)
<1>1. r0 \in PruneState(l)
  <2>1. h \in Heaps /\ Place(h, l, h.ctl[l].start)
    BY GoodHeap, Ends
  <2>. QED
    BY <2>1 DEF PruneState, PruneRecord, Place, Codes
<1>2. \A y \in PruneState(l) : Pruning(l, kill)[y] \in PruneState(l)
  BY PruningStays
<1>3. h.ctl[l].count \in Nat
  BY DEF Good, Typed, RawControl
<1>. HIDE DEF r0
<1>4. r \in PruneState(l)
  BY <1>1, <1>2, <1>3, RepeatStays
<1>. HIDE DEF r
<1>5. Good(r.heap) /\ r.code \in Codes
  BY <1>4 DEF PruneState, PruneRecord
<1>. QED
  BY <1>5 DEF r, r0
\* The nodes met from the start of a list are the ones it owns.
LEMMA WalkOwns ==
    ASSUME NEW h, NEW l, NEW w, NEW n, Line(h, l, w, n)
    PROVE  /\ Len(Walk(h, l)) = n /\ DOMAIN Walk(h, l) = 1..n
           /\ \A i \in 1..n : Walk(h, l)[i] = w[i]
           /\ ToSet(Walk(h, l)) = {m \in Nodes : h.node[m].owner = l}
<1>1. n \in Nat /\ \A i \in 1..n : w[i] \in Nodes /\ h.node[w[i]].owner = l
  BY DEF Line, Pointers
<1>2. \A m \in Nodes : h.node[m].owner = l => \E i \in 1..n : w[i] = m
  BY DEF Line
<1>3. Walk(h, l) = Prefix(w, n)
  BY WalkIs
<1>4. /\ Len(Prefix(w, n)) = n /\ DOMAIN Prefix(w, n) = 1..n
      /\ \A i \in 1..n : Prefix(w, n)[i] = w[i]
  BY <1>1, PrefixSeq
<1>5. ToSet(Prefix(w, n)) = {m \in Nodes : h.node[m].owner = l}
  BY <1>1, <1>2, <1>4 DEF ToSet
<1>. QED
  BY <1>3, <1>4, <1>5

\* The nodes nd[m] of one list s are given to another, t.
Given(nd, t, s) ==
    [m \in Nodes |-> IF nd[m].owner = s THEN [nd[m] EXCEPT !.owner = t] ELSE nd[m]]

LEMMA GivenFields ==
    ASSUME NEW nd \in [Nodes -> Links], NEW t \in Lists, NEW s \in Lists
    PROVE  /\ Given(nd, t, s) \in [Nodes -> Links]
           /\ \A m \in Nodes :
                 /\ Given(nd, t, s)[m].owner = IF nd[m].owner = s THEN t ELSE nd[m].owner
                 /\ Given(nd, t, s)[m].next = nd[m].next
                 /\ Given(nd, t, s)[m].prev = nd[m].prev
<1>1. NoList \notin Lists
  BY DListAssumption
<1>2. ASSUME NEW m \in Nodes
      PROVE  /\ Given(nd, t, s)[m] \in Links
             /\ Given(nd, t, s)[m].owner = IF nd[m].owner = s THEN t ELSE nd[m].owner
             /\ Given(nd, t, s)[m].next = nd[m].next
             /\ Given(nd, t, s)[m].prev = nd[m].prev
  <2>1. CASE nd[m].owner = s
    <3>1. Given(nd, t, s)[m] = [nd[m] EXCEPT !.owner = t]
      BY <2>1 DEF Given
    <3>2. nd[m] \in LinkNode
      BY <1>1, <2>1, Owned
    <3>. QED
      BY <2>1, <3>1, <3>2 DEF Links, LinkNode
  <2>2. CASE nd[m].owner # s
    <3>1. Given(nd, t, s)[m] = nd[m]
      BY <2>2 DEF Given
    <3>. QED
      BY <2>2, <3>1
  <2>. QED
    BY <2>1, <2>2
<1>. DEFINE gd == Given(nd, t, s)
<1>3. gd = [m \in Nodes |-> gd[m]]
  BY DEF Given
<1>. HIDE DEF gd
<1>4. gd \in [Nodes -> Links]
  BY <1>2, <1>3 DEF gd
<1>. QED
  BY <1>2, <1>4 DEF gd

\* A change of owner changes no item.
LEMMA GivenItems ==
    ASSUME NEW nd \in [Nodes -> Links], NEW t, NEW s, NEW m \in Nodes
    PROVE  SameItem(Given(nd, t, s)[m], nd[m])
<1>1. CASE nd[m].owner = s
  <2>1. Given(nd, t, s)[m] = [nd[m] EXCEPT !.owner = t]
    BY <1>1 DEF Given
  <2>. QED
    BY <2>1 DEF SameItem, Links, LinkNode, NoLink
<1>2. CASE nd[m].owner # s
  <2>1. Given(nd, t, s)[m] = nd[m]
    BY <1>2 DEF Given
  <2>. QED
    BY <2>1 DEF SameItem
<1>. QED
  BY <1>1, <1>2

\* Heap g is h with all nodes of s moved to t, whose line they make v, of length n.
Merged(h, g, t, s, v, n) ==
    /\ Good(g) /\ Elsewhere(h, g, {t, s}) /\ Line(g, t, v, n)
    /\ \A m \in Nodes : SameItem(g.node[m], h.node[m])
    /\ g.ctl[s] = CreateList
    /\ g.ctl[t].current
         = IF h.ctl[t].count = 0 THEN h.ctl[s].current ELSE h.ctl[t].current

\* AppendList: the empty list takes the place of the other.
LEMMA SwappedGood ==
    ASSUME NEW h, Good(h), NEW t \in Lists, NEW s \in Lists, t # s, h.ctl[t].count = 0,
           NEW g, g = [node |-> Given(h.node, t, s),
                       ctl |-> [h.ctl EXCEPT ![t] = h.ctl[s], ![s] = h.ctl[t]]],
           NEW k \in Nat, NEW f \in [Int -> Pointers], Line(h, s, f, k)
    PROVE  Merged(h, g, t, s, f, k)
<1>0. g = [node |-> Given(h.node, t, s),
           ctl |-> [h.ctl EXCEPT ![t] = h.ctl[s], ![s] = h.ctl[t]]]
  OBVIOUS
<1>1. h.node \in [Nodes -> Links] /\ h.ctl \in [Lists -> RawControl]
  BY DEF Good, Typed
<1>2. /\ g.node \in [Nodes -> Links]
      /\ \A m \in Nodes :
            /\ g.node[m].owner = IF h.node[m].owner = s THEN t ELSE h.node[m].owner
            /\ g.node[m].next = h.node[m].next
            /\ g.node[m].prev = h.node[m].prev
  BY <1>0, <1>1, GivenFields
<1>3. /\ g.ctl \in [Lists -> RawControl] /\ g = [node |-> g.node, ctl |-> g.ctl]
      /\ g.ctl[t] = h.ctl[s] /\ g.ctl[s] = h.ctl[t]
      /\ \A x \in Lists \ {t, s} : g.ctl[x] = h.ctl[x]
  BY <1>0, <1>1
<1>4. Typed(g)
  BY <1>2, <1>3 DEF Typed
<1>5. Elsewhere(h, g, {t, s})
  BY <1>2, <1>3 DEF Elsewhere
\* t had no node.
<1>6. (\A m \in Nodes : h.node[m].owner # t) /\ h.ctl[t] = CreateList
  <2>1. PICK n \in Nat, w \in [Int -> Pointers] : Line(h, t, w, n)
    BY DEF Good, IsLine
  <2>2. n = 0
    BY <2>1 DEF Line
  <2>3. /\ h.ctl[t].start = NoNode /\ h.ctl[t].end = NoNode /\ h.ctl[t].current = NoNode
        /\ \A m \in Nodes : h.node[m].owner # t
    BY <2>1, <2>2 DEF Line
  <2>4. h.ctl[t] = CreateList
    BY <1>1, <2>3 DEF RawControl, CreateList
  <2>. QED
    BY <2>3, <2>4
<1>7. IsLine(g, s)
  <2>1. \A m \in Nodes : g.node[m].owner # s
    BY <1>2, <1>6
  <2>2. g.ctl[s] = CreateList
    BY <1>3, <1>6
  <2>. QED
    BY <2>1, <2>2, NoLine
<1>8. ASSUME NEW n \in Nat, NEW w \in [Int -> Pointers], Line(h, s, w, n)
      PROVE  Line(g, t, w, n)
  <2>1. Line(h, s, w, n)
    BY <1>8
  <2>2. \A m \in Nodes : g.node[m].owner = t <=> h.node[m].owner = s
    BY <1>2, <1>6
  <2>3. \A i \in 1..n : w[i] \in Nodes
    BY <2>1 DEF Line, Pointers
  <2>4. \A i \in 1..n : /\ g.node[w[i]].owner = t
                        /\ g.node[w[i]].next = w[i + 1]
                        /\ g.node[w[i]].prev = w[i - 1]
    BY <1>2, <2>1, <2>2, <2>3 DEF Line
  <2>5. \A m \in Nodes : g.node[m].owner = t => \E i \in 1..n : w[i] = m
    BY <2>1, <2>2 DEF Line
  <2>6. Place(g, t, g.ctl[t].current)
    BY <1>3, <2>1, <2>2 DEF Line, Place, Pointers
  <2>. QED
    BY <1>3, <2>1, <2>4, <2>5, <2>6 DEF Line
<1>9. \A x \in {t, s} : IsLine(g, x)
  <2>1. PICK n \in Nat, w \in [Int -> Pointers] : Line(h, s, w, n)
    BY DEF Good, IsLine
  <2>2. IsLine(g, t)
    BY <1>8, <2>1 DEF IsLine
  <2>. QED
    BY <1>7, <2>2
<1>10. Good(g)
  BY <1>4, <1>5, <1>9, StaysGood
<1>11. \A m \in Nodes : SameItem(g.node[m], h.node[m])
  BY <1>0, <1>1, GivenItems
<1>12. Line(g, t, f, k)
  BY <1>8
<1>. QED
  BY <1>3, <1>5, <1>6, <1>10, <1>11, <1>12 DEF Merged

\* AppendList: the nodes of s go to the end of t, which has some.
LEMMA AppendedGood ==
    ASSUME NEW h, Good(h), NEW t \in Lists, NEW s \in Lists, t # s,
           h.ctl[t].count # 0, h.ctl[s].count # 0,
           NEW n \in Nat, NEW w \in [Int -> Pointers], Line(h, t, w, n),
           NEW k \in Nat, NEW f \in [Int -> Pointers], Line(h, s, f, k)
    PROVE  LET g == [node |-> Join(Given(h.node, t, s), h.ctl[t].end, h.ctl[s].start),
                     ctl |-> [h.ctl EXCEPT ![t].end = h.ctl[s].end,
                                           ![t].count = @ + h.ctl[s].count,
                                           ![s] = CreateList]]
           IN  Merged(h, g, t, s, Spliced(w, n, k, f), n + k)
<1>. DEFINE gd == Given(h.node, t, s)
            nd == Join(gd, h.ctl[t].end, h.ctl[s].start)
            last == h.ctl[s].end
            more == h.ctl[t].count + h.ctl[s].count
            g == [node |-> nd, ctl |-> [h.ctl EXCEPT ![t].end = last, ![t].count = more,
                                                     ![s] = CreateList]]
<1>1. h.node \in [Nodes -> Links] /\ h.ctl \in [Lists -> RawControl]
  BY DEF Good, Typed
<1>2. NoNode \notin Nodes /\ NoList \notin Lists
  BY DListAssumption
<1>3. /\ gd \in [Nodes -> Links]
      /\ \A m \in Nodes :
            /\ gd[m].owner = IF h.node[m].owner = s THEN t ELSE h.node[m].owner
            /\ gd[m].next = h.node[m].next
            /\ gd[m].prev = h.node[m].prev
  BY <1>1, GivenFields
<1>i. \A m \in Nodes : SameItem(gd[m], h.node[m])
  BY <1>1, GivenItems
<1>. HIDE DEF gd
<1>4. Line(h, t, w, n)
  OBVIOUS
<1>5. Line(h, s, f, k)
  OBVIOUS
<1>6. /\ n # 0 /\ h.ctl[t].count = n /\ h.ctl[t].start = w[1] /\ h.ctl[t].end = w[n]
      /\ h.ctl[t].current # NoNode /\ Place(h, t, h.ctl[t].current)
      /\ k # 0 /\ h.ctl[s].count = k /\ h.ctl[s].start = f[1] /\ h.ctl[s].end = f[k]
  BY <1>4, <1>5 DEF Line
<1>7. /\ w[n] \in Nodes /\ h.node[w[n]].owner = t /\ w[n + 1] = NoNode
      /\ f[1] \in Nodes /\ h.node[f[1]].owner = s /\ f[0] = NoNode /\ f[k + 1] = NoNode
      /\ f[k] \in Pointers
  BY <1>4, <1>5, <1>6 DEF Line, Pointers
<1>8. /\ g.ctl \in [Lists -> RawControl] /\ g = [node |-> g.node, ctl |-> g.ctl]
      /\ g.node = nd /\ g.ctl[s] = CreateList
      /\ g.ctl[t].start = h.ctl[t].start /\ g.ctl[t].end = last
      /\ g.ctl[t].count = more /\ g.ctl[t].current = h.ctl[t].current
      /\ \A x \in Lists \ {t, s} : g.ctl[x] = h.ctl[x]
  <2>1. more \in Nat /\ last \in Pointers /\ CreateList \in RawControl
    BY <1>6, <1>7 DEF CreateList, RawControl, Pointers
  <2>. HIDE DEF more, last, nd
  <2>2. /\ g.ctl = [h.ctl EXCEPT ![t].end = last, ![t].count = more, ![s] = CreateList]
        /\ g.node = nd /\ g = [node |-> g.node, ctl |-> g.ctl]
    OBVIOUS
  <2>. HIDE DEF g
  <2>. DEFINE c1 == [h.ctl EXCEPT ![t].end = last, ![t].count = more]
  <2>3. /\ c1 \in [Lists -> RawControl] /\ c1[t].start = h.ctl[t].start
        /\ c1[t].end = last /\ c1[t].count = more
        /\ c1[t].current = h.ctl[t].current
        /\ \A x \in Lists \ {t} : c1[x] = h.ctl[x]
    BY <1>1, <2>1 DEF RawControl
  <2>4. g.ctl = [c1 EXCEPT ![s] = CreateList]
    BY <1>1, <2>2
  <2>. HIDE DEF c1
  <2>. QED
    BY <2>1, <2>2, <2>3, <2>4
<1>. HIDE DEF g
<1>9. /\ g.node \in [Nodes -> Links]
      /\ \A m \in Nodes :
            /\ g.node[m].owner = IF h.node[m].owner = s THEN t ELSE h.node[m].owner
            /\ g.node[m].next = IF m = w[n] THEN f[1] ELSE h.node[m].next
            /\ g.node[m].prev = IF m = f[1] THEN w[n] ELSE h.node[m].prev
  <2>1. /\ w[n] \in Pointers /\ f[1] \in Pointers /\ w[n] # f[1]
        /\ gd[w[n]].owner # NoList /\ gd[f[1]].owner # NoList
    BY <1>2, <1>3, <1>7 DEF Pointers
  <2>2. /\ Join(gd, w[n], f[1]) \in [Nodes -> Links]
        /\ \A m \in Nodes :
              /\ Join(gd, w[n], f[1])[m].owner = gd[m].owner
              /\ Join(gd, w[n], f[1])[m].next = IF m = w[n] THEN f[1] ELSE gd[m].next
              /\ Join(gd, w[n], f[1])[m].prev = IF m = f[1] THEN w[n] ELSE gd[m].prev
    BY <1>3, <2>1, JoinFields
  <2>3. g.node = Join(gd, w[n], f[1])
    BY <1>6, <1>8
  <2>. QED
    BY <1>3, <2>2, <2>3
<1>j. \A m \in Nodes : SameItem(g.node[m], h.node[m])
  <2>1. g.node = Join(gd, w[n], f[1])
    BY <1>6, <1>8
  <2>2. \A m \in Nodes : SameItem(g.node[m], gd[m])
    <3>1. w[n] # f[1]
      BY <1>7
    <3>. QED
      BY <1>3, <2>1, <3>1, JoinItems
  <2>. QED
    BY <1>i, <2>2 DEF SameItem
<1>10. Typed(g)
  BY <1>8, <1>9 DEF Typed
<1>11. Elsewhere(h, g, {t, s})
  BY <1>7, <1>8, <1>9 DEF Elsewhere
<1>12. IsLine(g, s)
  <2>1. \A m \in Nodes : g.node[m].owner # s
    BY <1>9
  <2>. QED
    BY <1>8, <2>1, NoLine
<1>13. Between(h, g, t, w, n, n, k, f)
  <2>1. ASSUME NEW i \in 1..k
        PROVE  /\ f[i] \in Nodes /\ h.node[f[i]].owner = s
               /\ g.node[f[i]].owner = t
               /\ g.node[f[i]].next = IF i < k THEN f[i + 1] ELSE w[n + 1]
               /\ g.node[f[i]].prev = IF i > 1 THEN f[i - 1] ELSE w[n]
    <3>1. /\ f[i] \in Nodes /\ h.node[f[i]].owner = s
          /\ h.node[f[i]].next = f[i + 1] /\ h.node[f[i]].prev = f[i - 1]
          /\ (f[i] = f[1] <=> i = 1)
      BY <1>5, <1>6 DEF Line, Pointers
    <3>2. f[i] # w[n] /\ (i = k => f[i + 1] = w[n + 1])
      BY <1>7, <3>1
    <3>3. g.node[f[i]].owner = t /\ g.node[f[i]].next = f[i + 1]
      BY <1>9, <3>1, <3>2
    <3>4. g.node[f[i]].prev = IF i > 1 THEN f[i - 1] ELSE w[n]
      <4>1. CASE i = 1
        BY <1>9, <3>1, <4>1
      <4>2. CASE i # 1
        <5>1. i > 1 /\ f[i] # f[1]
          BY <3>1, <4>2
        <5>. QED
          BY <1>9, <3>1, <5>1
      <4>. QED
        BY <4>1, <4>2
    <3>. QED
      BY <3>1, <3>2, <3>3, <3>4
  <2>2. \A i, j \in 1..k : f[i] = f[j] => i = j
    BY <1>5 DEF Line
  <2>3. ASSUME NEW m \in Nodes, \A i \in 1..k : f[i] # m
        PROVE  /\ g.node[m].owner = t <=> h.node[m].owner = t
               /\ h.node[m].owner = t =>
                     /\ g.node[m].next = IF m = w[n] THEN f[1] ELSE h.node[m].next
                     /\ g.node[m].prev = IF m = w[n + 1] THEN f[k] ELSE h.node[m].prev
    <3>1. h.node[m].owner # s
      BY <1>5, <2>3 DEF Line
    <3>2. m # f[1] /\ m # w[n + 1]
      BY <1>2, <1>6, <1>7, <2>3
    <3>. QED
      BY <1>9, <3>1, <3>2
  <2>4. /\ g.ctl[t].count = n + k /\ n # 0
        /\ g.ctl[t].start = w[1] /\ g.ctl[t].end = f[k]
    BY <1>6, <1>8
  <2>5. g.ctl[t].current # NoNode /\ Place(g, t, g.ctl[t].current)
    BY <1>6, <1>8, <1>9 DEF Place, Pointers
  <2>. QED
    BY <2>1, <2>2, <2>3, <2>4, <2>5 DEF Between
<1>14. Line(g, t, Spliced(w, n, k, f), n + k) /\ IsLine(g, t)
  <2>1. k \in Nat \ {0} /\ n \in 0..n
    BY <1>6
  <2>. QED
    BY <1>4, <1>13, <2>1, Inserted
<1>15. \A x \in {t, s} : IsLine(g, x)
  BY <1>12, <1>14
<1>16. Good(g)
  BY <1>10, <1>11, <1>15, StaysGood
<1>17. g.ctl[s] = CreateList /\ g.ctl[t].current = h.ctl[t].current
  BY <1>8
<1>18. Merged(h, g, t, s, Spliced(w, n, k, f), n + k)
  BY <1>11, <1>14, <1>16, <1>17, <1>j DEF Merged
<1>. QED
  BY <1>18 DEF g, nd, gd
\* CopyList: the fresh nodes of a copy are a chain of t that mirrors the line of s.
LEMMA TwinsFresh ==
    ASSUME Good(Heap), NEW t \in Lists, NEW s \in Lists,
           NEW v \in [Int -> Pointers], NEW n \in Nat \ {0}, Line(Heap, s, v, n),
           NEW fresh \in Injection(DOMAIN Walk(Heap, s), {m \in Nodes : Free(m)})
    PROVE  /\ Fresh(Heap, [node |-> Twins(fresh, Walk(Heap, s), t), ctl |-> ctl], t, fresh, n)
           /\ \A i \in 1..n :
                 SameItem(Twins(fresh, Walk(Heap, s), t)[fresh[i]], node[v[i]])
<1>. DEFINE w == Walk(Heap, s)
            nd == Twins(fresh, w, t)
            made == [node |-> nd, ctl |-> ctl]
            Twin(i) == [next |-> IF i < Len(w) THEN fresh[i + 1] ELSE NoNode,
                        prev |-> IF i > 1 THEN fresh[i - 1] ELSE NoNode,
                        owner |-> t, tag |-> node[w[i]].tag, data |-> node[w[i]].data]
<1>1. NoNode \notin Nodes /\ NoList \notin Lists
  BY DListAssumption
<1>2. node \in [Nodes -> Links] /\ ctl \in [Lists -> RawControl]
  BY DEF Good, Typed, Heap
<1>3. Len(w) = n /\ DOMAIN w = 1..n /\ \A i \in 1..n : w[i] = v[i]
  BY WalkOwns
<1>4. \A i \in 1..n : node[w[i]] \in LinkNode
  <2>1. ASSUME NEW i \in 1..n PROVE node[w[i]] \in LinkNode
    <3>1. v[i] \in Nodes /\ node[v[i]].owner = s
      BY DEF Line, Pointers, Heap
    <3>2. node[v[i]] \in Links /\ node[v[i]].owner # NoList
      BY <1>1, <1>2, <3>1
    <3>3. node[v[i]] \in LinkNode
      BY <3>2, Owned
    <3>. QED
      BY <1>3, <3>3
  <2>. QED
    BY <2>1
<1>5. /\ \A i \in 1..n : fresh[i] \in Nodes /\ node[fresh[i]].owner = NoList
      /\ \A i, j \in 1..n : fresh[i] = fresh[j] => i = j
  BY <1>3 DEF Injection, IsInjective, Free
<1>6. nd = [m \in Nodes |-> IF \E i \in DOMAIN w : fresh[i] = m
                            THEN Twin(CHOOSE j \in DOMAIN w : fresh[j] = m)
                            ELSE node[m]]
  BY DEF Twins
<1>. HIDE DEF w, nd
<1>7. ASSUME NEW i \in 1..n PROVE nd[fresh[i]] = Twin(i)
  <2>1. (CHOOSE j \in DOMAIN w : fresh[j] = fresh[i]) = i
    BY <1>3, <1>5
  <2>2. fresh[i] \in Nodes /\ \E j \in DOMAIN w : fresh[j] = fresh[i]
    BY <1>3, <1>5
  <2>3. nd[fresh[i]] = Twin(CHOOSE j \in DOMAIN w : fresh[j] = fresh[i])
    <3>. HIDE DEF Twin
    <3>. QED
      BY <1>6, <2>2
  <2>. QED
    BY <2>1, <2>3
<1>8. ASSUME NEW i \in 1..n
      PROVE  /\ nd[fresh[i]].next = IF i < n THEN fresh[i + 1] ELSE NoNode
             /\ nd[fresh[i]].prev = IF i > 1 THEN fresh[i - 1] ELSE NoNode
             /\ nd[fresh[i]].owner = t
             /\ nd[fresh[i]] \in LinkNode
  <2>. DEFINE next == IF i < n THEN fresh[i + 1] ELSE NoNode
              prev == IF i > 1 THEN fresh[i - 1] ELSE NoNode
              tag == node[w[i]].tag
              data == node[w[i]].data
  <2>1. nd[fresh[i]] = [next |-> next, prev |-> prev, owner |-> t, tag |-> tag,
                        data |-> data]
    BY <1>3, <1>7
  <2>2. next \in Pointers
    BY <1>5 DEF Pointers
  <2>3. prev \in Pointers
    BY <1>5 DEF Pointers
  <2>4. tag \in Tags /\ data \in Objects
    BY <1>4 DEF LinkNode
  <2>5. SUFFICES /\ nd[fresh[i]].next = next /\ nd[fresh[i]].prev = prev
                 /\ nd[fresh[i]].owner = t /\ nd[fresh[i]] \in LinkNode
    OBVIOUS
  <2>. HIDE DEF next, prev, tag, data
  <2>. QED
    BY <2>1, <2>2, <2>3, <2>4 DEF LinkNode
<1>i. ASSUME NEW i \in 1..n PROVE SameItem(nd[fresh[i]], node[v[i]])
  <2>. DEFINE next == IF i < Len(w) THEN fresh[i + 1] ELSE NoNode
              prev == IF i > 1 THEN fresh[i - 1] ELSE NoNode
  <2>0. nd[fresh[i]] = [next |-> next, prev |-> prev, owner |-> t,
                        tag |-> node[w[i]].tag, data |-> node[w[i]].data]
    BY <1>7
  <2>. HIDE DEF next, prev
  <2>1. nd[fresh[i]].tag = node[w[i]].tag /\ nd[fresh[i]].data = node[w[i]].data
    BY <2>0
  <2>. QED
    BY <1>3, <2>1 DEF SameItem
<1>. HIDE DEF Twin
<1>9. \A m \in Nodes : (\A i \in 1..n : fresh[i] # m) => nd[m] = node[m]
  BY <1>3, <1>6
<1>10. ASSUME NEW m \in Nodes PROVE nd[m] \in Links
  <2>1. CASE \E i \in 1..n : fresh[i] = m
    BY <1>8, <2>1 DEF Links
  <2>2. CASE \A i \in 1..n : fresh[i] # m
    BY <1>2, <1>9, <2>2
  <2>. QED
    BY <2>1, <2>2
<1>11. nd = [m \in Nodes |-> nd[m]]
  BY <1>6, Zenon
<1>12. Typed(made)
  BY <1>2, <1>10, <1>11 DEF Typed
<1>13. made.ctl = Heap.ctl /\ made.node = nd /\ Heap.node = node
  BY DEF Heap
<1>. HIDE DEF made
<1>14. Fresh(Heap, made, t, fresh, n)
  BY <1>5, <1>8, <1>9, <1>12, <1>13 DEF Fresh
<1>. QED
  BY <1>14, <1>i DEF made, nd, w

\* Heap g is h with free nodes f[1], ..., f[n] in one place of the line of t, with
\* items like those of v[1], ..., v[n].
Copied(h, g, t, v, n, f) ==
    /\ Good(g) /\ Elsewhere(h, g, {t})
    /\ \A k, u : Line(h, t, u, k) =>
          \E p \in 0..k : Line(g, t, Spliced(u, p, n, f), k + n)
    /\ \A i \in 1..n : /\ f[i] \in Nodes /\ h.node[f[i]].owner = NoList
                       /\ SameItem(g.node[f[i]], h.node[v[i]])
    /\ \A m \in Nodes : (\A i \in 1..n : f[i] # m) => SameItem(g.node[m], h.node[m])
    /\ g.ctl[t].current = IF h.ctl[t].count = 0 THEN f[1] ELSE h.ctl[t].current

\* CopyList puts a copy of s in a gap of t.
LEMMA CopiedGood ==
    ASSUME Good(Heap), NEW t \in Lists, NEW s \in Lists, NEW mode \in Modes,
           Walk(Heap, s) # << >>,
           NEW fresh \in Injection(DOMAIN Walk(Heap, s), {m \in Nodes : Free(m)}),
           NEW n \in Nat, NEW v \in [Int -> Pointers], Line(Heap, s, v, n)
    PROVE  LET w == Walk(Heap, s)
               gap == CopyGap(t, mode)
               made == [node |-> Twins(fresh, w, t), ctl |-> ctl]
               last == fresh[Len(w)]
               h1 == IF ctl[t].current = NoNode
                       THEN [made EXCEPT !.ctl[t].start = fresh[1],
                                         !.ctl[t].end = last,
                                         !.ctl[t].current = fresh[1]]
                       ELSE Splice(made, t, fresh[1], last, gap[1], gap[2])
               g == [h1 EXCEPT !.ctl[t].count = @ + Len(w)]
           IN  Copied(Heap, g, t, v, n, fresh)
<1>. DEFINE w == Walk(Heap, s)
            gap == CopyGap(t, mode)
            made == [node |-> Twins(fresh, w, t), ctl |-> ctl]
            last == fresh[Len(w)]
            first == fresh[1]
            alone == ctl[t].current = NoNode
            h1 == IF alone THEN [made EXCEPT !.ctl[t].start = first, !.ctl[t].end = last,
                                             !.ctl[t].current = first]
                           ELSE Splice(made, t, first, last, gap[1], gap[2])
            g == [h1 EXCEPT !.ctl[t].count = @ + Len(w)]
<1>1. Line(Heap, s, v, n)
  OBVIOUS
<1>2. Len(w) = n /\ n # 0
  <2>1. Len(w) = n
    BY <1>1, WalkOwns
  <2>2. w = Prefix(v, n)
    BY <1>1, WalkIs
  <2>3. \A i \in 1..n : v[i] \in Nodes
    BY <1>1 DEF Line, Pointers
  <2>4. Prefix(v, n) = << >> <=> n = 0
    BY <2>3, PrefixSeq
  <2>. QED
    BY <2>1, <2>2, <2>4
<1>3. Fresh(Heap, made, t, fresh, n)
      /\ \A i \in 1..n : SameItem(made.node[fresh[i]], node[v[i]])
  BY <1>1, <1>2, TwinsFresh
<1>4. /\ Typed(made) /\ made.ctl = ctl /\ last = fresh[n]
      /\ first \in Pointers /\ last \in Pointers
  BY <1>2, <1>3 DEF Fresh, Pointers
<1>. HIDE DEF made, last, first, w, gap
<1>5. /\ h1.ctl \in [Lists -> RawControl] /\ h1 = [node |-> h1.node, ctl |-> h1.ctl]
      /\ h1.node = IF alone THEN made.node
                            ELSE Join(Join(made.node, gap[1], first), last, gap[2])
      /\ \A x \in Lists \ {t} : h1.ctl[x] = made.ctl[x]
      /\ h1.ctl[t].start = IF alone \/ gap[1] = NoNode THEN first ELSE made.ctl[t].start
      /\ h1.ctl[t].end = IF alone \/ gap[2] = NoNode THEN last ELSE made.ctl[t].end
      /\ h1.ctl[t].count = made.ctl[t].count
      /\ h1.ctl[t].current = IF alone THEN first ELSE made.ctl[t].current
  <2>0. Typed(made) /\ first \in Pointers /\ last \in Pointers
        /\ made.ctl \in [Lists -> RawControl]
    BY <1>4 DEF Typed
  <2>1. CASE alone
    <3>1. h1 = [made EXCEPT !.ctl[t].start = first, !.ctl[t].end = last,
                            !.ctl[t].current = first]
      BY <2>1
    <3>. HIDE DEF h1
    <3>. DEFINE c1 == SetEnds(made.ctl, t, first, last)
    <3>2. /\ c1 \in [Lists -> RawControl]
          /\ \A x \in Lists \ {t} : c1[x] = made.ctl[x]
          /\ c1[t].start = first /\ c1[t].end = last /\ c1[t].count = made.ctl[t].count
      BY <2>0, ControlFields
    <3>3. h1.node = made.node /\ h1.ctl = SetCurrent(c1, t, first)
          /\ h1 = [node |-> h1.node, ctl |-> h1.ctl]
      BY <2>0, <3>1 DEF Typed, SetEnds, SetCurrent
    <3>. HIDE DEF c1
    <3>4. /\ h1.ctl \in [Lists -> RawControl]
          /\ \A x \in Lists \ {t} : h1.ctl[x] = c1[x]
          /\ h1.ctl[t].start = c1[t].start /\ h1.ctl[t].end = c1[t].end
          /\ h1.ctl[t].count = c1[t].count /\ h1.ctl[t].current = first
      BY <2>0, <3>2, <3>3, ControlFields
    <3>. QED
      BY <2>1, <3>2, <3>3, <3>4
  <2>2. CASE ~alone
    <3>. DEFINE x == IF gap[1] = NoNode THEN first ELSE made.ctl[t].start
                y == IF gap[2] = NoNode THEN last ELSE made.ctl[t].end
    <3>1. /\ h1.ctl = SetEnds(made.ctl, t, x, y)
          /\ h1 = [node |-> h1.node, ctl |-> h1.ctl]
          /\ h1.node = Join(Join(made.node, gap[1], first), last, gap[2])
      BY <2>0, <2>2 DEF Splice, SetEnds
    <3>. HIDE DEF h1
    <3>2. x \in Pointers /\ y \in Pointers
      BY <2>0 DEF RawControl
    <3>3. /\ h1.ctl \in [Lists -> RawControl]
          /\ \A z \in Lists \ {t} : h1.ctl[z] = made.ctl[z]
          /\ h1.ctl[t].start = x /\ h1.ctl[t].end = y
          /\ h1.ctl[t].count = made.ctl[t].count /\ h1.ctl[t].current = made.ctl[t].current
      <4>1. h1.ctl = SetEnds(made.ctl, t, x, y)
        BY <3>1
      <4>. HIDE DEF x, y
      <4>2. made.ctl \in [Lists -> RawControl]
        BY <2>0
      <4>. QED
        BY <3>2, <4>1, <4>2, ControlFields
    <3>. QED
      BY <2>2, <3>1, <3>3
  <2>. QED
    BY <2>1, <2>2
<1>. HIDE DEF h1
<1>6. /\ Entered(made, g, t, fresh, n, gap[1], gap[2])
      /\ g.ctl[t].current = IF ctl[t].current = NoNode THEN fresh[1] ELSE ctl[t].current
  <2>. DEFINE more == made.ctl[t].count + n
  <2>1. g = [h1 EXCEPT !.ctl[t].count = more] /\ more \in Nat
    BY <1>2, <1>4, <1>5 DEF Typed, RawControl
  <2>. HIDE DEF g, more, alone
  <2>2. h1 \in [node : {h1.node}, ctl : [Lists -> RawControl]]
    BY <1>5
  <2>3. /\ g \in [node : {h1.node}, ctl : [Lists -> RawControl]]
        /\ \A z \in Lists \ {t} : g.ctl[z] = h1.ctl[z]
        /\ g.ctl[t].start = h1.ctl[t].start /\ g.ctl[t].end = h1.ctl[t].end
        /\ g.ctl[t].count = more /\ g.ctl[t].current = h1.ctl[t].current
    BY <2>1, <2>2 DEF RawControl
  <2>4. g.node = h1.node /\ g.ctl \in [Lists -> RawControl]
        /\ g = [node |-> g.node, ctl |-> g.ctl]
    BY <2>3
  <2>. QED
    BY <1>4, <1>5, <2>3, <2>4 DEF Entered, more, alone, first
<1>7. /\ ctl[t].current \in Pointers /\ Place(Heap, t, ctl[t].current)
      /\ ctl[t].current = NoNode => Heap.ctl[t].current = NoNode
  <2>1. Heap.ctl = ctl
    BY DEF Heap
  <2>2. Place(Heap, t, Heap.ctl[t].current)
    BY Ends
  <2>. QED
    BY <2>1, <2>2 DEF Place
<1>8. n \in Nat \ {0} /\ Heap \in {Heap, made}
  BY <1>2
<1>. HIDE DEF g
<1>9. Entering(Heap, g, t, n, fresh, made)
  <2>1. \E c \in Pointers, m \in Modes, at \in {Heap, made} :
           /\ Place(Heap, t, c) /\ (c = NoNode => Heap.ctl[t].current = NoNode)
           /\ Entered(made, g, t, fresh, n, Gap(at, t, c, m)[1], Gap(at, t, c, m)[2])
    BY <1>6, <1>7, <1>8 DEF gap, CopyGap
  <2>. QED
    BY <1>3, <1>8, <2>1 DEF Entering
<1>. HIDE DEF h1
<1>10. ASSUME NEW k, NEW u, Line(Heap, t, u, k)
       PROVE  /\ Good(g) /\ Elsewhere(Heap, g, {t})
              /\ \E p \in 0..k : Line(g, t, Spliced(u, p, n, fresh), k + n)
              /\ \A m \in Nodes : SameItem(g.node[m], made.node[m])
              /\ \A m \in Nodes : (\A i \in 1..n : fresh[i] # m) =>
                    SameItem(g.node[m], Heap.node[m])
  <2>1. Gained(Heap, g, t, n, fresh, made, k, u)
    BY <1>9, <1>10, EnteredLine
  <2>. QED
    BY <2>1 DEF Gained
<1>11. PICK k \in Nat, u \in [Int -> Pointers] : Line(Heap, t, u, k)
  BY DEF Good, IsLine
<1>12. /\ Good(g) /\ Elsewhere(Heap, g, {t})
       /\ \A m \in Nodes : SameItem(g.node[m], made.node[m])
       /\ \A m \in Nodes : (\A i \in 1..n : fresh[i] # m) =>
             SameItem(g.node[m], Heap.node[m])
  BY <1>10, <1>11
<1>13. ASSUME NEW i \in 1..n
       PROVE  /\ fresh[i] \in Nodes /\ Free(fresh[i])
              /\ SameItem(g.node[fresh[i]], node[v[i]])
  <2>1. fresh[i] \in Nodes /\ node[fresh[i]].owner = NoList
    BY <1>3 DEF Fresh, Heap
  <2>. QED
    BY <1>3, <1>12, <2>1 DEF Free, SameItem
<1>14. ctl[t].current = NoNode <=> ctl[t].count = 0
  BY <1>11 DEF Line, Heap
<1>15. \A m \in Nodes : (\A i \in 1..n : fresh[i] # m) => SameItem(g.node[m], node[m])
  BY <1>12 DEF Heap
<1>16. Copied(Heap, g, t, v, n, fresh)
  <2>1. Heap.node = node /\ Heap.ctl = ctl
    BY DEF Heap
  <2>2. \A j, q : Line(Heap, t, q, j) =>
           \E p \in 0..j : Line(g, t, Spliced(q, p, n, fresh), j + n)
    BY <1>10
  <2>. QED
    BY <1>6, <1>12, <1>13, <1>14, <1>15, <2>1, <2>2 DEF Copied, Free
<1>. QED
  BY <1>16 DEF g, h1, made, last, first, w, gap
-----------------------------------------------------------------------------
(* The calls *)

\* The inductive invariant: every list is a line.
DListInv == Good(Heap) /\ ret.code \in Codes

LEMMA Returned ==
    ASSUME NEW h, Good(h), NEW code \in Codes, NEW out, Return(h, code, out)
    PROVE  DListInv'
<1>1. h = [node |-> h.node, ctl |-> h.ctl]
  BY DEF Good, Typed
<1>2. node' = h.node /\ ctl' = h.ctl /\ ret'.code = code
  BY DEF Return
<1>3. Heap' = h
  BY <1>1, <1>2 DEF Heap
<1>4. Good(Heap')
  BY <1>3
<1>. QED
  BY <1>2, <1>4 DEF DListInv

LEMMA Refused ==
    ASSUME DListInv, NEW code \in Codes, Fail(code)
    PROVE  DListInv'
<1>1. Good(Heap) /\ Return(Heap, code, << >>)
  BY DEF DListInv, Fail
<1>. QED
  BY <1>1, Returned

\* The functions that take a handle act on an item of the list.
LEMMA Pointed ==
    ASSUME DListInv, NEW l \in Lists, NEW handle \in SomeHandle
    PROVE  /\ Refusal(l, handle) \in Codes
           /\ Refusal(l, handle) = "Success" =>
                 At(l, handle) \in Nodes /\ Heap.node[At(l, handle)].owner = l
                 /\ ctl[l].count # 0
<1>1. Refusal(l, handle) \in Codes
  BY DEF Refusal, Codes
<1>2. ASSUME Refusal(l, handle) = "Success"
      PROVE  At(l, handle) \in Nodes /\ Heap.node[At(l, handle)].owner = l
             /\ ctl[l].count # 0
  <2>1. ctl[l].count # 0 /\ (handle # NoNode => node[handle].owner = l)
    BY <1>2 DEF Refusal
  <2>2. Heap.ctl = ctl /\ Heap.node = node
    BY DEF Heap
  <2>3. CASE handle # NoNode
    BY <2>1, <2>2, <2>3 DEF SomeHandle, At
  <2>4. CASE handle = NoNode
    <3>1. Place(Heap, l, ctl[l].current) /\ (ctl[l].current = NoNode <=> ctl[l].count = 0)
      BY <2>2, Ends DEF DListInv
    <3>. QED
      BY <2>1, <2>4, <3>1 DEF At, Place, Pointers
  <2>. QED
    BY <2>3, <2>4
<1>. QED
  BY <1>1, <1>2

\* The cursor is put on an item, or left where it is.
LEMMA CurrentGood ==
    ASSUME Good(Heap), NEW l \in Lists, NEW makeCurrent \in BOOLEAN, NEW x,
           Place(Heap, l, x), x = NoNode <=> ctl[l].count = 0
    PROVE  Good(Current(l, makeCurrent, x)) /\ Current(l, makeCurrent, x).node = node
<1>1. Heap.ctl = ctl /\ Heap.node = node
  BY DEF Heap
<1>2. Good([Heap EXCEPT !.ctl[l].current = x])
  BY <1>1, CursorGood
<1>3. [Heap EXCEPT !.ctl[l].current = x].node = node
  BY DEF Heap
<1>4. CASE makeCurrent
  BY <1>2, <1>3, <1>4 DEF Current
<1>5. CASE ~makeCurrent
  BY <1>1, <1>5 DEF Current
<1>. QED
  BY <1>4, <1>5

\* A current item that is not the last has a next one, and one that is not the
\* first a previous one.
LEMMA Onward ==
    ASSUME Good(Heap), NEW l \in Lists, ctl[l].count # 0
    PROVE  LET c == ctl[l].current
           IN  /\ Place(Heap, l, node[c].next) /\ Place(Heap, l, node[c].prev)
               /\ c # ctl[l].end => node[c].next # NoNode
               /\ c # ctl[l].start => node[c].prev # NoNode
<1>. DEFINE c == ctl[l].current
<1>1. Heap.ctl = ctl /\ Heap.node = node
  BY DEF Heap
<1>2. PICK n \in Nat, w \in [Int -> Pointers] : Line(Heap, l, w, n)
  BY DEF Good, IsLine
<1>3. /\ Place(Heap, l, c) /\ c # NoNode /\ ctl[l].start = w[1] /\ ctl[l].end = w[n]
  BY <1>1, <1>2 DEF Line
<1>4. c \in Nodes /\ Heap.node[c].owner = l
  BY <1>3 DEF Place, Pointers
<1>5. PICK i \in 1..n : w[i] = c
  BY <1>2, <1>4 DEF Line
<1>6. node[c].next = w[i + 1] /\ node[c].prev = w[i - 1]
  BY <1>1, <1>2, <1>5 DEF Line
<1>7. i # n => w[i + 1] # NoNode
  <2>. SUFFICES ASSUME i # n PROVE w[i + 1] # NoNode
    OBVIOUS
  <2>1. i + 1 \in Int /\ i + 1 \in 1..n
    OBVIOUS
  <2>. QED
    BY <1>2, <2>1 DEF Line
<1>8. i # 1 => w[i - 1] # NoNode
  <2>. SUFFICES ASSUME i # 1 PROVE w[i - 1] # NoNode
    OBVIOUS
  <2>1. i - 1 \in Int /\ i - 1 \in 1..n
    OBVIOUS
  <2>. QED
    BY <1>2, <2>1 DEF Line
<1>9. Place(Heap, l, node[c].next) /\ Place(Heap, l, node[c].prev)
  BY <1>1, <1>4, Neighbours
<1>. QED
  BY <1>3, <1>5, <1>6, <1>7, <1>8, <1>9

LEMMA InsertObjectKeeps ==
    ASSUME DListInv, NEW l \in Lists, NEW k \in Kinds,
           NEW target \in Items(l) \cup {NoNode}, NEW mode \in Modes,
           NEW makeCurrent \in BOOLEAN,
           InsertObject(l, k[1], k[2], target, mode, makeCurrent)
    PROVE  DListInv'
<1>1. CASE Fail("OutOfMemory")
  BY <1>1, Refused DEF Codes
<1>2. CASE \E n \in Nodes :
              /\ Free(n)
              /\ LET c == IF target # NoNode THEN target ELSE ctl[l].current
                 IN  Return(Enter(Heap, l, n, k[1], k[2], c, mode, makeCurrent),
                            "Success", <<n>>)
  <2>. DEFINE c == IF target # NoNode THEN target ELSE ctl[l].current
  <2>1. PICK n \in Nodes :
           /\ Free(n)
           /\ Return(Enter(Heap, l, n, k[1], k[2], c, mode, makeCurrent), "Success", <<n>>)
    BY <1>2
  <2>2. Heap.ctl = ctl /\ Heap.node = node
    BY DEF Heap
  <2>3. k[1] \in Tags /\ k[2] \in Objects
    BY DListAssumption
  <2>4. c \in Pointers /\ Place(Heap, l, c) /\ (c = NoNode => Heap.ctl[l].current = NoNode)
    <3>1. CASE target # NoNode
      BY <2>2, <3>1 DEF Items, Place, Pointers
    <3>2. CASE target = NoNode
      <4>1. Place(Heap, l, Heap.ctl[l].current)
        BY Ends DEF DListInv
      <4>. QED
        BY <2>2, <3>2, <4>1 DEF Place
    <3>. QED
      BY <3>1, <3>2
  <2>5. Heap.node[n].owner = NoList /\ Good(Heap)
    BY <2>1, <2>2 DEF Free, DListInv
  <2>. HIDE DEF c
  <2>6. Good(Enter(Heap, l, n, k[1], k[2], c, mode, makeCurrent))
    BY <2>3, <2>4, <2>5, EnterGood
  <2>. QED
    BY <2>1, <2>6, Returned DEF Codes
<1>. QED
  BY <1>1, <1>2 DEF InsertObject

LEMMA InsertionKeeps ==
    ASSUME DListInv, NEW l \in Lists, Insertion(l)
    PROVE  DListInv'
<1>1. ASSUME NEW k \in Kinds, NEW mode \in Modes, NEW makeCurrent \in BOOLEAN,
             NEW target \in Items(l) \cup {NoNode},
             InsertObject(l, k[1], k[2], target, mode, makeCurrent)
      PROVE  DListInv'
  BY <1>1, InsertObjectKeeps
<1>2. ASSUME NEW k \in Kinds, NEW mode \in Modes, NEW makeCurrent \in BOOLEAN,
             ExclusiveInsertObject(l, k[1], k[2], NoNode, mode, makeCurrent)
      PROVE  DListInv'
  <2>1. CASE Return(Heap, "Success", << >>)
    BY <2>1, Returned DEF DListInv, Codes
  <2>2. CASE InsertObject(l, k[1], k[2], NoNode, mode, makeCurrent)
    BY <1>1, <2>2
  <2>. QED
    BY <1>2, <2>1, <2>2 DEF ExclusiveInsertObject
<1>. QED
  BY <1>1, <1>2 DEF Insertion

\* Taking out the item a handle names.
LEMMA ExtractKeeps ==
    ASSUME DListInv, NEW l \in Lists, NEW handle \in SomeHandle,
           Refusal(l, handle) = "Success", NEW out,
           Return(Unlink(Heap, l, At(l, handle)), "Success", out)
    PROVE  DListInv'
<1>1. At(l, handle) \in Nodes /\ Heap.node[At(l, handle)].owner = l
  BY Pointed
<1>2. Good(Unlink(Heap, l, At(l, handle)))
  BY <1>1, UnlinkGood DEF DListInv
<1>. QED
  BY <1>2, Returned DEF Codes

LEMMA DeleteObjectKeeps ==
    ASSUME DListInv, NEW l \in Lists, NEW data, DeleteObject(l, data)
    PROVE  DListInv'
<1>. DEFINE w == Walk(Heap, l)
            hits == {i \in DOMAIN w : node[w[i]].data = data}
<1>1. CASE Fail("NotFound")
  BY <1>1, Refused DEF Codes
<1>2. CASE hits # {} /\ Return(Unlink(Heap, l, w[Min(hits)]), "Success", << >>)
  <2>1. PICK n \in Nat, v \in [Int -> Pointers] : Line(Heap, l, v, n)
    BY DEF DListInv, Good, IsLine
  <2>2. DOMAIN w = 1..n /\ \A i \in 1..n : w[i] = v[i]
    BY <2>1, WalkOwns
  <2>3. hits \subseteq 1..n /\ hits # {} /\ hits \subseteq Nat
    BY <1>2, <2>2
  <2>4. \E i \in hits : \A j \in hits : i <= j
    BY <2>3, LeastElement
  <2>5. Min(hits) \in hits
    <3>. HIDE DEF hits
    <3>. QED
      BY <2>4 DEF Min
  <2>6. Min(hits) \in 1..n
    BY <2>3, <2>5
  <2>. DEFINE m == Min(hits)
  <2>. HIDE DEF m
  <2>7. w[m] \in Nodes /\ Heap.node[w[m]].owner = l
    <3>1. m \in 1..n /\ w[m] = v[m]
      BY <2>2, <2>6 DEF m
    <3>2. v[m] \in Nodes /\ Heap.node[v[m]].owner = l
      BY <2>1, <3>1 DEF Line, Pointers
    <3>. QED
      BY <3>1, <3>2
  <2>8. Good(Unlink(Heap, l, w[m]))
    BY <2>7, UnlinkGood DEF DListInv
  <2>9. Return(Unlink(Heap, l, w[m]), "Success", << >>)
    BY <1>2 DEF m
  <2>. QED
    BY <2>8, <2>9, Returned DEF Codes
<1>. QED
  BY <1>1, <1>2 DEF DeleteObject

LEMMA RemovalKeeps ==
    ASSUME DListInv, NEW l \in Lists, Removal(l)
    PROVE  DListInv'
<1>1. ASSUME NEW handle \in SomeHandle, BlindExtractObject(l, handle)
      PROVE  DListInv'
  <2>1. CASE Fail(Refusal(l, handle))
    BY <2>1, Pointed, Refused
  <2>. QED
    BY <1>1, <2>1, ExtractKeeps DEF BlindExtractObject
<1>2. ASSUME NEW handle \in SomeHandle, NEW tag \in Tags, ExtractObject(l, tag, handle)
      PROVE  DListInv'
  <2>1. CASE Fail(Refusal(l, handle))
    BY <2>1, Pointed, Refused
  <2>2. CASE Fail("TagWrong")
    BY <2>2, Refused DEF Codes
  <2>. QED
    BY <1>2, <2>1, <2>2, ExtractKeeps DEF ExtractObject
<1>3. ASSUME NEW data \in Objects, DeleteObject(l, data)
      PROVE  DListInv'
  BY <1>3, DeleteObjectKeeps
<1>4. CASE DeleteAllItems(l)
  <2>1. Good(Emptied(Heap, l))
    BY EmptiedGood DEF DListInv
  <2>. QED
    BY <1>4, <2>1, Returned DEF DeleteAllItems, Codes
<1>5. CASE DestroyList(l)
  <2>1. Good([Emptied(Heap, l) EXCEPT !.ctl[l] = CreateList])
    BY EmptiedGood DEF DListInv
  <2>. QED
    BY <1>5, <2>1, Returned DEF DestroyList, Codes
<1>6. ASSUME NEW kill \in Callbacks(KillVerdicts), PruneList(l, kill)
      PROVE  DListInv'
  <2>. DEFINE r == Repeat(Pruning(l, kill),
                          [heap |-> Heap, at |-> Heap.ctl[l].start, code |-> "Success"],
                          Heap.ctl[l].count)
  <2>1. Good(r.heap) /\ r.code \in Codes
    BY PrunedGood DEF DListInv
  <2>2. Heap.ctl = ctl
    BY DEF Heap
  <2>3. Return(r.heap, r.code, << >>)
    BY <1>6, <2>2 DEF PruneList
  <2>. HIDE DEF r
  <2>. QED
    BY <2>1, <2>3, Returned
<1>. QED
  BY <1>1, <1>2, <1>3, <1>4, <1>5, <1>6 DEF Removal
\* A call that leaves the lists and returns an item or a size.
LEMMA ReadKeeps ==
    ASSUME DListInv, NEW code \in Codes, NEW out, Return(Heap, code, out)
    PROVE  DListInv'
BY Returned DEF DListInv

\* A call that returns with the cursor on x, or where it was.
LEMMA CurrentKeeps ==
    ASSUME DListInv, NEW l \in Lists, NEW makeCurrent \in BOOLEAN, NEW x,
           Place(Heap, l, x), x = NoNode <=> ctl[l].count = 0, NEW out,
           Return(Current(l, makeCurrent, x), "Success", out)
    PROVE  DListInv'
<1>1. Good(Current(l, makeCurrent, x))
  BY CurrentGood DEF DListInv
<1>. QED
  BY <1>1, Returned DEF Codes

\* The item a handle names is a place for the cursor.
LEMMA PointedPlace ==
    ASSUME DListInv, NEW l \in Lists, NEW handle \in SomeHandle,
           Refusal(l, handle) = "Success"
    PROVE  /\ Place(Heap, l, At(l, handle))
           /\ At(l, handle) = NoNode <=> ctl[l].count = 0
<1>1. At(l, handle) \in Nodes /\ Heap.node[At(l, handle)].owner = l /\ ctl[l].count # 0
  BY Pointed
<1>. QED
  BY <1>1, DListAssumption DEF Place, Pointers

LEMMA ReplaceObjectKeeps ==
    ASSUME DListInv, NEW l \in Lists, NEW k \in Kinds, NEW handle \in SomeHandle,
           NEW makeCurrent \in BOOLEAN,
           ReplaceObject(l, k[1], k[2], handle, makeCurrent)
    PROVE  DListInv'
<1>1. CASE Refusal(l, handle) # "Success" /\ Fail(Refusal(l, handle))
  BY <1>1, Pointed, Refused
<1>2. CASE Refusal(l, handle) = "Success"
  <2>. DEFINE n == At(l, handle)
              r == [node[n] EXCEPT !.tag = k[1], !.data = k[2]]
              h == Current(l, makeCurrent, n)
  <2>1. Return([h EXCEPT !.node[n] = r], "Success", <<node[n].data>>)
    BY <1>2 DEF ReplaceObject
  <2>2. n \in Nodes /\ Heap.node[n].owner = l
    BY <1>2, Pointed
  <2>3. Good(h) /\ h.node = node
    BY <1>2, PointedPlace, CurrentGood DEF DListInv
  <2>4. Heap.node = node
    BY DEF Heap
  <2>5. k[1] \in Tags /\ k[2] \in Objects
    BY DListAssumption
  <2>6. r = [h.node[n] EXCEPT !.tag = k[1], !.data = k[2]] /\ h.node[n].owner = l
    BY <2>2, <2>3, <2>4
  <2>. HIDE DEF h, r, n
  <2>7. Good([h EXCEPT !.node[n] = r])
    BY <2>2, <2>3, <2>5, <2>6, ReplaceGood
  <2>. QED
    BY <2>1, <2>7, Returned DEF Codes
<1>. QED
  BY <1>1, <1>2 DEF ReplaceObject

LEMMA GetNextObjectKeeps ==
    ASSUME DListInv, NEW l \in Lists, NEW tag, GetNextObject(l, tag)
    PROVE  DListInv'
<1>. DEFINE n == node[ctl[l].current].next
<1>1. CASE Fail("Empty") \/ Fail("EndOfList") \/ Fail("TagWrong")
  BY <1>1, Refused DEF Codes
<1>2. CASE /\ ctl[l].count # 0 /\ ctl[l].current # ctl[l].end
           /\ Return(Current(l, TRUE, n), "Success", <<node[n].data>>)
  <2>1. Place(Heap, l, n) /\ n # NoNode
    BY <1>2, Onward DEF DListInv
  <2>. HIDE DEF n
  <2>. QED
    BY <1>2, <2>1, CurrentKeeps
<1>. QED
  BY <1>1, <1>2 DEF GetNextObject

LEMMA AccessKeeps ==
    ASSUME DListInv, NEW l \in Lists, Access(l)
    PROVE  DListInv'
<1>1. ASSUME NEW handle \in SomeHandle, NEW makeCurrent \in BOOLEAN,
             BlindGetObject(l, handle, makeCurrent)
      PROVE  DListInv'
  <2>1. CASE Fail(Refusal(l, handle))
    BY <2>1, Pointed, Refused
  <2>2. CASE /\ Refusal(l, handle) = "Success"
             /\ Return(Current(l, makeCurrent, At(l, handle)), "Success",
                       <<node[At(l, handle)].data>>)
    BY <2>2, PointedPlace, CurrentKeeps
  <2>. QED
    BY <1>1, <2>1, <2>2 DEF BlindGetObject
<1>2. ASSUME NEW handle \in SomeHandle, NEW makeCurrent \in BOOLEAN, NEW tag \in Tags,
             GetObject(l, tag, handle, makeCurrent)
      PROVE  DListInv'
  <2>1. CASE Fail(Refusal(l, handle))
    BY <2>1, Pointed, Refused
  <2>2. CASE Fail("TagWrong")
    BY <2>2, Refused DEF Codes
  <2>3. CASE /\ Refusal(l, handle) = "Success"
             /\ Return(Current(l, makeCurrent, At(l, handle)), "Success",
                       <<node[At(l, handle)].data>>)
    BY <2>3, PointedPlace, CurrentKeeps
  <2>. QED
    BY <1>2, <2>1, <2>2, <2>3 DEF GetObject
<1>3. ASSUME NEW handle \in SomeHandle, NEW makeCurrent \in BOOLEAN, NEW k \in Kinds,
             ReplaceObject(l, k[1], k[2], handle, makeCurrent)
      PROVE  DListInv'
  BY <1>3, ReplaceObjectKeeps
<1>4. ASSUME NEW tag \in Tags, GetNextObject(l, tag)
      PROVE  DListInv'
  BY <1>4, GetNextObjectKeeps
<1>5. CASE GetHandle(l)
  <2>1. CASE Fail("Empty")
    BY <2>1, Refused DEF Codes
  <2>2. CASE Return(Heap, "Success", <<ctl[l].current>>)
    BY <2>2, ReadKeeps DEF Codes
  <2>. QED
    BY <1>5, <2>1, <2>2 DEF GetHandle
<1>6. CASE GetListSize(l)
  BY <1>6, ReadKeeps DEF GetListSize, Codes
<1>7. CASE ListEmpty(l)
  <2>1. (IF ctl[l].count = 0 THEN "Success" ELSE "Failed") \in Codes
    BY DEF Codes
  <2>. QED
    BY <1>7, <2>1, ReadKeeps DEF ListEmpty
<1>8. CASE AtEndOfList(l)
  <2>1. (IF ctl[l].current = ctl[l].end THEN "Success" ELSE "Failed") \in Codes
    BY DEF Codes
  <2>. QED
    BY <1>8, <2>1, ReadKeeps DEF AtEndOfList
<1>9. ASSUME NEW f \in Callbacks(Verdicts), NEW forward \in BOOLEAN,
             ForEachItem(l, f, forward)
      PROVE  DListInv'
  <2>1. PICK failed, seen :
           Return(Heap, IF failed THEN "Failed" ELSE "Success", seen)
    BY <1>9 DEF ForEachItem
  <2>2. (IF failed THEN "Failed" ELSE "Success") \in Codes
    BY DEF Codes
  <2>. QED
    BY <2>1, <2>2, ReadKeeps
<1>. QED
  BY <1>1, <1>2, <1>3, <1>4, <1>5, <1>6, <1>7, <1>8, <1>9 DEF Access

LEMMA CursorKeeps ==
    ASSUME DListInv, NEW l \in Lists, Cursor(l)
    PROVE  DListInv'
<1>1. Heap.ctl = ctl /\ Heap.node = node
  BY DEF Heap
<1>2. CASE NextItem(l)
  <2>1. CASE Fail("Empty") \/ Fail("EndOfList")
    BY <2>1, Refused DEF Codes
  <2>2. CASE /\ ctl[l].count # 0 /\ ctl[l].current # ctl[l].end
             /\ Return(Current(l, TRUE, node[ctl[l].current].next), "Success", << >>)
    <3>1. Place(Heap, l, node[ctl[l].current].next)
          /\ node[ctl[l].current].next # NoNode
      BY <2>2, Onward DEF DListInv
    <3>. QED
      BY <2>2, <3>1, CurrentKeeps
  <2>. QED
    BY <1>2, <2>1, <2>2 DEF NextItem
<1>3. CASE PreviousItem(l)
  <2>1. CASE Fail("Empty") \/ Fail("AlreadyAtStart")
    BY <2>1, Refused DEF Codes
  <2>2. CASE /\ ctl[l].count # 0 /\ ctl[l].current # ctl[l].start
             /\ Return(Current(l, TRUE, node[ctl[l].current].prev), "Success", << >>)
    <3>1. Place(Heap, l, node[ctl[l].current].prev)
          /\ node[ctl[l].current].prev # NoNode
      BY <2>2, Onward DEF DListInv
    <3>. QED
      BY <2>2, <3>1, CurrentKeeps
  <2>. QED
    BY <1>3, <2>1, <2>2 DEF PreviousItem
<1>4. /\ Place(Heap, l, ctl[l].start) /\ (ctl[l].start = NoNode <=> ctl[l].count = 0)
      /\ Place(Heap, l, ctl[l].end) /\ (ctl[l].end = NoNode <=> ctl[l].count = 0)
  BY <1>1, Ends DEF DListInv
<1>5. CASE GoToStartOfList(l)
  BY <1>4, <1>5, CurrentKeeps DEF GoToStartOfList
<1>6. CASE GoToEndOfList(l)
  BY <1>4, <1>6, CurrentKeeps DEF GoToEndOfList
<1>7. ASSUME NEW handle \in SomeHandle, GoToSpecifiedItem(l, handle)
      PROVE  DListInv'
  <2>1. CASE handle # NoNode /\ node[handle].owner = l
    <3>1. Return(Current(l, TRUE, handle), "Success", << >>)
      BY <1>7, <2>1 DEF GoToSpecifiedItem
    <3>2. handle \in Nodes /\ Place(Heap, l, handle)
      BY <1>1, <2>1 DEF SomeHandle, Place, Pointers
    <3>3. ctl[l].count # 0
      <4>1. PICK n \in Nat, w \in [Int -> Pointers] : Line(Heap, l, w, n)
        BY DEF DListInv, Good, IsLine
      <4>2. \E i \in 1..n : w[i] = handle
        BY <1>1, <2>1, <3>2, <4>1 DEF Line
      <4>3. ctl[l].count = n
        BY <1>1, <4>1 DEF Line
      <4>. QED
        BY <4>2, <4>3
    <3>. QED
      BY <2>1, <3>1, <3>2, <3>3, CurrentKeeps
  <2>2. CASE ~(handle # NoNode /\ node[handle].owner = l)
    <3>1. Fail("BadHandle")
      BY <1>7, <2>2 DEF GoToSpecifiedItem
    <3>. QED
      BY <3>1, Refused DEF Codes
  <2>. QED
    BY <2>1, <2>2
<1>. QED
  BY <1>2, <1>3, <1>5, <1>6, <1>7 DEF Cursor

LEMMA SortListKeeps ==
    ASSUME DListInv, NEW l \in Lists, NEW refused, SortList(l, refused)
    PROVE  DListInv'
<1>1. CASE Return(Heap, "Success", << >>)
  BY <1>1, ReadKeeps DEF Codes
<1>2. CASE LET r == Passes(Heap, l, refused)
           IN  Return(r.heap, IF r.failed THEN "Failed" ELSE "Success", << >>)
  <2>. DEFINE r == Passes(Heap, l, refused)
              code == IF r.failed THEN "Failed" ELSE "Success"
  <2>1. Good(r.heap)
    BY PassesGood DEF DListInv
  <2>2. Return(r.heap, code, << >>)
    BY <1>2
  <2>3. code \in Codes
    BY DEF Codes
  <2>. HIDE DEF r, code
  <2>. QED
    BY <2>1, <2>2, <2>3, Returned
<1>. QED
  BY <1>1, <1>2 DEF SortList

LEMMA AppendListKeeps ==
    ASSUME DListInv, NEW t \in Lists, NEW s \in Lists \ {t}, AppendList(t, s)
    PROVE  DListInv'
<1>. DEFINE w == Walk(Heap, s)
            owned == [n \in Nodes |-> IF n \in ToSet(w) THEN [node[n] EXCEPT !.owner = t]
                                                        ELSE node[n]]
            joined == Join(owned, ctl[t].end, ctl[s].start)
<1>1. Heap.ctl = ctl /\ Heap.node = node /\ Good(Heap)
  BY DEF Heap, DListInv
<1>2. owned = Given(Heap.node, t, s)
  <2>1. PICK n \in Nat, v \in [Int -> Pointers] : Line(Heap, s, v, n)
    BY <1>1 DEF Good, IsLine
  <2>2. ToSet(w) = {m \in Nodes : Heap.node[m].owner = s}
    BY <2>1, WalkOwns
  <2>. HIDE DEF w
  <2>. QED
    BY <1>1, <2>2 DEF Given
<1>. HIDE DEF owned, w
<1>3. CASE Return(Heap, "Success", << >>)
  BY <1>3, ReadKeeps DEF Codes
<1>4. CASE /\ ctl[t].count = 0
           /\ Return([node |-> owned, ctl |-> [ctl EXCEPT ![t] = ctl[s], ![s] = ctl[t]]],
                     "Success", << >>)
  <2>1. Good([node |-> Given(Heap.node, t, s),
              ctl |-> [Heap.ctl EXCEPT ![t] = Heap.ctl[s], ![s] = Heap.ctl[t]]])
    <3>1. PICK k \in Nat, f \in [Int -> Pointers] : Line(Heap, s, f, k)
      BY <1>1 DEF Good, IsLine
    <3>. DEFINE g == [node |-> Given(Heap.node, t, s),
                      ctl |-> [Heap.ctl EXCEPT ![t] = Heap.ctl[s], ![s] = Heap.ctl[t]]]
    <3>2. Heap.ctl[t].count = 0
      BY <1>1, <1>4
    <3>3. Merged(Heap, g, t, s, f, k)
      BY <1>1, <3>1, <3>2, SwappedGood
    <3>. HIDE DEF g
    <3>4. Good(g)
      BY <3>3 DEF Merged
    <3>. QED
      BY <3>4 DEF g
  <2>2. Good([node |-> owned, ctl |-> [ctl EXCEPT ![t] = ctl[s], ![s] = ctl[t]]])
    BY <1>1, <1>2, <2>1
  <2>. QED
    BY <1>4, <2>2, Returned DEF Codes
<1>5. CASE /\ ctl[s].count # 0 /\ ctl[t].count # 0
           /\ Return([node |-> joined,
                      ctl |-> [ctl EXCEPT ![t].end = ctl[s].end,
                                          ![t].count = @ + ctl[s].count,
                                          ![s] = CreateList]],
                     "Success", << >>)
  <2>1. Good([node |-> Join(Given(Heap.node, t, s), Heap.ctl[t].end, Heap.ctl[s].start),
              ctl |-> [Heap.ctl EXCEPT ![t].end = Heap.ctl[s].end,
                                       ![t].count = @ + Heap.ctl[s].count,
                                       ![s] = CreateList]])
    <3>1. PICK n \in Nat, v \in [Int -> Pointers] : Line(Heap, t, v, n)
      BY <1>1 DEF Good, IsLine
    <3>2. PICK k \in Nat, f \in [Int -> Pointers] : Line(Heap, s, f, k)
      BY <1>1 DEF Good, IsLine
    <3>. QED
      BY <1>1, <1>5, <3>1, <3>2, AppendedGood DEF Merged
  <2>2. Good([node |-> joined,
              ctl |-> [ctl EXCEPT ![t].end = ctl[s].end,
                                  ![t].count = @ + ctl[s].count,
                                  ![s] = CreateList]])
    BY <1>1, <1>2, <2>1
  <2>. QED
    BY <1>5, <2>2, Returned DEF Codes
<1>. QED
  BY <1>3, <1>4, <1>5 DEF AppendList, owned, w

LEMMA CopyListKeeps ==
    ASSUME DListInv, NEW t \in Lists, NEW s \in Lists \ {t}, NEW mode \in Modes,
           CopyList(t, s, mode)
    PROVE  DListInv'
<1>. DEFINE w == Walk(Heap, s)
            gap == CopyGap(t, mode)
            made(fresh) == [node |-> Twins(fresh, w, t), ctl |-> ctl]
            last(fresh) == fresh[Len(w)]
            h1(fresh) == IF ctl[t].current = NoNode
                           THEN [made(fresh) EXCEPT !.ctl[t].start = fresh[1],
                                                    !.ctl[t].end = last(fresh),
                                                    !.ctl[t].current = fresh[1]]
                           ELSE Splice(made(fresh), t, fresh[1], last(fresh), gap[1], gap[2])
            g(fresh) == [h1(fresh) EXCEPT !.ctl[t].count = @ + Len(w)]
            free == {n \in Nodes : Free(n)}
<1>1. CASE Return(Heap, "Success", << >>)
  BY <1>1, ReadKeeps DEF Codes
<1>2. CASE Fail("OutOfMemory")
  BY <1>2, Refused DEF Codes
<1>3. CASE w # << >> /\ \E fresh \in Injection(DOMAIN w, free) :
                            Return(g(fresh), "Success", << >>)
  <2>1. PICK fresh \in Injection(DOMAIN w, free) : Return(g(fresh), "Success", << >>)
    <3>. HIDE DEF g, w, free
    <3>. QED
      BY <1>3
  <2>2. Good(g(fresh))
    <3>1. PICK n \in Nat, v \in [Int -> Pointers] : Line(Heap, s, v, n)
      BY DEF DListInv, Good, IsLine
    <3>0. Good(Heap)
      BY DEF DListInv
    <3>2. Copied(Heap, g(fresh), t, v, n, fresh)
      BY <1>3, <3>0, <3>1, CopiedGood, ZenonT(30)
    <3>. HIDE DEF g
    <3>. QED
      BY <3>2 DEF Copied
  <2>. HIDE DEF g
  <2>. QED
    BY <2>1, <2>2, Returned DEF Codes
<1>. QED
  BY <1>1, <1>2, <1>3 DEF CopyList

LEMMA WholeListKeeps ==
    ASSUME DListInv, NEW l \in Lists, WholeList(l)
    PROVE  DListInv'
BY SortListKeeps, AppendListKeeps, CopyListKeeps DEF WholeList

LEMMA InitGood == Init => DListInv
<1>. SUFFICES ASSUME Init PROVE DListInv
  OBVIOUS
<1>1. Heap.node = node /\ Heap.ctl = ctl /\ Heap = [node |-> node, ctl |-> ctl]
  BY DEF Heap
<1>2. node = [n \in Nodes |-> NoLink] /\ ctl = [l \in Lists |-> CreateList]
      /\ ret.code \in Codes
  BY DEF Init, Codes
<1>3. NoLink \in Links /\ CreateList \in RawControl /\ NoLink.owner = NoList
  BY DEF Links, RawControl, CreateList, NoLink, Pointers
<1>4. Typed(Heap)
  BY <1>1, <1>2, <1>3 DEF Typed
<1>5. ASSUME NEW l \in Lists PROVE IsLine(Heap, l)
  <2>1. Heap.ctl[l] = CreateList /\ \A m \in Nodes : Heap.node[m].owner # l
    BY <1>1, <1>2, <1>3, DListAssumption
  <2>. QED
    BY <2>1, NoLine
<1>. QED
  BY <1>2, <1>4, <1>5 DEF DListInv, Good

LEMMA LinesHold == Spec => []DListInv
<1>1. DListInv /\ [Next]_vars => DListInv'
  <2>. SUFFICES ASSUME DListInv, [Next]_vars PROVE DListInv'
    OBVIOUS
  <2>1. CASE UNCHANGED vars
    <3>1. Heap' = Heap /\ ret' = ret
      BY <2>1 DEF vars, Heap
    <3>2. Good(Heap')
      BY <3>1 DEF DListInv
    <3>. QED
      BY <3>1, <3>2 DEF DListInv
  <2>2. ASSUME NEW l \in Lists, Insertion(l) PROVE DListInv'
    BY <2>2, InsertionKeeps
  <2>3. ASSUME NEW l \in Lists, Removal(l) PROVE DListInv'
    BY <2>3, RemovalKeeps
  <2>4. ASSUME NEW l \in Lists, Access(l) PROVE DListInv'
    BY <2>4, AccessKeeps
  <2>5. ASSUME NEW l \in Lists, Cursor(l) PROVE DListInv'
    BY <2>5, CursorKeeps
  <2>6. ASSUME NEW l \in Lists, WholeList(l) PROVE DListInv'
    BY <2>6, WholeListKeeps
  <2>. QED
    BY <2>1, <2>2, <2>3, <2>4, <2>5, <2>6 DEF Next
<1>. QED
  BY <1>1, InitGood, PTL DEF Spec

\* Whatever calls are made, a node with an owner is a whole link node, a list
\* counts no more items than there are nodes, and every pointer of a control
\* node is to a node or NULL.
THEOREM TypesHold == Spec => []TypeOK
<1>1. DListInv => TypeOK
  <2>. SUFFICES ASSUME DListInv PROVE TypeOK
    OBVIOUS
  <2>1. node \in [Nodes -> Links] /\ ctl \in [Lists -> RawControl]
    BY DEF DListInv, Good, Typed, Heap
  <2>2. ASSUME NEW n \in Nodes, node[n].owner # NoList PROVE node[n] \in LinkNode
    BY <2>1, <2>2, Owned
  <2>3. ASSUME NEW l \in Lists PROVE ctl[l] \in ControlNode
    <3>1. PICK n \in Nat, w \in [Int -> Pointers] : Line(Heap, l, w, n)
      BY DEF DListInv, Good, IsLine
    <3>2. ctl[l].count = n
      BY <3>1 DEF Line, Heap
    <3>3. n \in 0..Cardinality(Nodes)
      BY <3>1, LineFits
    <3>4. ctl[l] \in RawControl
      BY <2>1
    <3>. QED
      BY <3>2, <3>3, <3>4 DEF RawControl, ControlNode
  <2>4. ctl \in [Lists -> ControlNode]
    BY <2>1, <2>3
  <2>. QED
    BY <2>2, <2>4 DEF TypeOK, DListInv
<1>. QED
  BY <1>1, LinesHold, PTL

\* Walking back from the end of a list meets, in reverse, the nodes walking on
\* from its start does: as many as it counts, and exactly those it owns.
THEOREM ListsStayLinked == Spec => []ListsAgree
<1>1. DListInv => ListsAgree
  <2>. SUFFICES ASSUME DListInv, NEW l \in Lists
                PROVE  /\ Len(Walk(Heap, l)) = ctl[l].count
                       /\ ToSet(Walk(Heap, l)) = Items(l)
                       /\ Chain(Heap, ctl[l].end, FALSE, ctl[l].count + 1)
                          = Reverse(Walk(Heap, l))
    BY DEF ListsAgree
  <2>1. Heap.ctl = ctl /\ Heap.node = node
    BY DEF Heap
  <2>2. PICK n \in Nat, w \in [Int -> Pointers] : Line(Heap, l, w, n)
    BY DEF DListInv, Good, IsLine
  <2>3. /\ Len(Walk(Heap, l)) = n /\ \A i \in 1..n : Walk(Heap, l)[i] = w[i]
        /\ ToSet(Walk(Heap, l)) = Items(l)
    BY <2>1, <2>2, WalkOwns DEF Items
  <2>4. ctl[l].count = n
    BY <2>1, <2>2 DEF Line
  <2>5. Chain(Heap, ctl[l].end, FALSE, ctl[l].count + 1)
        = Prefix([i \in Int |-> w[(n + 1) - i]], n)
    BY <2>1, <2>2, WalkBackIs
  <2>6. Reverse(Walk(Heap, l)) = [i \in 1..n |-> w[(n + 1) - i]]
    <3>1. ASSUME NEW i \in 1..n PROVE Walk(Heap, l)[(n - i) + 1] = w[(n + 1) - i]
      <4>1. (n - i) + 1 \in 1..n /\ (n - i) + 1 = (n + 1) - i
        OBVIOUS
      <4>. QED
        BY <2>3, <4>1
    <3>2. Reverse(Walk(Heap, l)) = [i \in 1..n |-> Walk(Heap, l)[(n - i) + 1]]
      BY <2>3 DEF Reverse
    <3>. QED
      BY <3>1, <3>2
  <2>7. Prefix([i \in Int |-> w[(n + 1) - i]], n) = [i \in 1..n |-> w[(n + 1) - i]]
    BY DEF Prefix
  <2>. QED
    BY <2>3, <2>4, <2>5, <2>6, <2>7
<1>. QED
  BY <1>1, LinesHold, PTL

\* The current item of a list that has any is one the walk from its start meets,
\* and an empty list has none.
THEOREM CursorStaysInside == Spec => []CursorInside
<1>1. DListInv => CursorInside
  <2>. SUFFICES ASSUME DListInv, NEW l \in Lists
                PROVE  IF ctl[l].count = 0 THEN ctl[l].current = NoNode
                       ELSE ctl[l].current \in ToSet(Walk(Heap, l))
    BY DEF CursorInside
  <2>1. Heap.ctl = ctl
    BY DEF Heap
  <2>2. PICK n \in Nat, w \in [Int -> Pointers] : Line(Heap, l, w, n)
    BY DEF DListInv, Good, IsLine
  <2>3. ToSet(Walk(Heap, l)) = {m \in Nodes : Heap.node[m].owner = l}
    BY <2>2, WalkOwns
  <2>4. Place(Heap, l, ctl[l].current) /\ (ctl[l].current = NoNode <=> ctl[l].count = 0)
    BY <2>1, <2>2 DEF Line
  <2>. QED
    BY <2>3, <2>4 DEF Place, Pointers
<1>. QED
  BY <1>1, LinesHold, PTL
=============================================================================
