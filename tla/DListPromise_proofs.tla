------------------------- MODULE DListPromise_proofs -------------------------
(***************************************************************************)
(* Proof that DList implements DListSpec: what a user of the lists sees,   *)
(* the sequence of items on each line and the item its cursor is on,       *)
(* changes with every call as the package promises.                        *)
(***************************************************************************)
EXTENDS DList_proofs, SequenceTheorems

-----------------------------------------------------------------------------
(* What a heap shows *)

Item(h, m) == [handle |-> m, tag |-> h.node[m].tag, data |-> h.node[m].data]
Entry == [handle : Nodes, tag : Tags, data : Objects]

\* The items and the cursor of each list.
Shows(h) ==
    [l \in Lists |-> LET w == Walk(h, l) IN [i \in DOMAIN w |-> Item(h, w[i])]]
Cursors(h) == [l \in Lists |-> h.ctl[l].current]

\* An interval from 1 tells its length.
LEMMA SameSpan ==
    ASSUME NEW a \in Nat, NEW b \in Nat, 1..a = 1..b
    PROVE  a = b
<1>1. CASE a < b
  <2>1. b \in 1..b
    BY <1>1
  <2>2. b \notin 1..a
    BY <1>1
  <2>. QED
    BY <2>1, <2>2
<1>2. CASE b < a
  <2>1. a \in 1..a
    BY <1>2
  <2>2. a \notin 1..b
    BY <1>2
  <2>. QED
    BY <2>1, <2>2
<1>. QED
  BY <1>1, <1>2

\* A list shows the items of its line, in order.
Row(h, l, w, n) ==
    /\ n \in Nat /\ Shows(h)[l] = [i \in 1..n |-> Item(h, w[i])]
    /\ Shows(h)[l] \in Seq(Entry) /\ Len(Shows(h)[l]) = n
    /\ DOMAIN Shows(h)[l] = 1..n
    /\ \A i \in 1..n : /\ Shows(h)[l][i] = Item(h, w[i])
                       /\ Shows(h)[l][i].handle = w[i]
                       /\ Shows(h)[l][i].data = h.node[w[i]].data
                       /\ Shows(h)[l][i].tag = h.node[w[i]].tag
                       /\ Item(h, w[i]) \in Entry /\ w[i] \in Nodes

\* The items a list shows are those of the nodes on its line.
LEMMA RowIs ==
    ASSUME NEW h, Typed(h), NEW l \in Lists, NEW w, NEW n, Line(h, l, w, n)
    PROVE  Row(h, l, w, n)
<1>. DEFINE row == [i \in 1..n |-> Item(h, w[i])]
<1>1. n \in Nat /\ NoList \notin Lists
  BY DListAssumption DEF Line
<1>2. DOMAIN Walk(h, l) = 1..n /\ \A i \in 1..n : Walk(h, l)[i] = w[i]
  BY WalkOwns
<1>3. Shows(h)[l] = row
  BY <1>2 DEF Shows
<1>4. ASSUME NEW i \in 1..n
      PROVE  Item(h, w[i]) \in Entry /\ w[i] \in Nodes
  <2>1. w[i] \in Nodes /\ h.node[w[i]].owner = l
    BY DEF Line, Pointers
  <2>2. h.node[w[i]] \in Links
    BY <2>1 DEF Typed
  <2>3. h.node[w[i]] \in LinkNode
    BY <1>1, <2>1, <2>2, Owned
  <2>. QED
    BY <2>1, <2>3 DEF Item, Entry, LinkNode
<1>5. row \in [1..n -> Entry]
  BY <1>4
<1>6. row \in Seq(Entry)
  BY <1>1, <1>5, SeqDef
<1>7. DOMAIN row = 1..n /\ \A i \in 1..n : row[i] = Item(h, w[i])
  OBVIOUS
<1>8. Len(row) = n
  <2>. HIDE DEF row
  <2>1. Len(row) \in Nat /\ DOMAIN row = 1..Len(row)
    BY <1>6, LenProperties
  <2>2. 1..n = 1..Len(row)
    BY <1>7, <2>1
  <2>. QED
    BY <1>1, <2>1, <2>2, SameSpan
<1>9. \A i \in 1..n : /\ Item(h, w[i]).handle = w[i]
                      /\ Item(h, w[i]).data = h.node[w[i]].data
                      /\ Item(h, w[i]).tag = h.node[w[i]].tag
  BY DEF Item
<1>. QED
  BY <1>1, <1>3, <1>4, <1>6, <1>7, <1>8, <1>9 DEF Row

\* A list that a call leaves alone shows what it did.
LEMMA RowStays ==
    ASSUME NEW h, Good(h), NEW k, Good(k), NEW L, Elsewhere(h, k, L),
           NEW x \in Lists \ L,
           \A m \in Nodes : h.node[m].owner = x => SameItem(k.node[m], h.node[m])
    PROVE  Shows(k)[x] = Shows(h)[x] /\ Cursors(k)[x] = Cursors(h)[x]
<1>1. PICK n \in Nat, w \in [Int -> Pointers] : Line(h, x, w, n)
  BY DEF Good, IsLine
<1>2. Line(k, x, w, n)
  BY <1>1, LineStays
<1>3. /\ Shows(h)[x] = [i \in 1..n |-> Item(h, w[i])]
      /\ Shows(k)[x] = [i \in 1..n |-> Item(k, w[i])]
  <2>1. Row(h, x, w, n) /\ Row(k, x, w, n)
    BY <1>1, <1>2, RowIs DEF Good
  <2>. QED
    BY <2>1 DEF Row
<1>4. \A i \in 1..n : Item(h, w[i]) = Item(k, w[i])
  BY <1>1 DEF Line, Pointers, Item, SameItem
<1>5. Cursors(k)[x] = Cursors(h)[x]
  BY DEF Elsewhere, Cursors
<1>. QED
  BY <1>3, <1>4, <1>5

\* A call on one list: the others show what they did.
LEMMA OneBecomes ==
    ASSUME NEW h, Good(h), NEW k, Good(k), NEW l \in Lists, Elsewhere(h, k, {l}),
           \A m \in Nodes : h.node[m].owner \in Lists \ {l} => SameItem(k.node[m], h.node[m])
    PROVE  /\ Shows(k) = [Shows(h) EXCEPT ![l] = Shows(k)[l]]
           /\ Cursors(k) = [Cursors(h) EXCEPT ![l] = k.ctl[l].current]
<1>1. \A x \in Lists \ {l} : Shows(k)[x] = Shows(h)[x] /\ Cursors(k)[x] = Cursors(h)[x]
  BY RowStays
<1>2. Cursors(k)[l] = k.ctl[l].current
  BY DEF Cursors
<1>3. /\ Shows(k) = [x \in Lists |-> Shows(k)[x]] /\ Shows(h) = [x \in Lists |-> Shows(h)[x]]
      /\ Cursors(k) = [x \in Lists |-> Cursors(k)[x]]
      /\ Cursors(h) = [x \in Lists |-> Cursors(h)[x]]
  BY DEF Shows, Cursors
<1>. QED
  BY <1>1, <1>2, <1>3

\* What a call changes of what is seen, by the heap it leaves.
LEMMA StepShows ==
    ASSUME NEW h, NEW code, NEW out, Return(h, code, out)
    PROVE  /\ Seen = Shows(Heap) /\ Seen' = Shows(h)
           /\ [x \in Lists |-> ctl[x].current] = Cursors(Heap)
           /\ [x \in Lists |-> ctl'[x].current] = Cursors(h)
           /\ ret' = [code |-> code, out |-> out]
<1>1. Seen = Shows(Heap) /\ [x \in Lists |-> ctl[x].current] = Cursors(Heap)
  BY DEF Seen, Shows, Item, Heap, Cursors
<1>2. node' = h.node /\ ctl' = h.ctl
  BY DEF Return
<1>. DEFINE k == [node |-> h.node, ctl |-> h.ctl]
<1>3. Seen' = Shows(k)
  BY <1>2 DEF Seen, Shows, Item, Heap
<1>4. \A x \in Lists : Walk(k, x) = Walk(h, x)
  BY DEF Walk, Chain
<1>5. Shows(k) = Shows(h)
  BY <1>4 DEF Shows, Item
<1>. QED
  BY <1>1, <1>2, <1>3, <1>5 DEF Return, Cursors

-----------------------------------------------------------------------------
(* Sequences *)

\* A part of a sequence.
LEMMA PartIs ==
    ASSUME NEW S, NEW s \in Seq(S), NEW a \in 1..(Len(s) + 1), NEW b \in (a - 1)..Len(s)
    PROVE  /\ SubSeq(s, a, b) \in Seq(S) /\ Len(SubSeq(s, a, b)) = (b - a) + 1
           /\ \A j \in 1..((b - a) + 1) : SubSeq(s, a, b)[j] = s[(a + j) - 1]
<1>1. Len(s) \in Nat /\ \A j \in 1..Len(s) : s[j] \in S
  BY LenProperties, ElementOfSeq
<1>2. a \in Int /\ b \in Int /\ \A j \in a..b : s[j] \in S
  BY <1>1
<1>3. /\ SubSeq(s, a, b) \in Seq(S)
      /\ Len(SubSeq(s, a, b)) = IF a <= b THEN b - a + 1 ELSE 0
      /\ \A j \in 1..(b - a + 1) : SubSeq(s, a, b)[j] = s[a + j - 1]
  BY <1>2, SubSeqProperties
<1>. QED
  BY <1>1, <1>2, <1>3

\* Inserting e at position i.
LEMMA InsertAtIs ==
    ASSUME NEW S, NEW s \in Seq(S), NEW e \in S, NEW i \in 1..(Len(s) + 1),
           NEW t \in Seq(S), Len(t) = Len(s) + 1,
           \A j \in 1..Len(t) : t[j] = IF j < i THEN s[j]
                                       ELSE IF j = i THEN e ELSE s[j - 1]
    PROVE  SubSeq(s, 1, i - 1) \o <<e>> \o SubSeq(s, i, Len(s)) = t
<1>. DEFINE a == SubSeq(s, 1, i - 1)
            b == SubSeq(s, i, Len(s))
            u == a \o <<e>>
            c == u \o b
<1>0. Len(s) \in Nat /\ i \in Nat /\ 1 <= i /\ i <= Len(s) + 1
  BY LenProperties
<1>1. /\ a \in Seq(S) /\ Len(a) = i - 1 /\ \A j \in 1..(i - 1) : a[j] = s[j]
  <2>1. 1 \in 1..(Len(s) + 1) /\ i - 1 \in (1 - 1)..Len(s)
    BY <1>0
  <2>2. /\ a \in Seq(S) /\ Len(a) = ((i - 1) - 1) + 1
        /\ \A j \in 1..(((i - 1) - 1) + 1) : a[j] = s[(1 + j) - 1]
    BY <2>1, PartIs
  <2>. HIDE DEF a
  <2>. QED
    BY <1>0, <2>2
<1>2. /\ b \in Seq(S) /\ Len(b) = (Len(s) - i) + 1
      /\ \A j \in 1..((Len(s) - i) + 1) : b[j] = s[(i + j) - 1]
  <2>1. Len(s) \in (i - 1)..Len(s)
    BY <1>0
  <2>. QED
    BY <2>1, PartIs
<1>. HIDE DEF a, b
<1>3. <<e>> \in Seq(S) /\ Len(<<e>>) = 1 /\ <<e>>[1] = e
  OBVIOUS
<1>4. /\ u \in Seq(S) /\ Len(u) = Len(a) + 1
      /\ \A j \in 1..(Len(a) + 1) : u[j] = IF j <= Len(a) THEN a[j] ELSE <<e>>[j - Len(a)]
  BY <1>1, <1>3, ConcatProperties
<1>. HIDE DEF u
<1>5. /\ c \in Seq(S) /\ Len(c) = Len(u) + Len(b)
      /\ \A j \in 1..(Len(u) + Len(b)) : c[j] = IF j <= Len(u) THEN u[j] ELSE b[j - Len(u)]
  BY <1>2, <1>4, ConcatProperties
<1>. HIDE DEF c
<1>6. Len(u) = i /\ Len(c) = Len(t)
  BY <1>0, <1>1, <1>2, <1>4, <1>5
<1>7. ASSUME NEW j \in 1..Len(c) PROVE c[j] = t[j]
  <2>1. CASE j < i
    <3>1. j \in 1..(i - 1) /\ j \in 1..(Len(a) + 1) /\ j <= Len(a) /\ j <= Len(u)
      BY <1>0, <1>1, <1>6, <2>1
    <3>. QED
      BY <1>1, <1>4, <1>5, <1>6, <2>1, <3>1
  <2>2. CASE j = i
    <3>1. j \in 1..(Len(a) + 1) /\ ~(j <= Len(a)) /\ j - Len(a) = 1 /\ j <= Len(u)
      BY <1>0, <1>1, <1>6, <2>2
    <3>. QED
      BY <1>0, <1>3, <1>4, <1>5, <1>6, <2>2, <3>1
  <2>3. CASE j > i
    <3>1. /\ ~(j <= Len(u)) /\ j - Len(u) \in 1..((Len(s) - i) + 1)
          /\ (i + (j - Len(u))) - 1 = j - 1
      BY <1>0, <1>2, <1>5, <1>6, <2>3
    <3>2. c[j] = s[j - 1]
      BY <1>2, <1>5, <1>6, <3>1
    <3>3. t[j] = s[j - 1]
      BY <1>0, <1>6, <2>3
    <3>. QED
      BY <3>2, <3>3
  <2>. QED
    BY <1>0, <2>1, <2>2, <2>3
<1>8. c = t
  BY <1>5, <1>6, <1>7, SeqEqual
<1>. QED
  BY <1>8 DEF c, u, a, b

\* Removing what is at position i.
LEMMA RemoveAtIs ==
    ASSUME NEW S, NEW s \in Seq(S), NEW i \in 1..Len(s),
           NEW t \in Seq(S), Len(t) = Len(s) - 1,
           \A j \in 1..Len(t) : t[j] = IF j < i THEN s[j] ELSE s[j + 1]
    PROVE  SubSeq(s, 1, i - 1) \o SubSeq(s, i + 1, Len(s)) = t
<1>. DEFINE a == SubSeq(s, 1, i - 1)
            b == SubSeq(s, i + 1, Len(s))
            c == a \o b
<1>0. Len(s) \in Nat /\ i \in Nat /\ 1 <= i /\ i <= Len(s)
  BY LenProperties
<1>1. /\ a \in Seq(S) /\ Len(a) = i - 1 /\ \A j \in 1..(i - 1) : a[j] = s[j]
  <2>1. 1 \in 1..(Len(s) + 1) /\ i - 1 \in (1 - 1)..Len(s)
    BY <1>0
  <2>2. /\ a \in Seq(S) /\ Len(a) = ((i - 1) - 1) + 1
        /\ \A j \in 1..(((i - 1) - 1) + 1) : a[j] = s[(1 + j) - 1]
    BY <2>1, PartIs
  <2>. HIDE DEF a
  <2>. QED
    BY <1>0, <2>2
<1>2. /\ b \in Seq(S) /\ Len(b) = (Len(s) - (i + 1)) + 1
      /\ \A j \in 1..((Len(s) - (i + 1)) + 1) : b[j] = s[((i + 1) + j) - 1]
  <2>1. Len(s) \in ((i + 1) - 1)..Len(s) /\ i + 1 \in 1..(Len(s) + 1)
    BY <1>0
  <2>. QED
    BY <2>1, PartIs
<1>. HIDE DEF a, b
<1>3. /\ c \in Seq(S) /\ Len(c) = Len(a) + Len(b)
      /\ \A j \in 1..(Len(a) + Len(b)) : c[j] = IF j <= Len(a) THEN a[j] ELSE b[j - Len(a)]
  BY <1>1, <1>2, ConcatProperties
<1>. HIDE DEF c
<1>4. Len(c) = Len(t)
  BY <1>0, <1>1, <1>2, <1>3
<1>5. ASSUME NEW j \in 1..Len(c) PROVE c[j] = t[j]
  <2>1. CASE j < i
    <3>1. j \in 1..(i - 1) /\ j <= Len(a)
      BY <1>0, <1>1, <2>1
    <3>. QED
      BY <1>1, <1>3, <1>4, <2>1, <3>1
  <2>2. CASE j >= i
    <3>1. /\ ~(j <= Len(a)) /\ j - Len(a) \in 1..((Len(s) - (i + 1)) + 1)
          /\ ((i + 1) + (j - Len(a))) - 1 = j + 1
      BY <1>0, <1>1, <1>2, <1>3, <2>2
    <3>2. c[j] = s[j + 1]
      BY <1>2, <1>3, <3>1
    <3>3. t[j] = s[j + 1]
      BY <1>0, <1>4, <2>2
    <3>. QED
      BY <3>2, <3>3
  <2>. QED
    BY <1>0, <2>1, <2>2
<1>6. c = t
  BY <1>3, <1>4, <1>5, SeqEqual
<1>. QED
  BY <1>6 DEF c, a, b

-----------------------------------------------------------------------------
(* Calls that only look, or move the cursor *)

\* The handles of a list are those of the nodes it owns.
LEMMA HandlesAre ==
    ASSUME NEW h, Good(h), NEW l \in Lists
    PROVE  {Shows(h)[l][i].handle : i \in DOMAIN Shows(h)[l]}
             = {m \in Nodes : h.node[m].owner = l}
<1>1. PICK n \in Nat, w \in [Int -> Pointers] : Line(h, l, w, n)
  BY DEF Good, IsLine
<1>2. DOMAIN Shows(h)[l] = 1..n
      /\ \A i \in 1..n : Shows(h)[l][i].handle = w[i] /\ w[i] \in Nodes
  <2>1. Row(h, l, w, n)
    BY <1>1, RowIs DEF Good
  <2>. QED
    BY <2>1 DEF Row
<1>3. \A m \in Nodes : h.node[m].owner = l <=> \E i \in 1..n : w[i] = m
  BY <1>1 DEF Line
<1>. QED
  BY <1>2, <1>3

\* The handles in use are the nodes some list owns.
LEMMA InUseIs ==
    ASSUME Good(Heap)
    PROVE  Promise!InUse = {m \in Nodes : Heap.node[m].owner \in Lists}
<1>1. Seen = Shows(Heap)
  BY DEF Seen, Shows, Item, Heap
<1>2. \A l \in Lists : Promise!HandlesOf(Seen[l]) = {m \in Nodes : Heap.node[m].owner = l}
  BY <1>1, HandlesAre DEF Promise!HandlesOf
<1>. QED
  BY <1>2 DEF Promise!InUse

\* A call that leaves the lines and puts the cursor on an item, if anywhere.
LEMMA LookStep ==
    ASSUME Good(Heap), NEW l \in Lists, NEW h, NEW code, NEW out, Return(h, code, out),
           h.node = Heap.node,
           \A x \in Lists : /\ h.ctl[x].start = Heap.ctl[x].start
                            /\ h.ctl[x].count = Heap.ctl[x].count,
           \A x \in Lists \ {l} : h.ctl[x] = Heap.ctl[x],
           Place(Heap, l, h.ctl[l].current),
           h.ctl[l].current = NoNode => Heap.ctl[l].current = NoNode,
           code # "Success" => h = Heap
    PROVE  Promise!Look(l)
<1>1. /\ Seen = Shows(Heap) /\ Seen' = Shows(h)
      /\ [x \in Lists |-> ctl[x].current] = Cursors(Heap)
      /\ [x \in Lists |-> ctl'[x].current] = Cursors(h)
      /\ ret' = [code |-> code, out |-> out]
  BY StepShows
<1>2. \A x \in Lists : Walk(h, x) = Walk(Heap, x)
  BY DEF Walk, Chain
<1>3. Shows(h) = Shows(Heap)
  BY <1>2 DEF Shows, Item
<1>4. /\ \A x \in Lists \ {l} : Cursors(h)[x] = Cursors(Heap)[x]
      /\ Cursors(h)[l] = h.ctl[l].current /\ Cursors(Heap)[l] = Heap.ctl[l].current
  BY DEF Cursors
<1>5. Promise!HandlesOf(Seen[l]) = {m \in Nodes : Heap.node[m].owner = l}
  BY <1>1, HandlesAre DEF Promise!HandlesOf
<1>6. Cursors(h)[l] \in Promise!HandlesOf(Seen[l]) \cup {Cursors(Heap)[l]}
  BY <1>4, <1>5 DEF Place, Pointers
<1>7. ret'.code # "Success" => Cursors(h) = Cursors(Heap)
  BY <1>1
<1>. QED
  BY <1>1, <1>3, <1>4, <1>6, <1>7, Zenon DEF Promise!Look

\* A call that changes nothing.
LEMMA ReadLooks ==
    ASSUME DListInv, NEW l \in Lists, NEW code, NEW out, Return(Heap, code, out)
    PROVE  Promise!Look(l)
<1>1. Place(Heap, l, Heap.ctl[l].current)
  BY Ends DEF DListInv
<1>. QED
  BY <1>1, LookStep DEF DListInv

\* A call that fails.
LEMMA FailLooks ==
    ASSUME DListInv, NEW l \in Lists, NEW code, Fail(code)
    PROVE  Promise!Look(l)
BY ReadLooks DEF Fail

\* A call that moves the cursor.
LEMMA CurrentLooks ==
    ASSUME DListInv, NEW l \in Lists, NEW makeCurrent \in BOOLEAN, NEW x,
           Place(Heap, l, x), x = NoNode <=> ctl[l].count = 0, NEW out,
           Return(Current(l, makeCurrent, x), "Success", out)
    PROVE  Promise!Look(l)
<1>1. CASE ~makeCurrent
  <2>1. Current(l, makeCurrent, x) = Heap
    BY <1>1 DEF Current
  <2>. QED
    BY <2>1, ReadLooks
<1>2. CASE makeCurrent
  <2>. DEFINE h == [Heap EXCEPT !.ctl[l].current = x]
  <2>1. Return(h, "Success", out)
    BY <1>2 DEF Current
  <2>2. Typed(Heap) /\ Good(Heap)
    BY DEF DListInv, Good
  <2>3. /\ h.node = Heap.node
        /\ \A z \in Lists \ {l} : h.ctl[z] = Heap.ctl[z]
        /\ h.ctl[l].start = Heap.ctl[l].start
        /\ h.ctl[l].count = Heap.ctl[l].count /\ h.ctl[l].current = x
    BY <2>2 DEF Typed, RawControl
  <2>4. x = NoNode => Heap.ctl[l].current = NoNode
    <3>1. Heap.ctl = ctl /\ (Heap.ctl[l].current = NoNode <=> Heap.ctl[l].count = 0)
      BY <2>2, Ends DEF Heap
    <3>. QED
      BY <3>1
  <2>. HIDE DEF h
  <2>. QED
    BY <2>1, <2>2, <2>3, <2>4, LookStep
<1>. QED
  BY <1>1, <1>2

\* The functions of the cursor.
LEMMA CursorLooks ==
    ASSUME DListInv, NEW l \in Lists, Cursor(l)
    PROVE  Promise!Look(l)
<1>1. Heap.ctl = ctl /\ Heap.node = node
  BY DEF Heap
<1>2. CASE NextItem(l)
  <2>1. CASE Fail("Empty") \/ Fail("EndOfList")
    BY <2>1, FailLooks
  <2>2. CASE /\ ctl[l].count # 0 /\ ctl[l].current # ctl[l].end
             /\ Return(Current(l, TRUE, node[ctl[l].current].next), "Success", << >>)
    <3>1. Place(Heap, l, node[ctl[l].current].next)
          /\ node[ctl[l].current].next # NoNode
      BY <2>2, Onward DEF DListInv
    <3>. QED
      BY <2>2, <3>1, CurrentLooks
  <2>. QED
    BY <1>2, <2>1, <2>2 DEF NextItem
<1>3. CASE PreviousItem(l)
  <2>1. CASE Fail("Empty") \/ Fail("AlreadyAtStart")
    BY <2>1, FailLooks
  <2>2. CASE /\ ctl[l].count # 0 /\ ctl[l].current # ctl[l].start
             /\ Return(Current(l, TRUE, node[ctl[l].current].prev), "Success", << >>)
    <3>1. Place(Heap, l, node[ctl[l].current].prev)
          /\ node[ctl[l].current].prev # NoNode
      BY <2>2, Onward DEF DListInv
    <3>. QED
      BY <2>2, <3>1, CurrentLooks
  <2>. QED
    BY <1>3, <2>1, <2>2 DEF PreviousItem
<1>4. /\ Place(Heap, l, ctl[l].start) /\ (ctl[l].start = NoNode <=> ctl[l].count = 0)
      /\ Place(Heap, l, ctl[l].end) /\ (ctl[l].end = NoNode <=> ctl[l].count = 0)
  BY <1>1, Ends DEF DListInv
<1>5. CASE GoToStartOfList(l)
  BY <1>4, <1>5, CurrentLooks DEF GoToStartOfList
<1>6. CASE GoToEndOfList(l)
  BY <1>4, <1>6, CurrentLooks DEF GoToEndOfList
<1>7. ASSUME NEW handle \in SomeHandle, GoToSpecifiedItem(l, handle)
      PROVE  Promise!Look(l)
  <2>1. CASE handle # NoNode /\ node[handle].owner = l
    <3>1. Return(Current(l, TRUE, handle), "Success", << >>)
      BY <1>7, <2>1 DEF GoToSpecifiedItem
    <3>2. handle \in Nodes /\ Place(Heap, l, handle)
      BY <1>1, <2>1 DEF SomeHandle, Place, Pointers
    <3>3. ctl[l].count # 0
      <4>1. PICK n \in Nat, w \in [Int -> Pointers] :
               Line(Heap, l, w, n) /\ \E i \in 1..n : w[i] = handle
        BY <1>1, <2>1, <3>2, OnLine DEF DListInv
      <4>2. ctl[l].count = n
        BY <1>1, <4>1 DEF Line
      <4>. QED
        BY <4>1, <4>2
    <3>. QED
      BY <2>1, <3>1, <3>2, <3>3, CurrentLooks
  <2>2. CASE ~(handle # NoNode /\ node[handle].owner = l)
    <3>1. Fail("BadHandle")
      BY <1>7, <2>2 DEF GoToSpecifiedItem
    <3>. QED
      BY <3>1, FailLooks
  <2>. QED
    BY <2>1, <2>2
<1>. QED
  BY <1>2, <1>3, <1>5, <1>6, <1>7 DEF Cursor

\* The functions that read an item, a handle or a size.
LEMMA ReadsLook ==
    ASSUME DListInv, NEW l \in Lists, Access(l)
    PROVE  \/ Promise!Look(l)
           \/ \E handle \in SomeHandle, makeCurrent \in BOOLEAN, k \in Kinds :
                 ReplaceObject(l, k[1], k[2], handle, makeCurrent)
<1>1. ASSUME NEW handle \in SomeHandle, NEW makeCurrent \in BOOLEAN,
             BlindGetObject(l, handle, makeCurrent)
      PROVE  Promise!Look(l)
  <2>1. CASE Fail(Refusal(l, handle))
    BY <2>1, FailLooks
  <2>2. CASE /\ Refusal(l, handle) = "Success"
             /\ Return(Current(l, makeCurrent, At(l, handle)), "Success",
                       <<node[At(l, handle)].data>>)
    BY <2>2, PointedPlace, CurrentLooks
  <2>. QED
    BY <1>1, <2>1, <2>2 DEF BlindGetObject
<1>2. ASSUME NEW handle \in SomeHandle, NEW makeCurrent \in BOOLEAN, NEW tag \in Tags,
             GetObject(l, tag, handle, makeCurrent)
      PROVE  Promise!Look(l)
  <2>1. CASE Fail(Refusal(l, handle)) \/ Fail("TagWrong")
    BY <2>1, FailLooks
  <2>2. CASE /\ Refusal(l, handle) = "Success"
             /\ Return(Current(l, makeCurrent, At(l, handle)), "Success",
                       <<node[At(l, handle)].data>>)
    BY <2>2, PointedPlace, CurrentLooks
  <2>. QED
    BY <1>2, <2>1, <2>2 DEF GetObject
<1>3. ASSUME NEW tag \in Tags, GetNextObject(l, tag)
      PROVE  Promise!Look(l)
  <2>. DEFINE n == node[ctl[l].current].next
  <2>1. CASE Fail("Empty") \/ Fail("EndOfList") \/ Fail("TagWrong")
    BY <2>1, FailLooks
  <2>2. CASE /\ ctl[l].count # 0 /\ ctl[l].current # ctl[l].end
             /\ Return(Current(l, TRUE, n), "Success", <<node[n].data>>)
    <3>1. Place(Heap, l, n) /\ n # NoNode
      BY <2>2, Onward DEF DListInv
    <3>. HIDE DEF n
    <3>. QED
      BY <2>2, <3>1, CurrentLooks
  <2>. QED
    BY <1>3, <2>1, <2>2 DEF GetNextObject
<1>4. CASE GetHandle(l)
  <2>1. CASE Fail("Empty")
    BY <2>1, FailLooks
  <2>2. CASE Return(Heap, "Success", <<ctl[l].current>>)
    BY <2>2, ReadLooks
  <2>. QED
    BY <1>4, <2>1, <2>2 DEF GetHandle
<1>5. CASE GetListSize(l)
  BY <1>5, ReadLooks DEF GetListSize
<1>6. CASE ListEmpty(l)
  BY <1>6, ReadLooks DEF ListEmpty
<1>7. CASE AtEndOfList(l)
  BY <1>7, ReadLooks DEF AtEndOfList
<1>8. ASSUME NEW f \in Callbacks(Verdicts), NEW forward \in BOOLEAN,
             ForEachItem(l, f, forward)
      PROVE  Promise!Look(l)
  <2>1. PICK code, seen : Return(Heap, code, seen)
    BY <1>8 DEF ForEachItem
  <2>. QED
    BY <2>1, ReadLooks
<1>. QED
  BY <1>1, <1>2, <1>3, <1>4, <1>5, <1>6, <1>7, <1>8 DEF Access

-----------------------------------------------------------------------------
(* Calls that change one list *)

\* What is seen after a call that leaves heap h and touches only list l.
Changed(l, h, code, out) ==
    /\ Seen = Shows(Heap) /\ Seen' = Shows(h)
    /\ Seen' = [Seen EXCEPT ![l] = Seen'[l]]
    /\ [x \in Lists |-> ctl[x].current] = Cursors(Heap)
    /\ [x \in Lists |-> ctl'[x].current] = Cursors(h)
    /\ Cursors(h) = [Cursors(Heap) EXCEPT ![l] = h.ctl[l].current]
    /\ ret' = [code |-> code, out |-> out]

\* A call on list l that leaves the other lists alone.
LEMMA ChangedIs ==
    ASSUME Good(Heap), NEW h, Good(h), NEW l \in Lists, Elsewhere(Heap, h, {l}),
           \A m \in Nodes : Heap.node[m].owner \in Lists \ {l} =>
              SameItem(h.node[m], Heap.node[m]),
           NEW code, NEW out, Return(h, code, out)
    PROVE  Changed(l, h, code, out)
<1>1. /\ Seen = Shows(Heap) /\ Seen' = Shows(h)
      /\ [x \in Lists |-> ctl[x].current] = Cursors(Heap)
      /\ [x \in Lists |-> ctl'[x].current] = Cursors(h)
      /\ ret' = [code |-> code, out |-> out]
  BY StepShows
<1>2. /\ Shows(h) = [Shows(Heap) EXCEPT ![l] = Shows(h)[l]]
      /\ Cursors(h) = [Cursors(Heap) EXCEPT ![l] = h.ctl[l].current]
  BY OneBecomes
<1>. QED
  BY <1>1, <1>2 DEF Changed

\* A new node on the line is a new item in the sequence.
LEMMA InsertStep ==
    ASSUME Good(Heap), NEW l \in Lists, NEW n, NEW w, Line(Heap, l, w, n),
           NEW x \in Nodes, Heap.node[x].owner = NoList,
           NEW e, Good(e), Elsewhere(Heap, e, {l}), Return(e, "Success", <<x>>),
           NEW p \in 0..n, Line(e, l, Spliced(w, p, 1, Lone(x)), n + 1),
           \A m \in Nodes \ {x} : SameItem(e.node[m], Heap.node[m]),
           e.ctl[l].current \in {x, Heap.ctl[l].current},
           n = 0 => e.ctl[l].current = x
    PROVE  Promise!Insert(l)
<1>. DEFINE s == Seen[l]
            t == Seen'[l]
            v == Spliced(w, p, 1, Lone(x))
            i == p + 1
<1>1. Changed(l, e, "Success", <<x>>)
  BY ChangedIs, DListAssumption
<1>2. Row(Heap, l, w, n) /\ Row(e, l, v, n + 1)
  BY RowIs DEF Good
<1>3. /\ s \in Seq(Entry) /\ Len(s) = n /\ t \in Seq(Entry) /\ Len(t) = n + 1
      /\ DOMAIN t = 1..(n + 1)
      /\ \A j \in 1..n : s[j] = Item(Heap, w[j]) /\ w[j] \in Nodes
      /\ \A j \in 1..(n + 1) : t[j] = Item(e, v[j]) /\ t[j].handle = v[j]
                               /\ Item(e, v[j]) \in Entry
      /\ n \in Nat
  BY <1>1, <1>2 DEF Row, Changed
<1>4. \A j \in 1..n : Item(e, w[j]) = Item(Heap, w[j])
  <2>0. NoList # l /\ \A j \in 1..n : Heap.node[w[j]].owner = l
    BY DListAssumption DEF Line
  <2>1. \A j \in 1..n : w[j] \in Nodes /\ w[j] # x
    BY <1>3, <2>0
  <2>. QED
    BY <2>1 DEF SameItem, Item
<1>5. \A j \in 1..(n + 1) : v[j] = IF j < i THEN w[j] ELSE IF j = i THEN x ELSE w[j - 1]
  BY <1>3 DEF Spliced, Lone
<1>6. i \in 1..(n + 1) /\ v[i] = x /\ t[i].handle = x /\ t[i] \in Entry
  BY <1>3, <1>5
<1>7. ASSUME NEW j \in 1..Len(t)
      PROVE  t[j] = IF j < i THEN s[j] ELSE IF j = i THEN t[i] ELSE s[j - 1]
  <2>0. j \in 1..(n + 1)
    BY <1>3
  <2>1. CASE j < i
    <3>1. j \in 1..n
      BY <1>3, <2>0, <2>1
    <3>. QED
      BY <1>3, <1>4, <1>5, <2>0, <2>1, <3>1
  <2>2. CASE j = i
    BY <2>2
  <2>3. CASE j > i
    <3>1. j - 1 \in 1..n /\ v[j] = w[j - 1]
      BY <1>3, <1>5, <2>0, <2>3
    <3>. QED
      BY <1>3, <1>4, <2>0, <2>3, <3>1
  <2>. HIDE DEF i, s, t, v
  <2>4. p \in Nat /\ i = p + 1
    BY <1>3 DEF i
  <2>. QED
    BY <2>0, <2>1, <2>2, <2>3, <2>4
<1>8. SubSeq(s, 1, i - 1) \o <<t[i]>> \o SubSeq(s, i, Len(s)) = t
  <2>1. i \in 1..(Len(s) + 1) /\ Len(t) = Len(s) + 1
    BY <1>3, <1>6
  <2>. HIDE DEF i, s, t, v
  <2>. QED
    BY <1>3, <1>6, <1>7, <2>1, InsertAtIs
<1>9. x \notin Promise!InUse
  BY InUseIs, DListAssumption
<1>10. s = << >> => e.ctl[l].current = x
  BY <1>3
<1>. DEFINE c == Cursors(Heap)
            d == Cursors(e)
<1>11. d \in {c, [c EXCEPT ![l] = x]} /\ (s = << >> => d[l] = x)
  <2>1. c = [c EXCEPT ![l] = Heap.ctl[l].current] /\ d[l] = e.ctl[l].current
    BY DEF Cursors
  <2>2. d = [c EXCEPT ![l] = e.ctl[l].current]
    BY <1>1 DEF Changed
  <2>. QED
    BY <1>10, <2>1, <2>2
<1>12. Seen' = [Seen EXCEPT ![l] = SubSeq(s, 1, i - 1) \o <<t[i]>> \o SubSeq(s, i, Len(s))]
  BY <1>1, <1>8 DEF Changed
<1>13. Len(t) = Len(s) + 1 /\ i \in DOMAIN t
  BY <1>3, <1>6
<1>14. /\ [z \in Lists |-> ctl[z].current] = c /\ [z \in Lists |-> ctl'[z].current] = d
       /\ ret' = [code |-> "Success", out |-> <<t[i].handle>>]
  BY <1>1, <1>6 DEF Changed
<1>. HIDE DEF c, d, i, v
<1>. QED
  BY <1>6, <1>9, <1>11, <1>12, <1>13, <1>14, Zenon
     DEF Promise!Insert, Promise!Become, Promise!InsertAt

\* InsertObject promises an insertion, or fails.
LEMMA InsertObjectPromised ==
    ASSUME DListInv, NEW l \in Lists, NEW k \in Kinds,
           NEW target \in Items(l) \cup {NoNode}, NEW mode \in Modes,
           NEW makeCurrent \in BOOLEAN,
           InsertObject(l, k[1], k[2], target, mode, makeCurrent)
    PROVE  Promise!Look(l) \/ Promise!Insert(l)
<1>1. CASE Fail("OutOfMemory")
  BY <1>1, FailLooks
<1>2. CASE \E x \in Nodes :
              /\ Free(x)
              /\ LET c == IF target # NoNode THEN target ELSE ctl[l].current
                 IN  Return(Enter(Heap, l, x, k[1], k[2], c, mode, makeCurrent),
                            "Success", <<x>>)
  <2>. DEFINE c == IF target # NoNode THEN target ELSE ctl[l].current
  <2>1. PICK x \in Nodes :
           /\ Free(x)
           /\ Return(Enter(Heap, l, x, k[1], k[2], c, mode, makeCurrent), "Success", <<x>>)
    BY <1>2
  <2>2. Heap.ctl = ctl /\ Heap.node = node
    BY DEF Heap
  <2>3. k[1] \in Tags /\ k[2] \in Objects
    BY DListAssumption
  <2>4. c \in Pointers /\ Place(Heap, l, c) /\ (c = NoNode => Heap.ctl[l].current = NoNode)
    <3>1. CASE target # NoNode
      BY <2>2, <3>1 DEF Items, Place, Pointers
    <3>2. CASE target = NoNode
      <4>1. Place(Heap, l, Heap.ctl[l].current)
        BY Ends DEF DListInv
      <4>. QED
        BY <2>2, <3>2, <4>1 DEF Place
    <3>. QED
      BY <3>1, <3>2
  <2>5. Heap.node[x].owner = NoList /\ Good(Heap)
    BY <2>1, <2>2 DEF Free, DListInv
  <2>6. PICK n \in Nat, w \in [Int -> Pointers] : Line(Heap, l, w, n)
    BY <2>5 DEF Good, IsLine
  <2>. HIDE DEF c
  <2>. DEFINE e == Enter(Heap, l, x, k[1], k[2], c, mode, makeCurrent)
  <2>7. Return(e, "Success", <<x>>) /\ e = Enter(Heap, l, x, k[1], k[2], c, mode, makeCurrent)
    BY <2>1
  <2>. HIDE DEF e
  <2>8. /\ Good(e) /\ Elsewhere(Heap, e, {l})
        /\ \E p \in 0..n : Line(e, l, Spliced(w, p, 1, Lone(x)), n + 1)
        /\ \A m \in Nodes \ {x} : SameItem(e.node[m], Heap.node[m])
        /\ e.ctl[l].current \in {x, Heap.ctl[l].current}
        /\ n = 0 => e.ctl[l].current = x
    BY <2>3, <2>4, <2>5, <2>6, <2>7, EnterLine
  <2>. QED
    BY <2>5, <2>6, <2>7, <2>8, InsertStep
<1>. QED
  BY <1>1, <1>2 DEF InsertObject

\* So do all the ways to insert.
LEMMA InsertionPromised ==
    ASSUME DListInv, NEW l \in Lists, Insertion(l)
    PROVE  Promise!Look(l) \/ Promise!Insert(l)
<1>1. ASSUME NEW k \in Kinds, NEW mode \in Modes, NEW makeCurrent \in BOOLEAN,
             NEW target \in Items(l) \cup {NoNode},
             InsertObject(l, k[1], k[2], target, mode, makeCurrent)
      PROVE  Promise!Look(l) \/ Promise!Insert(l)
  BY <1>1, InsertObjectPromised
<1>2. ASSUME NEW k \in Kinds, NEW mode \in Modes, NEW makeCurrent \in BOOLEAN,
             ExclusiveInsertObject(l, k[1], k[2], NoNode, mode, makeCurrent)
      PROVE  Promise!Look(l) \/ Promise!Insert(l)
  <2>1. CASE Return(Heap, "Success", << >>)
    BY <2>1, ReadLooks
  <2>2. CASE InsertObject(l, k[1], k[2], NoNode, mode, makeCurrent)
    BY <1>1, <2>2
  <2>. QED
    BY <1>2, <2>1, <2>2 DEF ExclusiveInsertObject
<1>. QED
  BY <1>1, <1>2 DEF Insertion

\* A node off the line is an item gone from the sequence.
LEMMA ExtractStep ==
    ASSUME Good(Heap), NEW l \in Lists, NEW n, NEW w, Line(Heap, l, w, n),
           NEW i \in 1..n, NEW out,
           out \in {<<Heap.node[w[i]].data>>, << >>},
           Return(Unlink(Heap, l, w[i]), "Success", out)
    PROVE  Promise!Extract(l)
<1>. DEFINE s == Seen[l]
            t == Seen'[l]
            v == CutOut(w, i)
            x == w[i]
            u == Unlink(Heap, l, x)
<1>0. Lost(Heap, u, l, n, w, i) /\ Return(u, "Success", out)
  BY UnlinkLine
<1>. HIDE DEF u
<1>u. /\ Good(u) /\ Elsewhere(Heap, u, {l}) /\ Line(u, l, v, n - 1)
      /\ \A m \in Nodes \ {x} : SameItem(u.node[m], Heap.node[m])
      /\ u.ctl[l].current = IF Heap.ctl[l].current = x
                              THEN IF i < n THEN w[i + 1] ELSE w[i - 1]
                              ELSE Heap.ctl[l].current
  BY <1>0 DEF Lost
<1>1. Changed(l, u, "Success", out)
  <2>1. Heap.node[x].owner = l
    BY DEF Line
  <2>2. \A m \in Nodes : Heap.node[m].owner \in Lists \ {l} =>
           SameItem(u.node[m], Heap.node[m])
    BY <1>u, <2>1
  <2>. QED
    BY <1>0, <1>u, <2>2, ChangedIs
<1>2. Row(Heap, l, w, n) /\ Row(u, l, v, n - 1)
  BY <1>u, RowIs DEF Good
<1>3. /\ s \in Seq(Entry) /\ Len(s) = n /\ t \in Seq(Entry) /\ Len(t) = n - 1
      /\ DOMAIN s = 1..n
      /\ \A j \in 1..n : s[j] = Item(Heap, w[j]) /\ w[j] \in Nodes /\ s[j].handle = w[j]
                         /\ s[j].data = Heap.node[w[j]].data
      /\ \A j \in 1..(n - 1) : t[j] = Item(u, v[j])
      /\ n \in Nat /\ n - 1 \in Nat
  BY <1>1, <1>2 DEF Row, Changed
<1>4. \A j \in 1..n : j # i => Item(u, w[j]) = Item(Heap, w[j])
  <2>1. \A j \in 1..n : j # i => w[j] \in Nodes \ {x}
    BY <1>3 DEF Line
  <2>. QED
    BY <1>u, <2>1 DEF SameItem, Item
<1>5. \A j \in 1..(n - 1) : v[j] = IF j < i THEN w[j] ELSE w[j + 1]
  BY <1>3 DEF CutOut
<1>6. ASSUME NEW j \in 1..Len(t)
      PROVE  t[j] = IF j < i THEN s[j] ELSE s[j + 1]
  <2>0. j \in 1..(n - 1) /\ j \in 1..n /\ j + 1 \in 1..n /\ i \in Nat
    BY <1>3
  <2>1. CASE j < i
    BY <1>3, <1>4, <1>5, <2>0, <2>1
  <2>2. CASE ~(j < i)
    <3>1. j + 1 # i
      BY <2>0, <2>2
    <3>. QED
      BY <1>3, <1>4, <1>5, <2>0, <2>2, <3>1
  <2>. HIDE DEF s, t, v
  <2>. QED
    BY <2>1, <2>2
<1>7. SubSeq(s, 1, i - 1) \o SubSeq(s, i + 1, Len(s)) = t
  <2>1. i \in 1..Len(s) /\ Len(t) = Len(s) - 1
    BY <1>3
  <2>. HIDE DEF s, t, v
  <2>. QED
    BY <1>3, <1>6, <2>1, RemoveAtIs
<1>. DEFINE c == Cursors(Heap)
            d == Cursors(u)
<1>8. Promise!HeirOf(s, i) = IF i < n THEN w[i + 1] ELSE w[i - 1]
  <2>1. CASE i < n
    <3>1. i + 1 \in 1..n
      BY <1>3, <2>1
    <3>. QED
      BY <1>3, <2>1, <3>1 DEF Promise!HeirOf
  <2>2. CASE ~(i < n) /\ i > 1
    <3>1. i - 1 \in 1..n
      BY <1>3, <2>2
    <3>. QED
      BY <1>3, <2>2, <3>1 DEF Promise!HeirOf
  <2>3. CASE ~(i < n) /\ ~(i > 1)
    <3>1. i - 1 = 0 /\ i - 1 \in Int
      BY <1>3, <2>3
    <3>2. w[i - 1] = NoNode
      BY <3>1 DEF Line
    <3>. QED
      BY <1>3, <2>3, <3>2 DEF Promise!HeirOf
  <2>. QED
    BY <2>1, <2>2, <2>3
<1>9. d = IF c[l] = s[i].handle THEN [c EXCEPT ![l] = Promise!HeirOf(s, i)] ELSE c
  <2>1. c = [c EXCEPT ![l] = c[l]] /\ c[l] = Heap.ctl[l].current
    BY DEF Cursors
  <2>2. d = [c EXCEPT ![l] = u.ctl[l].current]
    BY <1>1 DEF Changed
  <2>3. s[i].handle = x
    BY <1>3
  <2>. HIDE DEF c, d, x, s
  <2>. QED
    BY <1>8, <1>u, <2>1, <2>2, <2>3
<1>10. Seen' = [Seen EXCEPT ![l] = SubSeq(s, 1, i - 1) \o SubSeq(s, i + 1, Len(s))]
  BY <1>1, <1>7 DEF Changed
<1>11. Len(t) = Len(s) - 1 /\ i \in DOMAIN s
  BY <1>3
<1>12. /\ [z \in Lists |-> ctl[z].current] = c /\ [z \in Lists |-> ctl'[z].current] = d
       /\ ret' \in {[code |-> "Success", out |-> <<s[i].data>>],
                    [code |-> "Success", out |-> << >>]}
  BY <1>1, <1>3 DEF Changed
<1>. HIDE DEF c, d, v, x
<1>. QED
  BY <1>9, <1>10, <1>11, <1>12, Zenon
     DEF Promise!Extract, Promise!Become, Promise!RemoveAt

\* Extraction by handle.
LEMMA HandleExtracts ==
    ASSUME DListInv, NEW l \in Lists, NEW handle \in SomeHandle,
           Refusal(l, handle) = "Success",
           Return(Unlink(Heap, l, At(l, handle)), "Success", <<node[At(l, handle)].data>>)
    PROVE  Promise!Extract(l)
<1>. DEFINE x == At(l, handle)
<1>1. x \in Nodes /\ Heap.node[x].owner = l /\ Good(Heap)
  BY Pointed DEF DListInv
<1>2. Return(Unlink(Heap, l, x), "Success", <<Heap.node[x].data>>)
  BY DEF Heap
<1>. HIDE DEF x
<1>3. PICK n \in Nat, w \in [Int -> Pointers] :
         Line(Heap, l, w, n) /\ \E i \in 1..n : w[i] = x
  BY <1>1, OnLine
<1>4. PICK i \in 1..n : w[i] = x
  BY <1>3
<1>. QED
  BY <1>1, <1>2, <1>3, <1>4, ExtractStep

\* DeleteObject promises an extraction, or fails.
LEMMA DeletePromised ==
    ASSUME DListInv, NEW l \in Lists, NEW data, DeleteObject(l, data)
    PROVE  Promise!Look(l) \/ Promise!Extract(l)
<1>. DEFINE w == Walk(Heap, l)
            hits == {i \in DOMAIN w : node[w[i]].data = data}
<1>1. CASE Fail("NotFound")
  BY <1>1, FailLooks
<1>2. CASE hits # {} /\ Return(Unlink(Heap, l, w[Min(hits)]), "Success", << >>)
  <2>1. PICK n \in Nat, v \in [Int -> Pointers] : Line(Heap, l, v, n)
    BY DEF DListInv, Good, IsLine
  <2>2. DOMAIN w = 1..n /\ \A i \in 1..n : w[i] = v[i]
    BY <2>1, WalkOwns
  <2>3. hits \subseteq 1..n /\ hits # {} /\ hits \subseteq Nat
    BY <1>2, <2>2
  <2>4. \E i \in hits : \A j \in hits : i <= j
    BY <2>3, LeastElement
  <2>5. Min(hits) \in hits
    <3>. HIDE DEF hits
    <3>. QED
      BY <2>4 DEF Min
  <2>. DEFINE m == Min(hits)
  <2>6. m \in 1..n /\ Return(Unlink(Heap, l, w[m]), "Success", << >>)
    BY <1>2, <2>3, <2>5
  <2>. HIDE DEF m
  <2>7. Return(Unlink(Heap, l, v[m]), "Success", << >>)
    BY <2>2, <2>6
  <2>. QED
    BY <2>1, <2>6, <2>7, ExtractStep DEF DListInv
<1>. QED
  BY <1>1, <1>2 DEF DeleteObject

\* An item is given another tag and object, and keeps its place and handle.
LEMMA ReplaceStep ==
    ASSUME Good(Heap), NEW l \in Lists, NEW n, NEW w, Line(Heap, l, w, n),
           NEW i \in 1..n, NEW h, Good(h), Elsewhere(Heap, h, {l}), Line(h, l, w, n),
           \A m \in Nodes \ {w[i]} : SameItem(h.node[m], Heap.node[m]),
           h.ctl[l].current \in {w[i], Heap.ctl[l].current},
           Return(h, "Success", <<Heap.node[w[i]].data>>)
    PROVE  Promise!Replace(l)
<1>. DEFINE s == Seen[l]
            t == Seen'[l]
            x == w[i]
            out == <<Heap.node[x].data>>
            c == Cursors(Heap)
            d == Cursors(h)
<1>1. Changed(l, h, "Success", out)
  <2>1. Heap.node[x].owner = l
    BY DEF Line
  <2>2. \A m \in Nodes : Heap.node[m].owner \in Lists \ {l} =>
           SameItem(h.node[m], Heap.node[m])
    BY <2>1
  <2>. QED
    BY <2>2, ChangedIs
<1>2. Row(Heap, l, w, n) /\ Row(h, l, w, n)
  BY RowIs DEF Good
<1>3. /\ s = [j \in 1..n |-> Item(Heap, w[j])] /\ t = [j \in 1..n |-> Item(h, w[j])]
      /\ DOMAIN s = 1..n /\ Len(s) = n /\ Len(t) = n
      /\ s[i].handle = x /\ t[i].handle = x /\ s[i].data = Heap.node[x].data
      /\ \A j \in 1..n : w[j] \in Nodes
  BY <1>1, <1>2 DEF Row, Changed
<1>4. \A j \in 1..n : j # i => Item(h, w[j]) = Item(Heap, w[j])
  <2>1. \A j \in 1..n : j # i => w[j] \in Nodes \ {x}
    BY <1>3 DEF Line
  <2>. QED
    BY <2>1 DEF SameItem, Item
<1>5. t = [s EXCEPT ![i] = t[i]]
  <2>. HIDE DEF s, t
  <2>1. \A j \in 1..n : t[j] = IF j = i THEN t[i] ELSE s[j]
    BY <1>3, <1>4
  <2>2. s = [j \in 1..n |-> s[j]] /\ t = [j \in 1..n |-> t[j]]
    BY <1>3
  <2>. QED
    BY <2>1, <2>2
<1>6. Seen' = [Seen EXCEPT ![l] = [s EXCEPT ![i] = t[i]]]
  BY <1>1, <1>5 DEF Changed
<1>7. d \in {c, [c EXCEPT ![l] = s[i].handle]}
  <2>1. c = [c EXCEPT ![l] = Heap.ctl[l].current]
    BY DEF Cursors
  <2>2. d = [c EXCEPT ![l] = h.ctl[l].current]
    BY <1>1 DEF Changed
  <2>. QED
    BY <1>3, <2>1, <2>2
<1>8. /\ [z \in Lists |-> ctl[z].current] = c /\ [z \in Lists |-> ctl'[z].current] = d
      /\ ret' = [code |-> "Success", out |-> <<s[i].data>>]
  BY <1>1, <1>3 DEF Changed
<1>9. i \in DOMAIN s /\ Len(t) = Len(s) /\ t[i].handle = s[i].handle
  BY <1>3
<1>. HIDE DEF c, d, x
<1>. QED
  BY <1>6, <1>7, <1>8, <1>9, Zenon DEF Promise!Replace, Promise!Become

\* ReplaceObject promises a replacement, or fails.
LEMMA ReplaceObjectPromised ==
    ASSUME DListInv, NEW l \in Lists, NEW k \in Kinds, NEW handle \in SomeHandle,
           NEW makeCurrent \in BOOLEAN,
           ReplaceObject(l, k[1], k[2], handle, makeCurrent)
    PROVE  Promise!Look(l) \/ Promise!Replace(l)
<1>1. CASE Refusal(l, handle) # "Success" /\ Fail(Refusal(l, handle))
  BY <1>1, FailLooks
<1>2. CASE Refusal(l, handle) = "Success"
  <2>. DEFINE x == At(l, handle)
              r == [node[x] EXCEPT !.tag = k[1], !.data = k[2]]
              h == Current(l, makeCurrent, x)
              g == [h EXCEPT !.node[x] = r]
  <2>1. Return(g, "Success", <<Heap.node[x].data>>)
    BY <1>2 DEF ReplaceObject, Heap
  <2>2. x \in Nodes /\ Heap.node[x].owner = l
    BY <1>2, Pointed
  <2>3. /\ Heap.node = node /\ Good(Heap) /\ Good(h) /\ h.node = node
        /\ k[1] \in Tags /\ k[2] \in Objects
    BY <1>2, PointedPlace, CurrentGood, DListAssumption DEF DListInv, Heap
  <2>4. /\ \A z \in Lists \ {l} : h.ctl[z] = Heap.ctl[z]
        /\ h.ctl[l].start = Heap.ctl[l].start /\ h.ctl[l].end = Heap.ctl[l].end
        /\ h.ctl[l].count = Heap.ctl[l].count
        /\ h.ctl[l].current \in {x, Heap.ctl[l].current}
    <3>. HIDE DEF x
    <3>1. Typed(Heap)
      BY <2>3 DEF Good
    <3>2. CASE makeCurrent
      BY <3>1, <3>2 DEF Current, Typed, RawControl
    <3>3. CASE ~makeCurrent
      BY <3>3 DEF Current
    <3>. QED
      BY <3>2, <3>3
  <2>5. Heap.node[x] \in LinkNode
    <3>1. Heap.node[x] \in Links /\ Heap.node[x].owner # NoList
      BY <2>2, <2>3, DListAssumption DEF Good, Typed
    <3>. QED
      BY <3>1, Owned
  <2>6. /\ r = [h.node[x] EXCEPT !.tag = k[1], !.data = k[2]] /\ h.node[x].owner = l
        /\ r.owner = Heap.node[x].owner
        /\ r.next = Heap.node[x].next /\ r.prev = Heap.node[x].prev
    BY <2>2, <2>3, <2>5 DEF LinkNode
  <2>7. g.ctl = h.ctl /\ \A m \in Nodes : g.node[m] = IF m = x THEN r ELSE Heap.node[m]
    BY <2>2, <2>3 DEF Good, Typed
  <2>8. Good(g)
    <3>. HIDE DEF h, r, x
    <3>1. r = [h.node[x] EXCEPT !.tag = k[1], !.data = k[2]] /\ h.node[x].owner = l
      BY <2>6
    <3>2. Good(h) /\ k[1] \in Tags /\ k[2] \in Objects
      BY <2>3
    <3>. QED
      BY <2>2, <3>1, <3>2, ReplaceGood, Zenon
  <2>. HIDE DEF g, h, r, x
  <2>9. PICK n \in Nat, w \in [Int -> Pointers] :
           Line(Heap, l, w, n) /\ \E i \in 1..n : w[i] = x
    BY <2>2, <2>3, OnLine
  <2>10. PICK i \in 1..n : w[i] = x
    BY <2>9
  <2>l. \A m \in Nodes : /\ g.node[m].owner = Heap.node[m].owner
                         /\ g.node[m].next = Heap.node[m].next
                         /\ g.node[m].prev = Heap.node[m].prev
    BY <2>6, <2>7
  <2>11. Elsewhere(Heap, g, {l})
    BY <2>4, <2>7, <2>l DEF Elsewhere
  <2>12. Line(g, l, w, n)
    <3>1. \A m \in Nodes : /\ g.node[m].owner = Heap.node[m].owner
                           /\ g.node[m].next = Heap.node[m].next
                           /\ g.node[m].prev = Heap.node[m].prev
      BY <2>l
    <3>2. \A j \in 1..n : w[j] \in Nodes
      BY <2>9 DEF Line, Pointers
    <3>3. \A j \in 1..n : /\ g.node[w[j]].owner = l
                          /\ g.node[w[j]].next = w[j + 1]
                          /\ g.node[w[j]].prev = w[j - 1]
      BY <2>9, <3>1, <3>2 DEF Line
    <3>4. \A m \in Nodes : g.node[m].owner = l => \E j \in 1..n : w[j] = m
      BY <2>9, <3>1 DEF Line
    <3>5. /\ g.ctl[l].count = n /\ g.ctl[l].start = w[1] /\ g.ctl[l].end = w[n]
      BY <2>4, <2>7, <2>9 DEF Line
    <3>6. Place(g, l, g.ctl[l].current) /\ (g.ctl[l].current = NoNode <=> n = 0)
      <4>1. Place(g, l, x) /\ x # NoNode /\ n # 0
        BY <2>2, <2>10, <3>1, DListAssumption DEF Place, Pointers
      <4>2. Place(g, l, Heap.ctl[l].current) /\ (Heap.ctl[l].current = NoNode <=> n = 0)
        BY <2>9, <3>1 DEF Place, Pointers, Line
      <4>. QED
        BY <2>4, <2>7, <4>1, <4>2
    <3>. QED
      BY <2>9, <3>3, <3>4, <3>5, <3>6 DEF Line
  <2>13. \A m \in Nodes \ {w[i]} : SameItem(g.node[m], Heap.node[m])
    BY <2>7, <2>10 DEF SameItem
  <2>14. g.ctl[l].current \in {w[i], Heap.ctl[l].current}
    BY <2>4, <2>7, <2>10
  <2>. QED
    BY <2>1, <2>3, <2>8, <2>9, <2>10, <2>11, <2>12, <2>13, <2>14, ReplaceStep
<1>. QED
  BY <1>1, <1>2 DEF ReplaceObject

\* An access looks or replaces.
LEMMA AccessPromised ==
    ASSUME DListInv, NEW l \in Lists, Access(l)
    PROVE  Promise!Look(l) \/ Promise!Replace(l)
BY ReadsLook, ReplaceObjectPromised

-----------------------------------------------------------------------------
(* Calls that drop items *)

\* Heap g is h with some nodes gone from the line w, of length n, of list l.
Shrunk(h, g, l, n, w) ==
    /\ Good(g) /\ Elsewhere(h, g, {l})
    /\ \E k \in 0..n, v \in [Int -> Pointers] :
          /\ Line(g, l, v, k)
          /\ \E kept \in [1..k -> 1..n] :
                /\ \A i, j \in 1..k : i < j => kept[i] < kept[j]
                /\ \A i \in 1..k : v[i] = w[kept[i]]
    /\ \A m \in Nodes : g.node[m].owner \in Lists => SameItem(g.node[m], h.node[m])
    /\ \A m \in Nodes : g.node[m].owner = l /\ h.ctl[l].current = m => g.ctl[l].current = m

\* It stays so when one more node goes.
LEMMA UnlinkShrinks ==
    ASSUME NEW h, NEW g, NEW l \in Lists, NEW n \in Nat, NEW w, Shrunk(h, g, l, n, w),
           NEW x \in Nodes, g.node[x].owner = l
    PROVE  Shrunk(h, Unlink(g, l, x), l, n, w)
<1>. DEFINE u == Unlink(g, l, x)
<1>0. PICK k \in 0..n, v \in [Int -> Pointers] :
         /\ Line(g, l, v, k)
         /\ \E kept \in [1..k -> 1..n] :
               /\ \A i, j \in 1..k : i < j => kept[i] < kept[j]
               /\ \A i \in 1..k : v[i] = w[kept[i]]
  BY DEF Shrunk
<1>1. PICK kept \in [1..k -> 1..n] :
         /\ Line(g, l, v, k)
         /\ \A i, j \in 1..k : i < j => kept[i] < kept[j]
         /\ \A i \in 1..k : v[i] = w[kept[i]]
  BY <1>0
<1>2. PICK j \in 1..k : v[j] = x
  BY <1>1 DEF Line
<1>3. Lost(g, u, l, k, v, j)
  BY <1>1, <1>2, UnlinkLine DEF Shrunk
<1>. HIDE DEF u
<1>4. /\ Good(u) /\ Elsewhere(g, u, {l}) /\ Line(u, l, CutOut(v, j), k - 1)
      /\ \A m \in Nodes : u.node[m].owner = IF m = x THEN NoList ELSE g.node[m].owner
      /\ \A m \in Nodes \ {x} : SameItem(u.node[m], g.node[m])
      /\ g.ctl[l].current # x => u.ctl[l].current = g.ctl[l].current
  BY <1>2, <1>3 DEF Lost
<1>5. Elsewhere(h, u, {l})
  BY <1>4 DEF Elsewhere, Shrunk
<1>6. \E i \in 0..n, f \in [Int -> Pointers] :
         /\ Line(u, l, f, i)
         /\ \E still \in [1..i -> 1..n] :
               /\ \A a, b \in 1..i : a < b => still[a] < still[b]
               /\ \A a \in 1..i : f[a] = w[still[a]]
  <2>. DEFINE still == [i \in 1..(k - 1) |-> IF i < j THEN kept[i] ELSE kept[i + 1]]
              f == CutOut(v, j)
  <2>1. \A i \in 1..(k - 1) : i \in 1..k /\ i + 1 \in 1..k
    OBVIOUS
  <2>2. still \in [1..(k - 1) -> 1..n]
    BY <2>1
  <2>3. ASSUME NEW a \in 1..(k - 1), NEW b \in 1..(k - 1), a < b
        PROVE  still[a] < still[b]
    <3>. DEFINE p == IF a < j THEN a ELSE a + 1
                q == IF b < j THEN b ELSE b + 1
    <3>1. p \in 1..k /\ q \in 1..k /\ p < q
      BY <2>1, <2>3
    <3>2. still[a] = kept[p] /\ still[b] = kept[q]
      OBVIOUS
    <3>. HIDE DEF still, p, q
    <3>. QED
      BY <1>1, <3>1, <3>2
  <2>4. \A a \in 1..(k - 1) : f[a] = w[still[a]]
    <3>1. \A a \in 1..(k - 1) : f[a] = IF a < j THEN v[a] ELSE v[a + 1]
      BY DEF CutOut
    <3>. QED
      BY <1>1, <2>1, <3>1
  <2>5. k - 1 \in 0..n /\ f \in [Int -> Pointers] /\ Line(u, l, f, k - 1)
    <3>1. Line(u, l, f, k - 1)
      BY <1>4
    <3>. HIDE DEF f
    <3>2. f \in [Int -> Pointers]
      BY <3>1 DEF Line
    <3>. QED
      BY <3>1, <3>2
  <2>. HIDE DEF f, still
  <2>. QED
    BY <2>2, <2>3, <2>4, <2>5
<1>7. ASSUME NEW m \in Nodes, u.node[m].owner \in Lists
      PROVE  SameItem(u.node[m], h.node[m])
  <2>1. m # x /\ g.node[m].owner \in Lists
    BY <1>4, <1>7, DListAssumption
  <2>. QED
    BY <1>4, <2>1 DEF SameItem, Shrunk
<1>8. ASSUME NEW m \in Nodes, u.node[m].owner = l, h.ctl[l].current = m
      PROVE  u.ctl[l].current = m
  <2>1. m # x /\ g.node[m].owner = l
    BY <1>4, <1>8, DListAssumption
  <2>2. g.ctl[l].current = m
    BY <1>8, <2>1 DEF Shrunk
  <2>. QED
    BY <1>4, <2>1, <2>2
<1>9. Shrunk(h, u, l, n, w)
  BY <1>4, <1>5, <1>6, <1>7, <1>8 DEF Shrunk
<1>. QED
  BY <1>9 DEF u

\* A list that stays the same has lost nothing.
LEMMA SameShrinks ==
    ASSUME NEW h, Good(h), NEW l \in Lists, NEW n, NEW w, Line(h, l, w, n)
    PROVE  Shrunk(h, h, l, n, w)
<1>1. n \in 0..n /\ w \in [Int -> Pointers]
  BY DEF Line
<1>2. \E kept \in [1..n -> 1..n] :
         /\ \A i, j \in 1..n : i < j => kept[i] < kept[j]
         /\ \A i \in 1..n : w[i] = w[kept[i]]
  <2>. DEFINE kept == [i \in 1..n |-> i]
  <2>1. /\ kept \in [1..n -> 1..n]
        /\ \A i, j \in 1..n : i < j => kept[i] < kept[j]
        /\ \A i \in 1..n : w[i] = w[kept[i]]
    OBVIOUS
  <2>. QED
    BY <2>1
<1>. QED
  BY <1>1, <1>2 DEF Shrunk, Elsewhere, SameItem

\* A list that is emptied has lost everything.
LEMMA EmptyShrinks ==
    ASSUME NEW h, Good(h), NEW l \in Lists, NEW n \in Nat, NEW w, NEW g,
           Emptying(h, g, l)
    PROVE  Shrunk(h, g, l, n, w)
<1>1. Good(g) /\ NoList \notin Lists /\ NoLink.owner = NoList
  BY EmptyingGood, DListAssumption DEF NoLink
<1>2. PICK k \in Nat, v \in [Int -> Pointers] : Line(g, l, v, k)
  BY <1>1 DEF Good, IsLine
<1>3. k = 0
  BY <1>2 DEF Line, Emptying, CreateList
<1>4. \A m \in Nodes : g.node[m].owner \in Lists =>
         g.node[m] = h.node[m] /\ g.node[m].owner # l
  BY <1>1 DEF Emptying
<1>5. Elsewhere(h, g, {l})
  BY <1>1 DEF Emptying, Elsewhere
<1>6. \E kept \in [1..k -> 1..n] :
         /\ \A i, j \in 1..k : i < j => kept[i] < kept[j]
         /\ \A i \in 1..k : v[i] = w[kept[i]]
  <2>1. 1..k = {}
    BY <1>3
  <2>2. [i \in 1..k |-> i] \in [1..k -> 1..n]
    BY <2>1
  <2>. QED
    BY <2>1, <2>2
<1>7. k \in 0..n
  BY <1>3
<1>. QED
  BY <1>1, <1>2, <1>4, <1>5, <1>6, <1>7 DEF Shrunk, SameItem

\* What is left of a line is what is left of the sequence.
LEMMA DropStep ==
    ASSUME Good(Heap), NEW l \in Lists, NEW n, NEW w, Line(Heap, l, w, n),
           NEW g, Shrunk(Heap, g, l, n, w), NEW code, Return(g, code, << >>)
    PROVE  Promise!Drop(l)
<1>. DEFINE s == Seen[l]
            t == Seen'[l]
            c == Cursors(Heap)
            d == Cursors(g)
<1>1. Changed(l, g, code, << >>)
  <2>1. \A m \in Nodes : Heap.node[m].owner \in Lists \ {l} =>
           SameItem(g.node[m], Heap.node[m])
    BY DEF Shrunk, Elsewhere
  <2>. QED
    BY <2>1, ChangedIs DEF Shrunk
<1>2. PICK k \in 0..n, v \in [Int -> Pointers] :
         /\ Line(g, l, v, k)
         /\ \E kept \in [1..k -> 1..n] :
               /\ \A i, j \in 1..k : i < j => kept[i] < kept[j]
               /\ \A i \in 1..k : v[i] = w[kept[i]]
  BY DEF Shrunk
<1>3. PICK kept \in [1..k -> 1..n] :
         /\ \A i, j \in 1..k : i < j => kept[i] < kept[j]
         /\ \A i \in 1..k : v[i] = w[kept[i]]
  BY <1>2
<1>4. Row(Heap, l, w, n) /\ Row(g, l, v, k)
  BY <1>2, RowIs DEF Good, Shrunk
<1>5. /\ DOMAIN s = 1..n /\ Len(s) = n /\ DOMAIN t = 1..k /\ Len(t) = k
      /\ \A j \in 1..n : s[j] = Item(Heap, w[j])
      /\ \A j \in 1..k : t[j] = Item(g, v[j]) /\ t[j].handle = v[j] /\ v[j] \in Nodes
  BY <1>1, <1>4 DEF Row, Changed
<1>6. \A i \in 1..k : Item(g, v[i]) = Item(Heap, v[i])
  <2>1. \A i \in 1..k : g.node[v[i]].owner = l
    BY <1>2 DEF Line
  <2>. QED
    BY <1>5, <2>1 DEF Shrunk, SameItem, Item
<1>7. Promise!Within(t, s)
  <2>1. \A i \in 1..k : t[i] = s[kept[i]]
    BY <1>3, <1>5, <1>6
  <2>. HIDE DEF s, t
  <2>. QED
    BY <1>3, <1>5, <2>1 DEF Promise!Within
<1>8. Promise!HandlesOf(t) = {m \in Nodes : g.node[m].owner = l}
  <2>1. Seen'[l] = Shows(g)[l] /\ Good(g)
    BY <1>1 DEF Changed, Shrunk
  <2>. QED
    BY <2>1, HandlesAre DEF Promise!HandlesOf
<1>9. /\ d[l] = g.ctl[l].current /\ c[l] = Heap.ctl[l].current
      /\ \A m \in Lists \ {l} : d[m] = c[m]
  BY <1>1 DEF Changed, Cursors
<1>. DEFINE left == {m \in Nodes : g.node[m].owner = l}
<1>10. c[l] \in left => d[l] = c[l]
  BY <1>9 DEF Shrunk
<1>11. IF left = {} THEN d[l] = NoNode ELSE d[l] \in left
  <2>1. Place(g, l, d[l]) /\ (d[l] = NoNode <=> k = 0)
    BY <1>2, <1>9 DEF Line
  <2>2. k = 0 <=> left = {}
    <3>1. \A i \in 1..k : v[i] \in left
      BY <1>2, <1>5 DEF Line
    <3>2. \A m \in left : \E i \in 1..k : v[i] = m
      BY <1>2 DEF Line
    <3>. QED
      BY <3>1, <3>2
  <2>. QED
    BY <2>1, <2>2 DEF Place, Pointers
<1>12. Seen' = [Seen EXCEPT ![l] = t] /\ Len(t) <= Len(s)
  BY <1>1, <1>5 DEF Changed
<1>13. /\ [z \in Lists |-> ctl[z].current] = c /\ [z \in Lists |-> ctl'[z].current] = d
       /\ ret'.out = << >>
  BY <1>1 DEF Changed
<1>. HIDE DEF c, d, left
<1>. QED
  BY <1>7, <1>8, <1>9, <1>10, <1>11, <1>12, <1>13, Zenon
     DEF Promise!Drop, Promise!Become, left

\* PruneList between two turns.
LEMMA PruningShrinks ==
    ASSUME NEW h, NEW l \in Lists, NEW n \in Nat, NEW w, NEW kill,
           NEW r \in PruneState(l), Shrunk(h, r.heap, l, n, w)
    PROVE  Shrunk(h, Pruning(l, kill)[r].heap, l, n, w)
<1>. DEFINE q == Pruning(l, kill)[r]
<1>0. r \in PruneRecord /\ Place(r.heap, l, r.at)
  BY DEF PruneState
<1>1. CASE r.at = NoNode
  <2>1. q = r
    BY <1>0, <1>1 DEF Pruning, PruneRecord
  <2>. QED
    BY <2>1
<1>2. CASE r.at # NoNode
  <2>1. q.heap \in {r.heap, Unlink(r.heap, l, r.at)}
    BY <1>0, <1>2 DEF Pruning, PruneRecord
  <2>2. r.at \in Nodes /\ r.heap.node[r.at].owner = l
    BY <1>0, <1>2 DEF Place, Pointers
  <2>3. Shrunk(h, Unlink(r.heap, l, r.at), l, n, w)
    BY <2>2, UnlinkShrinks
  <2>. QED
    BY <2>1, <2>3
<1>. QED
  BY <1>1, <1>2

\* PruneList drops items and keeps the order of the rest.
LEMMA PruneListPromised ==
    ASSUME DListInv, NEW l \in Lists, NEW kill, PruneList(l, kill)
    PROVE  Promise!Drop(l)
<1>. DEFINE r0 == [heap |-> Heap, at |-> ctl[l].start, code |-> "Success"]
            r == Repeat(Pruning(l, kill), r0, ctl[l].count)
<1>1. PICK n \in Nat, w \in [Int -> Pointers] : Line(Heap, l, w, n)
  BY DEF DListInv, Good, IsLine
<1>. DEFINE S == {q \in PruneState(l) : Shrunk(Heap, q.heap, l, n, w)}
<1>2. Heap.ctl = ctl /\ Good(Heap)
  BY DEF Heap, DListInv
<1>3. r0 \in S
  <2>1. Heap \in Heaps /\ Place(Heap, l, ctl[l].start) /\ Good(Heap)
    BY <1>2, GoodHeap, Ends
  <2>2. r0 \in PruneState(l) /\ r0.heap = Heap
    BY <2>1 DEF PruneState, PruneRecord, Place, Codes
  <2>. HIDE DEF r0
  <2>. QED
    BY <1>1, <2>1, <2>2, SameShrinks
<1>4. \A y \in S : Pruning(l, kill)[y] \in S
  BY PruningStays, PruningShrinks
<1>5. ctl[l].count \in Nat
  BY <1>2 DEF Good, Typed, RawControl
<1>. HIDE DEF r0
<1>6. r \in S
  <2>. HIDE DEF S
  <2>. QED
    BY <1>3, <1>4, <1>5, RepeatStays
<1>7. Return(r.heap, r.code, << >>)
  BY DEF PruneList, r0
<1>. HIDE DEF r
<1>. QED
  BY <1>1, <1>2, <1>6, <1>7, DropStep

\* All the ways to remove.
LEMMA RemovalPromised ==
    ASSUME DListInv, NEW l \in Lists, Removal(l)
    PROVE  Promise!Look(l) \/ Promise!Extract(l) \/ Promise!Drop(l)
<1>0. Good(Heap)
  BY DEF DListInv
<1>1. ASSUME NEW handle \in SomeHandle, BlindExtractObject(l, handle)
      PROVE  Promise!Look(l) \/ Promise!Extract(l)
  <2>1. CASE Fail(Refusal(l, handle))
    BY <2>1, FailLooks
  <2>. QED
    BY <1>1, <2>1, HandleExtracts DEF BlindExtractObject
<1>2. ASSUME NEW handle \in SomeHandle, NEW tag \in Tags, ExtractObject(l, tag, handle)
      PROVE  Promise!Look(l) \/ Promise!Extract(l)
  <2>1. CASE Fail(Refusal(l, handle)) \/ Fail("TagWrong")
    BY <2>1, FailLooks
  <2>. QED
    BY <1>2, <2>1, HandleExtracts DEF ExtractObject
<1>3. ASSUME NEW data \in Objects, DeleteObject(l, data)
      PROVE  Promise!Look(l) \/ Promise!Extract(l)
  BY <1>3, DeletePromised
<1>4. PICK n \in Nat, w \in [Int -> Pointers] : Line(Heap, l, w, n)
  BY <1>0 DEF Good, IsLine
<1>5. CASE DeleteAllItems(l)
  <2>1. Emptying(Heap, Emptied(Heap, l), l)
    BY <1>0, EmptiedGood
  <2>2. Shrunk(Heap, Emptied(Heap, l), l, n, w)
    BY <1>0, <2>1, EmptyShrinks
  <2>. QED
    BY <1>0, <1>4, <1>5, <2>2, DropStep DEF DeleteAllItems
<1>6. CASE DestroyList(l)
  <2>. DEFINE g == [Emptied(Heap, l) EXCEPT !.ctl[l] = CreateList]
  <2>1. Emptying(Heap, g, l)
    BY <1>0, EmptiedGood
  <2>2. Return(g, "Success", << >>)
    BY <1>6 DEF DestroyList
  <2>. HIDE DEF g
  <2>3. Shrunk(Heap, g, l, n, w)
    BY <1>0, <2>1, EmptyShrinks
  <2>. QED
    BY <1>0, <1>4, <2>2, <2>3, DropStep
<1>7. ASSUME NEW kill \in Callbacks(KillVerdicts), PruneList(l, kill)
      PROVE  Promise!Drop(l)
  BY <1>7, PruneListPromised
<1>. QED
  BY <1>1, <1>2, <1>3, <1>5, <1>6, <1>7 DEF Removal

-----------------------------------------------------------------------------
(* Whole lists *)

\* An empty line shows an empty sequence.
LEMMA EmptyRow ==
    ASSUME NEW h, NEW l, NEW w, NEW n, Row(h, l, w, n)
    PROVE  Shows(h)[l] = << >> <=> n = 0
<1>1. Shows(h)[l] \in Seq(Entry) /\ Len(Shows(h)[l]) = n
  BY DEF Row
<1>. QED
  BY <1>1, EmptySeq

\* Line v is line w, of length n, and then line f, of length k.
OneAfter(v, n, w, k, f) ==
    \A i \in 1..(n + k) : v[i] = IF i <= n THEN w[i] ELSE f[i - n]

\* The nodes of one line moved to the end of another.
LEMMA AppendStep ==
    ASSUME Good(Heap), NEW t \in Lists, NEW s \in Lists, t # s,
           NEW n, NEW w, Line(Heap, t, w, n), NEW k, NEW f, Line(Heap, s, f, k),
           NEW g, NEW v, Merged(Heap, g, t, s, v, n + k), OneAfter(v, n, w, k, f),
           Return(g, "Success", << >>)
    PROVE  Promise!Append2(t, s)
<1>0. /\ Good(g) /\ Elsewhere(Heap, g, {t, s}) /\ Line(g, t, v, n + k)
      /\ \A m \in Nodes : SameItem(g.node[m], Heap.node[m])
      /\ \A i \in 1..(n + k) : v[i] = IF i <= n THEN w[i] ELSE f[i - n]
      /\ g.ctl[s] = CreateList
      /\ g.ctl[t].current = IF n = 0 THEN Heap.ctl[s].current ELSE Heap.ctl[t].current
  <2>1. Heap.ctl[t].count = n
    BY DEF Line
  <2>. QED
    BY <2>1 DEF Merged, OneAfter
<1>. USE <1>0
<1>. DEFINE c == Cursors(Heap)
            d == Cursors(g)
            x == Seen[t]
            y == Seen[s]
            z == Seen'[t]
            S == Shows(Heap)
            G == Shows(g)
<1>1. /\ Seen = S /\ Seen' = G
      /\ [i \in Lists |-> ctl[i].current] = c /\ [i \in Lists |-> ctl'[i].current] = d
      /\ ret' = [code |-> "Success", out |-> << >>]
  BY StepShows
<1>2. \A i \in Lists \ {t, s} : G[i] = S[i] /\ d[i] = c[i]
  BY RowStays
<1>3. Row(Heap, t, w, n) /\ Row(Heap, s, f, k) /\ Row(g, t, v, n + k)
  BY RowIs DEF Good
<1>4. G[s] = << >>
  <2>1. PICK j \in Nat, q \in [Int -> Pointers] : Line(g, s, q, j)
    BY DEF Good, IsLine
  <2>2. j = 0
    BY <2>1 DEF Line, CreateList
  <2>3. Row(g, s, q, j)
    BY <2>1, RowIs DEF Good
  <2>. QED
    BY <2>2, <2>3, EmptyRow
<1>5. /\ n \in Nat /\ k \in Nat
      /\ x \in Seq(Entry) /\ Len(x) = n /\ \A i \in 1..n : x[i] = Item(Heap, w[i])
      /\ y \in Seq(Entry) /\ Len(y) = k /\ \A i \in 1..k : y[i] = Item(Heap, f[i])
      /\ z \in Seq(Entry) /\ Len(z) = n + k /\ \A i \in 1..(n + k) : z[i] = Item(g, v[i])
      /\ \A i \in 1..(n + k) : v[i] \in Nodes
  BY <1>1, <1>3 DEF Row
<1>6. z = x \o y
  <2>1. /\ x \o y \in Seq(Entry) /\ Len(x \o y) = n + k
        /\ \A i \in 1..(n + k) : (x \o y)[i] = IF i <= n THEN x[i] ELSE y[i - n]
    <3>. HIDE DEF x, y
    <3>1. /\ x \o y \in Seq(Entry) /\ Len(x \o y) = Len(x) + Len(y)
          /\ \A i \in 1..(Len(x) + Len(y)) :
                (x \o y)[i] = IF i <= Len(x) THEN x[i] ELSE y[i - Len(x)]
      BY <1>5, ConcatProperties
    <3>. QED
      BY <1>5, <3>1
  <2>2. ASSUME NEW i \in 1..(n + k) PROVE (x \o y)[i] = z[i]
    <3>1. z[i] = Item(Heap, v[i])
      BY <1>5 DEF Item, SameItem
    <3>2. CASE i <= n
      <4>1. i \in 1..n
        BY <1>5, <3>2
      <4>. QED
        BY <1>5, <2>1, <3>1, <3>2, <4>1
    <3>3. CASE ~(i <= n)
      <4>1. i - n \in 1..k
        BY <1>5, <3>3
      <4>. QED
        BY <1>5, <2>1, <3>1, <3>3, <4>1
    <3>. QED
      BY <3>2, <3>3
  <2>. HIDE DEF x, y, z
  <2>. QED
    BY <1>5, <2>1, <2>2, SeqEqual
<1>7. G = [S EXCEPT ![t] = x \o y, ![s] = << >>]
  <2>1. G[t] = x \o y
    BY <1>1, <1>6
  <2>2. G = [i \in Lists |-> G[i]] /\ S = [i \in Lists |-> S[i]]
    BY DEF Shows
  <2>. HIDE DEF G, S, x, y
  <2>. QED
    BY <1>2, <1>4, <2>1, <2>2
<1>8. d = [c EXCEPT ![t] = IF x = << >> THEN c[s] ELSE c[t], ![s] = NoNode]
  <2>1. x = << >> <=> n = 0
    BY <1>1, <1>3, EmptyRow
  <2>2. /\ d[t] = (IF n = 0 THEN c[s] ELSE c[t]) /\ d[s] = NoNode
        /\ c = [i \in Lists |-> c[i]] /\ d = [i \in Lists |-> d[i]]
    BY DEF Cursors, CreateList
  <2>. HIDE DEF c, d, x
  <2>. QED
    BY <1>2, <2>1, <2>2
<1>9. Seen' = [Seen EXCEPT ![t] = x \o y, ![s] = << >>] /\ Seen'[s] = << >>
  BY <1>1, <1>4, <1>7
<1>. HIDE DEF c, d, S, G
<1>. QED
  BY <1>1, <1>8, <1>9, Zenon DEF Promise!Append2

\* AppendList moves the items of s to the end of t.
LEMMA AppendListPromised ==
    ASSUME DListInv, NEW t \in Lists, NEW s \in Lists \ {t}, AppendList(t, s)
    PROVE  Promise!Look(t) \/ Promise!Append2(t, s)
<1>. DEFINE w == Walk(Heap, s)
            owned == [n \in Nodes |-> IF n \in ToSet(w) THEN [node[n] EXCEPT !.owner = t]
                                                        ELSE node[n]]
            joined == Join(owned, ctl[t].end, ctl[s].start)
<1>1. Heap.ctl = ctl /\ Heap.node = node /\ Good(Heap) /\ t # s
  BY DEF Heap, DListInv
<1>2. owned = Given(Heap.node, t, s)
  <2>1. PICK n \in Nat, v \in [Int -> Pointers] : Line(Heap, s, v, n)
    BY <1>1 DEF Good, IsLine
  <2>2. ToSet(w) = {m \in Nodes : Heap.node[m].owner = s}
    BY <2>1, WalkOwns
  <2>. HIDE DEF w
  <2>. QED
    BY <1>1, <2>2 DEF Given
<1>. HIDE DEF owned, w
<1>a. PICK n \in Nat, v \in [Int -> Pointers] : Line(Heap, t, v, n)
  BY <1>1 DEF Good, IsLine
<1>b. PICK k \in Nat, f \in [Int -> Pointers] : Line(Heap, s, f, k)
  BY <1>1 DEF Good, IsLine
<1>c. ctl[t].count = n /\ ctl[s].count = k
  BY <1>1, <1>a, <1>b DEF Line
<1>3. CASE Return(Heap, "Success", << >>)
  BY <1>3, ReadLooks
<1>4. CASE /\ ctl[t].count = 0
           /\ Return([node |-> owned, ctl |-> [ctl EXCEPT ![t] = ctl[s], ![s] = ctl[t]]],
                     "Success", << >>)
  <2>. DEFINE g == [node |-> Given(Heap.node, t, s),
                    ctl |-> [Heap.ctl EXCEPT ![t] = Heap.ctl[s], ![s] = Heap.ctl[t]]]
  <2>1. Return(g, "Success", << >>)
    BY <1>1, <1>2, <1>4
  <2>2. Heap.ctl[t].count = 0
    BY <1>1, <1>4
  <2>3. Merged(Heap, g, t, s, f, k)
    BY <1>1, <1>b, <2>2, SwappedGood
  <2>. HIDE DEF g
  <2>4. n = 0 /\ n + k = k
    BY <1>4, <1>c
  <2>5. OneAfter(f, n, v, k, f)
    BY <2>4 DEF OneAfter
  <2>6. Merged(Heap, g, t, s, f, n + k)
    BY <2>3, <2>4
  <2>. QED
    BY <1>1, <1>a, <1>b, <2>1, <2>5, <2>6, AppendStep
<1>5. CASE /\ ctl[s].count # 0 /\ ctl[t].count # 0
           /\ Return([node |-> joined,
                      ctl |-> [ctl EXCEPT ![t].end = ctl[s].end,
                                          ![t].count = @ + ctl[s].count,
                                          ![s] = CreateList]],
                     "Success", << >>)
  <2>. DEFINE g == [node |-> Join(Given(Heap.node, t, s), Heap.ctl[t].end, Heap.ctl[s].start),
                    ctl |-> [Heap.ctl EXCEPT ![t].end = Heap.ctl[s].end,
                                             ![t].count = @ + Heap.ctl[s].count,
                                             ![s] = CreateList]]
              u == Spliced(v, n, k, f)
  <2>1. Return(g, "Success", << >>)
    BY <1>1, <1>2, <1>5
  <2>2. Heap.ctl[t].count # 0 /\ Heap.ctl[s].count # 0
    BY <1>1, <1>5
  <2>3. Merged(Heap, g, t, s, u, n + k)
    BY <1>1, <1>a, <1>b, <2>2, AppendedGood
  <2>4. OneAfter(u, n, v, k, f)
    BY DEF OneAfter, Spliced
  <2>. HIDE DEF g, u
  <2>. QED
    BY <1>1, <1>a, <1>b, <2>1, <2>3, <2>4, AppendStep
<1>. QED
  BY <1>3, <1>4, <1>5 DEF AppendList, owned, w

\* Sequence t is s with k elements put in after its p-th.
SplicedIn(t, s, p, k) ==
    /\ DOMAIN SubSeq(t, p + 1, p + k) = 1..k
    /\ \A j \in 1..k : SubSeq(t, p + 1, p + k)[j] = t[p + j]
    /\ SubSeq(s, 1, p) \o SubSeq(t, p + 1, p + k) \o SubSeq(s, p + 1, Len(s)) = t

\* A sequence with a part of k items put in after place p.
LEMMA SpliceIs ==
    ASSUME NEW S, NEW s \in Seq(S), NEW p \in 0..Len(s), NEW k \in Nat,
           NEW t \in Seq(S), Len(t) = Len(s) + k,
           \A j \in 1..Len(t) : /\ j <= p => t[j] = s[j]
                                /\ j > p + k => t[j] = s[j - k]
    PROVE  SplicedIn(t, s, p, k)
<1>. DEFINE a == SubSeq(s, 1, p)
            m == SubSeq(t, p + 1, p + k)
            b == SubSeq(s, p + 1, Len(s))
            u == a \o m
            c == u \o b
<1>0. Len(s) \in Nat /\ p \in Nat /\ p <= Len(s)
  BY LenProperties
<1>1. /\ a \in Seq(S) /\ Len(a) = p /\ \A j \in 1..p : a[j] = s[j]
  <2>1. 1 \in 1..(Len(s) + 1) /\ p \in (1 - 1)..Len(s)
    BY <1>0
  <2>2. /\ a \in Seq(S) /\ Len(a) = (p - 1) + 1
        /\ \A j \in 1..((p - 1) + 1) : a[j] = s[(1 + j) - 1]
    BY <2>1, PartIs
  <2>. HIDE DEF a
  <2>. QED
    BY <1>0, <2>2
<1>2. /\ m \in Seq(S) /\ Len(m) = k /\ \A j \in 1..k : m[j] = t[p + j]
  <2>1. p + 1 \in 1..(Len(t) + 1) /\ p + k \in ((p + 1) - 1)..Len(t)
    BY <1>0
  <2>2. /\ m \in Seq(S) /\ Len(m) = ((p + k) - (p + 1)) + 1
        /\ \A j \in 1..(((p + k) - (p + 1)) + 1) : m[j] = t[((p + 1) + j) - 1]
    BY <2>1, PartIs
  <2>3. ((p + k) - (p + 1)) + 1 = k /\ \A j \in 1..k : ((p + 1) + j) - 1 = p + j
    BY <1>0
  <2>. HIDE DEF m
  <2>. QED
    BY <2>2, <2>3
<1>3. /\ b \in Seq(S) /\ Len(b) = Len(s) - p /\ \A j \in 1..(Len(s) - p) : b[j] = s[p + j]
  <2>1. Len(s) \in ((p + 1) - 1)..Len(s) /\ p + 1 \in 1..(Len(s) + 1)
    BY <1>0
  <2>2. /\ b \in Seq(S) /\ Len(b) = (Len(s) - (p + 1)) + 1
        /\ \A j \in 1..((Len(s) - (p + 1)) + 1) : b[j] = s[((p + 1) + j) - 1]
    BY <2>1, PartIs
  <2>3. (Len(s) - (p + 1)) + 1 = Len(s) - p
        /\ \A j \in 1..(Len(s) - p) : ((p + 1) + j) - 1 = p + j
    BY <1>0
  <2>. HIDE DEF b
  <2>. QED
    BY <2>2, <2>3
<1>4. DOMAIN m = 1..k
  BY <1>2, LenProperties
<1>. HIDE DEF a, m, b
<1>5. /\ u \in Seq(S) /\ Len(u) = p + k
      /\ \A j \in 1..(p + k) : u[j] = IF j <= p THEN a[j] ELSE m[j - p]
  BY <1>1, <1>2, ConcatProperties
<1>. HIDE DEF u
<1>6. /\ c \in Seq(S) /\ Len(c) = (p + k) + (Len(s) - p)
      /\ \A j \in 1..((p + k) + (Len(s) - p)) :
            c[j] = IF j <= p + k THEN u[j] ELSE b[j - (p + k)]
  <2>1. /\ c \in Seq(S) /\ Len(c) = Len(u) + Len(b)
        /\ \A j \in 1..(Len(u) + Len(b)) :
              c[j] = IF j <= Len(u) THEN u[j] ELSE b[j - Len(u)]
    BY <1>3, <1>5, ConcatProperties
  <2>. HIDE DEF c
  <2>. QED
    BY <1>3, <1>5, <2>1
<1>. HIDE DEF c
<1>7. Len(c) = Len(t) /\ Len(t) = (p + k) + (Len(s) - p)
  BY <1>0, <1>6
<1>8. ASSUME NEW j \in 1..Len(c) PROVE c[j] = t[j]
  <2>1. CASE j <= p
    <3>1. j \in 1..p /\ j \in 1..(p + k) /\ j <= p + k
      BY <1>0, <2>1
    <3>. QED
      BY <1>1, <1>5, <1>6, <1>7, <2>1, <3>1
  <2>2. CASE ~(j <= p) /\ j <= p + k
    <3>1. j \in 1..(p + k) /\ j - p \in 1..k /\ p + (j - p) = j
      BY <1>0, <2>2
    <3>. QED
      BY <1>2, <1>5, <1>6, <1>7, <2>2, <3>1
  <2>3. CASE ~(j <= p + k)
    <3>1. j - (p + k) \in 1..(Len(s) - p) /\ p + (j - (p + k)) = j - k
      <4>1. /\ j \in Nat /\ p \in Nat /\ k \in Nat /\ Len(s) \in Nat
            /\ j <= (p + k) + (Len(s) - p) /\ p + k < j
        BY <1>0, <1>7, <2>3
      <4>. QED
        BY <4>1
    <3>2. c[j] = s[j - k]
      BY <1>3, <1>6, <1>7, <2>3, <3>1
    <3>3. t[j] = s[j - k]
      BY <1>0, <1>7, <2>3
    <3>. QED
      BY <3>2, <3>3
  <2>. QED
    BY <1>0, <2>1, <2>2, <2>3
<1>9. c = t
  BY <1>6, <1>7, <1>8, SeqEqual
<1>10. a \o m \o b = t
  BY <1>9 DEF c, u
<1>. QED
  BY <1>2, <1>4, <1>10 DEF a, m, b, SplicedIn

\* A chain of fresh nodes on the line is a run of new items in the sequence.
LEMMA CopyStep ==
    ASSUME Good(Heap), NEW t \in Lists, NEW s \in Lists,
           NEW n, NEW u, Line(Heap, t, u, n), NEW k, NEW v, Line(Heap, s, v, k), k # 0,
           NEW g, NEW f, Copied(Heap, g, t, v, k, f), Return(g, "Success", << >>)
    PROVE  \E i \in 0..Len(Seen[t]) : Promise!Copy(t, s, i)
<1>0. /\ Good(g) /\ Elsewhere(Heap, g, {t})
      /\ \E p \in 0..n : Line(g, t, Spliced(u, p, k, f), n + k)
      /\ \A i \in 1..k : /\ f[i] \in Nodes /\ Heap.node[f[i]].owner = NoList
                         /\ SameItem(g.node[f[i]], Heap.node[v[i]])
      /\ \A m \in Nodes : (\A i \in 1..k : f[i] # m) => SameItem(g.node[m], Heap.node[m])
      /\ g.ctl[t].current = IF n = 0 THEN f[1] ELSE Heap.ctl[t].current
  <2>1. Heap.ctl[t].count = n
    BY DEF Line
  <2>. QED
    BY <2>1 DEF Copied
<1>. DEFINE c == Cursors(Heap)
            d == Cursors(g)
            x == Seen[t]
            y == Seen[s]
            z == Seen'[t]
<1>1. NoList \notin Lists
  BY DListAssumption
<1>2. \A m \in Nodes : Heap.node[m].owner \in Lists => SameItem(g.node[m], Heap.node[m])
  BY <1>0, <1>1
<1>3. Changed(t, g, "Success", << >>)
  BY <1>0, <1>2, ChangedIs
<1>4. PICK p \in 0..n : Line(g, t, Spliced(u, p, k, f), n + k)
  BY <1>0
<1>. DEFINE e == Spliced(u, p, k, f)
            new == SubSeq(z, p + 1, p + k)
<1>5. Row(Heap, t, u, n) /\ Row(Heap, s, v, k) /\ Row(g, t, e, n + k)
  BY <1>0, <1>4, RowIs DEF Good
<1>6. /\ n \in Nat /\ k \in Nat \ {0} /\ p \in Nat /\ p <= n
      /\ x \in Seq(Entry) /\ Len(x) = n
      /\ \A i \in 1..n : x[i] = Item(Heap, u[i]) /\ u[i] \in Nodes
      /\ y \in Seq(Entry) /\ Len(y) = k
      /\ \A i \in 1..k : y[i].tag = Heap.node[v[i]].tag /\ y[i].data = Heap.node[v[i]].data
      /\ z \in Seq(Entry) /\ Len(z) = n + k
      /\ \A i \in 1..(n + k) : /\ z[i] = Item(g, e[i]) /\ z[i].handle = e[i]
                               /\ z[i].tag = g.node[e[i]].tag
                               /\ z[i].data = g.node[e[i]].data
  BY <1>3, <1>5 DEF Row, Changed
<1>7. \A i \in 1..(n + k) : e[i] = IF i <= p THEN u[i] ELSE IF i <= p + k THEN f[i - p]
                                                              ELSE u[i - k]
  BY <1>6 DEF Spliced
<1>8. \A i \in 1..n : Item(g, u[i]) = Item(Heap, u[i])
  <2>1. \A i \in 1..n : u[i] \in Nodes /\ Heap.node[u[i]].owner \in Lists
    BY <1>6 DEF Line
  <2>. QED
    BY <1>2, <2>1 DEF Item, SameItem
<1>9. /\ DOMAIN new = 1..k /\ \A j \in 1..k : new[j] = z[p + j]
      /\ SubSeq(x, 1, p) \o new \o SubSeq(x, p + 1, Len(x)) = z
  <2>1. ASSUME NEW j \in 1..Len(z)
        PROVE  /\ j <= p => z[j] = x[j]
               /\ j > p + k => z[j] = x[j - k]
    <3>1. CASE j <= p
      <4>1. j \in 1..n /\ j \in 1..(n + k) /\ ~(j > p + k)
        BY <1>6, <3>1
      <4>2. z[j] = Item(g, u[j])
        BY <1>6, <1>7, <3>1, <4>1
      <4>. QED
        BY <1>6, <1>8, <4>1, <4>2
    <3>2. CASE j > p + k
      <4>1. j - k \in 1..n /\ j \in 1..(n + k) /\ ~(j <= p) /\ ~(j <= p + k)
        BY <1>6, <3>2
      <4>2. z[j] = Item(g, u[j - k])
        BY <1>6, <1>7, <4>1
      <4>. QED
        BY <1>6, <1>8, <4>1, <4>2
    <3>3. CASE ~(j <= p) /\ ~(j > p + k)
      BY <3>3
    <3>. QED
      BY <3>1, <3>2, <3>3
  <2>2. p \in 0..Len(x) /\ k \in Nat /\ Len(z) = Len(x) + k
    BY <1>6
  <2>3. \A j \in 1..Len(z) : /\ j <= p => z[j] = x[j]
                             /\ j > p + k => z[j] = x[j - k]
    BY <2>1
  <2>4. x \in Seq(Entry) /\ z \in Seq(Entry)
    BY <1>6
  <2>. HIDE DEF x, z
  <2>5. SplicedIn(z, x, p, k)
    BY <2>2, <2>3, <2>4, SpliceIs
  <2>. QED
    BY <2>5 DEF SplicedIn
<1>10. ASSUME NEW j \in 1..k
       PROVE  /\ new[j].tag = y[j].tag /\ new[j].data = y[j].data
              /\ new[j].handle \notin Promise!InUse
  <2>1. p + j \in 1..(n + k) /\ e[p + j] = f[j]
    <3>1. p + j \in 1..(n + k) /\ ~(p + j <= p) /\ p + j <= p + k /\ (p + j) - p = j
      <4>1. p \in Nat /\ k \in Nat /\ n \in Nat /\ p <= n /\ j \in Nat /\ 1 <= j /\ j <= k
        BY <1>6
      <4>. QED
        BY <4>1
    <3>. HIDE DEF e
    <3>. QED
      BY <1>7, <3>1
  <2>2. /\ new[j].handle = f[j] /\ new[j].tag = g.node[f[j]].tag
        /\ new[j].data = g.node[f[j]].data
    <3>. HIDE DEF e, new, z
    <3>. QED
      BY <1>6, <1>9, <2>1
  <2>3. /\ g.node[f[j]].tag = Heap.node[v[j]].tag
        /\ g.node[f[j]].data = Heap.node[v[j]].data
    BY <1>0 DEF SameItem
  <2>4. f[j] \notin Promise!InUse
    BY <1>0, <1>1, InUseIs
  <2>. HIDE DEF new, y
  <2>. QED
    BY <1>6, <2>2, <2>3, <2>4
<1>11. (x = << >> <=> n = 0) /\ y # << >>
  BY <1>3, <1>5, <1>6, EmptyRow DEF Changed
<1>12. d = IF x = << >> /\ y # << >> THEN [c EXCEPT ![t] = z[1].handle] ELSE c
  <2>1. c = [c EXCEPT ![t] = Heap.ctl[t].current]
    BY DEF Cursors
  <2>2. d = [c EXCEPT ![t] = g.ctl[t].current]
    BY <1>3 DEF Changed
  <2>3. n = 0 => z[1].handle = f[1]
    <3>. SUFFICES ASSUME n = 0 PROVE z[1].handle = f[1]
      OBVIOUS
    <3>1. p = 0 /\ 1 \in 1..(n + k) /\ ~(1 <= p) /\ 1 <= p + k /\ 1 - p = 1
      BY <1>6
    <3>. HIDE DEF e, z
    <3>. QED
      BY <1>6, <1>7, <3>1
  <2>. HIDE DEF c, d, x, y, z
  <2>. QED
    BY <1>0, <1>11, <2>1, <2>2, <2>3
<1>13. /\ Seen' = [Seen EXCEPT ![t] = z]
       /\ [i \in Lists |-> ctl[i].current] = c /\ [i \in Lists |-> ctl'[i].current] = d
       /\ ret' = [code |-> "Success", out |-> << >>]
  BY <1>3 DEF Changed
<1>14. /\ p \in 0..Len(x) /\ Len(z) = Len(x) + Len(y)
       /\ z = SubSeq(x, 1, p) \o SubSeq(z, p + 1, p + Len(y)) \o SubSeq(x, p + 1, Len(x))
       /\ \A j \in DOMAIN SubSeq(z, p + 1, p + Len(y)) :
             /\ SubSeq(z, p + 1, p + Len(y))[j].tag = y[j].tag
             /\ SubSeq(z, p + 1, p + Len(y))[j].data = y[j].data
             /\ SubSeq(z, p + 1, p + Len(y))[j].handle \notin Promise!InUse
  BY <1>6, <1>9, <1>10
<1>. HIDE DEF c, d
<1>15. Promise!Copy(t, s, p)
  BY <1>12, <1>13, <1>14, Zenon DEF Promise!Copy, Promise!Become
<1>. QED
  BY <1>14, <1>15

\* CopyList puts items like those of s in one place of t.
LEMMA CopyListPromised ==
    ASSUME DListInv, NEW t \in Lists, NEW s \in Lists \ {t}, NEW mode \in Modes,
           CopyList(t, s, mode)
    PROVE  Promise!Look(t) \/ \E i \in 0..Len(Seen[t]) : Promise!Copy(t, s, i)
<1>. DEFINE w == Walk(Heap, s)
            gap == CopyGap(t, mode)
            made(fresh) == [node |-> Twins(fresh, w, t), ctl |-> ctl]
            last(fresh) == fresh[Len(w)]
            h1(fresh) == IF ctl[t].current = NoNode
                           THEN [made(fresh) EXCEPT !.ctl[t].start = fresh[1],
                                                    !.ctl[t].end = last(fresh),
                                                    !.ctl[t].current = fresh[1]]
                           ELSE Splice(made(fresh), t, fresh[1], last(fresh), gap[1], gap[2])
            g(fresh) == [h1(fresh) EXCEPT !.ctl[t].count = @ + Len(w)]
            free == {n \in Nodes : Free(n)}
<1>1. CASE Return(Heap, "Success", << >>)
  BY <1>1, ReadLooks
<1>2. CASE Fail("OutOfMemory")
  BY <1>2, FailLooks
<1>3. CASE w # << >> /\ \E fresh \in Injection(DOMAIN w, free) :
                            Return(g(fresh), "Success", << >>)
  <2>0. Good(Heap)
    BY DEF DListInv
  <2>1. PICK fresh \in Injection(DOMAIN w, free) : Return(g(fresh), "Success", << >>)
    <3>. HIDE DEF g, w, free
    <3>. QED
      BY <1>3
  <2>2. PICK k \in Nat, v \in [Int -> Pointers] : Line(Heap, s, v, k)
    BY <2>0 DEF Good, IsLine
  <2>3. PICK n \in Nat, u \in [Int -> Pointers] : Line(Heap, t, u, n)
    BY <2>0 DEF Good, IsLine
  <2>4. Copied(Heap, g(fresh), t, v, k, fresh)
    BY <1>3, <2>0, <2>2, CopiedGood, ZenonT(30)
  <2>5. k # 0
    <3>1. Len(w) = k /\ w = Prefix(v, k)
      BY <2>2, WalkOwns, WalkIs
    <3>2. w \in Seq(Nodes)
      <4>1. \A i \in 1..k : v[i] \in Nodes
        BY <2>2 DEF Line, Pointers
      <4>. QED
        BY <3>1, <4>1, PrefixSeq
    <3>. HIDE DEF w
    <3>. QED
      BY <1>3, <3>1, <3>2, EmptySeq
  <2>. HIDE DEF g
  <2>. QED
    BY <2>0, <2>1, <2>2, <2>3, <2>4, <2>5, CopyStep
<1>. QED
  BY <1>1, <1>2, <1>3 DEF CopyList

-----------------------------------------------------------------------------
(* SortList, the order *)

\* What is before what in a stable sort by data: d gives the data of a node,
\* p its place before the sort.
Less(d, p, a, b) == d[a] < d[b] \/ (d[a] = d[b] /\ p[a] < p[b])

\* A cut c is between place c and place c + 1 of the line.
Split(C, i, j) == \E c \in C : i <= c /\ c < j

\* The line is sorted between cuts; across cuts the nodes are in the old order.
Runs(d, p, v, n, C) ==
    \A i, j \in 1..n : i < j =>
        IF Split(C, i, j) THEN p[v[i]] < p[v[j]] ELSE Less(d, p, v[i], v[j])

\* The same in a merge that has come to places x and y of runs that end at y - 1
\* and at e.
Midway(d, p, v, n, C, x, y, e) ==
    \A i, j \in 1..n : i < j =>
        IF Split(C, i, j) \/ (x <= i /\ i < y /\ y <= j /\ j <= e)
        THEN p[v[i]] < p[v[j]] ELSE Less(d, p, v[i], v[j])

Keyed(d, p, v, n) ==
    /\ n \in Nat /\ d \in [Nodes -> Int] /\ p \in [Nodes -> Int]
    /\ \A i \in 1..n : v[i] \in Nodes

\* No cut inside the runs a merge joins.
Uncut(C, q, e) == C \subseteq Int /\ \A c \in C : c <= q \/ e <= c

\* A merge begins with two runs, and takes the cut between them away.
LEMMA MergeStart ==
    ASSUME NEW d, NEW p, NEW v, NEW n, NEW C, NEW D, NEW q \in Nat, NEW k \in Nat,
           C = D \cup {q + k}, q \in D, q + 2 * k \in D,
           Keyed(d, p, v, n), Runs(d, p, v, n, C)
    PROVE  Midway(d, p, v, n, D, q + 1, q + k + 1, q + 2 * k)
<1>. SUFFICES ASSUME NEW i \in 1..n, NEW j \in 1..n, i < j
     PROVE  IF Split(D, i, j) \/ (q + 1 <= i /\ i < q + k + 1 /\ q + k + 1 <= j
                                   /\ j <= q + 2 * k)
            THEN p[v[i]] < p[v[j]] ELSE Less(d, p, v[i], v[j])
  BY DEF Midway
<1>0. n \in Nat /\ i \in Int /\ j \in Int
  BY DEF Keyed
<1>1. Split(C, i, j) <=> Split(D, i, j) \/ (i <= q + k /\ q + k < j)
  BY DEF Split
<1>2. (i <= q /\ q < j => Split(D, i, j)) /\ (i <= q + 2 * k /\ q + 2 * k < j => Split(D, i, j))
  BY DEF Split
<1>3. IF Split(C, i, j) THEN p[v[i]] < p[v[j]] ELSE Less(d, p, v[i], v[j])
  BY DEF Runs
<1>4. (i <= q + k /\ q + k < j)
        => Split(D, i, j) \/ (q + 1 <= i /\ i < q + k + 1 /\ q + k + 1 <= j
                               /\ j <= q + 2 * k)
  BY <1>0, <1>2
<1>5. (q + 1 <= i /\ i < q + k + 1 /\ q + k + 1 <= j /\ j <= q + 2 * k)
        => i <= q + k /\ q + k < j
  BY <1>0
<1>. QED
  BY <1>1, <1>3, <1>4, <1>5

\* The first run has the next node.
LEMMA MergeFirst ==
    ASSUME NEW d, NEW p, NEW v, NEW n, NEW C, NEW q \in Nat, NEW e \in Nat,
           NEW x \in Int, NEW y \in Int, q < x, x < y, y <= e, y <= n, Uncut(C, q, e),
           Keyed(d, p, v, n), Midway(d, p, v, n, C, x, y, e), d[v[x]] <= d[v[y]]
    PROVE  Midway(d, p, v, n, C, x + 1, y, e)
<1>. SUFFICES ASSUME NEW i \in 1..n, NEW j \in 1..n, i < j
     PROVE  IF Split(C, i, j) \/ (x + 1 <= i /\ i < y /\ y <= j /\ j <= e)
            THEN p[v[i]] < p[v[j]] ELSE Less(d, p, v[i], v[j])
  BY DEF Midway
<1>0. /\ n \in Nat /\ i \in Int /\ j \in Int /\ x \in 1..n /\ y \in 1..n
      /\ \A z \in 1..n : d[v[z]] \in Int /\ p[v[z]] \in Int
  BY DEF Keyed
<1>1. IF Split(C, i, j) \/ (x <= i /\ i < y /\ y <= j /\ j <= e)
      THEN p[v[i]] < p[v[j]] ELSE Less(d, p, v[i], v[j])
  BY DEF Midway
<1>2. CASE i = x /\ y <= j /\ j <= e /\ ~Split(C, i, j)
  <2>1. ~Split(C, x, y) /\ ~Split(C, y, j)
    BY <1>0, <1>2 DEF Split, Uncut
  <2>2. p[v[x]] < p[v[y]]
    <3>1. x < y /\ y <= e
      OBVIOUS
    <3>. QED
      BY <1>0, <3>1 DEF Midway
  <2>3. j = y \/ Less(d, p, v[y], v[j])
    <3>1. j # y => y < j /\ ~(y < y)
      BY <1>0, <1>2
    <3>. QED
      BY <1>0, <2>1, <3>1 DEF Midway
  <2>4. Less(d, p, v[x], v[j])
    BY <1>0, <2>2, <2>3 DEF Less
  <2>5. ~(x + 1 <= i)
    BY <1>2
  <2>. QED
    BY <1>2, <2>4, <2>5
<1>3. CASE ~(i = x /\ y <= j /\ j <= e /\ ~Split(C, i, j))
  <2>1. \/ Split(C, i, j)
        \/ (x <= i /\ i < y /\ y <= j /\ j <= e)
              <=> (x + 1 <= i /\ i < y /\ y <= j /\ j <= e)
    BY <1>0, <1>3
  <2>. QED
    BY <1>1, <2>1
<1>. QED
  BY <1>2, <1>3

\* The second run has it: its node moves up to place x.
LEMMA MergeSecond ==
    ASSUME NEW d, NEW p, NEW v, NEW n, NEW C, NEW q \in Nat, NEW e \in Nat,
           NEW x \in Int, NEW y \in Int, q < x, x < y, y <= e, y <= n, Uncut(C, q, e),
           Keyed(d, p, v, n), Midway(d, p, v, n, C, x, y, e), d[v[y]] < d[v[x]]
    PROVE  Midway(d, p, MovedUp(v, x, y), n, C, x + 1, y + 1, e)
<1>. DEFINE u == MovedUp(v, x, y)
            from(i) == IF i = x THEN y ELSE IF x < i /\ i <= y THEN i - 1 ELSE i
<1>. SUFFICES ASSUME NEW i \in 1..n, NEW j \in 1..n, i < j
     PROVE  IF Split(C, i, j) \/ (x + 1 <= i /\ i < y + 1 /\ y + 1 <= j /\ j <= e)
            THEN p[u[i]] < p[u[j]] ELSE Less(d, p, u[i], u[j])
  BY DEF Midway
<1>0. /\ n \in Nat /\ i \in Int /\ j \in Int /\ x \in 1..n /\ y \in 1..n
      /\ \A z \in 1..n : d[v[z]] \in Int /\ p[v[z]] \in Int
  BY DEF Keyed
<1>1. u[i] = v[from(i)] /\ u[j] = v[from(j)]
  BY <1>0 DEF MovedUp
<1>2. from(i) \in 1..n /\ from(j) \in 1..n
  BY <1>0
<1>3. \A a, b \in 1..n : a < b =>
         IF Split(C, a, b) \/ (x <= a /\ a < y /\ y <= b /\ b <= e)
         THEN p[v[a]] < p[v[b]] ELSE Less(d, p, v[a], v[b])
  BY DEF Midway
<1>. HIDE DEF u
<1>4. CASE i = x /\ j <= y
  <2>1. from(i) = y /\ from(j) = j - 1 /\ j - 1 \in 1..n /\ x <= j - 1 /\ j - 1 < y
    BY <1>0, <1>4
  <2>2. p[v[j - 1]] < p[v[y]]
    BY <1>0, <1>3, <2>1
  <2>3. ~Split(C, x, j) /\ ~Split(C, x, j - 1)
    BY <1>0, <1>4 DEF Split, Uncut
  <2>4. d[v[x]] <= d[v[j - 1]]
    <3>1. x < j - 1 => Less(d, p, v[x], v[j - 1])
      BY <1>0, <1>3, <2>1, <2>3
    <3>. QED
      BY <1>0, <2>1, <3>1 DEF Less
  <2>5. Less(d, p, v[y], v[j - 1])
    BY <1>0, <2>1, <2>2, <2>4 DEF Less
  <2>. QED
    BY <1>1, <1>4, <2>1, <2>3, <2>5
<1>5. CASE ~(i = x /\ j <= y)
  <2>1. from(i) < from(j)
    BY <1>0, <1>5
  <2>2. Split(C, i, j) <=> Split(C, from(i), from(j))
    <3>1. C \subseteq Int /\ \A c \in C : c < x \/ y <= c
      BY <1>0 DEF Uncut
    <3>2. \A c \in C : (i <= c /\ c < j) <=> (from(i) <= c /\ c < from(j))
      BY <1>0, <1>5, <3>1 DEF Uncut
    <3>. QED
      BY <3>2 DEF Split
  <2>3. \/ Split(C, i, j)
        \/ (x + 1 <= i /\ i < y + 1 /\ y + 1 <= j /\ j <= e)
            <=> (x <= from(i) /\ from(i) < y /\ y <= from(j) /\ from(j) <= e)
    BY <1>0, <1>5
  <2>. HIDE DEF from
  <2>4. IF Split(C, from(i), from(j))
             \/ (x <= from(i) /\ from(i) < y /\ y <= from(j) /\ from(j) <= e)
        THEN p[v[from(i)]] < p[v[from(j)]] ELSE Less(d, p, v[from(i)], v[from(j)])
    BY <1>2, <1>3, <2>1
  <2>. QED
    BY <1>1, <2>2, <2>3, <2>4
<1>. QED
  BY <1>4, <1>5

\* A merge is over when one of the runs is used up.
LEMMA MergeEnd ==
    ASSUME NEW d, NEW p, NEW v, NEW n \in Nat, NEW C, NEW e \in Nat,
           NEW x \in Int, NEW y \in Int, x = y \/ y > e \/ y > n,
           Midway(d, p, v, n, C, x, y, e)
    PROVE  Runs(d, p, v, n, C)
<1>1. \A i, j \in 1..n : ~(x <= i /\ i < y /\ y <= j /\ j <= e)
  OBVIOUS
<1>. QED
  BY <1>1 DEF Midway, Runs

\* The cuts between runs of k nodes, and those left when the runs up to q have
\* been merged two by two.
Cuts(k) == {k * b : b \in Nat}
Left(k, q) == {c \in Cuts(k) : q <= c \/ c \in Cuts(2 * k)}

\* Cuts are k places apart, and every other one is left in the next pass.
LEMMA CutsApart ==
    ASSUME NEW k \in Nat \ {0}
    PROVE  /\ Cuts(k) \subseteq Nat /\ 0 \in Cuts(k)
           /\ \A c \in Cuts(k) : c + k \in Cuts(k)
           /\ \A c, e \in Cuts(k) : c < e => c + k <= e
           /\ Cuts(2 * k) \subseteq Cuts(k)
<1>1. Cuts(k) \subseteq Nat /\ 0 \in Cuts(k)
  <2>1. k * 0 = 0 /\ \A b \in Nat : k * b \in Nat
    OBVIOUS
  <2>. QED
    BY <2>1 DEF Cuts
<1>2. ASSUME NEW c \in Cuts(k) PROVE c + k \in Cuts(k)
  <2>1. PICK b \in Nat : c = k * b
    BY DEF Cuts
  <2>2. k * (b + 1) = k * b + k /\ b + 1 \in Nat
    OBVIOUS
  <2>. QED
    BY <2>1, <2>2 DEF Cuts
<1>3. ASSUME NEW c \in Cuts(k), NEW e \in Cuts(k), c < e PROVE c + k <= e
  <2>1. PICK a \in Nat : c = k * a
    BY DEF Cuts
  <2>2. PICK b \in Nat : e = k * b
    BY DEF Cuts
  <2>3. a < b
    <3>1. b <= a => k * b <= k * a
      OBVIOUS
    <3>. QED
      BY <1>3, <2>1, <2>2, <3>1
  <2>4. k * (a + 1) <= k * b
    BY <2>3
  <2>5. k * (a + 1) = k * a + k
    OBVIOUS
  <2>. QED
    BY <2>1, <2>2, <2>4, <2>5
<1>4. ASSUME NEW c \in Cuts(2 * k) PROVE c \in Cuts(k)
  <2>1. PICK b \in Nat : c = (2 * k) * b
    BY DEF Cuts
  <2>2. (2 * k) * b = k * (2 * b) /\ 2 * b \in Nat
    OBVIOUS
  <2>. QED
    BY <2>1, <2>2 DEF Cuts
<1>. QED
  BY <1>1, <1>2, <1>3, <1>4

\* Merging the two runs after q takes away the cut between them.
LEMMA LeftOut ==
    ASSUME NEW k \in Nat \ {0}, NEW q \in Cuts(2 * k)
    PROVE  /\ q \in Nat /\ q + 2 * k \in Cuts(2 * k)
           /\ Left(k, q) = Left(k, q + 2 * k) \cup {q + k}
           /\ q \in Left(k, q + 2 * k) /\ q + 2 * k \in Left(k, q + 2 * k)
           /\ Uncut(Left(k, q + 2 * k), q, q + 2 * k)
<1>1. 2 * k \in Nat \ {0}
  OBVIOUS
<1>2. /\ Cuts(2 * k) \subseteq Nat /\ q + 2 * k \in Cuts(2 * k)
      /\ \A c, e \in Cuts(2 * k) : c < e => c + 2 * k <= e
  BY <1>1, CutsApart
<1>3. /\ Cuts(k) \subseteq Nat /\ Cuts(2 * k) \subseteq Cuts(k)
      /\ \A c \in Cuts(k) : c + k \in Cuts(k)
      /\ \A c, e \in Cuts(k) : c < e => c + k <= e
  BY CutsApart
<1>4. q \in Nat /\ q \in Cuts(k) /\ q + k \in Cuts(k) /\ q + 2 * k \in Cuts(k)
  BY <1>2, <1>3
<1>5. \A c \in Cuts(2 * k) : c <= q \/ q + 2 * k <= c
  BY <1>2, <1>4
<1>6. \A c \in Cuts(k) : c <= q \/ c = q + k \/ q + 2 * k <= c
  <2>. SUFFICES ASSUME NEW c \in Cuts(k), q < c, c # q + k PROVE q + 2 * k <= c
    BY <1>3, <1>4
  <2>1. q + k <= c
    BY <1>3, <1>4
  <2>2. q + k < c
    BY <1>3, <1>4, <2>1
  <2>3. (q + k) + k <= c
    BY <1>3, <1>4, <2>2
  <2>. QED
    BY <1>3, <1>4, <2>3
<1>7. ASSUME NEW c PROVE c \in Left(k, q) <=> c \in Left(k, q + 2 * k) \cup {q + k}
  <2>1. c \in Left(k, q) => c \in Left(k, q + 2 * k) \cup {q + k}
    BY <1>3, <1>4, <1>6 DEF Left
  <2>2. c \in Left(k, q + 2 * k) => c \in Left(k, q)
    BY <1>3, <1>4 DEF Left
  <2>3. q + k \in Left(k, q)
    BY <1>4 DEF Left
  <2>. QED
    BY <2>1, <2>2, <2>3
<1>8. Left(k, q) = Left(k, q + 2 * k) \cup {q + k}
  BY <1>7
<1>9. Uncut(Left(k, q + 2 * k), q, q + 2 * k)
  BY <1>3, <1>4, <1>5 DEF Uncut, Left
<1>10. q \in Left(k, q + 2 * k) /\ q + 2 * k \in Left(k, q + 2 * k)
  BY <1>2, <1>4 DEF Left
<1>. QED
  BY <1>2, <1>4, <1>8, <1>9, <1>10

\* A pass begins with all the cuts of its size and ends with those of the next.
LEMMA LeftAll ==
    ASSUME NEW k \in Nat \ {0}
    PROVE  Left(k, 0) = Cuts(k) /\ 0 \in Cuts(2 * k)
<1>1. Cuts(k) \subseteq Nat
  BY CutsApart
<1>2. 0 \in Cuts(2 * k)
  <2>1. 2 * k \in Nat \ {0}
    OBVIOUS
  <2>. QED
    BY <2>1, CutsApart
<1>. QED
  BY <1>1, <1>2 DEF Left

\* A pass that has come to the end of the list has left the cuts of the next.
LEMMA PassedRuns ==
    ASSUME NEW k \in Nat \ {0}, NEW q \in Nat, NEW n \in Nat, n <= q,
           NEW d, NEW p, NEW v, Runs(d, p, v, n, Left(k, q))
    PROVE  Runs(d, p, v, n, Cuts(2 * k))
<1>1. Cuts(k) \subseteq Nat /\ Cuts(2 * k) \subseteq Cuts(k)
  BY CutsApart
<1>2. ASSUME NEW i \in 1..n, NEW j \in 1..n
      PROVE  Split(Left(k, q), i, j) <=> Split(Cuts(2 * k), i, j)
  BY <1>1 DEF Split, Left
<1>. QED
  BY <1>2 DEF Runs

\* Runs of one node are the old order.
LEMMA FirstRuns ==
    ASSUME NEW n \in Nat, NEW d, NEW p, NEW v, \A i \in 1..n : p[v[i]] = i
    PROVE  Runs(d, p, v, n, Cuts(1))
<1>1. \A i \in Nat : i \in Cuts(1)
  <2>1. \A i \in Nat : 1 * i = i
    OBVIOUS
  <2>. QED
    BY <2>1 DEF Cuts
<1>2. \A i, j \in 1..n : i < j => Split(Cuts(1), i, j)
  BY <1>1 DEF Split
<1>. QED
  BY <1>2 DEF Runs

\* One run is a sorted list.
LEMMA LastRun ==
    ASSUME NEW k \in Nat \ {0}, NEW n \in Nat, n <= k,
           NEW d, NEW p, NEW v, Runs(d, p, v, n, Cuts(k))
    PROVE  \A i, j \in 1..n : i < j => Less(d, p, v[i], v[j])
<1>1. /\ Cuts(k) \subseteq Nat /\ 0 \in Cuts(k)
      /\ \A c, e \in Cuts(k) : c < e => c + k <= e
  BY CutsApart
<1>2. \A c \in Cuts(k) : 0 < c => k <= c
  BY <1>1
<1>3. \A i, j \in 1..n : ~Split(Cuts(k), i, j)
  BY <1>1, <1>2 DEF Split
<1>. QED
  BY <1>3 DEF Runs

-----------------------------------------------------------------------------
(* SortList, the heap *)

\* A loop whose turns lead from each set of a sequence to the next.
LEMMA RepeatLeads ==
    ASSUME NEW S, NEW f, NEW x \in S[0], NEW n \in Nat,
           \A t \in Nat : \A y \in S[t] : f[y] \in S[t + 1]
    PROVE  Repeat(f, x, n) \in S[n]
<1>. DEFINE T == UNION {S[t] : t \in Nat}
            step == [a \in Nat \X T |-> f[a[2]]]
<1>1. \A y \in T : f[y] \in T
  <2>. SUFFICES ASSUME NEW t \in Nat, NEW y \in S[t] PROVE f[y] \in T
    OBVIOUS
  <2>1. f[y] \in S[t + 1] /\ t + 1 \in Nat
    OBVIOUS
  <2>. QED
    BY <2>1
<1>2. x \in T
  OBVIOUS
<1>. HIDE DEF T
<1>3. step \in [Nat \X T -> T]
  BY <1>1
<1>4. \A i \in Nat, y \in T : step[<<i, y>>] = f[y]
  OBVIOUS
<1>. HIDE DEF step
<1>5. PICK g \in [Nat -> T] : GoesOn(g, x, step)
  BY <1>2, <1>3, SetRecursion
<1>6. g[0] = x /\ \A i \in Nat : f[g[i]] = g[i + 1]
  <2>1. g[0] = x /\ \A i \in Nat : g[i + 1] = step[<<i, g[i]>>]
    BY <1>5 DEF GoesOn
  <2>2. \A i \in Nat : g[i] \in T
    OBVIOUS
  <2>. QED
    BY <1>4, <2>1, <2>2
<1>7. Repeat(f, x, n) = g[n]
  <2>1. \A i \in 0..(n - 1) : f[g[i]] = g[i + 1]
    BY <1>6
  <2>. QED
    BY <1>6, <2>1, RepeatIs
<1>. DEFINE In == {i \in Nat : g[i] \in S[i]}
<1>8. 0 \in In
  BY <1>6
<1>9. \A i \in Nat : i \in In => i + 1 \in In
  BY <1>6
<1>10. Nat \subseteq In
  <2>. HIDE DEF In
  <2>. QED
    BY <1>8, <1>9, SetInduction
<1>. QED
  BY <1>7, <1>10

\* Heap g is heap h with the items of list l in some order.
Shuffled(h, g, l) ==
    /\ Good(g) /\ Elsewhere(h, g, {l})
    /\ \A m \in Nodes : /\ SameItem(g.node[m], h.node[m])
                        /\ g.node[m].owner = l <=> h.node[m].owner = l
    /\ g.ctl[l].current = h.ctl[l].current /\ g.ctl[l].count = h.ctl[l].count

\* MoveBefore on a list in some order leaves it in another.
LEMMA ShuffledOn ==
    ASSUME NEW h, NEW g, NEW l \in Lists, Shuffled(h, g, l), NEW n \in Nat,
           NEW v \in [Int -> Pointers], Line(g, l, v, n),
           NEW x \in 1..n, NEW y \in 1..n, x < y
    PROVE  /\ Shuffled(h, MoveBefore(g, l, v[y], v[x]), l)
           /\ MovedUp(v, x, y) \in [Int -> Pointers]
           /\ Line(MoveBefore(g, l, v[y], v[x]), l, MovedUp(v, x, y), n)
<1>. DEFINE e == MoveBefore(g, l, v[y], v[x])
            u == MovedUp(v, x, y)
<1>1. /\ Good(e) /\ u \in [Int -> Pointers] /\ Line(e, l, u, n) /\ Elsewhere(g, e, {l})
      /\ \A m \in Nodes : SameItem(e.node[m], g.node[m])
      /\ e.ctl[l].current = g.ctl[l].current
  <2>1. Good(g)
    BY DEF Shuffled
  <2>2. /\ Good(MoveBefore(g, l, v[y], v[x]))
        /\ MovedUp(v, x, y) \in [Int -> Pointers]
        /\ Line(MoveBefore(g, l, v[y], v[x]), l, MovedUp(v, x, y), n)
        /\ Elsewhere(g, MoveBefore(g, l, v[y], v[x]), {l})
        /\ \A m \in Nodes :
              SameItem(MoveBefore(g, l, v[y], v[x]).node[m], g.node[m])
        /\ MoveBefore(g, l, v[y], v[x]).ctl[l].current = g.ctl[l].current
    BY <2>1, MoveBeforeGood, Zenon
  <2>. QED
    BY <2>2
<1>2. \A m \in Nodes : e.node[m].owner = l <=> g.node[m].owner = l
  <2>. SUFFICES ASSUME NEW m \in Nodes PROVE e.node[m].owner = l <=> g.node[m].owner = l
    OBVIOUS
  <2>0. \A i \in 1..n : i \in Int /\ (i = x \/ (x < i /\ i <= y) \/ ~(x <= i /\ i <= y))
    OBVIOUS
  <2>1. \A i \in 1..n : \E j \in 1..n : u[i] = v[j]
    <3>. SUFFICES ASSUME NEW i \in 1..n PROVE \E j \in 1..n : u[i] = v[j]
      OBVIOUS
    <3>1. CASE i = x
      BY <3>1 DEF MovedUp
    <3>2. CASE x < i /\ i <= y
      <4>1. i - 1 \in 1..n /\ u[i] = v[i - 1]
        BY <3>2 DEF MovedUp
      <4>. QED
        BY <4>1
    <3>3. CASE ~(x <= i /\ i <= y)
      <4>1. u[i] = v[i]
        BY <3>3 DEF MovedUp
      <4>. QED
        BY <4>1
    <3>. QED
      BY <2>0, <3>1, <3>2, <3>3
  <2>2. \A j \in 1..n : \E i \in 1..n : u[i] = v[j]
    <3>. SUFFICES ASSUME NEW j \in 1..n PROVE \E i \in 1..n : u[i] = v[j]
      OBVIOUS
    <3>1. CASE j = y
      BY <3>1 DEF MovedUp
    <3>2. CASE x <= j /\ j < y
      <4>1. j + 1 \in 1..n /\ u[j + 1] = v[j]
        BY <3>2 DEF MovedUp
      <4>. QED
        BY <4>1
    <3>3. CASE ~(x <= j /\ j <= y)
      <4>1. u[j] = v[j]
        BY <3>3 DEF MovedUp
      <4>. QED
        BY <4>1
    <3>. QED
      BY <3>1, <3>2, <3>3
  <2>. HIDE DEF e, u
  <2>3. (\E i \in 1..n : u[i] = m) <=> (\E j \in 1..n : v[j] = m)
    BY <2>1, <2>2, Zenon
  <2>4. e.node[m].owner = l <=> \E i \in 1..n : u[i] = m
    BY <1>1 DEF Line
  <2>5. g.node[m].owner = l <=> \E i \in 1..n : v[i] = m
    BY DEF Line
  <2>. QED
    BY <2>3, <2>4, <2>5
<1>. HIDE DEF e, u
<1>3. Elsewhere(h, e, {l})
  BY <1>1 DEF Shuffled, Elsewhere
<1>4. \A m \in Nodes : SameItem(e.node[m], h.node[m])
  BY <1>1 DEF Shuffled, SameItem
<1>5. Shuffled(h, e, l)
  <2>1. e.ctl[l].count = n /\ g.ctl[l].count = n
    BY <1>1 DEF Line
  <2>. QED
    BY <1>1, <1>2, <1>3, <1>4, <2>1 DEF Shuffled
<1>. QED
  BY <1>1, <1>5 DEF e, u

\* What a sort of a list of n nodes of heap h goes by.
Sorting(h, d, p, n) ==
    /\ n \in Nat /\ d \in [Nodes -> Int] /\ p \in [Nodes -> Int]
    /\ \A m \in Nodes : h.node[m].data = d[m]

\* After t turns the merge of the runs of k nodes behind q is at places x and y of
\* line v: it is over, or each turn has taken a node.
Merges(r, l, d, p, v, n, C, q, k, x, y, t) ==
    /\ Line(r.heap, l, v, n) /\ r.m1 = v[x] /\ r.m2 = v[y]
    /\ q < x /\ x <= y /\ y <= q + 2 * k + 1 /\ x <= n
    /\ r.s1 = y - x /\ r.s2 = (q + 2 * k + 1) - y
    /\ Midway(d, p, v, n, C, x, y, q + 2 * k)
    /\ x = y \/ y > q + 2 * k \/ y > n \/ r.s1 + r.s2 <= 2 * k - t

InMerge(r, h, l, d, p, n, C, q, k, t) ==
    /\ r \in MergeRecord /\ Shuffled(h, r.heap, l)
    /\ \/ r.failed
       \/ \E v \in [Int -> Pointers], x \in Int, y \in Int :
             Merges(r, l, d, p, v, n, C, q, k, x, y, t)

\* A turn of the loop that merges two runs (Merging).
LEMMA MergeTurn ==
    ASSUME NEW h, NEW l \in Lists, NEW d, NEW p, NEW n, Sorting(h, d, p, n), NEW refused,
           NEW C, NEW q \in Nat, NEW k \in Nat, Uncut(C, q, q + 2 * k), NEW t \in Nat,
           NEW r, InMerge(r, h, l, d, p, n, C, q, k, t)
    PROVE  InMerge(Merging(l, refused)[r], h, l, d, p, n, C, q, k, t + 1)
<1>. DEFINE g == r.heap
            z == Merging(l, refused)[r]
            e == q + 2 * k
            over == r.failed \/ NoNode \in {r.m1, r.m2} \/ 0 \in {r.s1, r.s2}
<1>. SUFFICES InMerge(z, h, l, d, p, n, C, q, k, t + 1)
  OBVIOUS
<1>1. r \in MergeRecord /\ Shuffled(h, g, l)
  BY DEF InMerge
<1>2. z = IF r.failed \/ NoNode \in {r.m1, r.m2} \/ 0 \in {r.s1, r.s2} THEN r
          ELSE IF refused \in {g.node[r.m1].data, g.node[r.m2].data}
          THEN [r EXCEPT !.failed = TRUE]
          ELSE IF InOrder(g, r.m1, r.m2)
          THEN [r EXCEPT !.m1 = g.node[r.m1].next, !.s1 = @ - 1]
          ELSE [r EXCEPT !.heap = MoveBefore(g, l, r.m2, r.m1),
                         !.m2 = g.node[r.m2].next, !.s2 = @ - 1]
  BY <1>1 DEF Merging, MergeRecord
<1>3. \/ over /\ z = r
      \/ z = [r EXCEPT !.failed = TRUE]
      \/ ~over /\ InOrder(g, r.m1, r.m2)
               /\ z = [r EXCEPT !.m1 = g.node[r.m1].next, !.s1 = @ - 1]
      \/ ~over /\ ~InOrder(g, r.m1, r.m2)
               /\ z = [r EXCEPT !.heap = MoveBefore(g, l, r.m2, r.m1),
                                !.m2 = g.node[r.m2].next, !.s2 = @ - 1]
  <2>. HIDE DEF z, g
  <2>. QED
    BY <1>2, Zenon
<1>. HIDE DEF z
<1>4. CASE r.failed
  <2>1. z = r \/ z = [r EXCEPT !.failed = TRUE]
    BY <1>3, <1>4
  <2>2. z \in MergeRecord /\ z.heap = g /\ z.failed
    BY <1>1, <1>4, <2>1 DEF MergeRecord
  <2>. QED
    BY <1>1, <2>2 DEF InMerge
<1>5. CASE ~r.failed
  <2>1. PICK v \in [Int -> Pointers], x \in Int, y \in Int :
           Merges(r, l, d, p, v, n, C, q, k, x, y, t)
    BY <1>5 DEF InMerge
  <2>2. /\ Line(g, l, v, n) /\ r.m1 = v[x] /\ r.m2 = v[y]
        /\ q < x /\ x <= y /\ y <= e + 1 /\ x <= n
        /\ r.s1 = y - x /\ r.s2 = (e + 1) - y /\ e \in Nat /\ n \in Nat
        /\ Midway(d, p, v, n, C, x, y, e)
        /\ x = y \/ y > e \/ y > n \/ r.s1 + r.s2 <= 2 * k - t
    BY <2>1 DEF Merges, Sorting
  <2>3. x \in 1..n /\ (v[y] = NoNode <=> y > n) /\ v[x] # NoNode
    BY <2>2 DEF Line
  <2>4. CASE z = [r EXCEPT !.failed = TRUE]
    <3>1. z \in MergeRecord /\ z.heap = g /\ z.failed
      BY <1>1, <2>4 DEF MergeRecord
    <3>. QED
      BY <1>1, <3>1 DEF InMerge
  <2>5. CASE over /\ z = r
    <3>1. x = y \/ y > e \/ y > n
      BY <1>5, <2>2, <2>3, <2>5
    <3>2. Merges(z, l, d, p, v, n, C, q, k, x, y, t + 1)
      BY <2>1, <2>5, <3>1 DEF Merges
    <3>. QED
      BY <1>1, <2>5, <3>2 DEF InMerge
  <2>6. ~over => /\ x < y /\ y <= e /\ y \in 1..n
                 /\ g.node[v[x]].next = v[x + 1] /\ g.node[v[y]].next = v[y + 1]
                 /\ x + 1 \in Int /\ y + 1 \in Int
    <3>1. ~over => x < y /\ y <= e /\ y \in 1..n
      BY <2>2, <2>3
    <3>. QED
      BY <2>2, <2>3, <3>1 DEF Line
  <2>7. Keyed(d, p, v, n) /\ d[v[x]] \in Int
    <3>1. \A i \in 1..n : v[i] \in Nodes
      BY <2>2 DEF Line, Pointers
    <3>. QED
      BY <2>3, <3>1 DEF Keyed, Sorting
  <2>8. ~over => (InOrder(g, r.m1, r.m2) <=> d[v[x]] <= d[v[y]]) /\ d[v[y]] \in Int
    <3>. SUFFICES ASSUME ~over
         PROVE  (InOrder(g, r.m1, r.m2) <=> d[v[x]] <= d[v[y]]) /\ d[v[y]] \in Int
      OBVIOUS
    <3>1. v[x] \in Nodes /\ v[y] \in Nodes
      BY <2>3, <2>6, <2>7 DEF Keyed
    <3>2. g.node[v[x]].data = d[v[x]] /\ g.node[v[y]].data = d[v[y]]
      BY <1>1, <3>1 DEF Shuffled, SameItem, Sorting
    <3>. QED
      BY <2>2, <3>1, <3>2 DEF InOrder, Sorting
  <2>9. CASE ~over /\ InOrder(g, r.m1, r.m2)
                   /\ z = [r EXCEPT !.m1 = g.node[r.m1].next, !.s1 = @ - 1]
    <3>1. x < y /\ y <= e /\ y <= n /\ d[v[x]] <= d[v[y]]
      BY <2>6, <2>8, <2>9
    <3>2. Midway(d, p, v, n, C, x + 1, y, e)
      BY <2>2, <2>7, <3>1, MergeFirst
    <3>. DEFINE s == y - (x + 1)
    <3>3. /\ z = [r EXCEPT !.m1 = v[x + 1], !.s1 = s] /\ v[x + 1] \in Pointers
          /\ s \in Nat
      <4>1. r.s1 - 1 = s /\ s \in Nat
        BY <2>2, <3>1
      <4>2. z = [r EXCEPT !.m1 = g.node[r.m1].next, !.s1 = r.s1 - 1]
        BY <2>9
      <4>3. g.node[r.m1].next = v[x + 1] /\ v[x + 1] \in Pointers
        BY <2>2, <2>6, <2>9
      <4>. HIDE DEF s, g
      <4>. QED
        BY <4>1, <4>2, <4>3
    <3>. HIDE DEF s
    <3>4. /\ z \in MergeRecord /\ z.heap = g /\ z.m1 = v[x + 1] /\ z.m2 = v[y]
          /\ z.s1 = s /\ z.s2 = (e + 1) - y
      BY <1>1, <2>2, <3>3 DEF MergeRecord
    <3>5. x + 1 = y \/ y > e \/ y > n \/ z.s1 + z.s2 <= 2 * k - (t + 1)
      BY <2>2, <3>1, <3>4 DEF s
    <3>6. q < x + 1 /\ x + 1 <= y /\ x + 1 <= n
      BY <2>2, <3>1
    <3>. HIDE DEF g
    <3>7. Merges(z, l, d, p, v, n, C, q, k, x + 1, y, t + 1)
      BY <2>2, <3>2, <3>4, <3>5, <3>6 DEF Merges, s
    <3>8. x + 1 \in Int
      OBVIOUS
    <3>. QED
      BY <1>1, <3>4, <3>7, <3>8 DEF InMerge
  <2>10. CASE ~over /\ ~InOrder(g, r.m1, r.m2)
                    /\ z = [r EXCEPT !.heap = MoveBefore(g, l, r.m2, r.m1),
                                     !.m2 = g.node[r.m2].next, !.s2 = @ - 1]
    <3>. DEFINE b == MoveBefore(g, l, v[y], v[x])
                u == MovedUp(v, x, y)
    <3>1. x < y /\ y <= e /\ y \in 1..n /\ y <= n /\ d[v[y]] < d[v[x]]
      BY <2>6, <2>7, <2>8, <2>10
    <3>2. Midway(d, p, u, n, C, x + 1, y + 1, e)
      BY <2>2, <2>7, <3>1, MergeSecond
    <3>3. Shuffled(h, b, l) /\ u \in [Int -> Pointers] /\ Line(b, l, u, n)
      BY <1>1, <2>2, <2>3, <3>1, ShuffledOn
    <3>4. u[x + 1] = v[x] /\ u[y + 1] = v[y + 1]
      BY <3>1 DEF MovedUp
    <3>. DEFINE s == (e + 1) - (y + 1)
    <3>5. z = [r EXCEPT !.heap = b, !.m2 = v[y + 1], !.s2 = s] /\ s \in Nat
      <4>1. r.s2 - 1 = s /\ s \in Nat
        BY <2>2, <3>1
      <4>2. z = [r EXCEPT !.heap = MoveBefore(g, l, r.m2, r.m1),
                          !.m2 = g.node[r.m2].next, !.s2 = r.s2 - 1]
        BY <2>10
      <4>3. g.node[r.m2].next = v[y + 1] /\ r.m1 = v[x] /\ r.m2 = v[y]
        BY <2>2, <2>6, <2>10
      <4>. HIDE DEF s, g
      <4>. QED
        BY <4>1, <4>2, <4>3
    <3>6. b \in Heaps /\ v[y + 1] \in Pointers
      <4>1. Good(b)
        BY <3>3 DEF Shuffled
      <4>. QED
        BY <2>6, <2>10, <4>1, GoodHeap
    <3>. HIDE DEF b, u, g, s
    <3>7. /\ z \in MergeRecord /\ z.heap = b /\ z.m1 = u[x + 1] /\ z.m2 = u[y + 1]
          /\ z.s1 = y - x /\ z.s2 = s
      BY <1>1, <2>2, <3>4, <3>5, <3>6 DEF MergeRecord
    <3>8. \/ x + 1 = y + 1 \/ y + 1 > e \/ y + 1 > n
          \/ z.s1 + z.s2 <= 2 * k - (t + 1)
      BY <2>2, <3>1, <3>7 DEF s
    <3>12. z.s1 = (y + 1) - (x + 1)
      BY <2>2, <3>7
    <3>9. q < x + 1 /\ x + 1 <= y + 1 /\ y + 1 <= e + 1 /\ x + 1 <= n
      BY <2>2, <3>1
    <3>10. Merges(z, l, d, p, u, n, C, q, k, x + 1, y + 1, t + 1)
      BY <3>2, <3>3, <3>7, <3>8, <3>9, <3>12 DEF Merges, s
    <3>11. x + 1 \in Int /\ y + 1 \in Int
      OBVIOUS
    <3>. QED
      BY <3>3, <3>7, <3>10, <3>11 DEF InMerge
  <2>. QED
    BY <1>3, <2>4, <2>5, <2>9, <2>10
<1>. QED
  BY <1>4, <1>5

\* What a pass keeps: the runs up to q have been merged two by two.
Passed(r, l, d, p, v, n, k, q) ==
    /\ Line(r.heap, l, v, n) /\ r.rest = v[q + 1]
    /\ Runs(d, p, v, n, Left(k, q))

InPass(r, h, l, d, p, n, k, t) ==
    /\ r \in PassRecord /\ Shuffled(h, r.heap, l)
    /\ \/ r.failed
       \/ \E v \in [Int -> Pointers], q \in Cuts(2 * k) :
             Passed(r, l, d, p, v, n, k, q) /\ (q >= t \/ q >= n)

\* A merge that does not fail merges the two runs behind q.
LEMMA MergeRuns ==
    ASSUME NEW h, NEW l \in Lists, NEW d, NEW p, NEW n, Sorting(h, d, p, n), NEW refused,
           NEW k \in Nat \ {0}, NEW q \in Cuts(2 * k), q + 1 <= n,
           NEW r \in PassRecord, Shuffled(h, r.heap, l), NEW v \in [Int -> Pointers],
           Passed(r, l, d, p, v, n, k, q)
    PROVE  InPass(Merge(r.heap, l, r.rest, k, refused), h, l, d, p, n, k, q + 2 * k)
<1>. DEFINE g == r.heap
            m == r.rest
            z == Merge(g, l, m, k, refused)
            C == Left(k, q + 2 * k)
            r0 == [heap |-> g, failed |-> FALSE, m1 |-> m,
                   m2 |-> Ahead(g, m, k), s1 |-> k, s2 |-> k]
            S == [t \in Nat |-> {x \in MergeRecord : InMerge(x, h, l, d, p, n, C, q, k, t)}]
            o == Repeat(Merging(l, refused), r0, 2 * k)
<1>. SUFFICES InPass(z, h, l, d, p, n, k, q + 2 * k)
  OBVIOUS
<1>1. /\ q \in Nat /\ q + 2 * k \in Cuts(2 * k)
      /\ Left(k, q) = C \cup {q + k}
      /\ q \in C /\ q + 2 * k \in C
      /\ Uncut(C, q, q + 2 * k)
  BY LeftOut
<1>2. Line(g, l, v, n) /\ m = v[q + 1] /\ Runs(d, p, v, n, Left(k, q)) /\ n \in Nat
  BY DEF Passed, Sorting
<1>3. q + 1 \in 1..n /\ q + 1 \in 1..(n + 1) /\ k \in Nat
  BY <1>1, <1>2
<1>4. Ahead(g, m, k) = v[(q + 1) + k] /\ (q + 1) + k \in Int /\ q + 1 \in Int
  <2>. HIDE DEF g, m
  <2>1. Ahead(g, v[q + 1], k) = v[(q + 1) + k]
    BY <1>2, <1>3, AheadOnLine
  <2>. QED
    BY <1>1, <1>2, <2>1
<1>5. Keyed(d, p, v, n)
  <2>1. \A i \in 1..n : v[i] \in Nodes
    BY <1>2 DEF Line, Pointers
  <2>. QED
    BY <2>1 DEF Keyed, Sorting
<1>. HIDE DEF C
<1>6. Midway(d, p, v, n, C, q + 1, q + k + 1, q + 2 * k)
  BY <1>1, <1>2, <1>3, <1>5, MergeStart
<1>7. Good(g) /\ g \in Heaps
  BY GoodHeap DEF Shuffled
<1>8. /\ r0 \in MergeRecord /\ r0.heap = g /\ r0.m1 = v[q + 1]
      /\ r0.m2 = v[q + k + 1] /\ r0.s1 = k /\ r0.s2 = k
  <2>1. v[q + 1] \in Pointers /\ v[(q + 1) + k] \in Pointers /\ (q + 1) + k = q + k + 1
    BY <1>1, <1>3, <1>4
  <2>. QED
    BY <1>2, <1>3, <1>4, <1>7, <2>1 DEF MergeRecord
<1>. HIDE DEF r0, g, m
<1>9. Merges(r0, l, d, p, v, n, C, q, k, q + 1, q + k + 1, 0)
  <2>1. /\ q < q + 1 /\ q + 1 <= q + k + 1 /\ q + k + 1 <= q + 2 * k + 1 /\ q + 1 <= n
        /\ k = (q + k + 1) - (q + 1) /\ k = (q + 2 * k + 1) - (q + k + 1)
        /\ k + k <= 2 * k - 0
    BY <1>1, <1>3
  <2>. QED
    BY <1>2, <1>6, <1>8, <2>1 DEF Merges
<1>10. r0 \in S[0]
  <2>1. q + 1 \in Int /\ q + k + 1 \in Int
    BY <1>1
  <2>2. InMerge(r0, h, l, d, p, n, C, q, k, 0)
    BY <1>8, <1>9, <2>1 DEF InMerge, g
  <2>. QED
    BY <1>8, <2>2
<1>11. ASSUME NEW t \in Nat, NEW x \in S[t]
       PROVE  Merging(l, refused)[x] \in S[t + 1]
  <2>1. InMerge(x, h, l, d, p, n, C, q, k, t)
    OBVIOUS
  <2>2. InMerge(Merging(l, refused)[x], h, l, d, p, n, C, q, k, t + 1)
    BY <1>1, <1>3, <2>1, MergeTurn
  <2>3. Merging(l, refused)[x] \in MergeRecord /\ t + 1 \in Nat
    BY <2>2 DEF InMerge
  <2>. QED
    BY <2>2, <2>3
<1>12. 2 * k \in Nat
  OBVIOUS
<1>13. o \in S[2 * k]
  <2>1. \A t \in Nat : \A x \in S[t] : Merging(l, refused)[x] \in S[t + 1]
    BY <1>11
  <2>. HIDE DEF S
  <2>. QED
    BY <1>10, <1>12, <2>1, RepeatLeads
<1>14. InMerge(o, h, l, d, p, n, C, q, k, 2 * k)
  BY <1>12, <1>13
<1>15. z = [heap |-> o.heap, failed |-> o.failed, rest |-> Ahead(o.heap, o.m2, o.s2)]
  BY DEF Merge, r0
<1>. HIDE DEF o, S
<1>16. o \in MergeRecord /\ Shuffled(h, o.heap, l)
  BY <1>14 DEF InMerge
<1>17. z \in PassRecord /\ z.heap = o.heap /\ z.failed = o.failed
       /\ z.rest = Ahead(o.heap, o.m2, o.s2)
  <2>1. z \in PassState(l)
    <3>1. Good(g) /\ m \in Nodes /\ g.node[m].owner = l
      BY <1>2, <1>3, <1>7 DEF Line, Pointers
    <3>. QED
      BY <1>3, <3>1, MergeStays
  <2>2. z \in PassRecord
    BY <2>1 DEF PassState
  <2>. HIDE DEF z
  <2>. QED
    BY <1>15, <2>2
<1>. HIDE DEF z
<1>18. CASE o.failed
  BY <1>16, <1>17, <1>18 DEF InPass
<1>19. CASE ~o.failed
  <2>1. PICK u \in [Int -> Pointers], x \in Int, y \in Int :
           Merges(o, l, d, p, u, n, C, q, k, x, y, 2 * k)
    BY <1>14, <1>19 DEF InMerge
  <2>2. /\ Line(o.heap, l, u, n) /\ o.m2 = u[y]
        /\ q < x /\ x <= y /\ y <= q + 2 * k + 1
        /\ o.s1 = y - x /\ o.s2 = (q + 2 * k + 1) - y
        /\ Midway(d, p, u, n, C, x, y, q + 2 * k)
        /\ x = y \/ y > q + 2 * k \/ y > n \/ o.s1 + o.s2 <= 2 * k - 2 * k
    BY <2>1 DEF Merges
  <2>3. x = y \/ y > q + 2 * k \/ y > n
    BY <1>1, <2>2
  <2>4. Runs(d, p, u, n, C)
    <3>1. q + 2 * k \in Nat
      BY <1>1
    <3>. QED
      BY <1>2, <2>2, <2>3, <3>1, MergeEnd
  <2>5. o.s2 \in Nat
    BY <1>16 DEF MergeRecord
  <2>6. z.rest = u[(q + 2 * k) + 1]
    <3>1. CASE y <= n + 1
      <4>1. y \in 1..(n + 1)
        BY <1>1, <1>2, <2>2, <3>1
      <4>2. Ahead(o.heap, u[y], o.s2) = u[y + o.s2]
        BY <2>2, <2>5, <4>1, AheadOnLine
      <4>3. y + o.s2 = (q + 2 * k) + 1
        BY <1>1, <2>2
      <4>. QED
        BY <1>17, <2>2, <4>2, <4>3
    <3>2. CASE y > n + 1
      <4>1. n + 1 \in 1..(n + 1) /\ y \notin 1..n /\ n + 1 \notin 1..n /\ n + 1 \in Int
            /\ (n + 1) + o.s2 \in Int /\ (n + 1) + o.s2 \notin 1..n
            /\ (q + 2 * k) + 1 \in Int /\ (q + 2 * k) + 1 \notin 1..n
        BY <1>1, <1>2, <2>2, <2>5, <3>2
      <4>2. /\ u[y] = NoNode /\ u[n + 1] = NoNode /\ u[(n + 1) + o.s2] = NoNode
            /\ u[(q + 2 * k) + 1] = NoNode
        BY <2>2, <4>1 DEF Line
      <4>3. Ahead(o.heap, u[n + 1], o.s2) = u[(n + 1) + o.s2]
        BY <2>2, <2>5, <4>1, AheadOnLine
      <4>. QED
        BY <1>17, <2>2, <4>2, <4>3
    <3>. QED
      BY <1>2, <3>1, <3>2
  <2>7. Passed(z, l, d, p, u, n, k, q + 2 * k)
    BY <1>17, <2>2, <2>4, <2>6 DEF Passed, C
  <2>8. q + 2 * k >= q + 2 * k
    BY <1>1
  <2>. QED
    BY <1>1, <1>16, <1>17, <2>7, <2>8 DEF InPass
<1>. QED
  BY <1>18, <1>19

\* What a sort keeps between passes: runs of size nodes, as long as Compare does
\* not fail.
SortRecord == [heap : Heaps, failed : BOOLEAN, size : Nat]

InSort(r, h, l, d, p, n, t) ==
    /\ r \in SortRecord /\ Shuffled(h, r.heap, l)
    /\ \/ r.failed
       \/ /\ r.size > t \/ r.size >= n
          /\ r.size \in Nat \ {0}
          /\ \E v \in [Int -> Pointers] :
                Line(r.heap, l, v, n) /\ Runs(d, p, v, n, Cuts(r.size))

\* A pass that does not fail leaves runs of twice the size.
LEMMA PassRuns ==
    ASSUME NEW h, NEW l \in Lists, NEW d, NEW p, NEW n, Sorting(h, d, p, n), NEW refused,
           NEW k \in Nat \ {0}, NEW g, Shuffled(h, g, l), NEW v \in [Int -> Pointers],
           Line(g, l, v, n), Runs(d, p, v, n, Cuts(k))
    PROVE  InPass(Pass(g, l, k, refused), h, l, d, p, n, k, n)
<1>. DEFINE Pairing == [r \in PassRecord |->
                           IF r.failed \/ r.rest = NoNode THEN r
                           ELSE Merge(r.heap, l, r.rest, k, refused)]
            r0 == [heap |-> g, failed |-> FALSE, rest |-> g.ctl[l].start]
            S == [t \in Nat |-> {x \in PassRecord : InPass(x, h, l, d, p, n, k, t)}]
<1>1. Pass(g, l, k, refused) = Repeat(Pairing, r0, g.ctl[l].count)
  BY DEF Pass, PassRecord
<1>2. ASSUME NEW t \in Nat, NEW r \in S[t] PROVE Pairing[r] \in S[t + 1]
  <2>1. r \in PassRecord /\ InPass(r, h, l, d, p, n, k, t) /\ Shuffled(h, r.heap, l)
    BY DEF InPass
  <2>2. Pairing[r] = IF r.failed \/ r.rest = NoNode THEN r
                     ELSE Merge(r.heap, l, r.rest, k, refused)
    BY <2>1
  <2>. HIDE DEF Pairing, S
  <2>3. InPass(Pairing[r], h, l, d, p, n, k, t + 1)
    <3>1. CASE r.failed
      BY <2>1, <2>2, <3>1 DEF InPass
    <3>2. CASE ~r.failed
      <4>1. PICK u \in [Int -> Pointers], q \in Cuts(2 * k) :
               Passed(r, l, d, p, u, n, k, q) /\ (q >= t \/ q >= n)
        BY <2>1, <3>2 DEF InPass
      <4>2. q \in Nat /\ q + 2 * k \in Cuts(2 * k) /\ n \in Nat
        BY LeftOut DEF Sorting
      <4>3. r.rest = NoNode <=> q + 1 > n
        BY <4>1, <4>2 DEF Passed, Line
      <4>4. CASE r.rest = NoNode
        <5>1. q >= n
          BY <4>2, <4>3, <4>4
        <5>2. Pairing[r] = r
          BY <2>2, <4>4
        <5>. QED
          BY <2>1, <4>1, <5>1, <5>2 DEF InPass
      <4>5. CASE r.rest # NoNode
        <5>1. q + 1 <= n
          BY <4>2, <4>3, <4>5
        <5>2. InPass(Pairing[r], h, l, d, p, n, k, q + 2 * k)
          BY <2>1, <2>2, <3>2, <4>1, <4>5, <5>1, MergeRuns
        <5>3. q + 2 * k >= t + 1 \/ q + 2 * k >= n
          BY <4>1, <4>2
        <5>4. ASSUME NEW c \in Cuts(2 * k), c >= q + 2 * k \/ c >= n
              PROVE  c >= t + 1 \/ c >= n
          <6>1. c \in Nat
            BY LeftOut
          <6>. QED
            BY <4>2, <5>3, <5>4, <6>1
        <5>. HIDE DEF Pairing
        <5>. QED
          BY <5>2, <5>4 DEF InPass
      <4>. QED
        BY <4>4, <4>5
    <3>. QED
      BY <3>1, <3>2
  <2>4. Pairing[r] \in PassRecord /\ t + 1 \in Nat
    BY <2>3 DEF InPass
  <2>. QED
    BY <2>3, <2>4 DEF S
<1>3. r0 \in S[0]
  <2>1. g \in Heaps /\ Place(g, l, g.ctl[l].start)
    BY GoodHeap, Ends DEF Shuffled
  <2>2. r0 \in PassRecord /\ r0.heap = g /\ r0.rest = v[1]
    BY <2>1 DEF PassRecord, Place, Line
  <2>. HIDE DEF r0
  <2>3. Left(k, 0) = Cuts(k) /\ 0 \in Cuts(2 * k)
    BY LeftAll
  <2>4. Passed(r0, l, d, p, v, n, k, 0)
    BY <2>2, <2>3 DEF Passed
  <2>5. InPass(r0, h, l, d, p, n, k, 0)
    <3>1. 0 >= 0
      OBVIOUS
    <3>. QED
      BY <2>2, <2>3, <2>4, <3>1 DEF InPass
  <2>. QED
    BY <2>2, <2>5
<1>4. g.ctl[l].count = n /\ n \in Nat
  BY DEF Line
<1>5. Repeat(Pairing, r0, n) \in S[n]
  <2>1. \A t \in Nat : \A x \in S[t] : Pairing[x] \in S[t + 1]
    BY <1>2
  <2>. HIDE DEF S, Pairing, r0
  <2>. QED
    BY <1>3, <1>4, <2>1, RepeatLeads
<1>. HIDE DEF Pairing, r0
<1>. QED
  BY <1>1, <1>4, <1>5

\* The passes of a sort that does not fail leave one run.
LEMMA PassesRuns ==
    ASSUME NEW h, Good(h), NEW l \in Lists, NEW d, NEW p, NEW n, Sorting(h, d, p, n),
           NEW refused, NEW w \in [Int -> Pointers], Line(h, l, w, n),
           \A i \in 1..n : p[w[i]] = i
    PROVE  InSort(Passes(h, l, refused), h, l, d, p, n, n)
<1>. DEFINE Doubling == [r \in SortRecord |->
                            IF r.failed \/ h.ctl[l].count <= r.size THEN r
                            ELSE LET z == Pass(r.heap, l, r.size, refused)
                                 IN  [heap |-> z.heap, failed |-> z.failed,
                                      size |-> 2 * r.size]]
            r0 == [heap |-> h, failed |-> FALSE, size |-> 1]
            S == [t \in Nat |-> {x \in SortRecord : InSort(x, h, l, d, p, n, t)}]
<1>1. Passes(h, l, refused) = Repeat(Doubling, r0, h.ctl[l].count)
  BY DEF Passes, SortRecord
<1>2. h.ctl[l].count = n /\ n \in Nat
  BY DEF Line
<1>3. ASSUME NEW t \in Nat, NEW r \in S[t] PROVE Doubling[r] \in S[t + 1]
  <2>. DEFINE z == Pass(r.heap, l, r.size, refused)
              y == [heap |-> z.heap, failed |-> z.failed, size |-> 2 * r.size]
  <2>1. r \in SortRecord /\ InSort(r, h, l, d, p, n, t) /\ Shuffled(h, r.heap, l)
    BY DEF InSort
  <2>2. Doubling[r] = IF r.failed \/ n <= r.size THEN r ELSE y
    BY <1>2, <2>1
  <2>. HIDE DEF Doubling, S
  <2>3. InSort(Doubling[r], h, l, d, p, n, t + 1)
    <3>1. CASE r.failed
      BY <2>1, <2>2, <3>1 DEF InSort
    <3>2. CASE ~r.failed /\ n <= r.size
      <4>1. r.size >= n
        BY <1>2, <2>1, <3>2 DEF SortRecord
      <4>. QED
        BY <2>1, <2>2, <3>2, <4>1 DEF InSort
    <3>3. CASE ~r.failed /\ ~(n <= r.size)
      <4>1. /\ r.size > t \/ r.size >= n
            /\ r.size \in Nat \ {0}
            /\ \E v \in [Int -> Pointers] :
                  Line(r.heap, l, v, n) /\ Runs(d, p, v, n, Cuts(r.size))
        BY <2>1, <3>3 DEF InSort
      <4>2. PICK v \in [Int -> Pointers] :
               Line(r.heap, l, v, n) /\ Runs(d, p, v, n, Cuts(r.size))
        BY <4>1
      <4>3. InPass(z, h, l, d, p, n, r.size, n)
        BY <2>1, <4>1, <4>2, PassRuns
      <4>. HIDE DEF z
      <4>4. z \in PassRecord /\ Shuffled(h, z.heap, l)
        BY <4>3 DEF InPass
      <4>5. /\ y \in SortRecord /\ y.heap = z.heap /\ y.failed = z.failed
            /\ y.size = 2 * r.size
        BY <4>1, <4>4 DEF SortRecord, PassRecord
      <4>. HIDE DEF y
      <4>6. CASE z.failed
        BY <2>2, <3>3, <4>4, <4>5, <4>6 DEF InSort
      <4>7. CASE ~z.failed
        <5>1. PICK u \in [Int -> Pointers], q \in Cuts(2 * r.size) :
                 Passed(z, l, d, p, u, n, r.size, q) /\ q >= n
          BY <4>3, <4>7 DEF InPass
        <5>2. q \in Nat /\ n <= q
          BY <1>2, <4>1, <5>1, LeftOut
        <5>3. Runs(d, p, u, n, Left(r.size, q)) /\ Line(z.heap, l, u, n)
          BY <5>1 DEF Passed
        <5>4. Runs(d, p, u, n, Cuts(2 * r.size))
          BY <1>2, <4>1, <5>2, <5>3, PassedRuns
        <5>5. y.size \in Nat \ {0} /\ y.size > t + 1
          BY <1>2, <3>3, <4>1, <4>5
        <5>6. InSort(y, h, l, d, p, n, t + 1)
          BY <4>4, <4>5, <5>3, <5>4, <5>5 DEF InSort
        <5>. QED
          BY <2>2, <3>3, <5>6
      <4>. QED
        BY <4>6, <4>7
    <3>. QED
      BY <3>1, <3>2, <3>3
  <2>4. Doubling[r] \in SortRecord /\ t + 1 \in Nat
    BY <2>3 DEF InSort
  <2>. QED
    BY <2>3, <2>4 DEF S
<1>4. r0 \in S[0]
  <2>1. r0 \in SortRecord /\ r0.heap = h /\ r0.size = 1
    BY GoodHeap DEF SortRecord
  <2>. HIDE DEF r0
  <2>2. Shuffled(h, h, l)
    BY DEF Shuffled, Elsewhere, SameItem
  <2>3. Runs(d, p, w, n, Cuts(1))
    BY <1>2, FirstRuns
  <2>4. r0.size > 0 /\ r0.size \in Nat \ {0}
    BY <2>1
  <2>5. InSort(r0, h, l, d, p, n, 0)
    BY <2>1, <2>2, <2>3, <2>4 DEF InSort
  <2>. QED
    BY <2>1, <2>5
<1>5. Repeat(Doubling, r0, n) \in S[n]
  <2>1. \A t \in Nat : \A x \in S[t] : Doubling[x] \in S[t + 1]
    BY <1>3
  <2>. HIDE DEF S, Doubling, r0
  <2>. QED
    BY <1>2, <1>4, <2>1, RepeatLeads
<1>. HIDE DEF Doubling, r0
<1>. QED
  BY <1>1, <1>2, <1>5

\* What a sort leaves is what the package promises of it.
LEMMA SortStep ==
    ASSUME DListInv, NEW l \in Lists, NEW refused, NEW code,
           code = IF Passes(Heap, l, refused).failed THEN "Failed" ELSE "Success",
           Return(Passes(Heap, l, refused).heap, code, << >>)
    PROVE  Promise!Sort(l)
<1>. DEFINE r == Passes(Heap, l, refused)
            g == r.heap
            x == Seen[l]
            z == Seen'[l]
            d == [m \in Nodes |-> Heap.node[m].data]
<1>1. Good(Heap)
  BY DEF DListInv
<1>2. PICK n \in Nat, w \in [Int -> Pointers] : Line(Heap, l, w, n)
  BY <1>1 DEF Good, IsLine
<1>. DEFINE p == [m \in Nodes |-> IF \E i \in 1..n : w[i] = m
                                  THEN CHOOSE i \in 1..n : w[i] = m ELSE 0]
<1>3. /\ p \in [Nodes -> Int] /\ \A i \in 1..n : p[w[i]] = i /\ w[i] \in Nodes
  <2>1. ASSUME NEW i \in 1..n PROVE w[i] \in Nodes /\ p[w[i]] = i
    <3>1. w[i] \in Nodes
      BY <1>2 DEF Line, Pointers
    <3>2. \A j \in 1..n : w[j] = w[i] => j = i
      BY <1>2 DEF Line
    <3>3. p[w[i]] = CHOOSE j \in 1..n : w[j] = w[i]
      BY <3>1
    <3>. QED
      BY <3>1, <3>2, <3>3
  <2>2. ASSUME NEW m \in Nodes PROVE p[m] \in Int
    <3>1. CASE \E i \in 1..n : w[i] = m
      <4>1. p[m] = CHOOSE i \in 1..n : w[i] = m
        BY <3>1
      <4>2. p[m] \in 1..n
        BY <3>1, <4>1
      <4>. QED
        BY <4>2
    <3>2. CASE ~\E i \in 1..n : w[i] = m
      BY <3>2
    <3>. QED
      BY <3>1, <3>2
  <2>. QED
    BY <2>1, <2>2
<1>. HIDE DEF p
<1>4. Sorting(Heap, d, p, n)
  <2>1. ASSUME NEW m \in Nodes PROVE Heap.node[m].data \in Int
    <3>1. Heap.node[m] \in Links
      BY <1>1 DEF Good, Typed
    <3>2. Objects \subseteq Int
      BY DListAssumption
    <3>3. CASE Heap.node[m] \in LinkNode
      BY <3>2, <3>3 DEF LinkNode
    <3>4. CASE Heap.node[m] = NoLink
      BY <3>4 DEF NoLink, NoObject
    <3>. QED
      BY <3>1, <3>3, <3>4 DEF Links
  <2>. QED
    BY <1>3, <2>1 DEF Sorting, Line
<1>5. InSort(r, Heap, l, d, p, n, n)
  BY <1>1, <1>2, <1>3, <1>4, PassesRuns
<1>. HIDE DEF r
<1>6. Shuffled(Heap, g, l) /\ Good(g)
  BY <1>5 DEF InSort, Shuffled
<1>7. PICK k \in Nat, u \in [Int -> Pointers] :
         /\ Line(g, l, u, k)
         /\ code = "Success" => \A i, j \in 1..k : i < j => Less(d, p, u[i], u[j])
         /\ k = n
  <2>1. PICK k \in Nat, u \in [Int -> Pointers] : Line(g, l, u, k)
    BY <1>6 DEF Good, IsLine
  <2>2. CASE r.failed
    <3>1. k = n
      BY <1>2, <1>6, <2>1 DEF Shuffled, Line
    <3>. QED
      BY <2>1, <2>2, <3>1 DEF r
  <2>3. CASE ~r.failed
    <3>1. PICK v \in [Int -> Pointers] :
             Line(g, l, v, n) /\ Runs(d, p, v, n, Cuts(r.size))
      BY <1>5, <2>3 DEF InSort
    <3>2. r.size \in Nat \ {0} /\ n <= r.size
      BY <1>5, <2>3 DEF InSort
    <3>3. \A i, j \in 1..n : i < j => Less(d, p, v[i], v[j])
      BY <3>1, <3>2, LastRun
    <3>. QED
      BY <3>1, <3>3
  <2>. QED
    BY <2>2, <2>3
<1>8. PICK v \in [Int -> Pointers] :
         /\ Line(g, l, v, n)
         /\ code = "Success" => \A i, j \in 1..n : i < j => Less(d, p, v[i], v[j])
  BY <1>7
<1>9. Changed(l, g, code, << >>)
  <2>1. Elsewhere(Heap, g, {l}) /\ \A m \in Nodes : SameItem(g.node[m], Heap.node[m])
    BY <1>6 DEF Shuffled
  <2>2. Return(g, code, << >>)
    BY DEF r
  <2>. QED
    BY <1>1, <1>6, <2>1, <2>2, ChangedIs
<1>10. Row(Heap, l, w, n) /\ Row(g, l, v, n)
  BY <1>1, <1>2, <1>6, <1>8, RowIs DEF Good
<1>11. \A m \in Nodes : Item(g, m) = Item(Heap, m)
  BY <1>6 DEF Shuffled, SameItem, Item
<1>12. /\ Len(x) = n /\ Len(z) = n /\ DOMAIN x = 1..n /\ DOMAIN z = 1..n
       /\ \A i \in 1..n : x[i] = Item(Heap, w[i]) /\ z[i] = Item(Heap, v[i])
       /\ \A i \in 1..n : v[i] \in Nodes /\ w[i] \in Nodes
       /\ n \in Nat
  BY <1>9, <1>10, <1>11 DEF Row, Changed
<1>13. /\ \A i \in 1..n : \E a \in 1..n : w[a] = v[i]
       /\ \A a \in 1..n : \E i \in 1..n : w[a] = v[i]
  <2>1. \A m \in Nodes : g.node[m].owner = l <=> Heap.node[m].owner = l
    BY <1>6 DEF Shuffled
  <2>2. /\ \A i \in 1..n : Heap.node[w[i]].owner = l /\ g.node[v[i]].owner = l
        /\ \A m \in Nodes : Heap.node[m].owner = l => \E i \in 1..n : w[i] = m
        /\ \A m \in Nodes : g.node[m].owner = l => \E i \in 1..n : v[i] = m
    BY <1>2, <1>8 DEF Line
  <2>. HIDE DEF g
  <2>3. \A i \in 1..n : \E a \in 1..n : w[a] = v[i]
    BY <1>12, <2>1, <2>2
  <2>4. \A a \in 1..n : \E i \in 1..n : v[i] = w[a]
    BY <1>12, <2>1, <2>2
  <2>. QED
    BY <2>3, <2>4
<1>. HIDE DEF x, z
<1>14. ToSet(z) = ToSet(x)
  <2>1. ToSet(z) = {z[i] : i \in 1..n} /\ ToSet(x) = {x[i] : i \in 1..n}
    BY <1>12 DEF ToSet
  <2>2. \A i \in 1..n : \E a \in 1..n : x[a] = z[i]
    BY <1>12, <1>13
  <2>3. \A a \in 1..n : \E i \in 1..n : x[a] = z[i]
    BY <1>12, <1>13
  <2>4. \A y \in ToSet(z) : y \in ToSet(x)
    BY <2>1, <2>2
  <2>5. \A y \in ToSet(x) : y \in ToSet(z)
    BY <2>1, <2>3
  <2>. QED
    BY <2>4, <2>5
<1>15. ASSUME code = "Success" PROVE Promise!Sorted(x, z)
  <2>0. DOMAIN x = 1..n /\ DOMAIN z = 1..n
    BY <1>12
  <2>1. ASSUME NEW i \in DOMAIN z, NEW j \in DOMAIN z, i < j
        PROVE  \/ z[i].data < z[j].data
               \/ z[i].data = z[j].data /\
                     \E a, b \in DOMAIN x : a < b /\ x[a] = z[i] /\ x[b] = z[j]
    <3>0. i \in 1..n /\ j \in 1..n
      BY <2>0
    <3>1. Less(d, p, v[i], v[j])
      BY <1>8, <1>15, <2>1, <3>0
    <3>2. /\ z[i].data = Heap.node[v[i]].data /\ z[j].data = Heap.node[v[j]].data
          /\ d[v[i]] = Heap.node[v[i]].data /\ d[v[j]] = Heap.node[v[j]].data
      BY <1>12, <3>0 DEF Item
    <3>3. PICK a \in 1..n : w[a] = v[i]
      BY <1>13, <3>0
    <3>4. PICK b \in 1..n : w[b] = v[j]
      BY <1>13, <3>0
    <3>5. x[a] = z[i] /\ x[b] = z[j] /\ p[v[i]] = a /\ p[v[j]] = b
      BY <1>3, <1>12, <3>0, <3>3, <3>4
    <3>6. a \in DOMAIN x /\ b \in DOMAIN x
      BY <2>0, <3>3, <3>4
    <3>. HIDE DEF d
    <3>. QED
      BY <3>1, <3>2, <3>5, <3>6 DEF Less
  <2>. QED
    BY <2>1, Zenon DEF Promise!Sorted
<1>16. Cursors(g) = Cursors(Heap)
  <2>1. g.ctl[l].current = Heap.ctl[l].current
    BY <1>6 DEF Shuffled
  <2>2. Cursors(Heap) = [Cursors(Heap) EXCEPT ![l] = Heap.ctl[l].current]
    BY DEF Cursors
  <2>3. Cursors(g) = [Cursors(Heap) EXCEPT ![l] = g.ctl[l].current]
    BY <1>9 DEF Changed
  <2>. QED
    BY <2>1, <2>2, <2>3
<1>17. /\ Seen' = [Seen EXCEPT ![l] = z]
       /\ [i \in Lists |-> ctl[i].current] = Cursors(Heap)
       /\ [i \in Lists |-> ctl'[i].current] = Cursors(g)
       /\ ret'.code = code
  BY <1>9 DEF Changed, z
<1>18. Len(z) = Len(x)
  BY <1>12
<1>. HIDE DEF g
<1>. QED
  BY <1>14, <1>15, <1>16, <1>17, <1>18, Zenon
     DEF Promise!Sort, Promise!Become, Promise!ToSet, ToSet, x, z

\* SortList sorts, or has nothing to do.
LEMMA SortListPromised ==
    ASSUME DListInv, NEW l \in Lists, NEW refused, SortList(l, refused)
    PROVE  Promise!Look(l) \/ Promise!Sort(l)
<1>1. CASE Return(Heap, "Success", << >>)
  BY <1>1, ReadLooks
<1>2. CASE LET r == Passes(Heap, l, refused)
           IN  Return(r.heap, IF r.failed THEN "Failed" ELSE "Success", << >>)
  BY <1>2, SortStep
<1>. QED
  BY <1>1, <1>2 DEF SortList

-----------------------------------------------------------------------------
(* The promise *)

\* All the calls on whole lists.
LEMMA WholeListPromised ==
    ASSUME DListInv, NEW l \in Lists, WholeList(l)
    PROVE  \/ Promise!Look(l) \/ Promise!Sort(l)
           \/ \E s \in Lists : \/ Promise!Append2(l, s)
                               \/ \E i \in 0..Len(Seen[l]) : Promise!Copy(l, s, i)
<1>1. CASE \E refused \in Objects \cup {NoObject} : SortList(l, refused)
  BY <1>1, SortListPromised
<1>2. ASSUME NEW s \in Lists \ {l}, AppendList(l, s)
      PROVE  Promise!Look(l) \/ Promise!Append2(l, s)
  BY <1>2, AppendListPromised
<1>3. ASSUME NEW s \in Lists \ {l}, NEW mode \in Modes, CopyList(l, s, mode)
      PROVE  Promise!Look(l) \/ \E i \in 0..Len(Seen[l]) : Promise!Copy(l, s, i)
  BY <1>3, CopyListPromised
<1>. QED
  BY <1>1, <1>2, <1>3, Zenon DEF WholeList

\* What is seen first is empty lists without a cursor.
LEMMA InitPromised ==
    ASSUME Init
    PROVE  Promise!Init
<1>1. DListInv
  BY InitGood
<1>2. ASSUME NEW l \in Lists PROVE Seen[l] = << >>
  <2>1. PICK n \in Nat, w \in [Int -> Pointers] : Line(Heap, l, w, n)
    BY <1>1 DEF DListInv, Good, IsLine
  <2>2. n = 0
    BY <2>1 DEF Init, Heap, CreateList, Line
  <2>3. Row(Heap, l, w, n)
    BY <1>1, <2>1, RowIs DEF DListInv, Good
  <2>4. Seen = Shows(Heap)
    BY DEF Seen, Shows, Item, Heap
  <2>. QED
    BY <2>2, <2>3, <2>4, EmptySeq DEF Row
<1>3. Seen = [l \in Lists |-> << >>]
  BY <1>2 DEF Seen
<1>4. [l \in Lists |-> ctl[l].current] = [l \in Lists |-> NoNode]
  BY DEF Init, CreateList
<1>. QED
  BY <1>3, <1>4 DEF Init, Promise!Init

\* Every call does one of the things the package promises.
LEMMA NextPromised ==
    ASSUME DListInv, Next
    PROVE  Promise!Next
<1>1. PICK l \in Lists :
         Insertion(l) \/ Removal(l) \/ Access(l) \/ Cursor(l) \/ WholeList(l)
  BY DEF Next
<1>2. CASE Insertion(l)
  BY <1>2, InsertionPromised DEF Promise!Next
<1>3. CASE Removal(l)
  BY <1>3, RemovalPromised DEF Promise!Next
<1>4. CASE Access(l)
  BY <1>4, AccessPromised DEF Promise!Next
<1>5. CASE Cursor(l)
  BY <1>5, CursorLooks DEF Promise!Next
<1>6. CASE WholeList(l)
  BY <1>6, WholeListPromised DEF Promise!Next
<1>. QED
  BY <1>1, <1>2, <1>3, <1>4, <1>5, <1>6

\* The list package implements DListSpec, what dlist.h says of it: every call of
\* dlist.c (src/evms/dlist.c) changes the sequences of items and their cursors as
\* the header promises, for any number of lists, nodes, tags and objects.
THEOREM PromiseKept == Spec => KeepsPromise
<1>1. Init => Promise!Init
  BY InitPromised
<1>2. DListInv /\ [Next]_vars => [Promise!Next]_(Promise!vars)
  <2>1. DListInv /\ Next => Promise!Next
    BY NextPromised
  <2>2. UNCHANGED vars => UNCHANGED Promise!vars
    BY DEF vars, Promise!vars, Seen, Walk, Heap, Chain
  <2>. QED
    BY <2>1, <2>2
<1>3. Spec => Promise!Spec
  BY <1>1, <1>2, LinesHold, PTL DEF Spec, Promise!Spec
<1>. QED
  BY <1>3 DEF KeepsPromise
=============================================================================
