-------------------------------- MODULE DList --------------------------------
(***************************************************************************)
(* The doubly linked lists of evms/dlist.c, on which the parser keeps its  *)
(* tokens and the interpreter its stack: control nodes, link nodes and the *)
(* pointers between them, as the package is built (without EVMS_DEBUG).    *)
(*                                                                         *)
(* A call is one action.  A heap is a record of the link nodes and the     *)
(* control nodes; operators on heaps are the pointer surgery of the C      *)
(* functions.  Handles are addresses of link nodes; a free node has no     *)
(* owner, and malloc fails when none is left.  The memory of the objects   *)
(* belongs to the callers and is left out.                                 *)
(***************************************************************************)
EXTENDS Integers, Sequences, FiniteSets, SequencesExt

CONSTANTS
    Lists,      \* dlist_t values
    Nodes,      \* bound: addresses malloc may return for a LinkNode
    Tags,       \* item tags
    Objects,    \* addresses of objects; their order is the callers' Compare
    Kinds,      \* bound: the <<tag, object>> pairs callers store
    NoNode, NoList,  \* NULL
    MaxVerdicts \* bound: objects a callback decides about other than "keep"

NoObject == 0

ASSUME DListAssumption ==
    /\ NoNode \notin Nodes /\ NoList \notin Lists /\ IsFiniteSet(Nodes)
    /\ Objects \subseteq Nat \ {NoObject} /\ MaxVerdicts \in Nat
    /\ Kinds \subseteq Tags \X Objects

VARIABLES
    node,   \* LinkNode: next, prev, owner (ControlNodeLocation), tag, data
    ctl,    \* ControlNode: count, start, end, current
    ret     \* what the last call returned

vars == <<node, ctl, ret>>

Pointers == Nodes \cup {NoNode}
LinkNode == [next : Pointers, prev : Pointers, owner : Lists \cup {NoList},
             tag : Tags, data : Objects]
ControlNode == [count : 0..Cardinality(Nodes), start : Pointers, end : Pointers,
                current : Pointers]

Codes == {"Success", "OutOfMemory", "Empty", "BadHandle", "TagWrong",
          "EndOfList", "AlreadyAtStart", "NotFound", "Failed"}
Modes == {"InsertAtStart", "InsertBefore", "InsertAfter", "AppendToList"}

TypeOK ==
    /\ \A n \in Nodes : node[n].owner # NoList => node[n] \in LinkNode
    /\ ctl \in [Lists -> ControlNode]
    /\ ret.code \in Codes

Free(n) == node[n].owner = NoList
NoLink == [next |-> NoNode, prev |-> NoNode, owner |-> NoList, tag |-> 0,
           data |-> NoObject]

CreateList == [count |-> 0, start |-> NoNode, end |-> NoNode, current |-> NoNode]

Init ==
    /\ node = [n \in Nodes |-> NoLink]
    /\ ctl = [l \in Lists |-> CreateList]
    /\ ret = [code |-> "Success", out |-> << >>]

Heaps == [node : [Nodes -> LinkNode \cup {NoLink}], ctl : [Lists -> ControlNode]]
Heap == [node |-> node, ctl |-> ctl]

\* A call ends with heap h, a return code and a result.
Return(h, code, out) ==
    /\ node' = h.node /\ ctl' = h.ctl
    /\ ret' = [code |-> code, out |-> out]

Fail(code) == Return(Heap, code, << >>)

-----------------------------------------------------------------------------
(* Slips the properties are there to catch: each stands in for the definition
   of the same parameters below. *)

GapAfterInside(h, l, c) == <<c, NoNode>>
NoHeir(after, before) == after
NotAfter(h, a, b) == h.node[a].data < h.node[b].data
CountedTwice(k) == k - 2

-----------------------------------------------------------------------------
(* Pointer surgery *)

\* a->NextLinkNode = b; b->PreviousLinkNode = a, where NoNode has no fields.
Join(nd, a, b) ==
    [n \in Nodes |-> CASE n = a -> [nd[n] EXCEPT !.next = b]
                       [] n = b -> [nd[n] EXCEPT !.prev = a]
                       [] OTHER -> nd[n]]

\* The nodes first..last of a chain put between a and b of list l.
Splice(h, l, first, last, a, b) ==
    [node |-> Join(Join(h.node, a, first), last, b),
     ctl  |-> [h.ctl EXCEPT ![l].start = IF a = NoNode THEN first ELSE @,
                            ![l].end = IF b = NoNode THEN last ELSE @]]

\* The neighbours of the gap a mode names, relative to node c of list l.
GapBefore(h, l, c) ==
    <<IF h.ctl[l].start = c THEN NoNode ELSE h.node[c].prev, c>>
GapAfter(h, l, c) ==
    <<c, IF h.ctl[l].end = c THEN NoNode ELSE h.node[c].next>>
Gap(h, l, c, mode) ==
    CASE mode = "InsertAtStart" -> <<NoNode, h.ctl[l].start>>
      [] mode = "InsertBefore"  -> GapBefore(h, l, c)
      [] mode = "InsertAfter"   -> GapAfter(h, l, c)
      [] mode = "AppendToList"  -> <<h.ctl[l].end, NoNode>>

\* InsertObject once the node is filled in: alone in the list, or in the gap.
Enter(h, l, n, tag, data, c, mode, makeCurrent) ==
    LET new == [NoLink EXCEPT !.owner = l, !.tag = tag, !.data = data]
        h0  == [h EXCEPT !.node[n] = new]
        gap == Gap(h0, l, c, mode)
        alone == h.ctl[l].current = NoNode
        h1  == IF alone THEN [h0 EXCEPT !.ctl[l].start = n, !.ctl[l].end = n]
                        ELSE Splice(h0, l, n, n, gap[1], gap[2])
    IN  [h1 EXCEPT !.ctl[l].count = @ + 1,
                   !.ctl[l].current = IF alone \/ makeCurrent THEN n ELSE @]

OneLess(k) == k - 1

\* The item that becomes current when the current one is extracted.
Heir(after, before) == IF after # NoNode THEN after ELSE before

\* ExtractObject once the node is found: bypass it, hand the cursor to the
\* next node or else the previous one, and free it.
Unlink(h, l, n) ==
    LET after == h.node[n].next
        before == h.node[n].prev
        nd == [m \in Nodes |-> CASE m = n -> NoLink
                                 [] m = before /\ m # n -> [h.node[m] EXCEPT !.next = after]
                                 [] m = after /\ m # n -> [h.node[m] EXCEPT !.prev = before]
                                 [] OTHER -> h.node[m]]
        c == h.ctl[l]
    IN  [node |-> nd,
         ctl |-> [h.ctl EXCEPT ![l] =
                    [count |-> OneLess(c.count),
                     start |-> IF c.start = n THEN after ELSE c.start,
                     end |-> IF c.end = n THEN before ELSE c.end,
                     current |-> IF c.current = n THEN Heir(after, before) ELSE c.current]]]

\* A loop: x after n turns of f.
Repeat(f, x, n) ==
    LET turn[i \in 0..n] == IF i = 0 THEN x ELSE f[turn[i - 1]] IN turn[n]

\* The next link of each node; it stays at NULL.
Following(h) ==
    [n \in Pointers |-> IF n = NoNode THEN NoNode ELSE h.node[n].next]

\* n, or the node k links further on.
Ahead(h, n, k) == Repeat(Following(h), n, k)

\* The nodes met from n on, forward or backward, until the pointer is NULL.
Chain(h, n, forward, fuel) ==
    LET Meeting == [s \in Seq(Nodes) |->
            LET next == IF s = << >> THEN n
                        ELSE IF forward THEN h.node[Last(s)].next
                        ELSE h.node[Last(s)].prev
            IN  IF next = NoNode THEN s ELSE Append(s, next)]
    IN  Repeat(Meeting, << >>, fuel)

Walk(h, l) == Chain(h, h.ctl[l].start, TRUE, h.ctl[l].count + 1)

-----------------------------------------------------------------------------
(* Insertion *)

InsertObject(l, tag, data, target, mode, makeCurrent) ==
    \/ /\ \A n \in Nodes : ~Free(n)
       /\ Fail("OutOfMemory")
    \/ \E n \in Nodes :
          /\ Free(n)
          /\ LET c == IF target # NoNode THEN target ELSE ctl[l].current
             IN  Return(Enter(Heap, l, n, tag, data, c, mode, makeCurrent), "Success", <<n>>)

\* Whether the object is in the list already; success either way.
ExclusiveInsertObject(l, tag, data, target, mode, makeCurrent) ==
    \/ /\ \E i \in DOMAIN Walk(Heap, l) : node[Walk(Heap, l)[i]].data = data
       /\ Return(Heap, "Success", << >>)
    \/ /\ \A i \in DOMAIN Walk(Heap, l) : node[Walk(Heap, l)[i]].data # data
       /\ InsertObject(l, tag, data, target, mode, makeCurrent)

-----------------------------------------------------------------------------
(* Removal and lookup.  The handle is NULL (the current item), or that of an
   item in some list: a stale handle is the caller's to avoid. *)

At(l, handle) == IF handle # NoNode THEN handle ELSE ctl[l].current

\* The checks the functions that take a handle make first.
Refusal(l, handle) ==
    CASE ctl[l].count = 0 -> "Empty"
      [] handle # NoNode /\ node[handle].owner # l -> "BadHandle"
      [] OTHER -> "Success"

BlindExtractObject(l, handle) ==
    \/ Refusal(l, handle) # "Success" /\ Fail(Refusal(l, handle))
    \/ /\ Refusal(l, handle) = "Success"
       /\ Return(Unlink(Heap, l, At(l, handle)), "Success", <<node[At(l, handle)].data>>)

ExtractObject(l, tag, handle) ==
    \/ Refusal(l, handle) # "Success" /\ Fail(Refusal(l, handle))
    \/ /\ Refusal(l, handle) = "Success" /\ node[At(l, handle)].tag # tag
       /\ Fail("TagWrong")
    \/ /\ Refusal(l, handle) = "Success" /\ node[At(l, handle)].tag = tag
       /\ Return(Unlink(Heap, l, At(l, handle)), "Success", <<node[At(l, handle)].data>>)

\* Extracts the first node that holds the object.
DeleteObject(l, data) ==
    LET w == Walk(Heap, l)
        hits == {i \in DOMAIN w : node[w[i]].data = data}
    IN  \/ hits = {} /\ Fail("NotFound")
        \/ hits # {} /\ Return(Unlink(Heap, l, w[Min(hits)]), "Success", << >>)

\* Frees count nodes from the start and resets what the loop does not.
Emptied(h, l) ==
    LET w == Walk(h, l)
        gone == {w[i] : i \in 1..h.ctl[l].count}
    IN  [node |-> [n \in Nodes |-> IF n \in gone THEN NoLink ELSE h.node[n]],
         ctl |-> [h.ctl EXCEPT ![l] =
                    [CreateList EXCEPT !.start =
                        IF w = << >> THEN NoNode ELSE h.node[w[h.ctl[l].count]].next]]]

DeleteAllItems(l) == Return(Emptied(Heap, l), "Success", << >>)

\* The pointer becomes NULL; the caller starts again with CreateList.
DestroyList(l) ==
    Return([Emptied(Heap, l) EXCEPT !.ctl[l] = CreateList], "Success", << >>)

Current(l, makeCurrent, n) ==
    IF makeCurrent THEN [Heap EXCEPT !.ctl[l].current = n] ELSE Heap

BlindGetObject(l, handle, makeCurrent) ==
    \/ Refusal(l, handle) # "Success" /\ Fail(Refusal(l, handle))
    \/ /\ Refusal(l, handle) = "Success"
       /\ Return(Current(l, makeCurrent, At(l, handle)), "Success", <<node[At(l, handle)].data>>)

GetObject(l, tag, handle, makeCurrent) ==
    \/ Refusal(l, handle) # "Success" /\ Fail(Refusal(l, handle))
    \/ /\ Refusal(l, handle) = "Success" /\ node[At(l, handle)].tag # tag
       /\ Fail("TagWrong")
    \/ /\ Refusal(l, handle) = "Success" /\ node[At(l, handle)].tag = tag
       /\ Return(Current(l, makeCurrent, At(l, handle)), "Success", <<node[At(l, handle)].data>>)

\* The cursor moves on only if the next item has the tag.
GetNextObject(l, tag) ==
    \/ ctl[l].count = 0 /\ Fail("Empty")
    \/ ctl[l].count # 0 /\ ctl[l].current = ctl[l].end /\ Fail("EndOfList")
    \/ /\ ctl[l].count # 0 /\ ctl[l].current # ctl[l].end
       /\ LET n == node[ctl[l].current].next
          IN  \/ node[n].tag # tag /\ Fail("TagWrong")
              \/ node[n].tag = tag /\ Return(Current(l, TRUE, n), "Success", <<node[n].data>>)

ReplaceObject(l, tag, data, handle, makeCurrent) ==
    \/ Refusal(l, handle) # "Success" /\ Fail(Refusal(l, handle))
    \/ /\ Refusal(l, handle) = "Success"
       /\ LET n == At(l, handle)
              new == [node[n] EXCEPT !.tag = tag, !.data = data]
          IN  Return([Current(l, makeCurrent, n) EXCEPT !.node[n] = new],
                     "Success", <<node[n].data>>)

GetHandle(l) ==
    \/ ctl[l].count = 0 /\ Fail("Empty")
    \/ ctl[l].count # 0 /\ Return(Heap, "Success", <<ctl[l].current>>)

GetListSize(l) == Return(Heap, "Success", <<ctl[l].count>>)
ListEmpty(l) == Return(Heap, IF ctl[l].count = 0 THEN "Success" ELSE "Failed", << >>)
AtEndOfList(l) ==
    Return(Heap, IF ctl[l].current = ctl[l].end THEN "Success" ELSE "Failed", << >>)

-----------------------------------------------------------------------------
(* The cursor *)

NextItem(l) ==
    \/ ctl[l].count = 0 /\ Fail("Empty")
    \/ ctl[l].count # 0 /\ ctl[l].current = ctl[l].end /\ Fail("EndOfList")
    \/ /\ ctl[l].count # 0 /\ ctl[l].current # ctl[l].end
       /\ Return(Current(l, TRUE, node[ctl[l].current].next), "Success", << >>)

PreviousItem(l) ==
    \/ ctl[l].count = 0 /\ Fail("Empty")
    \/ ctl[l].count # 0 /\ ctl[l].current = ctl[l].start /\ Fail("AlreadyAtStart")
    \/ /\ ctl[l].count # 0 /\ ctl[l].current # ctl[l].start
       /\ Return(Current(l, TRUE, node[ctl[l].current].prev), "Success", << >>)

GoToStartOfList(l) == Return(Current(l, TRUE, ctl[l].start), "Success", << >>)
GoToEndOfList(l) == Return(Current(l, TRUE, ctl[l].end), "Success", << >>)

GoToSpecifiedItem(l, handle) ==
    IF handle # NoNode /\ node[handle].owner = l
    THEN Return(Current(l, TRUE, handle), "Success", << >>)
    ELSE Fail("BadHandle")

-----------------------------------------------------------------------------
(* SortList: merges neighbouring runs of 1, 2, 4, ... nodes in place.  The
   callers' Compare orders by object, and may refuse an object. *)

\* The node n, further on in the list, is moved to just before m.
MoveBefore(h, l, n, m) ==
    LET after == h.node[n].next
        before == h.node[n].prev
        nd1 == [h.node EXCEPT ![before].next = after]
        nd2 == IF after = NoNode THEN nd1 ELSE [nd1 EXCEPT ![after].prev = before]
        p == nd2[m].prev
        nd3 == IF p = NoNode THEN nd2 ELSE [nd2 EXCEPT ![p].next = n]
    IN  [node |-> [nd3 EXCEPT ![n].prev = p, ![n].next = m, ![m].prev = n],
         ctl |-> [h.ctl EXCEPT ![l].end = IF @ = n THEN before ELSE @,
                               ![l].start = IF @ = m THEN n ELSE @]]

\* (*Compare)(a, b) is not positive: a stays in front.
InOrder(h, a, b) == h.node[a].data <= h.node[b].data

\* One turn of the loop that merges the runs at m1 and m2, of which s1 and s2
\* nodes remain.
Merging(l, refused) ==
    [r \in [heap : Heaps, failed : BOOLEAN, m1 : Pointers, m2 : Pointers,
            s1 : Nat, s2 : Nat] |->
        LET h == r.heap
        IN  IF r.failed \/ NoNode \in {r.m1, r.m2} \/ 0 \in {r.s1, r.s2} THEN r
            ELSE IF refused \in {h.node[r.m1].data, h.node[r.m2].data}
            THEN [r EXCEPT !.failed = TRUE]
            ELSE IF InOrder(h, r.m1, r.m2)
            THEN [r EXCEPT !.m1 = h.node[r.m1].next, !.s1 = @ - 1]
            ELSE [r EXCEPT !.heap = MoveBefore(h, l, r.m2, r.m1),
                           !.m2 = h.node[r.m2].next, !.s2 = @ - 1]]

\* Merges the run of k nodes at m1 with the next; the result names the node the
\* next pair of runs starts with.
Merge(h, l, m1, k, refused) ==
    LET r == Repeat(Merging(l, refused),
                    [heap |-> h, failed |-> FALSE, m1 |-> m1,
                     m2 |-> Ahead(h, m1, k), s1 |-> k, s2 |-> k], 2 * k)
    IN  [heap |-> r.heap, failed |-> r.failed, rest |-> Ahead(r.heap, r.m2, r.s2)]

\* One pass over the list with runs of k nodes, pair of runs by pair of runs.
Pass(h, l, k, refused) ==
    LET Pairing == [r \in [heap : Heaps, failed : BOOLEAN, rest : Pointers] |->
                       IF r.failed \/ r.rest = NoNode THEN r
                       ELSE Merge(r.heap, l, r.rest, k, refused)]
    IN  Repeat(Pairing, [heap |-> h, failed |-> FALSE, rest |-> h.ctl[l].start],
               h.ctl[l].count)

\* A pass with runs of one node, of two, of four, until one run is the list.
Passes(h, l, refused) ==
    LET Doubling == [r \in [heap : Heaps, failed : BOOLEAN, size : Nat] |->
                        IF r.failed \/ h.ctl[l].count <= r.size THEN r
                        ELSE LET p == Pass(r.heap, l, r.size, refused)
                             IN  [heap |-> p.heap, failed |-> p.failed,
                                  size |-> 2 * r.size]]
    IN  Repeat(Doubling, [heap |-> h, failed |-> FALSE, size |-> 1], h.ctl[l].count)

SortList(l, refused) ==
    \/ ctl[l].count <= 1 /\ Return(Heap, "Success", << >>)
    \/ /\ ctl[l].count > 1
       /\ LET r == Passes(Heap, l, refused)
          IN  Return(r.heap, IF r.failed THEN "Failed" ELSE "Success", << >>)

-----------------------------------------------------------------------------
(* Callbacks.  A callback's verdict on an object: go on, stop with success
   (DLIST_SEARCH_COMPLETE), stop with an error; for PruneList also to remove
   the item before it goes on or stops. *)

Verdicts == {"keep", "stop", "fail"}
KillVerdicts == Verdicts \cup {"kill", "killstop", "killfail"}

Callbacks(V) ==
    {f \in [Objects -> V] :
        Cardinality({o \in Objects : f[o] # "keep"}) <= MaxVerdicts}

\* The nodes a callback is called with, in order.
Visited(w, f) ==
    LET ends == {i \in DOMAIN w : f[node[w[i]].data] # "keep"}
    IN  IF ends = {} THEN w ELSE SubSeq(w, 1, Min(ends))

ForEachItem(l, f, forward) ==
    LET from == IF forward THEN ctl[l].start ELSE ctl[l].end
        seen == Visited(Chain(Heap, from, forward, ctl[l].count), f)
        failed == seen # << >> /\ f[node[Last(seen)].data] = "fail"
    IN  Return(Heap, IF failed THEN "Failed" ELSE "Success", seen)

\* One turn of PruneList's loop, at the node r.at.  After a removal it goes on at
\* what is now the previous node's successor, or at the start.
Pruning(l, kill) ==
    [r \in [heap : Heaps, at : Pointers, code : Codes] |->
        IF r.at = NoNode THEN r
        ELSE LET h == r.heap
                 verdict == kill[h.node[r.at].data]
                 before == h.node[r.at].prev
                 h1 == Unlink(h, l, r.at)
                 on == IF before # NoNode THEN h1.node[before].next ELSE h1.ctl[l].start
             IN  [heap |-> IF verdict \in {"kill", "killstop"} THEN h1 ELSE h,
                  at   |-> CASE verdict = "keep" -> h.node[r.at].next
                             [] verdict = "kill" -> on
                             [] OTHER -> NoNode,
                  code |-> IF verdict \in {"fail", "killfail"} THEN "Failed"
                                                              ELSE "Success"]]

PruneList(l, kill) ==
    LET r == Repeat(Pruning(l, kill),
                    [heap |-> Heap, at |-> ctl[l].start, code |-> "Success"],
                    ctl[l].count)
    IN  Return(r.heap, r.code, << >>)

-----------------------------------------------------------------------------
(* Whole lists *)

\* Moves the nodes of s to the end of t; an empty t takes over the whole
\* control node of s.  The loop then makes t the owner of each node moved.
AppendList(t, s) ==
    LET w == Walk(Heap, s)
        owned == [n \in Nodes |-> IF n \in ToSet(w) THEN [node[n] EXCEPT !.owner = t]
                                                    ELSE node[n]]
        joined == Join(owned, ctl[t].end, ctl[s].start)
    IN  \/ ctl[s].count = 0 /\ Return(Heap, "Success", << >>)
        \/ /\ ctl[s].count # 0 /\ ctl[t].count = 0
           /\ Return([node |-> owned,
                      ctl |-> [ctl EXCEPT ![t] = ctl[s], ![s] = ctl[t]]],
                     "Success", << >>)
        \/ /\ ctl[s].count # 0 /\ ctl[t].count # 0
           /\ Return([node |-> joined,
                      ctl |-> [ctl EXCEPT ![t].end = ctl[s].end,
                                          ![t].count = @ + ctl[s].count,
                                          ![s] = CreateList]],
                     "Success", << >>)

\* Fresh nodes in place of w, chained in its order and owned by t.
Twins(fresh, w, t) ==
    [n \in Nodes |->
        IF \E i \in DOMAIN w : fresh[i] = n
        THEN LET i == CHOOSE j \in DOMAIN w : fresh[j] = n
             IN  [next |-> IF i < Len(w) THEN fresh[i + 1] ELSE NoNode,
                  prev |-> IF i > 1 THEN fresh[i - 1] ELSE NoNode,
                  owner |-> t, tag |-> node[w[i]].tag, data |-> node[w[i]].data]
        ELSE node[n]]

\* The gap CopyList puts the copy in: InsertBefore at the start is
\* InsertAtStart, InsertAfter at the end is AppendToList.
CopyGap(t, mode) == Gap(Heap, t, ctl[t].current, mode)

CopyList(t, s, mode) ==
    LET w == Walk(Heap, s)
        free == {n \in Nodes : Free(n)}
        gap == CopyGap(t, mode)
    IN  \/ w = << >> /\ Return(Heap, "Success", << >>)
        \/ w # << >> /\ Cardinality(free) < Len(w) /\ Fail("OutOfMemory")
        \/ /\ w # << >>
           /\ \E fresh \in Injection(DOMAIN w, free) :
                LET made == [node |-> Twins(fresh, w, t), ctl |-> ctl]
                    last == fresh[Len(w)]
                    h1 == IF ctl[t].current = NoNode
                            THEN [made EXCEPT !.ctl[t].start = fresh[1],
                                              !.ctl[t].end = last,
                                              !.ctl[t].current = fresh[1]]
                            ELSE Splice(made, t, fresh[1], last, gap[1], gap[2])
                IN  Return([h1 EXCEPT !.ctl[t].count = @ + Len(w)], "Success", << >>)

-----------------------------------------------------------------------------

Items(l) == {n \in Nodes : node[n].owner = l}
\* NULL, or the handle of an item, not always of the list it is used with.
SomeHandle == {n \in Nodes : ~Free(n)} \cup {NoNode}

Insertion(l) ==
    \E k \in Kinds, mode \in Modes, makeCurrent \in BOOLEAN :
        \/ ExclusiveInsertObject(l, k[1], k[2], NoNode, mode, makeCurrent)
        \/ \E target \in Items(l) \cup {NoNode} :
              InsertObject(l, k[1], k[2], target, mode, makeCurrent)

Removal(l) ==
    \/ \E handle \in SomeHandle :
          BlindExtractObject(l, handle) \/ \E tag \in Tags : ExtractObject(l, tag, handle)
    \/ \E data \in Objects : DeleteObject(l, data)
    \/ DeleteAllItems(l) \/ DestroyList(l)
    \/ \E kill \in Callbacks(KillVerdicts) : PruneList(l, kill)

Access(l) ==
    \/ \E handle \in SomeHandle, makeCurrent \in BOOLEAN :
          \/ BlindGetObject(l, handle, makeCurrent)
          \/ \E tag \in Tags : GetObject(l, tag, handle, makeCurrent)
          \/ \E k \in Kinds : ReplaceObject(l, k[1], k[2], handle, makeCurrent)
    \/ \E tag \in Tags : GetNextObject(l, tag)
    \/ GetHandle(l) \/ GetListSize(l) \/ ListEmpty(l) \/ AtEndOfList(l)
    \/ \E f \in Callbacks(Verdicts), forward \in BOOLEAN : ForEachItem(l, f, forward)

Cursor(l) ==
    \/ NextItem(l) \/ PreviousItem(l) \/ GoToStartOfList(l) \/ GoToEndOfList(l)
    \/ \E handle \in SomeHandle : GoToSpecifiedItem(l, handle)

WholeList(l) ==
    \/ \E refused \in Objects \cup {NoObject} : SortList(l, refused)
    \/ \E s \in Lists \ {l} : AppendList(l, s) \/ \E mode \in Modes : CopyList(l, s, mode)

Next ==
    \E l \in Lists : Insertion(l) \/ Removal(l) \/ Access(l) \/ Cursor(l) \/ WholeList(l)

Spec == Init /\ [][Next]_vars

-----------------------------------------------------------------------------
(* Properties *)

\* The two directions of a list agree with each other and with its control
\* node: walking back from the end meets the same nodes as walking on from the
\* start, as many as the count says, all owned by the list, and no item is
\* owned by a list it is not on.
ListsAgree ==
    \A l \in Lists :
        LET w == Walk(Heap, l)
        IN  /\ Len(w) = ctl[l].count
            /\ ToSet(w) = Items(l)
            /\ Chain(Heap, ctl[l].end, FALSE, ctl[l].count + 1) = Reverse(w)

\* The cursor of a list is on one of its items exactly when it has any, so the
\* functions that act on the current item never follow NULL or a freed node.
CursorInside ==
    \A l \in Lists :
        IF ctl[l].count = 0 THEN ctl[l].current = NoNode
                            ELSE ctl[l].current \in ToSet(Walk(Heap, l))

\* The lists as a user sees them.
Seen ==
    [l \in Lists |->
        LET w == Walk(Heap, l)
        IN  [i \in DOMAIN w |->
               [handle |-> w[i], tag |-> node[w[i]].tag, data |-> node[w[i]].data]]]

Promise == INSTANCE DListSpec WITH
    items <- Seen, current <- [l \in Lists |-> ctl[l].current],
    NoHandle <- NoNode

\* dlist.c keeps the promise of dlist.h: each call does to the sequences and
\* their cursors what it says, a sort is stable, and a handle goes on naming
\* its item through every reordering and move.
KeepsPromise == Promise!Spec
=============================================================================
