------------------------------ MODULE DListSpec ------------------------------
(***************************************************************************)
(* What the list package promises (dlist.h): every list is a sequence of   *)
(* items with one of them current, and a handle goes on naming the item it *)
(* was given for, whatever happens to the other items of the list.         *)
(***************************************************************************)
EXTENDS Integers, Sequences, SequencesExt

CONSTANTS Lists, NoHandle

VARIABLES
    items,    \* the items of each list, first to last
    current,  \* the handle of each list's current item
    ret       \* return code and result of the last call

vars == <<items, current, ret>>

HandlesOf(s) == {s[i].handle : i \in DOMAIN s}
InUse == UNION {HandlesOf(items[l]) : l \in Lists}

Init ==
    /\ items = [l \in Lists |-> << >>]
    /\ current = [l \in Lists |-> NoHandle]
    /\ ret = [code |-> "Success", out |-> << >>]

\* The list of l becomes s, the others stay.
Become(l, s) == items' = [items EXCEPT ![l] = s]

\* One new item, anywhere; it is current if asked for or alone.
Insert(l) ==
    /\ Len(items'[l]) = Len(items[l]) + 1
    /\ \E i \in DOMAIN items'[l] :
          LET h == items'[l][i].handle
          IN  /\ h \notin InUse
              /\ Become(l, InsertAt(items[l], i, items'[l][i]))
              /\ current' \in {current, [current EXCEPT ![l] = h]}
              /\ items[l] = << >> => current'[l] = h
              /\ ret' = [code |-> "Success", out |-> <<h>>]

\* The neighbour that becomes current when item i goes.
HeirOf(s, i) ==
    IF i < Len(s) THEN s[i + 1].handle
    ELSE IF i > 1 THEN s[i - 1].handle ELSE NoHandle

Extract(l) ==
    /\ Len(items'[l]) = Len(items[l]) - 1
    /\ \E i \in DOMAIN items[l] :
          /\ Become(l, RemoveAt(items[l], i))
          /\ current' = IF current[l] = items[l][i].handle
                          THEN [current EXCEPT ![l] = HeirOf(items[l], i)] ELSE current
          /\ ret' \in {[code |-> "Success", out |-> <<items[l][i].data>>],
                       [code |-> "Success", out |-> << >>]}

\* Some of the items of old, in their order.
Within(new, old) ==
    \E kept \in [DOMAIN new -> DOMAIN old] :
        /\ \A i, j \in DOMAIN new : i < j => kept[i] < kept[j]
        /\ \A i \in DOMAIN new : new[i] = old[kept[i]]

\* Items leave (PruneList, DeleteAllItems); those that stay keep their order,
\* and a current item that stays stays current.
Drop(l) ==
    LET left == HandlesOf(items'[l])
    IN  /\ Len(items'[l]) <= Len(items[l])
        /\ Become(l, items'[l]) /\ Within(items'[l], items[l])
        /\ \A m \in Lists \ {l} : current'[m] = current[m]
        /\ current[l] \in left => current'[l] = current[l]
        /\ IF left = {} THEN current'[l] = NoHandle ELSE current'[l] \in left
        /\ ret'.out = << >>

\* An item keeps its handle and is given another tag and object.
Replace(l) ==
    \E i \in DOMAIN items[l] :
        /\ Len(items'[l]) = Len(items[l])
        /\ Become(l, [items[l] EXCEPT ![i] = items'[l][i]])
        /\ items'[l][i].handle = items[l][i].handle
        /\ current' \in {current, [current EXCEPT ![l] = items[l][i].handle]}
        /\ ret' = [code |-> "Success", out |-> <<items[l][i].data>>]

\* A sort that succeeds is stable; one that fails may leave any order.
Sorted(old, new) ==
    \A i, j \in DOMAIN new : i < j =>
        \/ new[i].data < new[j].data
        \/ new[i].data = new[j].data /\
               \E a, b \in DOMAIN old : a < b /\ old[a] = new[i] /\ old[b] = new[j]

Sort(l) ==
    /\ Len(items'[l]) = Len(items[l]) /\ ToSet(items'[l]) = ToSet(items[l])
    /\ Become(l, items'[l])
    /\ ret'.code = "Success" => Sorted(items[l], items'[l])
    /\ UNCHANGED current

\* AppendList: the handles move with their items.
Append2(t, s) ==
    /\ t # s /\ items'[s] = << >>
    /\ items' = [items EXCEPT ![t] = items[t] \o items[s], ![s] = << >>]
    /\ current' = [current EXCEPT ![t] = IF items[t] = << >> THEN current[s] ELSE @,
                                  ![s] = NoHandle]
    /\ ret' = [code |-> "Success", out |-> << >>]

\* CopyList: the target gains, in one place, items like those of the source.
Copy(t, s, i) ==
    /\ i \in 0..Len(items[t]) /\ Len(items'[t]) = Len(items[t]) + Len(items[s])
    /\ LET old == items[t]
           new == SubSeq(items'[t], i + 1, i + Len(items[s]))
       IN  /\ items'[t] = SubSeq(old, 1, i) \o new \o SubSeq(old, i + 1, Len(old))
           /\ \A j \in DOMAIN new : /\ new[j].tag = items[s][j].tag
                                    /\ new[j].data = items[s][j].data
                                    /\ new[j].handle \notin InUse
    /\ Become(t, items'[t])
    /\ current' = IF items[t] = << >> /\ items[s] # << >>
                    THEN [current EXCEPT ![t] = items'[t][1].handle] ELSE current
    /\ ret' = [code |-> "Success", out |-> << >>]

\* The cursor moves, or something is looked up, or the call fails: the items
\* stay, and so does the cursor of a call that fails.
Look(l) ==
    /\ UNCHANGED items
    /\ \A m \in Lists \ {l} : current'[m] = current[m]
    /\ current'[l] \in HandlesOf(items[l]) \cup {current[l]}
    /\ ret'.code # "Success" => UNCHANGED current

Next ==
    \E l \in Lists :
        \/ Look(l) \/ Insert(l) \/ Extract(l) \/ Drop(l) \/ Replace(l) \/ Sort(l)
        \/ \E s \in Lists : Append2(l, s) \/ \E i \in 0..Len(items[l]) : Copy(l, s, i)

Spec == Init /\ [][Next]_vars
=============================================================================
