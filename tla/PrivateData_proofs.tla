-------------------------- MODULE PrivateData_proofs --------------------------
(***************************************************************************)
(* Whatever the number of threads and however their insertions race, no    *)
(* thread is told a size that another stored, the lists stay sound, and a  *)
(* thread alone on its hash entry loses nothing.                           *)
(***************************************************************************)
EXTENDS PrivateData, SetInduction, FiniteSetTheorems, TLAPS

(* The strengthening.  OwnThreadOnly needs that a thread stores only in a node
   that bears its id, from the moment it found or made it (Claims), so that what
   a node holds was stored by the thread whose id it bears (Holdings).
   ListsAreSound needs that nodes are numbered in the order of allocation and
   that only allocated ones are linked (Linked). *)

AllocatedInOrder == \E k \in 0..MaxNodes : Allocated = 1..k

Linked ==
    /\ \A e \in Entries : hash_entry_tbl[e] # NULL =>
          /\ hash_entry_tbl[e] \in Allocated
          /\ Entry[thread_id[hash_entry_tbl[e]]] = e
    /\ \A n \in Nodes : next[n] # NULL =>
          /\ n \in Allocated /\ next[n] \in Allocated
          /\ next[n] < n
          /\ Entry[thread_id[next[n]]] = Entry[thread_id[n]]

Claims ==
    \A t \in Threads :
        /\ pc[t] \in {"front", "store"} => cur[t] \in NodesOf(t)
        /\ pc[t] \in {"first", "link", "front", "store"} => arg[t] \in Pairs

Holdings ==
    \A n \in Nodes : \A i \in 1..MaxExpandPoints :
        obj[n][i] # Zero =>
            n \in Allocated /\ obj[n][i] \in stored[thread_id[n]]

IInv == TypeOK /\ AllocatedInOrder /\ Linked /\ Claims /\ Holdings

-----------------------------------------------------------------------------
(* Helpers *)

\* SearchNode finds NULL or a node of the thread's own.
LEMMA SearchOwn ==
    ASSUME NEW t
    PROVE  SearchNode(t) # NULL => SearchNode(t) \in NodesOf(t)
<1> DEFINE found == ListFrom[hash_entry_tbl[Entry[t]]] \cap NodesOf(t)
           first == {n \in found : \A m \in found : m <= n}
<1>1. first \subseteq NodesOf(t)
  OBVIOUS
<1>2. SearchNode(t) = IF first = {} THEN NULL ELSE CHOOSE n \in first : TRUE
  BY DEF SearchNode
<1>3. first # {} => (CHOOSE n \in first : TRUE) \in first
  OBVIOUS
<1> HIDE DEF first
<1>4. QED
  BY <1>1, <1>2, <1>3

\* The node Malloc makes is the one after those made before, and bears the id
\* of its thread.
LEMMA MallocNew ==
    ASSUME IInv, NEW t \in Threads, NEW rest, Malloc(t, rest)
    PROVE  \E n \in Nodes :
              /\ Allocated = 1..(n - 1)
              /\ thread_id' = [thread_id EXCEPT ![n] = t]
              /\ next' = [next EXCEPT ![n] = rest]
              /\ cur' = [cur EXCEPT ![t] = n]
              /\ Allocated' = 1..n
<1>1. PICK k \in 0..MaxNodes : Allocated = 1..k
  BY DEF IInv, AllocatedInOrder
<1>2. k \in Nat
  BY <1>1, PrivateAssumption
<1>3. Cardinality(1..k) = k
  BY <1>2, FS_Interval
<1>4. Cardinality(Allocated) + 1 = k + 1
  BY <1>1, <1>3
<1>5. /\ k + 1 \in Nodes
      /\ thread_id' = [thread_id EXCEPT ![k + 1] = t]
      /\ next' = [next EXCEPT ![k + 1] = rest]
      /\ cur' = [cur EXCEPT ![t] = k + 1]
  BY <1>4 DEF Malloc
<1>6. Allocated' = Allocated \cup {k + 1}
  BY <1>5, PrivateAssumption DEF Allocated, IInv, TypeOK
<1>7. Allocated = 1..((k + 1) - 1) /\ Allocated' = 1..(k + 1)
  BY <1>1, <1>2, <1>6
<1>8. QED
  BY <1>5, <1>7

\* What QueryPrivateData finds stands, with its handle, in the thread's node.
LEMMA QueryFinds ==
    ASSUME TypeOK, NEW t \in Threads, NEW h \in Handles,
           QueryPrivateData(t, h) # 0
    PROVE  \E n \in NodesOf(t), i \in 1..MaxExpandPoints :
              /\ obj[n][i][1] = h
              /\ obj[n][i][2] = QueryPrivateData(t, h)
<1> DEFINE n == SearchNode(t)
           hits == {i \in 1..count[n] : obj[n][i][1] = h}
           first == {i \in hits : \A j \in hits : i <= j}
           i == CHOOSE i \in first : TRUE
<1>1. n # NULL /\ first # {} /\ QueryPrivateData(t, h) = obj[n][i][2]
  BY DEF QueryPrivateData
<1>2. n \in NodesOf(t)
  BY <1>1, SearchOwn
<1>3. i \in first
  BY <1>1
<1>4. i \in 1..count[n] /\ obj[n][i][1] = h
  BY <1>3
<1>5. count[n] \in 0..MaxExpandPoints
  BY <1>2 DEF NodesOf, TypeOK
<1>6. i \in 1..MaxExpandPoints
  BY <1>4, <1>5, PrivateAssumption
<1>7. QED
  BY <1>1, <1>2, <1>4, <1>6

-----------------------------------------------------------------------------
(* The invariant holds at first and each step preserves it *)

LEMMA InitIInv == Init => IInv
<1> SUFFICES ASSUME Init PROVE IInv
  OBVIOUS
<1> USE PrivateAssumption DEF Init, InitHash, NULL, Nodes
<1>1. TypeOK
  BY DEF TypeOK, Pairs, Zero
<1>2. Allocated = 1..0 /\ 0 \in 0..MaxNodes
  BY DEF Allocated
<1>3. AllocatedInOrder
  BY <1>2 DEF AllocatedInOrder
<1>4. Linked
  BY DEF Linked
<1>5. Claims
  BY DEF Claims
<1>6. Holdings
  BY DEF Holdings
<1>7. QED
  BY <1>1, <1>3, <1>4, <1>5, <1>6 DEF IInv

\* A thread's node is one of the nodes.
LEMMA NodesOfNodes == \A t : NodesOf(t) \subseteq Nodes
BY DEF NodesOf

LEMMA InsertIInv ==
    ASSUME IInv, NEW t \in Threads, NEW p \in Pairs, Insert(t, p)
    PROVE  IInv'
<1> USE DEF IInv
<1>1. UNCHANGED <<heapVars, historyVars>>
  BY DEF Insert
<1>2. SearchNode(t) \in Nodes \cup {NULL}
  BY SearchOwn, NodesOfNodes
<1>3. /\ arg' = [arg EXCEPT ![t] = p]
      /\ cur' = [cur EXCEPT ![t] = SearchNode(t)]
      /\ \E w \in {"first", "link", "store"} :
            /\ pc' = [pc EXCEPT ![t] = w]
            /\ w = "store" => SearchNode(t) # NULL
  BY DEF Insert, Goto
<1>4. TypeOK'
  BY <1>1, <1>2, <1>3 DEF TypeOK, heapVars, historyVars
<1>5. AllocatedInOrder' /\ Linked'
  BY <1>1 DEF AllocatedInOrder, Linked, Allocated, heapVars
<1>6. Claims'
  <2> SUFFICES ASSUME NEW u \in Threads
               PROVE  /\ pc'[u] \in {"front", "store"} => cur'[u] \in NodesOf(u)'
                      /\ pc'[u] \in {"first", "link", "front", "store"} => arg'[u] \in Pairs
    BY DEF Claims, Pairs
  <2>1. NodesOf(u)' = NodesOf(u)
    BY <1>1 DEF NodesOf, heapVars
  <2>2. CASE u = t
    <3>1. cur'[u] = SearchNode(t) /\ arg'[u] = p
      BY <2>2, <1>3 DEF TypeOK
    <3>2. pc'[u] \in {"front", "store"} => SearchNode(t) # NULL
      BY <2>2, <1>3 DEF TypeOK
    <3>3. QED
      BY <2>1, <2>2, <3>1, <3>2, SearchOwn
  <2>3. CASE u # t
    BY <2>1, <2>3, <1>3 DEF Claims, TypeOK
  <2>4. QED
    BY <2>2, <2>3
<1>7. Holdings'
  BY <1>1 DEF Holdings, Allocated, heapVars, historyVars
<1>8. QED
  BY <1>4, <1>5, <1>6, <1>7

\* What Malloc does to the parts of the invariant, the caller having an older
\* node of its entry, or none, to follow the new one.
LEMMA MallocParts ==
    ASSUME IInv, NEW t \in Threads,
           NEW rest, rest # NULL => rest \in Allocated /\ Entry[thread_id[rest]] = Entry[t],
           rest \in Nodes \cup {NULL},
           Malloc(t, rest), UNCHANGED <<count, obj, arg, historyVars>>
    PROVE  /\ thread_id' \in [Nodes -> Threads \cup {NULL}]
           /\ next' \in [Nodes -> Nodes \cup {NULL}]
           /\ cur' \in [Threads -> Nodes \cup {NULL}]
           /\ cur'[t] \in NodesOf(t)'
           /\ \A u \in Threads \ {t} : cur'[u] = cur[u]
           /\ \A u \in Threads : NodesOf(u) \subseteq NodesOf(u)'
           /\ Allocated \subseteq Allocated'
           /\ \A n \in Allocated : thread_id'[n] = thread_id[n]
           /\ AllocatedInOrder'
           /\ \A n \in Nodes : next'[n] # NULL =>
                 /\ n \in Allocated' /\ next'[n] \in Allocated'
                 /\ next'[n] < n
                 /\ Entry[thread_id'[next'[n]]] = Entry[thread_id'[n]]
           /\ Holdings'
<1>1. PICK n \in Nodes :
        /\ Allocated = 1..(n - 1)
        /\ thread_id' = [thread_id EXCEPT ![n] = t]
        /\ next' = [next EXCEPT ![n] = rest]
        /\ cur' = [cur EXCEPT ![t] = n]
        /\ Allocated' = 1..n
  BY MallocNew
<1>2. TypeOK /\ AllocatedInOrder /\ Linked /\ Claims /\ Holdings
  BY DEF IInv
<1>3. n \in Nat \ {0} /\ n <= MaxNodes
  BY <1>1, PrivateAssumption DEF Nodes
<1>4. n \notin Allocated /\ thread_id[n] = NULL
  BY <1>1, <1>3 DEF Allocated
<1>5. /\ thread_id' \in [Nodes -> Threads \cup {NULL}]
      /\ next' \in [Nodes -> Nodes \cup {NULL}]
      /\ cur' \in [Threads -> Nodes \cup {NULL}]
  BY <1>1, <1>2 DEF TypeOK
<1>6. thread_id'[n] = t /\ next'[n] = rest /\ cur'[t] = n
  BY <1>1, <1>2 DEF TypeOK
<1>7. \A m \in Nodes \ {n} : thread_id'[m] = thread_id[m] /\ next'[m] = next[m]
  BY <1>1, <1>2 DEF TypeOK
<1>8. \A u \in Threads \ {t} : cur'[u] = cur[u]
  BY <1>1, <1>2 DEF TypeOK
<1>9. cur'[t] \in NodesOf(t)'
  BY <1>1, <1>6 DEF NodesOf
<1>10. \A u \in Threads : NodesOf(u) \subseteq NodesOf(u)'
  BY <1>4, <1>7, PrivateAssumption DEF NodesOf
<1>11. Allocated \subseteq Allocated'
  BY <1>1, <1>3
<1>12. \A m \in Allocated : m \in Nodes \ {n} /\ thread_id'[m] = thread_id[m]
  BY <1>4, <1>7 DEF Allocated
<1>13. AllocatedInOrder'
  <2>1. n \in 0..MaxNodes
    BY <1>3, PrivateAssumption
  <2>2. QED
    BY <2>1, <1>1 DEF AllocatedInOrder
<1>14. ASSUME NEW m \in Nodes, next'[m] # NULL
       PROVE  /\ m \in Allocated' /\ next'[m] \in Allocated'
              /\ next'[m] < m
              /\ Entry[thread_id'[next'[m]]] = Entry[thread_id'[m]]
  <2>1. CASE m = n
    <3>1. rest \in Allocated /\ Entry[thread_id[rest]] = Entry[t]
      BY <2>1, <1>6, <1>14
    <3>2. rest \in 1..(n - 1)
      BY <3>1, <1>1
    <3>3. rest < n
      BY <3>2, <1>3
    <3>4. n \in Allocated'
      BY <1>1, <1>3
    <3>5. QED
      BY <2>1, <3>1, <3>3, <3>4, <1>6, <1>11, <1>12
  <2>2. CASE m # n
    <3>1. next'[m] = next[m]
      BY <2>2, <1>7
    <3>2. /\ m \in Allocated /\ next[m] \in Allocated
          /\ next[m] < m
          /\ Entry[thread_id[next[m]]] = Entry[thread_id[m]]
      BY <3>1, <1>2, <1>14 DEF Linked
    <3>3. QED
      BY <3>1, <3>2, <1>11, <1>12
  <2>3. QED
    BY <2>1, <2>2
<1>15. Holdings'
  <2> SUFFICES ASSUME NEW m \in Nodes, NEW i \in 1..MaxExpandPoints,
                      obj'[m][i] # Zero
               PROVE  m \in Allocated' /\ obj'[m][i] \in stored'[thread_id'[m]]
    BY DEF Holdings, Zero
  <2>1. obj' = obj /\ stored' = stored
    BY DEF historyVars
  <2>2. m \in Allocated /\ obj[m][i] \in stored[thread_id[m]]
    BY <2>1, <1>2 DEF Holdings
  <2>3. QED
    BY <2>1, <2>2, <1>11, <1>12
<1>16. QED
  BY <1>5, <1>8, <1>9, <1>10, <1>11, <1>12, <1>13, <1>14, <1>15

LEMMA AddFirstIInv ==
    ASSUME IInv, NEW t \in Threads, AddFirst(t)
    PROVE  IInv'
<1>1. /\ pc[t] = "first"
      /\ Malloc(t, NULL) /\ UNCHANGED <<count, obj, arg, historyVars>>
      /\ hash_entry_tbl' = [hash_entry_tbl EXCEPT ![Entry[t]] = cur'[t]]
      /\ pc' = [pc EXCEPT ![t] = "store"]
  BY DEF AddFirst, Goto
<1>2. TypeOK /\ AllocatedInOrder /\ Linked /\ Claims /\ Holdings
  BY DEF IInv
<1>3. /\ thread_id' \in [Nodes -> Threads \cup {NULL}]
      /\ next' \in [Nodes -> Nodes \cup {NULL}]
      /\ cur' \in [Threads -> Nodes \cup {NULL}]
      /\ cur'[t] \in NodesOf(t)'
      /\ \A u \in Threads \ {t} : cur'[u] = cur[u]
      /\ \A u \in Threads : NodesOf(u) \subseteq NodesOf(u)'
      /\ Allocated \subseteq Allocated'
      /\ \A n \in Allocated : thread_id'[n] = thread_id[n]
      /\ AllocatedInOrder'
      /\ \A n \in Nodes : next'[n] # NULL =>
            /\ n \in Allocated' /\ next'[n] \in Allocated'
            /\ next'[n] < n
            /\ Entry[thread_id'[next'[n]]] = Entry[thread_id'[n]]
      /\ Holdings'
  BY <1>1, MallocParts
<1>4. cur'[t] \in Nodes /\ thread_id'[cur'[t]] = t
  BY <1>3 DEF NodesOf
<1>5. cur'[t] \in Allocated'
  BY <1>4, PrivateAssumption DEF Allocated
<1>6. TypeOK'
  BY <1>1, <1>2, <1>3, <1>4 DEF TypeOK, historyVars
<1>7. ASSUME NEW e \in Entries, hash_entry_tbl'[e] # NULL
      PROVE  /\ hash_entry_tbl'[e] \in Allocated'
             /\ Entry[thread_id'[hash_entry_tbl'[e]]] = e
  <2>1. CASE e = Entry[t]
    <3>1. hash_entry_tbl'[e] = cur'[t]
      BY <2>1, <1>1, <1>2 DEF TypeOK
    <3>2. QED
      BY <2>1, <3>1, <1>4, <1>5
  <2>2. CASE e # Entry[t]
    <3>1. hash_entry_tbl'[e] = hash_entry_tbl[e]
      BY <2>2, <1>1, <1>2 DEF TypeOK
    <3>2. hash_entry_tbl[e] \in Allocated /\ Entry[thread_id[hash_entry_tbl[e]]] = e
      BY <3>1, <1>2, <1>7 DEF Linked
    <3>3. QED
      BY <3>1, <3>2, <1>3
  <2>3. QED
    BY <2>1, <2>2
<1>8. Linked'
  BY <1>3, <1>7 DEF Linked
<1>9. Claims'
  <2>1. pc'[t] = "store" /\ arg' = arg /\ \A u \in Threads \ {t} : pc'[u] = pc[u]
    BY <1>1, <1>2 DEF TypeOK
  <2>2. QED
    BY <2>1, <1>1, <1>2, <1>3 DEF Claims, Pairs
<1>10. QED
  BY <1>3, <1>6, <1>8, <1>9 DEF IInv

LEMMA AddLinkIInv ==
    ASSUME IInv, NEW t \in Threads, AddLink(t)
    PROVE  IInv'
<1> DEFINE rest == hash_entry_tbl[Entry[t]]
<1>1. /\ pc[t] = "link"
      /\ Malloc(t, rest) /\ UNCHANGED <<count, obj, arg, historyVars>>
      /\ hash_entry_tbl' = hash_entry_tbl
      /\ pc' = [pc EXCEPT ![t] = "front"]
  BY DEF AddLink, Goto
<1>2. TypeOK /\ AllocatedInOrder /\ Linked /\ Claims /\ Holdings
  BY DEF IInv
<1>3. rest \in Nodes \cup {NULL}
  BY <1>2, PrivateAssumption DEF TypeOK
<1>4. rest # NULL => rest \in Allocated /\ Entry[thread_id[rest]] = Entry[t]
  BY <1>2, PrivateAssumption DEF Linked
<1> HIDE DEF rest
<1>5. /\ thread_id' \in [Nodes -> Threads \cup {NULL}]
      /\ next' \in [Nodes -> Nodes \cup {NULL}]
      /\ cur' \in [Threads -> Nodes \cup {NULL}]
      /\ cur'[t] \in NodesOf(t)'
      /\ \A u \in Threads \ {t} : cur'[u] = cur[u]
      /\ \A u \in Threads : NodesOf(u) \subseteq NodesOf(u)'
      /\ Allocated \subseteq Allocated'
      /\ \A n \in Allocated : thread_id'[n] = thread_id[n]
      /\ AllocatedInOrder'
      /\ \A n \in Nodes : next'[n] # NULL =>
            /\ n \in Allocated' /\ next'[n] \in Allocated'
            /\ next'[n] < n
            /\ Entry[thread_id'[next'[n]]] = Entry[thread_id'[n]]
      /\ Holdings'
  BY <1>1, <1>3, <1>4, MallocParts
<1>6. TypeOK'
  BY <1>1, <1>2, <1>5 DEF TypeOK, historyVars
<1>7. Linked'
  BY <1>1, <1>2, <1>5 DEF Linked
<1>8. Claims'
  <2>1. pc'[t] = "front" /\ arg' = arg /\ \A u \in Threads \ {t} : pc'[u] = pc[u]
    BY <1>1, <1>2 DEF TypeOK
  <2>2. QED
    BY <2>1, <1>1, <1>2, <1>5 DEF Claims, Pairs
<1>9. QED
  BY <1>5, <1>6, <1>7, <1>8 DEF IInv

LEMMA AddFrontIInv ==
    ASSUME IInv, NEW t \in Threads, AddFront(t)
    PROVE  IInv'
<1>1. /\ pc[t] = "front"
      /\ hash_entry_tbl' = [hash_entry_tbl EXCEPT ![Entry[t]] = cur[t]]
      /\ pc' = [pc EXCEPT ![t] = "store"]
      /\ UNCHANGED <<thread_id, count, obj, next, cur, arg, historyVars>>
  BY DEF AddFront, Goto
<1>2. TypeOK /\ AllocatedInOrder /\ Linked /\ Claims /\ Holdings
  BY DEF IInv
<1>3. cur[t] \in Nodes /\ thread_id[cur[t]] = t
  BY <1>1, <1>2 DEF Claims, NodesOf
<1>4. cur[t] \in Allocated
  BY <1>3, PrivateAssumption DEF Allocated
<1>5. Allocated' = Allocated
  BY <1>1 DEF Allocated
<1>6. TypeOK'
  BY <1>1, <1>2, <1>3 DEF TypeOK, historyVars
<1>7. ASSUME NEW e \in Entries, hash_entry_tbl'[e] # NULL
      PROVE  /\ hash_entry_tbl'[e] \in Allocated
             /\ Entry[thread_id[hash_entry_tbl'[e]]] = e
  <2>1. CASE e = Entry[t]
    BY <2>1, <1>1, <1>2, <1>3, <1>4 DEF TypeOK
  <2>2. CASE e # Entry[t]
    BY <2>2, <1>1, <1>2, <1>7 DEF TypeOK, Linked
  <2>3. QED
    BY <2>1, <2>2
<1>8. Linked'
  BY <1>1, <1>2, <1>5, <1>7 DEF Linked
<1>9. Claims'
  <2>1. pc'[t] = "store" /\ \A u \in Threads \ {t} : pc'[u] = pc[u]
    BY <1>1, <1>2 DEF TypeOK
  <2>2. \A u \in Threads : NodesOf(u)' = NodesOf(u)
    BY <1>1 DEF NodesOf
  <2>3. QED
    BY <2>1, <2>2, <1>1, <1>2 DEF Claims, Pairs
<1>10. AllocatedInOrder' /\ Holdings'
  BY <1>1, <1>2, <1>5 DEF AllocatedInOrder, Holdings, historyVars
<1>11. QED
  BY <1>6, <1>8, <1>9, <1>10 DEF IInv

LEMMA StoreIInv ==
    ASSUME IInv, NEW t \in Threads, Store(t)
    PROVE  IInv'
<1> DEFINE n == cur[t]
           i == count[n] + 1
           Stores == /\ ~Full(n)
                     /\ obj' = [obj EXCEPT ![n][i] = arg[t]]
                     /\ count' = [count EXCEPT ![n] = i]
                     /\ inserted' = [inserted EXCEPT ![t] = @ \cup {arg[t]}]
                     /\ stored' = [stored EXCEPT ![t] = @ \cup {arg[t]}]
<1>1. /\ pc[t] = "store"
      /\ pc' = [pc EXCEPT ![t] = "command"]
      /\ cur' = [cur EXCEPT ![t] = NULL]
      /\ arg' = [arg EXCEPT ![t] = Zero]
      /\ UNCHANGED <<hash_entry_tbl, thread_id, next, commands, left>>
  BY DEF Store, Goto
<1>2. TypeOK /\ AllocatedInOrder /\ Linked /\ Claims /\ Holdings
  BY DEF IInv
<1>3. n \in Nodes /\ thread_id[n] = t /\ arg[t] \in Pairs
  BY <1>1, <1>2 DEF Claims, NodesOf
<1>4. Stores \/ UNCHANGED <<obj, count, inserted, stored>>
  BY DEF Store
<1>5. ~Full(n) => i \in 1..MaxExpandPoints
  BY <1>2, <1>3, PrivateAssumption DEF Full, TypeOK
<1>6. ASSUME ~Full(n), obj' = [obj EXCEPT ![n][i] = arg[t]]
      PROVE  /\ obj' \in [Nodes -> [1..MaxExpandPoints -> Pairs \cup {Zero}]]
             /\ \A m \in Nodes, j \in 1..MaxExpandPoints :
                   obj'[m][j] = IF m = n /\ j = i THEN arg[t] ELSE obj[m][j]
  BY <1>2, <1>3, <1>5, <1>6 DEF TypeOK
<1> HIDE DEF n, i
<1>7. TypeOK'
  <2>1. /\ pc' \in [Threads -> {"idle", "command", "first", "link", "front", "store"}]
        /\ cur' \in [Threads -> Nodes \cup {NULL}]
        /\ arg' \in [Threads -> Pairs \cup {Zero}]
        /\ hash_entry_tbl' \in [Entries -> Nodes \cup {NULL}]
        /\ thread_id' \in [Nodes -> Threads \cup {NULL}]
        /\ next' \in [Nodes -> Nodes \cup {NULL}]
        /\ commands' \in [Threads -> 0..MaxCommands]
        /\ left' \in [Threads -> SUBSET Pairs]
    BY <1>1, <1>2 DEF TypeOK, Pairs, Zero
  <2>2. /\ obj' \in [Nodes -> [1..MaxExpandPoints -> Pairs \cup {Zero}]]
        /\ count' \in [Nodes -> 0..MaxExpandPoints]
        /\ inserted' \in [Threads -> SUBSET Pairs]
        /\ stored' \in [Threads -> SUBSET Pairs]
    <3>1. CASE UNCHANGED <<obj, count, inserted, stored>>
      BY <3>1, <1>2 DEF TypeOK, Pairs, Zero
    <3>2. CASE Stores
      <4>1. ~Full(n) /\ obj' = [obj EXCEPT ![n][i] = arg[t]]
        BY <3>2
      <4>2. i \in 0..MaxExpandPoints
        BY <4>1, <1>5
      <4>3. obj' \in [Nodes -> [1..MaxExpandPoints -> Pairs \cup {Zero}]]
        BY <4>1, <1>6
      <4>4. /\ count' \in [Nodes -> 0..MaxExpandPoints]
            /\ inserted' \in [Threads -> SUBSET Pairs]
            /\ stored' \in [Threads -> SUBSET Pairs]
        BY <3>2, <4>2, <1>2, <1>3 DEF TypeOK
      <4>5. QED
        BY <4>3, <4>4
    <3>3. QED
      BY <3>1, <3>2, <1>4
  <2>3. QED
    BY <2>1, <2>2 DEF TypeOK, Pairs, Zero
<1>8. AllocatedInOrder' /\ Linked'
  BY <1>1, <1>2 DEF AllocatedInOrder, Linked, Allocated
<1>9. Claims'
  <2>1. pc'[t] = "command" /\ \A u \in Threads \ {t} : pc'[u] = pc[u] /\ cur'[u] = cur[u] /\ arg'[u] = arg[u]
    BY <1>1, <1>2 DEF TypeOK
  <2>2. \A u \in Threads : NodesOf(u)' = NodesOf(u)
    BY <1>1 DEF NodesOf
  <2>3. QED
    BY <2>1, <2>2, <1>2 DEF Claims, Pairs
<1>10. Holdings'
  <2> SUFFICES ASSUME NEW m \in Nodes, NEW j \in 1..MaxExpandPoints,
                      obj'[m][j] # Zero
               PROVE  m \in Allocated /\ obj'[m][j] \in stored'[thread_id[m]]
    BY <1>1 DEF Holdings, Allocated, Zero
  <2>1. CASE UNCHANGED <<obj, count, inserted, stored>>
    BY <2>1, <1>2 DEF Holdings
  <2>2. CASE Stores
    <3>1. ~Full(n) /\ obj' = [obj EXCEPT ![n][i] = arg[t]]
      BY <2>2
    <3>2. obj'[m][j] = IF m = n /\ j = i THEN arg[t] ELSE obj[m][j]
      BY <3>1, <1>6
    <3>3. \A u \in Threads : stored[u] \subseteq stored'[u]
      BY <2>2, <1>2, <1>3 DEF TypeOK
    <3>4. arg[t] \in stored'[t]
      BY <2>2, <1>2, <1>3 DEF TypeOK
    <3>5. CASE m = n /\ j = i
      BY <3>2, <3>4, <3>5, <1>3, PrivateAssumption DEF Allocated
    <3>6. CASE ~(m = n /\ j = i)
      <4>1. m \in Allocated /\ obj[m][j] \in stored[thread_id[m]]
        BY <3>2, <3>6, <1>2 DEF Holdings
      <4>2. thread_id[m] \in Threads
        BY <4>1, <1>2 DEF Allocated, TypeOK
      <4>3. QED
        BY <4>1, <4>2, <3>2, <3>3, <3>6
    <3>7. QED
      BY <3>5, <3>6
  <2>3. QED
    BY <2>1, <2>2, <1>4
<1>11. QED
  BY <1>7, <1>8, <1>9, <1>10 DEF IInv

LEMMA BeginCommandIInv ==
    ASSUME IInv, NEW t \in Threads, BeginCommand(t)
    PROVE  IInv'
<1> USE DEF IInv
<1>1. /\ pc[t] = "idle" /\ commands[t] < MaxCommands
      /\ pc' = [pc EXCEPT ![t] = "command"]
      /\ commands' = [commands EXCEPT ![t] = @ + 1]
      /\ inserted' = [inserted EXCEPT ![t] = {}]
      /\ UNCHANGED <<heapVars, cur, arg, left, stored>>
  BY DEF BeginCommand, Goto
<1>2. commands' \in [Threads -> 0..MaxCommands]
  BY <1>1, PrivateAssumption DEF TypeOK
<1>3. TypeOK'
  BY <1>1, <1>2 DEF TypeOK, heapVars, Pairs, Zero
<1>4. AllocatedInOrder' /\ Linked' /\ Holdings'
  BY <1>1 DEF AllocatedInOrder, Linked, Holdings, Allocated, heapVars
<1>5. Claims'
  BY <1>1 DEF Claims, NodesOf, heapVars, TypeOK, Pairs
<1>6. QED
  BY <1>3, <1>4, <1>5

LEMMA EndCommandIInv ==
    ASSUME IInv, NEW t \in Threads, EndCommand(t)
    PROVE  IInv'
<1> USE DEF IInv
<1>1. /\ pc' = [pc EXCEPT ![t] = "idle"]
      /\ UNCHANGED <<hash_entry_tbl, thread_id, count, next, cur, arg, historyVars>>
      /\ obj' = obj \/ \E n \in NodesOf(t) : obj' = [obj EXCEPT ![n] = Cleared(@)]
  BY SearchOwn DEF EndCommand, Goto
<1>2. /\ obj' \in [Nodes -> [1..MaxExpandPoints -> Pairs \cup {Zero}]]
      /\ \A m \in Nodes, i \in 1..MaxExpandPoints : obj'[m][i] \in {obj[m][i], Zero}
  <2>1. obj \in [Nodes -> [1..MaxExpandPoints -> Pairs \cup {Zero}]]
    BY DEF TypeOK
  <2>2. CASE obj' = obj
    BY <2>1, <2>2
  <2>3. CASE \E n \in NodesOf(t) : obj' = [obj EXCEPT ![n] = Cleared(@)]
    <3>1. PICK n \in Nodes : obj' = [obj EXCEPT ![n] = Cleared(obj[n])]
      BY <2>3, NodesOfNodes
    <3>2. /\ Cleared(obj[n]) \in [1..MaxExpandPoints -> Pairs \cup {Zero}]
          /\ \A i \in 1..MaxExpandPoints : Cleared(obj[n])[i] = Zero
      BY DEF Cleared
    <3>3. QED
      BY <2>1, <3>1, <3>2
  <2>4. QED
    BY <1>1, <2>2, <2>3
<1>3. TypeOK'
  BY <1>1, <1>2 DEF TypeOK, historyVars, Pairs, Zero
<1>4. AllocatedInOrder' /\ Linked'
  BY <1>1 DEF AllocatedInOrder, Linked, Allocated
<1>5. Holdings'
  BY <1>1, <1>2 DEF Holdings, Allocated, historyVars, Zero
<1>6. Claims'
  BY <1>1 DEF Claims, NodesOf, TypeOK, Pairs
<1>7. QED
  BY <1>3, <1>4, <1>5, <1>6

LEMMA CancelLinkIInv ==
    ASSUME IInv, NEW t \in Threads, CancelLink(t)
    PROVE  IInv'
<1> USE DEF IInv
<1>1. /\ pc' = [pc EXCEPT ![t] = "idle"]
      /\ left' = [left EXCEPT ![t] = @ \cup inserted[t]]
      /\ UNCHANGED <<heapVars, cur, arg, commands, inserted, stored>>
  BY DEF CancelLink, Goto
<1>2. TypeOK'
  BY <1>1 DEF TypeOK, heapVars, Pairs, Zero
<1>3. AllocatedInOrder' /\ Linked' /\ Holdings'
  BY <1>1 DEF AllocatedInOrder, Linked, Holdings, Allocated, heapVars
<1>4. Claims'
  BY <1>1 DEF Claims, NodesOf, heapVars, TypeOK, Pairs
<1>5. QED
  BY <1>2, <1>3, <1>4

LEMMA StepIInv == IInv /\ [Next]_vars => IInv'
<1> SUFFICES ASSUME IInv, [Next]_vars PROVE IInv'
  OBVIOUS
<1>1. ASSUME NEW t \in Threads, NEW p \in Pairs, Insert(t, p)
      PROVE  IInv'
  BY <1>1, InsertIInv
<1>2. ASSUME NEW t \in Threads, AddNode(t)
      PROVE  IInv'
  BY <1>2, AddFirstIInv, AddLinkIInv, AddFrontIInv DEF AddNode
<1>3. ASSUME NEW t \in Threads, Store(t)
      PROVE  IInv'
  BY <1>3, StoreIInv
<1>4. ASSUME NEW t \in Threads, BeginCommand(t)
      PROVE  IInv'
  BY <1>4, BeginCommandIInv
<1>5. ASSUME NEW t \in Threads, EndCommand(t)
      PROVE  IInv'
  BY <1>5, EndCommandIInv
<1>6. ASSUME NEW t \in Threads, CancelLink(t)
      PROVE  IInv'
  BY <1>6, CancelLinkIInv
<1>7. CASE UNCHANGED vars
  BY <1>7 DEF vars, heapVars, historyVars, IInv, TypeOK, AllocatedInOrder, Linked,
              Claims, Holdings, Allocated, NodesOf, Pairs, Zero
<1>8. QED
  BY <1>1, <1>2, <1>3, <1>4, <1>5, <1>6, <1>7 DEF Next

-----------------------------------------------------------------------------
(* A thread alone on its entry *)

(* AloneIsExact needs that such a thread has one node at most and that its entry
   points to it (OneNode), so that it never puts a node in front of another; that
   what the node holds up to its count is zero, or a pair of this command or of
   one that was cancelled, and of none between two commands (Kept); and that it
   holds every pair this command has inserted (Found). *)

Head(t) == hash_entry_tbl[Entry[t]]

OneNode(t) ==
    /\ NodesOf(t) = {Head(t)} \ {NULL}
    /\ pc[t] \notin {"link", "front"}
    /\ pc[t] = "first" => Head(t) = NULL

Current(t) == IF pc[t] = "idle" THEN {} ELSE inserted[t]

Kept(t) ==
    Head(t) # NULL =>
        \A i \in 1..count[Head(t)] :
            obj[Head(t)][i] \in {Zero} \cup Current(t) \cup left[t]

Found(t) ==
    \A p \in Current(t) :
        Head(t) # NULL /\ \E i \in 1..count[Head(t)] : obj[Head(t)][i] = p

AloneInv == \A t \in Threads : Alone(t) => OneNode(t) /\ Kept(t) /\ Found(t)

\* SearchNode walks past the node it starts from: the lists being finite, there
\* is a function ListFrom stands for.
LEMMA FromItself ==
    ASSUME IInv, NEW n \in Nodes
    PROVE  n \in ListFrom[n]
<1>. DEFINE Right(f, i) == f[i] = IF i = NULL THEN {} ELSE {i} \cup f[next[i]]
            Upto(k) == \E f \in [0..MaxNodes -> SUBSET Nodes] : \A i \in 0..k : Right(f, i)
            T == {k \in Nat : k <= MaxNodes => Upto(k)}
<1>1. /\ MaxNodes \in Nat /\ NULL = 0 /\ Nodes = 1..MaxNodes
      /\ \A i \in Nodes : next[i] \in 0..MaxNodes /\ next[i] < i
  <2>1. ASSUME NEW i \in Nodes PROVE next[i] \in 0..MaxNodes /\ next[i] < i
    <3>1. next[i] \in Nodes \cup {NULL} /\ (next[i] # NULL => next[i] < i)
      BY DEF IInv, TypeOK, Linked
    <3>. QED
      BY <3>1, PrivateAssumption DEF Nodes, NULL
  <2>. QED
    BY <2>1, PrivateAssumption DEF NULL, Nodes
<1>2. 0 \in T
  <2>. DEFINE f == [i \in 0..MaxNodes |-> {}]
  <2>1. f \in [0..MaxNodes -> SUBSET Nodes] /\ \A i \in 0..0 : Right(f, i)
    BY <1>1
  <2>. HIDE DEF f, Right
  <2>2. Upto(0)
    BY <2>1
  <2>. HIDE DEF Upto
  <2>. QED
    BY <2>2
<1>3. ASSUME NEW k \in Nat, k \in T PROVE k + 1 \in T
  <2>. SUFFICES ASSUME k + 1 <= MaxNodes PROVE Upto(k + 1)
    <3>. HIDE DEF Upto
    <3>. QED
      OBVIOUS
  <2>0. Upto(k)
    <3>. HIDE DEF Upto
    <3>. QED
      BY <1>1, <1>3
  <2>1. PICK f \in [0..MaxNodes -> SUBSET Nodes] : \A i \in 0..k : Right(f, i)
    <3>. HIDE DEF Right
    <3>. QED
      BY <2>0
  <2>. DEFINE g == [f EXCEPT ![k + 1] = {k + 1} \cup f[next[k + 1]]]
  <2>2. k + 1 \in Nodes /\ k + 1 \in 0..MaxNodes /\ next[k + 1] \in 0..MaxNodes
        /\ next[k + 1] # k + 1
    BY <1>1
  <2>3. /\ g \in [0..MaxNodes -> SUBSET Nodes]
        /\ g[k + 1] = {k + 1} \cup f[next[k + 1]]
        /\ \A i \in 0..MaxNodes : i # k + 1 => g[i] = f[i]
    BY <2>1, <2>2
  <2>. HIDE DEF g
  <2>4. ASSUME NEW i \in 0..(k + 1) PROVE Right(g, i)
    <3>1. CASE i = k + 1
      <4>1. g[next[k + 1]] = f[next[k + 1]] /\ k + 1 # NULL
        BY <1>1, <2>2, <2>3
      <4>2. g[k + 1] = {k + 1} \cup g[next[k + 1]]
        BY <2>3, <4>1
      <4>. QED
        BY <3>1, <4>1, <4>2
    <3>2. CASE i # k + 1
      <4>1. i \in 0..k /\ i \in 0..MaxNodes /\ g[i] = f[i]
        BY <1>1, <2>3, <3>2
      <4>2. i # NULL => g[next[i]] = f[next[i]]
        <5>1. i # NULL => /\ i \in Nodes /\ next[i] \in 0..MaxNodes
                          /\ next[i] # k + 1
          BY <1>1, <4>1
        <5>. QED
          BY <2>3, <5>1
      <4>. QED
        BY <2>1, <4>1, <4>2
    <3>. QED
      BY <3>1, <3>2
  <2>. HIDE DEF Right
  <2>. QED
    BY <2>3, <2>4
<1>4. MaxNodes \in T
  <2>1. \A k \in Nat : k \in T => k + 1 \in T
    BY <1>3
  <2>. HIDE DEF T
  <2>. QED
    BY <1>1, <1>2, <2>1, SetInduction
<1>5. PICK f \in [0..MaxNodes -> SUBSET Nodes] : \A i \in 0..MaxNodes : Right(f, i)
  <2>1. Upto(MaxNodes)
    <3>. HIDE DEF Upto
    <3>. QED
      BY <1>1, <1>4
  <2>. HIDE DEF Right
  <2>. QED
    BY <2>1
<1>6. f = [i \in 0..MaxNodes |-> IF i = NULL THEN {} ELSE {i} \cup f[next[i]]]
  BY <1>5
<1>7. ListFrom = [i \in 0..MaxNodes |->
                     IF i = NULL THEN {} ELSE {i} \cup ListFrom[next[i]]]
  BY <1>6, Zenon DEF ListFrom
<1>8. n \in 0..MaxNodes /\ n # NULL
  BY <1>1
<1>9. ListFrom[n] = {n} \cup ListFrom[next[n]]
  BY <1>7, <1>8, Zenon
<1>. QED
  BY <1>9

\* The thread finds its only node, if it has one.
LEMMA SearchAlone ==
    ASSUME IInv, NEW t \in Threads, OneNode(t)
    PROVE  SearchNode(t) = Head(t)
<1>. DEFINE found == ListFrom[Head(t)] \cap NodesOf(t)
            first == {n \in found : \A m \in found : m <= n}
<1>1. SearchNode(t) = IF first = {} THEN NULL ELSE CHOOSE n \in first : TRUE
  BY DEF SearchNode, Head
<1>2. Head(t) \in Nodes \cup {NULL}
  BY PrivateAssumption DEF IInv, TypeOK, Head
<1>3. CASE Head(t) = NULL
  <2>1. found = {}
    BY <1>3 DEF OneNode
  <2>2. first = {}
    BY <2>1
  <2>. QED
    BY <1>1, <1>3, <2>2
<1>4. CASE Head(t) # NULL
  <2>1. Head(t) \in ListFrom[Head(t)]
    BY <1>2, <1>4, FromItself
  <2>2. found = {Head(t)}
    BY <1>4, <2>1 DEF OneNode
  <2>3. Head(t) <= Head(t)
    BY <1>2, <1>4, PrivateAssumption DEF Nodes
  <2>. HIDE DEF found
  <2>4. first = {Head(t)}
    BY <2>2, <2>3
  <2>. HIDE DEF first
  <2>. QED
    BY <1>1, <2>4
<1>. QED
  BY <1>3, <1>4

\* A query finds a pair for the handle when the node holds one, and only then.
LEMMA QueryAlone ==
    ASSUME IInv, NEW t \in Threads, OneNode(t), NEW h \in Handles
    PROVE  /\ QueryPrivateData(t, h) # 0 =>
                 /\ Head(t) # NULL
                 /\ \E i \in 1..count[Head(t)] :
                       obj[Head(t)][i] = <<h, QueryPrivateData(t, h)>>
           /\ (/\ Head(t) # NULL
               /\ \E i \in 1..count[Head(t)] : obj[Head(t)][i] \in Pairs
                                              /\ obj[Head(t)][i][1] = h)
                 => QueryPrivateData(t, h) # 0
<1>. DEFINE n == SearchNode(t)
            hits == {i \in 1..count[n] : obj[n][i][1] = h}
            first == {i \in hits : \A j \in hits : i <= j}
            at == CHOOSE i \in first : TRUE
<1>1. QueryPrivateData(t, h) = IF n = NULL THEN 0
                               ELSE IF first = {} THEN 0 ELSE obj[n][at][2]
  BY DEF QueryPrivateData
<1>2. n = Head(t) /\ n \in Nodes \cup {NULL}
  BY SearchAlone, PrivateAssumption DEF IInv, TypeOK, Head
<1>. HIDE DEF n
<1>3. ASSUME n # NULL, NEW i \in 1..count[n], obj[n][i][1] = h
      PROVE  obj[n][i] \in Pairs
  <2>1. n \in Nodes /\ count[n] \in 0..MaxExpandPoints
        /\ obj[n] \in [1..MaxExpandPoints -> Pairs \cup {Zero}]
    BY <1>2, <1>3 DEF IInv, TypeOK
  <2>2. i \in 1..MaxExpandPoints
    BY <2>1, PrivateAssumption
  <2>3. obj[n][i] \in Pairs \cup {Zero}
    BY <2>1, <2>2
  <2>4. h # 0
    BY PrivateAssumption
  <2>. QED
    BY <1>3, <2>3, <2>4 DEF Zero
<1>4. ASSUME n # NULL, first # {}
      PROVE  /\ at \in 1..count[n] /\ obj[n][at] = <<h, QueryPrivateData(t, h)>>
             /\ QueryPrivateData(t, h) # 0
  <2>1. at \in first
    BY <1>4
  <2>2. at \in 1..count[n] /\ obj[n][at][1] = h
    BY <2>1
  <2>3. obj[n][at] \in Handles \X Sizes
    BY <1>3, <1>4, <2>2 DEF Pairs
  <2>4. obj[n][at] = <<obj[n][at][1], obj[n][at][2]>> /\ obj[n][at][2] \in Sizes
    <3>. HIDE DEF at, first, hits
    <3>1. PICK g \in Handles, z \in Sizes : obj[n][at] = <<g, z>>
      BY <2>3
    <3>. QED
      BY <3>1
  <2>5. QueryPrivateData(t, h) = obj[n][at][2]
    BY <1>1, <1>4
  <2>. QED
    BY <2>2, <2>4, <2>5, PrivateAssumption
<1>5. ASSUME hits # {}, n # NULL PROVE first # {}
  <2>1. count[n] \in Nat
    BY <1>2, <1>5, PrivateAssumption DEF IInv, TypeOK
  <2>2. hits \subseteq Nat
    BY <2>1
  <2>. HIDE DEF hits
  <2>3. \E i \in hits : \A j \in hits : i <= j
    BY <1>5, <2>2, LeastElement
  <2>. QED
    BY <2>3
<1>6. ASSUME QueryPrivateData(t, h) # 0
      PROVE  n # NULL /\ \E i \in 1..count[n] : obj[n][i] = <<h, QueryPrivateData(t, h)>>
  <2>1. n # NULL /\ first # {}
    BY <1>1, <1>6
  <2>. QED
    BY <1>4, <2>1
<1>7. ASSUME n # NULL, NEW i \in 1..count[n], obj[n][i] \in Pairs, obj[n][i][1] = h
      PROVE  QueryPrivateData(t, h) # 0
  <2>1. hits # {}
    BY <1>7
  <2>. HIDE DEF hits, first
  <2>. QED
    BY <1>4, <1>5, <1>7, <2>1
<1>. HIDE DEF hits, first, at
<1>. QED
  BY <1>2, <1>6, <1>7

\* What another thread, or no thread, leaves alone of one alone on its entry.
LEMMA Untouched ==
    ASSUME NEW t \in Threads, OneNode(t), Kept(t), Found(t), Head(t) \in Nodes \cup {NULL},
           NodesOf(t)' = NodesOf(t), Head(t)' = Head(t),
           pc'[t] = pc[t], inserted'[t] = inserted[t], left'[t] = left[t],
           \A n \in NodesOf(t) : count'[n] = count[n] /\ obj'[n] = obj[n]
    PROVE  OneNode(t)' /\ Kept(t)' /\ Found(t)'
<1>1. Head(t) # NULL => count'[Head(t)] = count[Head(t)] /\ obj'[Head(t)] = obj[Head(t)]
  BY DEF OneNode
<1>2. Current(t)' = Current(t)
  BY DEF Current
<1>3. OneNode(t)'
  BY DEF OneNode
<1>4. Kept(t)'
  BY <1>1, <1>2 DEF Kept, Zero
<1>5. Found(t)'
  BY <1>1, <1>2 DEF Found
<1>. QED
  BY <1>3, <1>4, <1>5

\* A node made for one thread is no other's.
LEMMA MallocOthers ==
    ASSUME IInv, NEW t \in Threads, NEW u \in Threads \ {t}, NEW rest, Malloc(u, rest)
    PROVE  NodesOf(t)' = NodesOf(t)
<1>1. PICK n \in Nodes :
        /\ Allocated = 1..(n - 1) /\ thread_id' = [thread_id EXCEPT ![n] = u]
  BY MallocNew
<1>2. n \notin Allocated
  BY <1>1, PrivateAssumption DEF Nodes
<1>3. thread_id \in [Nodes -> Threads \cup {NULL}]
  BY DEF IInv, TypeOK
<1>4. n \notin NodesOf(t)
  BY <1>2, PrivateAssumption DEF NodesOf, Allocated
<1>. QED
  BY <1>1, <1>3, <1>4 DEF NodesOf

\* Steps of the other threads touch neither its entry nor its node.
LEMMA OthersLeaveIt ==
    ASSUME IInv, NEW t \in Threads, Alone(t), NEW u \in Threads \ {t},
           OneNode(t), Kept(t), Found(t),
           \/ \E p \in Pairs : Insert(u, p)
           \/ AddNode(u) \/ Store(u)
           \/ BeginCommand(u) \/ EndCommand(u) \/ CancelLink(u)
    PROVE  OneNode(t)' /\ Kept(t)' /\ Found(t)'
<1>1. /\ TypeOK /\ Claims /\ Entry[u] # Entry[t]
      /\ Entry[u] \in Entries /\ Entry[t] \in Entries
      /\ Head(t) \in Nodes \cup {NULL}
  BY PrivateAssumption DEF IInv, Alone, TypeOK, Head
<1>2. \A n \in NodesOf(u) : n \in Nodes /\ n \notin NodesOf(t)
  BY DEF NodesOf
<1>3. \A n \in NodesOf(t) : n \in Nodes
  BY DEF NodesOf
<1>4. ASSUME NEW p \in Pairs, Insert(u, p) PROVE OneNode(t)' /\ Kept(t)' /\ Found(t)'
  <2>1. UNCHANGED <<heapVars, historyVars>> /\ \E w : pc' = [pc EXCEPT ![u] = w]
    BY <1>4 DEF Insert, Goto
  <2>2. UNCHANGED <<hash_entry_tbl, thread_id, count, obj, inserted, left>>
    BY <2>1 DEF heapVars, historyVars
  <2>3. pc'[t] = pc[t] /\ NodesOf(t)' = NodesOf(t) /\ Head(t)' = Head(t)
    BY <1>1, <2>1, <2>2 DEF TypeOK, NodesOf, Head
  <2>. QED
    BY <1>1, <2>2, <2>3, Untouched
<1>5. CASE AddNode(u)
  <2>1. /\ UNCHANGED <<count, obj, inserted, left>>
        /\ \E w : pc' = [pc EXCEPT ![u] = w]
    BY <1>5 DEF AddNode, AddFirst, AddLink, AddFront, Goto, historyVars
  <2>2. pc'[t] = pc[t]
    BY <1>1, <2>1 DEF TypeOK
  <2>3. \/ UNCHANGED thread_id
        \/ \E rest : Malloc(u, rest)
    BY <1>5 DEF AddNode, AddFirst, AddLink, AddFront
  <2>4. NodesOf(t)' = NodesOf(t)
    BY <2>3, MallocOthers DEF NodesOf
  <2>5. \/ UNCHANGED hash_entry_tbl
        \/ \E n : hash_entry_tbl' = [hash_entry_tbl EXCEPT ![Entry[u]] = n]
    BY <1>5 DEF AddNode, AddFirst, AddLink, AddFront
  <2>6. Head(t)' = Head(t)
    BY <1>1, <2>5 DEF Head, TypeOK
  <2>. QED
    BY <1>1, <2>1, <2>2, <2>4, <2>6, Untouched
<1>6. CASE Store(u)
  <2>. DEFINE n == cur[u]
  <2>1. /\ pc[u] = "store" /\ pc' = [pc EXCEPT ![u] = "command"]
        /\ UNCHANGED <<hash_entry_tbl, thread_id, left>>
    BY <1>6 DEF Store, Goto
  <2>2. n \in NodesOf(u)
    BY <1>1, <2>1 DEF Claims
  <2>3. \/ UNCHANGED <<obj, count, inserted>>
        \/ /\ \E o : obj' = [obj EXCEPT ![n] = o]
           /\ count' = [count EXCEPT ![n] = @ + 1]
           /\ inserted' = [inserted EXCEPT ![u] = @ \cup {arg[u]}]
    BY <1>6, Zenon DEF Store
  <2>. HIDE DEF n
  <2>4. \A m \in NodesOf(t) : count'[m] = count[m] /\ obj'[m] = obj[m]
    BY <1>1, <1>2, <1>3, <2>2, <2>3 DEF TypeOK
  <2>5. inserted'[t] = inserted[t] /\ pc'[t] = pc[t]
    BY <1>1, <2>1, <2>3 DEF TypeOK
  <2>6. NodesOf(t)' = NodesOf(t) /\ Head(t)' = Head(t) /\ left'[t] = left[t]
    BY <2>1 DEF NodesOf, Head
  <2>. QED
    BY <1>1, <2>4, <2>5, <2>6, Untouched
<1>7. CASE BeginCommand(u) \/ CancelLink(u)
  <2>1. /\ UNCHANGED <<hash_entry_tbl, thread_id, count, obj>>
        /\ \E w : pc' = [pc EXCEPT ![u] = w]
        /\ UNCHANGED inserted \/ inserted' = [inserted EXCEPT ![u] = {}]
        /\ UNCHANGED left \/ left' = [left EXCEPT ![u] = @ \cup inserted[u]]
    BY <1>7 DEF BeginCommand, CancelLink, Goto, heapVars
  <2>2. pc'[t] = pc[t] /\ inserted'[t] = inserted[t] /\ left'[t] = left[t]
    BY <1>1, <2>1 DEF TypeOK
  <2>3. NodesOf(t)' = NodesOf(t) /\ Head(t)' = Head(t)
    BY <2>1 DEF NodesOf, Head
  <2>. QED
    BY <1>1, <2>1, <2>2, <2>3, Untouched
<1>8. CASE EndCommand(u)
  <2>1. /\ pc' = [pc EXCEPT ![u] = "idle"]
        /\ UNCHANGED <<hash_entry_tbl, thread_id, count, inserted, left>>
        /\ obj' = obj \/ \E n \in NodesOf(u) : obj' = [obj EXCEPT ![n] = Cleared(@)]
    BY <1>8, SearchOwn DEF EndCommand, Goto, historyVars
  <2>2. \A m \in NodesOf(t) : obj'[m] = obj[m]
    BY <1>1, <1>2, <1>3, <2>1 DEF TypeOK
  <2>3. pc'[t] = pc[t] /\ NodesOf(t)' = NodesOf(t) /\ Head(t)' = Head(t)
    BY <1>1, <2>1 DEF TypeOK, NodesOf, Head
  <2>. QED
    BY <1>1, <2>1, <2>2, <2>3, Untouched
<1>. QED
  BY <1>4, <1>5, <1>6, <1>7, <1>8

\* The thread's own steps keep its node the only one,
LEMMA OneNodeStep ==
    ASSUME IInv, NEW t \in Threads, OneNode(t),
           \/ \E p \in Pairs : Insert(t, p)
           \/ AddNode(t) \/ Store(t)
           \/ BeginCommand(t) \/ EndCommand(t) \/ CancelLink(t)
    PROVE  OneNode(t)'
<1>1. TypeOK /\ SearchNode(t) = Head(t) /\ Entry[t] \in Entries
  BY SearchAlone, PrivateAssumption DEF IInv
<1>2. ASSUME NEW p \in Pairs, Insert(t, p) PROVE OneNode(t)'
  <2>1. UNCHANGED <<hash_entry_tbl, thread_id>>
    BY <1>2 DEF Insert, heapVars
  <2>2. pc'[t] = IF Head(t) = NULL THEN "first" ELSE "store"
    BY <1>1, <1>2 DEF Insert, Goto, TypeOK, Head
  <2>. QED
    BY <2>1, <2>2 DEF OneNode, NodesOf, Head
<1>3. CASE AddNode(t)
  <2>1. AddFirst(t) /\ pc[t] = "first" /\ Head(t) = NULL
    BY <1>3 DEF AddNode, AddFirst, AddLink, AddFront, OneNode
  <2>2. /\ Malloc(t, NULL) /\ pc'[t] = "store"
        /\ hash_entry_tbl' = [hash_entry_tbl EXCEPT ![Entry[t]] = cur'[t]]
    BY <1>1, <2>1 DEF AddFirst, Goto, TypeOK
  <2>3. PICK n \in Nodes :
          /\ thread_id' = [thread_id EXCEPT ![n] = t]
          /\ cur' = [cur EXCEPT ![t] = n]
    BY <2>2, MallocNew
  <2>4. NodesOf(t)' = NodesOf(t) \cup {n} /\ NodesOf(t) = {}
    BY <1>1, <2>1, <2>3 DEF NodesOf, TypeOK, OneNode
  <2>5. Head(t)' = n /\ n # NULL
    BY <1>1, <2>2, <2>3, PrivateAssumption DEF Head, TypeOK, Nodes, NULL
  <2>. QED
    BY <2>2, <2>4, <2>5 DEF OneNode, NULL
<1>4. CASE Store(t) \/ BeginCommand(t) \/ EndCommand(t) \/ CancelLink(t)
  <2>1. UNCHANGED <<hash_entry_tbl, thread_id>>
    BY <1>4 DEF Store, BeginCommand, EndCommand, CancelLink, heapVars
  <2>2. pc'[t] \in {"command", "idle"}
    BY <1>1, <1>4 DEF Store, BeginCommand, EndCommand, CancelLink, Goto, TypeOK
  <2>. QED
    BY <2>1, <2>2 DEF OneNode, NodesOf, Head
<1>. QED
  BY <1>2, <1>3, <1>4

\* and keep what it holds known: a pair is stored in it, or all are zeroed, or
\* left to the next command by a cancellation.
LEMMA ContentStep ==
    ASSUME IInv, NEW t \in Threads, OneNode(t), Kept(t), Found(t),
           \/ \E p \in Pairs : Insert(t, p)
           \/ AddNode(t) \/ Store(t)
           \/ BeginCommand(t) \/ EndCommand(t) \/ CancelLink(t)
    PROVE  Kept(t)' /\ Found(t)'
<1>1. /\ TypeOK /\ SearchNode(t) = Head(t) /\ Entry[t] \in Entries
      /\ Head(t) \in Nodes \cup {NULL}
      /\ inserted \in [Threads -> SUBSET Pairs] /\ left \in [Threads -> SUBSET Pairs]
      /\ obj \in [Nodes -> [1..MaxExpandPoints -> Pairs \cup {Zero}]]
  BY SearchAlone, PrivateAssumption DEF IInv, TypeOK, Head
<1>2. \A n \in Nodes : count[n] \in 0..MaxExpandPoints /\ count[n] \in Nat
                       /\ 1..count[n] \subseteq 1..MaxExpandPoints
  BY <1>1, PrivateAssumption DEF TypeOK
<1>3. ASSUME UNCHANGED <<hash_entry_tbl, count, obj>>,
             Current(t)' = Current(t), left'[t] = left[t]
      PROVE  Kept(t)' /\ Found(t)'
  BY <1>3 DEF Kept, Found, Head, Zero
<1>4. ASSUME NEW p \in Pairs, Insert(t, p) PROVE Kept(t)' /\ Found(t)'
  <2>1. UNCHANGED <<hash_entry_tbl, count, obj, inserted, left>>
    BY <1>4 DEF Insert, heapVars, historyVars
  <2>2. pc[t] = "command" /\ pc'[t] # "idle"
    BY <1>1, <1>4 DEF Insert, Goto, TypeOK
  <2>3. Current(t)' = Current(t)
    BY <2>1, <2>2 DEF Current
  <2>. QED
    BY <1>3, <2>1, <2>3
<1>5. CASE AddNode(t)
  <2>1. AddFirst(t) /\ pc[t] = "first" /\ Head(t) = NULL
    BY <1>5 DEF AddNode, AddFirst, AddLink, AddFront, OneNode
  <2>2. /\ Malloc(t, NULL) /\ pc'[t] = "store"
        /\ hash_entry_tbl' = [hash_entry_tbl EXCEPT ![Entry[t]] = cur'[t]]
        /\ UNCHANGED <<count, obj, inserted, left>>
    BY <1>1, <2>1 DEF AddFirst, Goto, TypeOK, historyVars
  <2>3. PICK n \in Nodes :
          /\ Allocated = 1..(n - 1)
          /\ cur' = [cur EXCEPT ![t] = n]
    BY <2>2, MallocNew
  <2>4. Head(t)' = n
    BY <1>1, <2>2, <2>3 DEF Head, TypeOK
  <2>5. ASSUME NEW i \in 1..count[n] PROVE obj[n][i] = Zero
    <3>1. n \notin Allocated
      BY <2>3, PrivateAssumption DEF Nodes
    <3>2. i \in 1..MaxExpandPoints
      BY <1>2
    <3>. QED
      BY <3>1, <3>2 DEF IInv, Holdings
  <2>6. Kept(t)'
    BY <2>2, <2>4, <2>5 DEF Kept, Zero
  <2>7. Current(t) = {} /\ Current(t)' = Current(t)
    BY <2>1, <2>2 DEF Found, Current
  <2>8. Found(t)'
    BY <2>7 DEF Found
  <2>. QED
    BY <2>6, <2>8
<1>6. CASE Store(t)
  <2>1. /\ pc[t] = "store" /\ pc'[t] = "command"
        /\ UNCHANGED <<hash_entry_tbl, left>>
    BY <1>1, <1>6 DEF Store, Goto, TypeOK
  <2>2. cur[t] = Head(t) /\ Head(t) # NULL /\ Head(t) \in Nodes
    BY <1>1, <2>1 DEF IInv, Claims, OneNode
  <2>. DEFINE n == Head(t)
              i == count[n] + 1
  <2>3. \/ UNCHANGED <<obj, count, inserted>>
        \/ /\ ~Full(n)
           /\ obj' = [obj EXCEPT ![n][i] = arg[t]]
           /\ count' = [count EXCEPT ![n] = i]
           /\ inserted' = [inserted EXCEPT ![t] = @ \cup {arg[t]}]
    BY <1>6, <2>2, Zenon DEF Store
  <2>4. CASE UNCHANGED <<obj, count, inserted>>
    BY <1>3, <2>1, <2>4 DEF Current
  <2>5. CASE /\ ~Full(n)
             /\ obj' = [obj EXCEPT ![n][i] = arg[t]]
             /\ count' = [count EXCEPT ![n] = i]
             /\ inserted' = [inserted EXCEPT ![t] = @ \cup {arg[t]}]
    <3>1. i \in 1..MaxExpandPoints /\ i \in Nat
      BY <1>2, <2>2, <2>5, PrivateAssumption DEF Full
    <3>2. obj'[n] = [obj[n] EXCEPT ![i] = arg[t]] /\ count'[n] = i
      BY <1>1, <2>2, <2>5 DEF TypeOK
    <3>3. obj'[n][i] = arg[t] /\ \A j \in 1..count[n] : obj'[n][j] = obj[n][j]
      <4>1. obj[n] \in [1..MaxExpandPoints -> Pairs \cup {Zero}]
        BY <1>1, <2>2
      <4>2. \A j \in 1..count[n] : j # i /\ j \in 1..MaxExpandPoints
        BY <1>2, <2>2
      <4>. QED
        BY <3>1, <3>2, <4>1, <4>2
    <3>4. \A j \in 1..i : j = i \/ j \in 1..count[n]
      BY <1>2, <2>2
    <3>5. Head(t)' = n /\ Current(t)' = Current(t) \cup {arg[t]} /\ left'[t] = left[t]
      BY <1>1, <2>1, <2>5 DEF Head, Current
    <3>6. i \in 1..i /\ \A j \in 1..count[n] : j \in 1..i
      BY <1>2, <2>2
    <3>. HIDE DEF i, n
    <3>7. Kept(t)'
      <4>1. \A j \in 1..i : obj'[n][j] \in {Zero} \cup (Current(t) \cup {arg[t]}) \cup left[t]
        BY <2>2, <3>3, <3>4 DEF Kept, n
      <4>. QED
        BY <3>2, <3>5, <4>1 DEF Kept, Zero
    <3>8. Found(t)'
      <4>1. ASSUME NEW p \in Current(t) \cup {arg[t]} PROVE \E j \in 1..i : obj'[n][j] = p
        <5>1. CASE p = arg[t]
          BY <3>3, <3>6, <5>1
        <5>2. CASE p \in Current(t)
          BY <3>3, <3>6, <5>2 DEF Found, n
        <5>. QED
          BY <5>1, <5>2
      <4>. QED
        BY <2>2, <3>2, <3>5, <4>1 DEF Found, n
    <3>. QED
      BY <3>7, <3>8
  <2>. QED
    BY <2>3, <2>4, <2>5
<1>7. CASE BeginCommand(t)
  <2>1. /\ UNCHANGED <<hash_entry_tbl, count, obj, left>>
        /\ pc[t] = "idle" /\ inserted'[t] = {}
    BY <1>1, <1>7 DEF BeginCommand, heapVars
  <2>2. Current(t) = {} /\ Current(t)' = {}
    BY <2>1 DEF Current
  <2>. QED
    BY <1>3, <2>1, <2>2
<1>8. CASE EndCommand(t)
  <2>1. /\ UNCHANGED <<hash_entry_tbl, count, left>> /\ pc'[t] = "idle"
        /\ Head(t) # NULL => obj' = [obj EXCEPT ![Head(t)] = Cleared(@)]
    BY <1>1, <1>8 DEF EndCommand, Goto, TypeOK, historyVars
  <2>2. Current(t)' = {}
    BY <2>1 DEF Current
  <2>3. Found(t)'
    BY <2>2 DEF Found
  <2>4. ASSUME Head(t) # NULL, NEW i \in 1..count[Head(t)]
        PROVE  obj'[Head(t)][i] = Zero
    <3>1. Head(t) \in Nodes /\ i \in 1..MaxExpandPoints
      BY <1>1, <1>2, <2>4
    <3>2. obj'[Head(t)] = Cleared(obj[Head(t)])
      BY <1>1, <2>1, <2>4, <3>1
    <3>. QED
      BY <3>1, <3>2 DEF Cleared
  <2>5. Kept(t)'
    BY <2>1, <2>4 DEF Kept, Head, Zero
  <2>. QED
    BY <2>3, <2>5
<1>9. CASE CancelLink(t)
  <2>1. /\ UNCHANGED <<hash_entry_tbl, count, obj>>
        /\ pc[t] = "command" /\ pc'[t] = "idle"
        /\ left'[t] = left[t] \cup inserted[t]
    BY <1>1, <1>9 DEF CancelLink, Goto, TypeOK, heapVars
  <2>2. Current(t) = inserted[t] /\ Current(t)' = {}
    BY <2>1 DEF Current
  <2>3. Found(t)'
    BY <2>2 DEF Found
  <2>4. Kept(t)'
    BY <2>1, <2>2 DEF Kept, Head, Zero
  <2>. QED
    BY <2>3, <2>4
<1>. QED
  BY <1>4, <1>5, <1>6, <1>7, <1>8, <1>9

\* Every step keeps the invariant.
LEMMA AloneStep == IInv /\ AloneInv /\ [Next]_vars => AloneInv'
<1>. SUFFICES ASSUME IInv, AloneInv, [Next]_vars, NEW t \in Threads, Alone(t)
              PROVE  OneNode(t)' /\ Kept(t)' /\ Found(t)'
  BY DEF AloneInv, Alone
<1>1. OneNode(t) /\ Kept(t) /\ Found(t)
  BY DEF AloneInv
<1>2. CASE UNCHANGED vars
  <2>1. UNCHANGED <<hash_entry_tbl, thread_id, count, obj, pc, inserted, left>>
    BY <1>2 DEF vars, heapVars, historyVars
  <2>2. NodesOf(t)' = NodesOf(t) /\ Head(t)' = Head(t) /\ Head(t) \in Nodes \cup {NULL}
    BY <2>1, PrivateAssumption DEF NodesOf, Head, IInv, TypeOK
  <2>. QED
    BY <1>1, <2>1, <2>2, Untouched
<1>3. ASSUME NEW u \in Threads,
             \/ \E p \in Pairs : Insert(u, p)
             \/ AddNode(u) \/ Store(u)
             \/ BeginCommand(u) \/ EndCommand(u) \/ CancelLink(u)
      PROVE  OneNode(t)' /\ Kept(t)' /\ Found(t)'
  <2>1. CASE u = t
    BY <1>1, <1>3, <2>1, OneNodeStep, ContentStep
  <2>2. CASE u # t
    BY <1>1, <1>3, <2>2, OthersLeaveIt
  <2>. QED
    BY <2>1, <2>2
<1>. QED
  BY <1>2, <1>3 DEF Next

-----------------------------------------------------------------------------
(* The theorems *)

LEMMA SpecIInv == Spec => []IInv
<1>1. QED
  BY InitIInv, StepIInv, PTL DEF Spec

\* The type invariant: in particular no thread's count passes MAX_EXPAND_POINTS
\* (InsertPrivateData's test, PrivateData.c:191).
THEOREM PrivateTypes == Spec => []TypeOK
<1>1. IInv => TypeOK
  BY DEF IInv
<1>2. QED
  BY <1>1, SpecIInv, PTL

\* QueryPrivateData never tells a thread a size another one stored, for any
\* number of threads, however they share entries and however their AddNodes race
\* (PrivateData.c:53-100, 203-222).
THEOREM NoOthersSizes == Spec => []OwnThreadOnly
<1>1. ASSUME IInv PROVE OwnThreadOnly
  <2> SUFFICES ASSUME NEW t \in Threads, NEW h \in Handles,
                      QueryPrivateData(t, h) # 0
               PROVE  <<h, QueryPrivateData(t, h)>> \in stored[t]
    BY DEF OwnThreadOnly
  <2>1. TypeOK /\ Holdings
    BY <1>1 DEF IInv
  <2>2. PICK n \in NodesOf(t), i \in 1..MaxExpandPoints :
          obj[n][i][1] = h /\ obj[n][i][2] = QueryPrivateData(t, h)
    BY <2>1, QueryFinds
  <2>3. n \in Nodes /\ thread_id[n] = t
    BY DEF NodesOf
  <2>4. obj[n][i] \in Pairs \cup {Zero}
    <3>1. obj \in [Nodes -> [1..MaxExpandPoints -> Pairs \cup {Zero}]]
      BY <2>1 DEF TypeOK
    <3>2. obj[n] \in [1..MaxExpandPoints -> Pairs \cup {Zero}]
      BY <3>1, <2>3
    <3>3. QED
      BY <3>2, <2>2
  <2>5. h # 0
    BY PrivateAssumption
  <2>6. obj[n][i] # Zero
    BY <2>2, <2>5 DEF Zero
  <2>7. obj[n][i] = <<h, QueryPrivateData(t, h)>>
    BY <2>2, <2>4, <2>6 DEF Pairs
  <2>8. QED
    BY <2>1, <2>3, <2>6, <2>7 DEF Holdings
<1>2. QED
  BY <1>1, SpecIInv, PTL

\* No insertion, however it races, makes a list run into another entry's, or into
\* a circle in which SearchNode would walk for ever (PrivateData.c:64-94, 128-139).
THEOREM SoundLists == Spec => []ListsAreSound
<1>1. IInv => ListsAreSound
  BY DEF IInv, Linked, ListsAreSound
<1>2. QED
  BY <1>1, SpecIInv, PTL
\* A thread that shares its hash entry with no other loses nothing, for any number
\* of other threads: it finds a size for every object it stored one for, and only
\* sizes of its command or of one cancelled before it (PrivateData.c:64, 93, 176,
\* 191, 203-222).
THEOREM AloneLosesNothing == Spec => []AloneIsExact
<1>1. Init => AloneInv
  <2>. SUFFICES ASSUME Init, NEW t \in Threads
                PROVE  OneNode(t) /\ Kept(t) /\ Found(t)
    BY DEF AloneInv
  <2>1. NodesOf(t) = {} /\ Head(t) = NULL /\ pc[t] = "idle"
    BY PrivateAssumption DEF Init, InitHash, NodesOf, Head, NULL
  <2>. QED
    BY <2>1 DEF OneNode, Kept, Found, Current
<1>2. ASSUME IInv, AloneInv PROVE AloneIsExact
  <2>. SUFFICES ASSUME NEW t \in Threads, Alone(t), pc[t] = "command"
                PROVE  /\ ThisCommandOnly(t)
                       /\ \A p \in inserted[t] : QueryPrivateData(t, p[1]) # 0
    BY DEF AloneIsExact
  <2>1. OneNode(t) /\ Kept(t) /\ Found(t) /\ Current(t) = inserted[t]
    BY <1>2 DEF AloneInv, Current
  <2>2. ThisCommandOnly(t)
    <3>. SUFFICES ASSUME NEW h \in Handles, QueryPrivateData(t, h) # 0
                  PROVE  <<h, QueryPrivateData(t, h)>> \in inserted[t] \cup left[t]
      BY DEF ThisCommandOnly
    <3>1. PICK i \in 1..count[Head(t)] :
              obj[Head(t)][i] = <<h, QueryPrivateData(t, h)>>
      BY <1>2, <2>1, QueryAlone
    <3>2. Head(t) # NULL
      BY <1>2, <2>1, QueryAlone
    <3>3. obj[Head(t)][i] \in {Zero} \cup inserted[t] \cup left[t]
      BY <2>1, <3>2 DEF Kept
    <3>4. obj[Head(t)][i] # Zero
      BY <3>1 DEF Zero
    <3>. QED
      BY <3>1, <3>3, <3>4
  <2>3. ASSUME NEW p \in inserted[t] PROVE QueryPrivateData(t, p[1]) # 0
    <3>1. p \in Pairs /\ p[1] \in Handles
      BY <1>2 DEF IInv, TypeOK, Pairs
    <3>2. Head(t) # NULL /\ \E i \in 1..count[Head(t)] : obj[Head(t)][i] = p
      BY <2>1 DEF Found
    <3>. QED
      BY <1>2, <2>1, <3>1, <3>2, QueryAlone
  <2>. QED
    BY <2>2, <2>3
<1>. QED
  BY <1>1, <1>2, AloneStep, SpecIInv, PTL DEF Spec
=============================================================================
