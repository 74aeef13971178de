----------------------------- MODULE PrivateData -----------------------------
(***************************************************************************)
(* The store of expandable and shrinkable sizes that a command's engine    *)
(* queries leave for the packing of the objects they found: a hash from    *)
(* thread ids to one node per thread, without any lock                     *)
(* (evms/PrivateData.c, used by evms/interpreter.c, evms/ConvertStructs.c  *)
(* and EvmsCmd.c).                                                         *)
(*                                                                         *)
(* Each read or write of hash_entry_tbl is a step.  A walk along a list is *)
(* one step with the read of its head: nodes are only ever put in front    *)
(* and a node's next never changes while links run.  Nodes are numbered in *)
(* the order of their allocation, 0 being NULL.  A thread stands for the   *)
(* links that run under its id one after the other: pthread_create gives   *)
(* the ids of ended threads again.                                         *)
(***************************************************************************)
EXTENDS Integers, FiniteSets

CONSTANTS
    Threads,         \* link threads
    Entries,         \* 0..PRIVATE_HASH_SIZE - 1
    Entry,           \* GET_ENTRY, a function from Threads to Entries
    Handles, Sizes,  \* object handles and sizes the engine reports
    MaxExpandPoints, \* MAX_EXPAND_POINTS
    MaxNodes,        \* bound: nodes allocated
    MaxCommands      \* bound: commands a thread runs

NULL == 0
Nodes == 1..MaxNodes

ASSUME PrivateAssumption ==
    /\ Entry \in [Threads -> Entries] /\ NULL \notin Threads
    /\ MaxExpandPoints \in Nat \ {0}
    /\ MaxNodes \in Nat
    /\ MaxCommands \in Nat
    /\ Sizes \subseteq Nat \ {0} /\ 0 \notin Handles

VARIABLES
    \* hash_entry_tbl, and the fields of the nodes: thread_id, count, obj, next
    hash_entry_tbl, thread_id, count, obj, next,
    \* a thread: where it stands, the node AddNode works on, the pair to
    \* insert, commands begun
    pc, cur, arg, commands,
    \* history: what this command has inserted, what commands that were
    \* cancelled inserted, what the thread has ever inserted
    inserted, left, stored

heapVars == <<hash_entry_tbl, thread_id, count, obj, next>>
historyVars == <<commands, inserted, left, stored>>
vars == <<heapVars, pc, cur, arg, historyVars>>

Pairs == Handles \X Sizes
Zero == <<0, 0>>

TypeOK ==
    /\ hash_entry_tbl \in [Entries -> Nodes \cup {NULL}]
    /\ thread_id \in [Nodes -> Threads \cup {NULL}]
    /\ count \in [Nodes -> 0..MaxExpandPoints]
    /\ obj \in [Nodes -> [1..MaxExpandPoints -> Pairs \cup {Zero}]]
    /\ next \in [Nodes -> Nodes \cup {NULL}]
    /\ pc \in [Threads ->
                 {"idle", "command", "first", "link", "front", "store"}]
    /\ cur \in [Threads -> Nodes \cup {NULL}]
    /\ arg \in [Threads -> Pairs \cup {Zero}]
    /\ commands \in [Threads -> 0..MaxCommands]
    /\ inserted \in [Threads -> SUBSET Pairs]
    /\ left \in [Threads -> SUBSET Pairs]
    /\ stored \in [Threads -> SUBSET Pairs]

\* InitHash, in main before any link runs.
InitHash == hash_entry_tbl = [e \in Entries |-> NULL]

Init ==
    /\ InitHash
    /\ thread_id = [n \in Nodes |-> NULL]
    /\ count = [n \in Nodes |-> 0]
    /\ obj = [n \in Nodes |-> [i \in 1..MaxExpandPoints |-> Zero]]
    /\ next = [n \in Nodes |-> NULL]
    /\ pc = [t \in Threads |-> "idle"]
    /\ cur = [t \in Threads |-> NULL]
    /\ arg = [t \in Threads |-> Zero]
    /\ commands = [t \in Threads |-> 0]
    /\ inserted = [t \in Threads |-> {}]
    /\ left = [t \in Threads |-> {}]
    /\ stored = [t \in Threads |-> {}]

-----------------------------------------------------------------------------
(* Slips the properties are there to catch *)

AnyNode(t) == Nodes
NothingCleared(objects) == objects
FullTooLate(n) == count[n] > MaxExpandPoints
FrontThenLink(t) ==
    /\ pc[t] = "front"
    /\ hash_entry_tbl' = [hash_entry_tbl EXCEPT ![Entry[t]] = cur[t]]
    /\ next' = [next EXCEPT ![cur[t]] = hash_entry_tbl'[Entry[t]]]
    /\ pc' = [pc EXCEPT ![t] = "store"]
    /\ UNCHANGED <<thread_id, count, obj, cur, arg, historyVars>>

-----------------------------------------------------------------------------
(* Helpers *)

\* The nodes on the list that starts at a node.
ListFrom[n \in 0..MaxNodes] ==
    IF n = NULL THEN {} ELSE {n} \cup ListFrom[next[n]]

NodesOf(t) == {n \in Nodes : thread_id[n] = t}

\* SearchNode: the thread's node on its entry's list, or NULL.
SearchNode(t) ==
    LET found == ListFrom[hash_entry_tbl[Entry[t]]] \cap NodesOf(t)
        first == {n \in found : \A m \in found : m <= n}
    IN  IF first = {} THEN NULL ELSE CHOOSE n \in first : TRUE

Cleared(objects) == [i \in 1..MaxExpandPoints |-> Zero]

Full(n) == count[n] >= MaxExpandPoints

\* QueryPrivateData: the first of the thread's entries for a handle, or 0.
QueryPrivateData(t, h) ==
    LET n == SearchNode(t)
        hits == {i \in 1..count[n] : obj[n][i][1] = h}
        first == {i \in hits : \A j \in hits : i <= j}
    IN  IF n = NULL THEN 0
        ELSE IF first = {} THEN 0
        ELSE obj[n][CHOOSE i \in first : TRUE][2]

Allocated == {n \in Nodes : thread_id[n] # NULL}

\* malloc, memset, the thread's id and the next node; the new node is the
\* thread's own until the entry points to it.
Malloc(t, rest) ==
    LET n == Cardinality(Allocated) + 1
    IN  /\ n \in Nodes
        /\ thread_id' = [thread_id EXCEPT ![n] = t]
        /\ next' = [next EXCEPT ![n] = rest]
        /\ cur' = [cur EXCEPT ![t] = n]

Goto(t, there) == pc' = [pc EXCEPT ![t] = there]

-----------------------------------------------------------------------------
(* InsertPrivateData, called by Do_Query_Type_2 while a command runs *)

\* AddNode looks for the thread's node.
Insert(t, p) ==
    /\ pc[t] = "command"
    /\ arg' = [arg EXCEPT ![t] = p]
    /\ cur' = [cur EXCEPT ![t] = SearchNode(t)]
    /\ \/ hash_entry_tbl[Entry[t]] = NULL /\ Goto(t, "first")
       \/ /\ hash_entry_tbl[Entry[t]] # NULL /\ SearchNode(t) = NULL
          /\ Goto(t, "link")
       \/ SearchNode(t) # NULL /\ Goto(t, "store")
    /\ UNCHANGED <<heapVars, historyVars>>

\* The entry was empty: the new node becomes the list, whatever is there now.
AddFirst(t) ==
    /\ pc[t] = "first"
    /\ Malloc(t, NULL)
    /\ hash_entry_tbl' = [hash_entry_tbl EXCEPT ![Entry[t]] = cur'[t]]
    /\ Goto(t, "store")
    /\ UNCHANGED <<count, obj, arg, historyVars>>

\* cur->next = hash_entry_tbl[entry]
AddLink(t) ==
    /\ pc[t] = "link"
    /\ Malloc(t, hash_entry_tbl[Entry[t]])
    /\ Goto(t, "front")
    /\ UNCHANGED <<hash_entry_tbl, count, obj, arg, historyVars>>

\* hash_entry_tbl[entry] = cur
AddFront(t) ==
    /\ pc[t] = "front"
    /\ hash_entry_tbl' = [hash_entry_tbl EXCEPT ![Entry[t]] = cur[t]]
    /\ Goto(t, "store")
    /\ UNCHANGED <<thread_id, count, obj, next, cur, arg, historyVars>>

\* Stores the pair in the thread's node, if there is room.
Store(t) ==
    /\ pc[t] = "store"
    /\ LET n == cur[t]
       IN  \/ Full(n) /\ UNCHANGED <<obj, count, inserted, stored>>
           \/ /\ ~Full(n)
              /\ obj' = [obj EXCEPT ![n][count[n] + 1] = arg[t]]
              /\ count' = [count EXCEPT ![n] = @ + 1]
              /\ inserted' = [inserted EXCEPT ![t] = @ \cup {arg[t]}]
              /\ stored' = [stored EXCEPT ![t] = @ \cup {arg[t]}]
    /\ Goto(t, "command")
    /\ cur' = [cur EXCEPT ![t] = NULL]
    /\ arg' = [arg EXCEPT ![t] = Zero]
    /\ UNCHANGED <<hash_entry_tbl, thread_id, next, commands, left>>

-----------------------------------------------------------------------------
(* EvmsCmd.  The answers to a command are packed, using QueryPrivateData, while
   it runs; ClearNode ends it. *)

BeginCommand(t) ==
    /\ pc[t] = "idle" /\ commands[t] < MaxCommands
    /\ Goto(t, "command")
    /\ commands' = [commands EXCEPT ![t] = @ + 1]
    /\ inserted' = [inserted EXCEPT ![t] = {}]
    /\ UNCHANGED <<heapVars, cur, arg, left, stored>>

\* ClearNode zeroes the thread's objects, not its count.
EndCommand(t) ==
    /\ pc[t] = "command"
    /\ LET n == SearchNode(t)
       IN  \/ n = NULL /\ UNCHANGED obj
           \/ n # NULL /\ obj' = [obj EXCEPT ![n] = Cleared(@)]
    /\ Goto(t, "idle")
    /\ UNCHANGED <<hash_entry_tbl, thread_id, count, next, cur, arg,
                   historyVars>>

\* CtrlThread_Manager cancels the link while the command waits in send() or
\* recv(), and another link begins under the same thread id.
CancelLink(t) ==
    /\ pc[t] = "command"
    /\ Goto(t, "idle")
    /\ left' = [left EXCEPT ![t] = @ \cup inserted[t]]
    /\ UNCHANGED <<heapVars, cur, arg, commands, inserted, stored>>

-----------------------------------------------------------------------------

AddNode(t) == AddFirst(t) \/ AddLink(t) \/ AddFront(t)

Next ==
    \E t \in Threads :
        \/ \E p \in Pairs : Insert(t, p)
        \/ AddNode(t) \/ Store(t)
        \/ BeginCommand(t) \/ EndCommand(t) \/ CancelLink(t)

Spec == Init /\ [][Next]_vars

-----------------------------------------------------------------------------
(* Properties *)

\* What a command is told of an object is a size this thread stored for it at
\* some time, or nothing: never another thread's, however the insertions of
\* threads race (PrivateData.c:64-94, 134, 217).
OwnThreadOnly ==
    \A t \in Threads, h \in Handles :
        LET size == QueryPrivateData(t, h)
        IN  size # 0 => <<h, size>> \in stored[t]

\* What a command is told of an object was stored for it in this command or in
\* one that was cancelled before it could clear the store: a command that
\* ended has cleared what it stored (PrivateData.c:156, 176).
ThisCommandOnly(t) ==
    \A h \in Handles :
        LET size == QueryPrivateData(t, h)
        IN  pc[t] = "command" /\ size # 0 =>
                <<h, size>> \in inserted[t] \cup left[t]

OwnSizesOnly == \A t \in Threads : ThisCommandOnly(t)

\* A thread that shares its entry with no other loses no node: it finds a size
\* for every object it stored one for, and only sizes of this command or of
\* cancelled ones (PrivateData.c:64, 93, 176, 191).
Alone(t) == \A u \in Threads \ {t} : Entry[u] # Entry[t]

AloneIsExact ==
    \A t \in Threads :
        Alone(t) /\ pc[t] = "command" =>
            /\ ThisCommandOnly(t)
            /\ \A p \in inserted[t] : QueryPrivateData(t, p[1]) # 0

\* Lists stay finite and within their entry, even when insertions race and a
\* lost node comes back: a node points to an older one of its own entry, and an
\* entry to one of its own.
ListsAreSound ==
    /\ \A e \in Entries :
          hash_entry_tbl[e] # NULL => Entry[thread_id[hash_entry_tbl[e]]] = e
    /\ \A n \in Nodes : next[n] # NULL =>
          /\ next[n] < n
          /\ Entry[thread_id[next[n]]] = Entry[thread_id[n]]
=============================================================================
