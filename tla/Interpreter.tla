------------------------------ MODULE Interpreter ------------------------------
(***************************************************************************)
(* The EVMS command interpreter (evms/interpreter.c), a stack machine over *)
(* the command trees the parser builds, and the session with the engine it *)
(* serves (evms/evms.c).                                                   *)
(*                                                                         *)
(* The static variables of the C files and what the engine keeps are one   *)
(* record, a machine; every C function is an operator from machines to     *)
(* machines.  A function that returned an error leaves it in error, and    *)
(* its callers go on only where the C code does.  The engine is a library  *)
(* outside the repository: a call of it may fail (the one number fails     *)
(* names), and a sequence of calls of one kind counts as one.              *)
(***************************************************************************)
EXTENDS QueryFilters, Sequences, SequencesExt

CONSTANTS
    World,      \* what the engine knows: see QueryFilters
    Options,    \* the options of a task: [type, unit, list, active, most]
    Functions,  \* the tasks of its own a plug-in offers
    Ids,        \* the plug-in a number stands for
    Acceptable, \* the objects a task accepts
    Numbers     \* the value of a number's text

ASSUME EngineAssumption ==
    /\ Acceptable \subseteq DOMAIN World
    /\ \A t \in DOMAIN Numbers : Numbers[t] \in Nat

\* Bounds: what stands for 1024, for 1000 and for 60 in a unit.
Kilo == 4
Thousand == 10
Sixty == 6

Factor ==
    [KB |-> Kilo, MB |-> Kilo * Kilo, GB |-> Kilo * Kilo * Kilo,
     TB |-> Kilo * Kilo * Kilo * Kilo, MICROSECONDS |-> 1, MILLISECONDS |-> Thousand,
     SECONDS |-> Thousand * Thousand, MINUTES |-> Sixty * Thousand * Thousand,
     HOURS |-> Sixty * Sixty * Thousand * Thousand]
Space == {"KB", "MB", "GB", "TB"}

\* Before the first command.
Machine ==
    [stack |-> << >>, held |-> FALSE,            \* Stack, No_Commits
     task |-> "none", action |-> "none",         \* Task, Task_Action
     usage |-> {}, units |-> "None",             \* Option_Usage, Current_Units
     acceptable |-> FALSE, useSelected |-> FALSE, listOptions |-> FALSE,
     sock |-> None,                              \* g_sock_fd
     open |-> FALSE, pending |-> FALSE,          \* the engine: open, uncommitted changes
     lost |-> FALSE,                             \* ... a task in it nobody tried to destroy
     chosen |-> {},                              \* ... the objects selected for the task
     calls |-> 0, fails |-> 0,                   \* of this line: engine calls, the failing one
     error |-> "OK", ended |-> "",               \* ... its error; abort, exit or crash
     sent |-> {}, given |-> << >>, values |-> << >>, \* ... objects sent, options set
     changes |-> 0, wrote |-> FALSE]             \* ... changes made, changes committed

Go(m, F(_)) == IF m.error = "OK" /\ m.ended = "" THEN F(m) ELSE m
Wrong(m, error) == [m EXCEPT !.error = error]

\* What is done after a failure too: the first error stays.
After(m, F(_)) ==
    IF m.ended # "" THEN m
    ELSE LET r == F(Wrong(m, "OK"))
         IN  IF m.error = "OK" THEN r ELSE Wrong(r, m.error)

-----------------------------------------------------------------------------
(* The engine *)

Engine(m) == [m EXCEPT !.calls = @ + 1,
                       !.error = IF m.open /\ m.calls + 1 # m.fails THEN "OK" ELSE "Engine"]

Changing(m) == Go(Engine(m), LAMBDA e : [e EXCEPT !.pending = TRUE, !.changes = @ + 1])

Commit_Changes(m) ==
    Go(Engine(m), LAMBDA e : [e EXCEPT !.wrote = @ \/ m.pending, !.pending = FALSE])

-----------------------------------------------------------------------------
(* Slips the properties are there to catch: each stands in for the definition
   of the same parameters below. *)

StaleUnits(m) == [m EXCEPT !.values = << >>]
CommitWhateverHeld(m) == Go(m, Commit_Changes)

-----------------------------------------------------------------------------
(* The operand stack *)

Item(tag) == [tag |-> tag, text |-> "", num |-> 0, list |-> {}]
Handle(h) == [Item("HANDLE") EXCEPT !.text = h]
Listed(l) == [Item("LIST") EXCEPT !.list = l]

Push(m, item) == [m EXCEPT !.stack = Append(@, item)]

\* Peek and Pop give the process up on an empty stack or another tag.
Peek(m, F(_)) ==
    IF m.stack = << >> THEN [m EXCEPT !.ended = "abort"] ELSE F(Last(m.stack).tag)

Pop(m, tag, F(_, _)) ==
    IF m.stack # << >> /\ Last(m.stack).tag = tag
    THEN F([m EXCEPT !.stack = Front(@)], Last(m.stack))
    ELSE [m EXCEPT !.ended = "abort"]

Drop(m, tag) == Pop(m, tag, LAMBDA p, i : p)

RECURSIVE Process_Node(_, _), ForEachItem(_, _)

ForEachItem(m, nodes) ==
    IF nodes = << >> THEN m
    ELSE Go(Process_Node(m, Head(nodes)), LAMBDA n : ForEachItem(n, Tail(nodes)))

\* Process our children, then go on.
Children(m, node, F(_)) == Go(ForEachItem(m, node.kids), F)

-----------------------------------------------------------------------------
(* Operands *)

\* A plug-in also goes by its number.
Named(name) == IF name \in DOMAIN Ids THEN Ids[name] ELSE name

Do_Name(m, node, types) ==
    Go(Engine(m), LAMBDA e :
        LET h == Named(node.value)
        IN  IF h \in DOMAIN World /\ World[h].type \in types
            THEN Push(e, Handle(h)) ELSE Wrong(e, "Engine"))

Name_To_Handle ==
    [Name_To_Volume_Handle |-> {"VOLUME"}, Name_To_Object_Handle |-> StorageTypes,
     Name_To_Region_Handle |-> {"REGION"}, Name_To_Container_Handle |-> {"CONTAINER"},
     Name_To_Segment_Handle |-> {"SEGMENT"}, Name_To_Disk_Handle |-> {"DISK"},
     Name_To_Plugin_Handle |-> {"PLUGIN"}, Plugin_ID |-> {"PLUGIN"},
     Translate_Name_To_Handle |-> StorageTypes \cup {"VOLUME", "CONTAINER"}]

Number(m, node, tag) == Push(m, [Item(tag) EXCEPT !.num = Numbers[node.value]])
Do_IntegerData(m, node) == ForEachItem(Number(m, node, "INTEGER"), node.kids)
Do_RealNumber(m, node) == ForEachItem(Number(m, node, "REAL"), node.kids)

\* Without a unit the precision is a percentage.
Do_Precision(m, node) ==
    Go(Do_IntegerData(m, node), LAMBDA i :
        Push(i, [Item("BOOLEAN") EXCEPT !.num = IF node.kids = << >> THEN 1 ELSE 0]))

\* Sectors, which the parser accepts, are no unit here.
Do_Unit_Conversion(m, node) ==
    Peek(m, LAMBDA tag :
        IF tag \notin {"INTEGER", "REAL"} THEN Wrong(m, "CORRUPTED")
        ELSE Pop(m, tag, LAMBDA p, n :
               IF node.value \notin DOMAIN Factor
               THEN [Wrong(p, "CORRUPTED") EXCEPT !.units = "None"]
               ELSE [Push(p, [n EXCEPT !.num = @ * Factor[node.value]]) EXCEPT
                        !.units = IF node.value \in Space THEN "BYTES" ELSE "MICROSECONDS"]))

Mask(m, node) ==
    Push(m, [Item("MASK") EXCEPT !.text = IF node.value \in {"CM", "DLM"} THEN None ELSE node.value])

-----------------------------------------------------------------------------
(* Options *)

\* Convert_Real and Convert_Int, the second of which takes a time for bytes.
Convert(m, option, n, tag, F(_, _)) ==
    LET unit == Options[option].unit
    IN  CASE m.units \in {"None", unit} -> F(m, n)
          [] m.units = "BYTES" /\ (unit \in Space \/ (unit = "SECTORS" /\ tag = "INTEGER")) ->
               F(m, n \div (IF unit = "SECTORS" THEN Kilo \div 2 ELSE Factor[unit]))
          [] m.units = "MICROSECONDS" /\ unit = "MILLISECONDS" /\ tag = "REAL" ->
               F(m, n \div Factor[unit])
          [] m.units = "MICROSECONDS" /\ tag = "INTEGER" -> [m EXCEPT !.ended = "abort"]
          [] OTHER -> [m EXCEPT !.ended = "exit"]

Given(m, value) == [m EXCEPT !.values = Append(@, value)]

\* A string; one of a Boolean's or a single character where that is the type.
Text_Value(m, type) ==
    Pop(m, "STRING", LAMBDA p, s :
        IF \/ type = "Boolean" /\ s.text \notin {"TRUE", "T", "FALSE", "F"}
           \/ type = "Char" /\ Len(s.text) # 1
        THEN Wrong(p, "EINVAL") ELSE Given(p, [text |-> s.text, num |-> 0]))

Number_Value(m, option, tag) ==
    Pop(m, IF tag = "REAL" THEN "REAL" ELSE "INTEGER", LAMBDA p, n :
        Convert(p, option, n.num, Options[option].type, LAMBDA c, v :
            IF Options[option].type = "INTEGER" /\ v > Options[option].most
            THEN Wrong(c, "EINVAL") ELSE Given(c, [text |-> "", num |-> v])))

\* The improper value itself stays on the stack, unless it is a bad string or
\* out of range.
Option_Value(m, option) ==
    Peek(m, LAMBDA tag :
        CASE Options[option].type \notin {"INTEGER", "REAL"} ->
               IF tag = "STRING" THEN Text_Value(m, Options[option].type)
               ELSE Wrong(m, "EINVAL")
          [] tag = "STRING" -> Wrong(m, "EINVAL")
          [] OTHER -> Number_Value(m, option, tag))

RECURSIVE Option_Values(_, _, _)
Option_Values(m, option, count) ==
    IF count = 0 THEN m
    ELSE Go(Option_Value(m, option), LAMBDA v : Option_Values(v, option, count - 1))

Set_Option_Value(m, option) ==
    Go(Engine(m), LAMBDA e :
        [e EXCEPT !.usage = @ \cup {option},
                  !.given = Append(@, [option |-> option, values |-> m.values])])

Fresh_Units(m) == [m EXCEPT !.units = "None", !.values = << >>]

\* The children in reverse order, so that the name is on top.
Do_Name_Value_Pair(m, node) ==
    LET size == Len(node.kids)
    IN  Go(ForEachItem(Fresh_Units(m), Reverse(node.kids)), LAMBDA c :
            Pop(c, "STRING", LAMBDA p, name :
                CASE name.text \notin DOMAIN Options -> Wrong(p, "EINVAL")
                  [] ~Options[name.text].list /\ size # 2 -> Wrong(p, "EINVAL")
                  [] OTHER -> Go(Option_Values(p, name.text, size - 1),
                                 LAMBDA v : Set_Option_Value(v, name.text))))

-----------------------------------------------------------------------------
(* Tasks *)

\* Whether the engine has the task for the object at all.
Able(handle, action) ==
    CASE action = "Expand" -> World[handle].grows
      [] action = "Shrink" -> World[handle].shrinks
      [] OTHER -> TRUE

\* Option_Descriptors and Option_Usage go with the task; it is not tried again if
\* destroying it fails.
Cleanup_Task(m) ==
    LET c == [m EXCEPT !.usage = {}, !.chosen = {}]
    IN  IF m.task = "none" THEN c ELSE [Engine(c) EXCEPT !.task = "none"]

\* Whatever Task stood for before is forgotten, not destroyed.
Forget_Task(m) ==
    [m EXCEPT !.lost = @ \/ m.task = "open", !.task = "none", !.usage = {}, !.chosen = {}]

Create_Task(m, handle, action) ==
    Go(Engine(Forget_Task(m)), LAMBDA e :
        IF Able(handle, action) THEN [e EXCEPT !.task = "open", !.action = action]
        ELSE Wrong(e, "Engine"))

\* A container's information is set by a task of its own, unless asking for the
\* type of the handle fails.
Container_Too(m, handle, action) ==
    IF action = "Set_Info" /\ Engine(m).error = "OK" /\ World[handle].type = "CONTAINER"
    THEN "Set_Container_Info" ELSE action

Setup_Task(m, handle, action) ==
    LET asked == IF action = "Set_Info" THEN [m EXCEPT !.calls = @ + 1] ELSE m
        s == Go(Go(Create_Task(asked, handle, Container_Too(m, handle, action)), Engine), Engine)
    IN  IF s.error = "OK" THEN s ELSE After(s, Cleanup_Task)

\* The objects a task made are asked about, to name them to the user: what a
\* call that fails did not return is read nevertheless.
Invoke_Task(m) ==
    Go(Changing(m), LAMBDA c :
        IF c.action \notin {"Create", "Create_Container"} THEN c
        ELSE [Engine(c) EXCEPT !.ended = IF Engine(c).error = "OK" THEN "" ELSE "crash"])

\* The list goes back on the stack when asking for an object's information fails.
Acceptable_Objects(m) ==
    Pop(m, "LIST", LAMBDA p, l : Go(Engine(p), LAMBDA e :
        Push(Engine(e), Listed(l.list \cup (IF Engine(e).error = "OK" THEN Acceptable ELSE {})))))

Run_Task(m) ==
    Go(Engine(m), LAMBDA d :
        CASE \E o \in d.usage : ~Options[o].active -> Wrong(d, "INVALID_OPTION")
          [] d.acceptable -> Acceptable_Objects(d)
          [] OTHER -> Invoke_Task(d))

\* Slip: no cleaning up after a failure.
CleanedWhenDone(m, kids, handle, forward) ==
    Go(Setup_Task(m, handle, m.action), LAMBDA s :
        LET done == Go(ForEachItem(s, IF forward THEN kids ELSE Reverse(kids)), Run_Task)
        IN  IF done.acceptable THEN done ELSE Go(done, Cleanup_Task))

\* A task another will still ask about is left for that one to clean up.
Do_Feature(m, kids, handle, forward) ==
    Go(Setup_Task(m, handle, m.action), LAMBDA s :
        LET done == Go(ForEachItem(s, IF forward THEN kids ELSE Reverse(kids)), Run_Task)
        IN  IF done.acceptable THEN done ELSE After(done, Cleanup_Task))

\* Do_Feature_ID and Do_Feature_Name
Do_Feature_Name(m, node) ==
    LET h == Named(node.value)
    IN  Go(Engine(m), LAMBDA e :
            IF h \in DOMAIN World /\ World[h].type = "PLUGIN"
            THEN Do_Feature(e, node.kids, h, FALSE) ELSE Wrong(e, "Engine"))

\* As many handles as the list has objects.
Pop_Handles(m, n, F(_, _)) ==
    LET left == Len(m.stack) - n
        top == SubSeq(m.stack, left + 1, Len(m.stack))
    IN  IF left >= 0 /\ \A i \in 1..n : top[i].tag = "HANDLE"
        THEN F([m EXCEPT !.stack = SubSeq(@, 1, left)], {top[i].text : i \in 1..n})
        ELSE [m EXCEPT !.ended = "abort"]

\* Slip: the objects the engine declined are not looked at.
DeclinedToo(m, objects) == Go(Engine(m), LAMBDA e : [e EXCEPT !.chosen = objects])

\* The engine may decline some of the objects.
Select_Objects(m, objects) ==
    Go(Engine(m), LAMBDA e : IF objects \subseteq Acceptable THEN [e EXCEPT !.chosen = objects]
                             ELSE Wrong(e, "EINVAL"))

Do_ObjectList(m, node) ==
    Children(m, node, LAMBDA c :
        IF node.kids = << >> THEN c ELSE Pop_Handles(c, Len(node.kids), Select_Objects))

-----------------------------------------------------------------------------
(* Commands *)

\* The first child says which object; the others are left.
First_Object(m, node, F(_, _)) ==
    Go(Process_Node(m, node.kids[1]), LAMBDA c : Pop(c, "HANDLE", LAMBDA p, h : F(p, h.text)))

Acting(m, action) == [m EXCEPT !.action = action]

\* The object to allocate is looked up twice, here and by Do_Feature.
Do_Allocation(m, node) ==
    First_Object(m, node.kids[1], LAMBDA p, h :
        LET e == Engine(p)
        IN  IF e.error = "OK" /\ World[h].type \in {"REGION", "SEGMENT"}
            THEN Do_Feature(Acting(e, "Create"), node.kids, World[h].plugin, TRUE)
            ELSE Wrong(e, "EINVAL"))

Do_Object_And_Options(m, node, action) ==
    First_Object(Acting(m, action), node, LAMBDA p, h : Do_Feature(p, Tail(node.kids), h, FALSE))

\* Slip: the operand is popped although the child failed.
PoppedAnyway(m, node, action) ==
    Pop(Process_Node(m, node.kids[1]), "HANDLE", LAMBDA p, h : Go(Engine(p), LAMBDA e :
        Do_Feature(Acting(e, action), Tail(node.kids), h.text, FALSE)))

\* Do_Expand and Do_Shrink
Do_Expand(m, node, action) ==
    First_Object(m, node, LAMBDA p, h : Go(Engine(p), LAMBDA e :
        Do_Feature(Acting(e, action), Tail(node.kids), h, FALSE)))

\* A task the plug-in does not have is reported, but is no error.
Do_Task(m, node) ==
    LET rest == [node EXCEPT !.kids = Tail(@)]
    IN  Go(Process_Node(m, node.kids[1]), LAMBDA c : Pop(c, "STRING", LAMBDA p, name :
            First_Object(p, rest, LAMBDA q, h : Go(Engine(q), LAMBDA e :
                IF name.text \in Functions
                THEN Do_Feature(Acting(e, name.text), Tail(rest.kids), h, FALSE) ELSE e))))

\* Mounting changes nothing that is committed.
Do_Mount(m, node) ==
    First_Object(m, node, LAMBDA p, h :
        Go(Process_Node(p, node.kids[2]), LAMBDA s : Pop(s, "STRING", LAMBDA q, i :
            IF Len(node.kids) = 2 THEN Engine(q)
            ELSE Go(Process_Node(q, node.kids[3]), LAMBDA o :
                     Pop(o, "STRING", LAMBDA r, j : Engine(r))))))

Do_Unmount(m, node) == First_Object(m, node, LAMBDA p, h : Engine(p))

\* What is left on the stack by the children, from the top.
Operands ==
    [Revert_Node |-> <<"HANDLE">>, Activate_Node |-> <<"HANDLE">>,
     Deactivate_Node |-> <<"HANDLE">>, Delete_Node |-> <<"HANDLE">>,
     Unformat_Node |-> <<"HANDLE">>, Remove_Node |-> <<"HANDLE">>,
     Rename_Node |-> <<"STRING", "HANDLE">>, Replace_Node |-> <<"HANDLE", "HANDLE">>]

Pop_Operands(m, tags, F(_)) ==
    IF Len(tags) = 1 THEN F(Drop(m, tags[1]))
    ELSE LET p == Drop(m, tags[1]) IN IF p.ended = "" THEN F(Drop(p, tags[2])) ELSE p

Do_Operation(m, node, tags) ==
    Children(m, node, LAMBDA c : Pop_Operands(c, tags, LAMBDA p : Go(p, Changing)))

\* Objects, regions and containers are created by the task the child runs.
Do_Create(m, node) ==
    CASE node.value = "VOLUME" -> Do_Operation(m, node, <<"STRING", "HANDLE">>)
      [] node.value = "COMPATIBILITY" -> Do_Operation(m, node, <<"HANDLE">>)
      [] node.value = "CONTAINER" -> ForEachItem(Acting(m, "Create_Container"), node.kids)
      [] OTHER -> ForEachItem(Acting(m, "Create"), node.kids)

Do_Convert(m, node) ==
    Do_Operation(m, node, IF node.value = "EVMS" THEN <<"STRING", "HANDLE">> ELSE <<"HANDLE">>)

\* Slip: a string nobody pops.
EchoPeeks(m, node) == ForEachItem(m, node.kids)

Do_Echo(m, node) == Children(m, node, LAMBDA c : Drop(c, "STRING"))

Close_Engine(m) ==
    [m EXCEPT !.open = FALSE, !.pending = FALSE, !.task = "none", !.usage = {},
              !.chosen = {}, !.lost = FALSE]
Open_Engine(m) == [m EXCEPT !.open = TRUE]

\* Closing what the engine keeps and opening it again is one call each.
Do_Probe(m) ==
    Go(Go(Engine(m), LAMBDA e : IF e.pending THEN Commit_Changes(e) ELSE e), LAMBDA c :
        Go(Engine(c), LAMBDA e :
            LET o == Engine([Close_Engine(e) EXCEPT !.open = TRUE])
            IN  IF o.error = "OK" THEN o ELSE [o EXCEPT !.open = FALSE]))

Do_Commit(m, node) ==
    IF node.value = "HOLD" THEN [m EXCEPT !.held = TRUE]
    ELSE Commit_Changes([m EXCEPT !.held = @ /\ node.value # "RELEASE"])

-----------------------------------------------------------------------------
(* Queries *)

\* What a query that lists things starts with.
Queried ==
    [VOLUMES |-> {"VOLUME"}, PLUGINS |-> {"PLUGIN"}, REGIONS |-> {"REGION"},
     OBJECTS |-> StorageTypes, CONTAINERS |-> {"CONTAINER"}, DISKS |-> {"DISK"},
     SEGMENTS |-> {"SEGMENT"}, ACCEPTABLE |-> {}]
Return_Values(what) == {o \in DOMAIN World : World[o].type \in Queried[what]}

\* Display_Plugin_Tasks and Print_Expand_Shrink_Move_Slide_Info set every task
\* up to list its options; it does not matter if they fail.
Listed_Tasks(object) ==
    Functions \cup (IF World[object].type = "PLUGIN"
                    THEN {"Create", "Create_Container", "Assign", "mkfs", "fsck"}
                    ELSE {"Set_Info", "Expand", "Shrink"})
List_Task(m, object, action) ==
    LET s == Go(Setup_Task(m, object, action), Cleanup_Task)
    IN  IF s.ended = "" THEN Wrong(s, "OK") ELSE s

Print_Object_Info(m, object) ==
    LET p == [m EXCEPT !.sent = @ \cup {object}]
    IN  IF p.listOptions
        THEN FoldSet(LAMBDA t, l : List_Task(l, object, t), p, Listed_Tasks(object)) ELSE p

Print_All(m, list) ==
    [FoldSet(LAMBDA o, p : Print_Object_Info(p, o), m, list) EXCEPT !.listOptions = FALSE]

Do_Query(m, node) ==
    LET e == IF node.value = "ACCEPTABLE" THEN m ELSE Go(Engine(m), Engine)
    IN  Go(e, LAMBDA l :
            Children(Push(l, Listed(Return_Values(node.value))), node, LAMBDA c :
                Pop(c, "LIST", LAMBDA p, found : Print_All(p, found.list))))

\* The engine's points are the objects below that can be resized.
Points(object, Can(_)) ==
    LET below[o \in DOMAIN World] ==
            (IF Can(o) THEN {o} ELSE {}) \cup UNION {below[c] : c \in World[o].children}
    IN  below[object]

Parents(object) ==
    CASE World[object].type \in {"VOLUME", "PLUGIN"} -> {}
      [] World[object].parents = {} -> {World[object].volume} \ {None}
      [] OTHER -> World[object].parents

Related(what, object) ==
    CASE what = "EP" -> Points(object, LAMBDA o : World[o].grows)
      [] what = "SP" -> Points(object, LAMBDA o : World[o].shrinks)
      [] what = "CHILDREN" -> World[object].children
      [] OTHER -> Parents(object)

Do_Query_Type_2(m, node) ==
    Children(m, node, LAMBDA c : Pop(c, "HANDLE", LAMBDA p, h :
        Go(Engine(p), LAMBDA e :
            LET found == Related(node.value, h.text)
            IN  Go(IF found = {} THEN e ELSE Engine(e), LAMBDA i : Print_All(i, found)))))

\* The name of a field comes after the object.
Do_Query_Extended_Info(m, node) ==
    Children(m, node, LAMBDA c :
        Pop_Operands(c, IF Len(node.kids) = 2 THEN <<"STRING", "HANDLE">> ELSE <<"HANDLE">>,
                     LAMBDA p : Go(p, Engine)))

-----------------------------------------------------------------------------
(* Filters: the list is popped, the operands are found, the list is pruned and
   pushed again. *)

\* The engine is asked about the objects of some types, which may fail.
Prune(m, list, asked, Keeps(_)) ==
    Go(IF \E o \in list : World[o].type \in asked THEN Engine(m) ELSE m, LAMBDA e :
        Push(e, Listed({o \in list : Keeps(o)})))

Pop_List(m, node, F(_, _)) ==
    Pop(m, "LIST", LAMBDA p, l : Children(p, node, LAMBDA c : F(c, l.list)))

\* Do_Volume_Filter, Do_Plugin_Filter, Do_Disk_Filter, Do_Segment_Filter
Do_Handle_Filter(m, node, asked, Scan(_, _)) ==
    Pop_List(m, node, LAMBDA c, list : Pop(c, "HANDLE", LAMBDA p, h :
        Prune(p, list, asked, LAMBDA o : Scan(o, h.text))))

\* Do_Object_Filter, Do_Container_Filter, Do_Region_Filter
Do_Object_Filter(m, node, asked, Scan(_, _)) ==
    Pop_List(m, node, LAMBDA c, list : Pop(c, "HANDLE", LAMBDA p, h : Go(Engine(p), LAMBDA e :
        Prune(e, list, asked, LAMBDA o : Scan(o, h.text)))))

Do_Filter(m, node, asked, Keeps(_)) ==
    Pop(m, "LIST", LAMBDA p, l : Prune(p, l.list, asked, Keeps))

Do_Plugin_Type_Filter(m, node) ==
    Pop_List(m, node, LAMBDA c, list : Pop(c, "MASK", LAMBDA p, mask :
        Prune(p, list, {}, LAMBDA o : Scan_For_Plugins(World, o, mask.text))))

\* Bound: what stands for 2^64 in sizes, which are unsigned.
Wrap == 100000

\* A tolerance is above the size on the stack, its kind above that.
Pop_Tolerance(m, n, F(_, _)) ==
    IF n < 2 THEN F(m, [Item("INTEGER") EXCEPT !.text = "absolute"])
    ELSE Pop(m, "BOOLEAN", LAMBDA p, percent : Pop(p, "INTEGER", LAMBDA q, t :
             F(q, [t EXCEPT !.text = IF percent.num = 1 THEN "percent" ELSE "absolute"])))

Generic_Size_Filter(m, node, type) ==
    Pop(m, "LIST", LAMBDA l, found : Children([l EXCEPT !.units = "None"], node, LAMBDA c :
        Pop_Tolerance(c, IF type = "EQ" THEN Len(node.kids) ELSE 1, LAMBDA p, tolerance :
            Pop(p, "INTEGER", LAMBDA q, size :
                LET by == IF tolerance.text = "percent" THEN (size.num * tolerance.num) \div 100
                          ELSE tolerance.num
                IN  Prune(q, found.list, {}, LAMBDA o :
                        Scan_For_Size(World, o, type, (size.num - by) % Wrap,
                                      (size.num + by) % Wrap))))))

\* Not every kind of object can be asked directly: the task is tried.
Ask_Directly(object, action) ==
    CASE World[object].type = "VOLUME" -> TRUE
      [] action = "Expand" -> World[object].type = "EVMS_OBJECT" /\ Topmost(World[object])
      [] OTHER -> World[object].type = "CONTAINER" \/ Topmost(World[object])

\* Scan_For_Expandable and Scan_For_Shrinkable: the object goes into the list
\* if the engine says so, whatever happens when the task is cleaned up.
Scan_For_Resizable(m, object, action) ==
    LET e == Engine(m)
        s == Setup_Task(m, object, action)
        asked == IF Ask_Directly(object, action)
                 THEN IF Able(object, action) THEN e ELSE Wrong(e, "Engine")
                 ELSE After(s, Cleanup_Task)
        kept == IF Ask_Directly(object, action) THEN asked.error = "OK" ELSE s.error = "OK"
        list == Last(m.stack).list
    IN  IF World[object].type = "PLUGIN" \/ kept
        THEN [Wrong(asked, "OK") EXCEPT !.stack = Append(Front(@), Listed(list \cup {object}))]
        ELSE Wrong(asked, "OK")

Do_Resizable_Filter(m, action) ==
    Pop(m, "LIST", LAMBDA p, l :
        FoldSet(LAMBDA o, s : Scan_For_Resizable(s, o, action), Push(p, Listed({})), l.list))

\* No selected objects are taken from the list of what a volume can be made of.
Do_Topmost_Objects(m) ==
    LET found == {o \in DOMAIN World : World[o].type = "EVMS_OBJECT" /\ Topmost(World[o])}
        made(p, list) == Go(Go(Engine(p), Engine), LAMBDA e : Push(e, Listed(list \cup found)))
    IN  Pop(m, "LIST", LAMBDA p, l : [made(p, l.list) EXCEPT !.useSelected = FALSE])

Remove_Selected(m) ==
    Pop(m, "LIST", LAMBDA p, l : Go(Engine(p), LAMBDA e :
        Prune(e, l.list, {}, LAMBDA o : Scan_For_Selected_Objects(World, o, e.chosen))))

\* The task that was set up to ask it what it accepts; only here, where
\* nothing failed, it is cleaned up.
Acceptable_Filter(asked) ==
    Go([asked EXCEPT !.acceptable = FALSE], LAMBDA a :
        IF a.useSelected THEN After(Remove_Selected(a), Cleanup_Task) ELSE a)

Asking(m) == [m EXCEPT !.acceptable = TRUE, !.useSelected = TRUE]

Do_Query_Acceptable_Expand_Filter(m, node) ==
    Acceptable_Filter(Do_Expand(Asking(m), node, "Expand"))
Do_Query_Acceptable_Create_Filter(m, node) ==
    Acceptable_Filter(ForEachItem(Acting(Asking(m), "Create"), node.kids))
Do_Task_Adjust(m, node) == ForEachItem(Acting(m, "Create_Container"), node.kids)

Object_Filter(m, node) ==
    CASE node.value = "VOLUME" ->
           Do_Handle_Filter(m, node, {"PLUGIN"}, LAMBDA o, h : Scan_For_Volumes(World, o, h))
      [] node.value = "PLUGIN" ->
           Do_Handle_Filter(m, node, {"VOLUME"}, LAMBDA o, h : Scan_For_Plugin(World, o, h))
      [] node.value = "DISK" ->
           Do_Handle_Filter(m, node, {"SEGMENT"}, LAMBDA o, h : Scan_For_Disks(World, o, h))
      [] node.value = "SEGMENT" ->
           Do_Handle_Filter(m, node, {"SEGMENT"}, LAMBDA o, h : Scan_For_Segments(World, o, h))
      [] node.value = "OBJECT" ->
           Do_Object_Filter(m, node, {"PLUGIN", "REGION", "SEGMENT"},
                            LAMBDA o, h : Scan_For_Objects(World, o, h))
      [] node.value = "CONTAINER" ->
           Do_Object_Filter(m, node, {"VOLUME"}, LAMBDA o, h : Scan_For_Containers(World, o, h))
      [] node.value = "REGION" ->
           Do_Object_Filter(m, node, {"VOLUME", "EVMS_OBJECT"},
                            LAMBDA o, h : Scan_For_Regions(World, o, h))

Other_Filter(m, node) ==
    CASE node.value \in {"GT", "LT", "EQ"} -> Generic_Size_Filter(m, node, node.value)
      [] node.value = "TYPE" -> Do_Plugin_Type_Filter(m, node)
      [] node.value = "EXPANDABLE" -> Do_Resizable_Filter(m, "Expand")
      [] node.value = "SHRINK" -> Do_Resizable_Filter(m, "Shrink")
      [] node.value = "EXPAND" -> Do_Query_Acceptable_Expand_Filter(m, node)
      [] node.value = "CREATE" -> Do_Query_Acceptable_Create_Filter(m, node)
      [] node.value \in {"UNCLAIMED", "AVAILABLE"} ->
           Do_Filter(m, node, {}, LAMBDA o : Scan_For_Unclaimed(World, o))
      [] node.value = "FREESPACE" ->
           Do_Filter(m, node, {"CONTAINER"}, LAMBDA o : Scan_For_Freespace(World, o))
      [] node.value = "CONVERTIBLE" ->
           Do_Filter(m, node, {"VOLUME"}, LAMBDA o : Scan_For_Convertible(World, o))
      [] node.value = "LO" -> [m EXCEPT !.listOptions = TRUE]

-----------------------------------------------------------------------------
(* Process_Node, by the kinds of nodes *)

Data_Node(m, node) ==
    CASE node.type = "StringData" -> Push(m, [Item("STRING") EXCEPT !.text = node.value])
      [] node.type = "IntegerData" -> Do_IntegerData(m, node)
      [] node.type = "RealNumberData" -> Do_RealNumber(m, node)
      [] node.type = "Units_Node" -> Do_Unit_Conversion(m, node)
      [] node.type = "Precision_Node" -> Do_Precision(m, node)
      [] node.type = "Plugin_Mask" -> Mask(m, node)
      [] node.type \in DOMAIN Name_To_Handle -> Do_Name(m, node, Name_To_Handle[node.type])

\* What is committed when it is done, unless commits are held.
Change_Node(m, node) ==
    CASE node.type \in DOMAIN Operands -> Do_Operation(m, node, Operands[node.type])
      [] node.type = "Create_Node" -> Do_Create(m, node)
      [] node.type = "Convert_Node" -> Do_Convert(m, node)
      [] node.type = "Allocate_Node" -> Do_Allocation(m, node)
      [] node.type = "Set_Node" -> Do_Object_And_Options(m, node, "Set_Info")
      [] node.type = "Check_Node" -> Do_Object_And_Options(m, node, "fsck")
      [] node.type = "Expand_Node" -> Do_Expand(m, node, "Expand")
      [] node.type = "Shrink_Node" -> Do_Expand(m, node, "Shrink")
      [] node.type = "Task_Node" -> Do_Task(m, node)
      [] node.type = "Mount_Node" -> Do_Mount(m, node)
      [] node.type = "Unmount_Node" -> Do_Unmount(m, node)
      [] node.type = "Format_Node" -> ForEachItem(Acting(m, "mkfs"), node.kids)
      [] node.type = "Assign_Node" -> ForEachItem(Acting(m, "Assign"), node.kids)
      [] node.type = "Add_Feature_Node" -> ForEachItem(Acting(m, "Add_Feature"), node.kids)

Changes ==
    DOMAIN Operands \cup
    {"Create_Node", "Convert_Node", "Allocate_Node", "Set_Node", "Check_Node", "Expand_Node",
     "Shrink_Node", "Task_Node", "Mount_Node", "Unmount_Node", "Format_Node", "Assign_Node",
     "Add_Feature_Node"}

Commit_When_Done(m) == Go(m, LAMBDA c : IF c.held THEN c ELSE Commit_Changes(c))

Query_Node(m, node) ==
    CASE node.type = "Query_Node" -> Do_Query(m, node)
      [] node.type = "Query_Node_Type_2" -> Do_Query_Type_2(m, node)
      [] node.type = "Query_Extended_Info" -> Do_Query_Extended_Info(m, node)
      [] node.type = "Task_Adjust" -> Do_Task_Adjust(m, node)
      [] node.type = "Topmost_Objects" -> Do_Topmost_Objects(m)
      [] node.value \in {"VOLUME", "PLUGIN", "DISK", "SEGMENT", "OBJECT", "CONTAINER", "REGION"} ->
           Object_Filter(m, node)
      [] OTHER -> Other_Filter(m, node)

Queries == {"Query_Node", "Query_Node_Type_2", "Query_Extended_Info", "Task_Adjust",
            "Topmost_Objects", "Filter"}

Process_Node(m, node) ==
    CASE node.type \in Changes -> Commit_When_Done(Change_Node(m, node))
      [] node.type \in Queries -> Query_Node(m, node)
      [] node.type \in {"Feature_Name", "Feature_ID", "Plugin_Name"} -> Do_Feature_Name(m, node)
      [] node.type = "Name_Value_Pair" -> Do_Name_Value_Pair(m, node)
      [] node.type = "ObjectList" -> Do_ObjectList(m, node)
      [] node.type = "Echo_Node" -> Do_Echo(m, node)
      [] node.type = "Commit_Node" -> Do_Commit(m, node)
      [] node.type = "Probe_Node" -> Do_Probe(m)
      [] node.type = "Quit_Node" -> Wrong(m, "Quit")
      [] node.type = "Help_Node" -> m
      [] node.type = "unset" -> m
      [] OTHER -> Data_Node(m, node)

\* Slip: the statics of the line before stay.
InterpretAsBefore(m, commands) == ForEachItem(m, commands)

Interpret_Commands(m, commands) ==
    ForEachItem([m EXCEPT !.acceptable = FALSE, !.listOptions = FALSE], commands)
=============================================================================
