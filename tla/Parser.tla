-------------------------------- MODULE Parser --------------------------------
(***************************************************************************)
(* The EVMS command parser (evms/parser.c) over screened tokens: recursive *)
(* descent on a one-way token source, with a queue of tokens kept for      *)
(* lookahead.                                                              *)
(*                                                                         *)
(* The static variables of the C file and the node being filled in are one *)
(* record, a parse state; every C function is an operator from parse       *)
(* states to parse states.  Tokens are named by their position in the      *)
(* line, position 0 being Null_Token.  A function that creates a child     *)
(* works on it as the current node (Child), a lookahead on a temporary one *)
(* (Look).  malloc does not fail here, and what is reported is only that   *)
(* something was.                                                          *)
(***************************************************************************)
EXTENDS Integers, Sequences, SequencesExt

KeyWord(w) == [ch |-> "KeyWord", txt |-> w]
Separator(c) == [ch |-> "Separator", txt |-> c]
Eof == [ch |-> "EofToken", txt |-> ""]
InvalidCharacter == [ch |-> "InvalidCharacter", txt |-> ""]

TokenAt(line, p) == IF p \in 1..Len(line) THEN line[p] ELSE Eof

Bare == [type |-> "unset", value |-> "", kids |-> << >>]

\* The statics as Parse_Command_Line leaves them before the first token.
Start(line) ==
    [line |-> line, fetched |-> 0,           \* tokens got from the screener
     ct |-> 0,                               \* Current_Token
     tokens |-> << >>, cursor |-> 0,         \* Tokens (NULL when empty)
     handles |-> << >>, active |-> 0,        \* Lookahead_Handles, LookAhead_Active
     node |-> Bare, used |-> {},             \* Current_Node, *Filters_In_Use
     res |-> "Accepted", reported |-> FALSE, list |-> << >>]

Token(s) == TokenAt(s.line, s.ct)
Word(s) == IF Token(s).ch = "KeyWord" THEN Token(s).txt ELSE ""
Operand == {"String", "Number", "RealNumber"}

Accept(s) == [s EXCEPT !.res = "Accepted"]
Report(s) == [s EXCEPT !.res = "Error", !.reported = TRUE]
MutedRefusal(s, Optional) == [s EXCEPT !.res = IF Optional THEN "Try_Again" ELSE "Error"]
SaidAnyway(s, Optional) == [MutedRefusal(s, Optional) EXCEPT !.reported = TRUE]
Refuse(s, Optional) == IF Optional THEN [s EXCEPT !.res = "Try_Again"] ELSE Report(s)

Then(s, F(_)) == IF s.res = "Accepted" THEN F(s) ELSE s

-----------------------------------------------------------------------------
(* Slips the properties are there to catch: each stands in for the definition
   of the same parameters below.  (MutedRefusal and SaidAnyway, above, are two for Refuse.) *)

NothingRestored(s) == [s EXCEPT !.node.kids = << >>]
ForgetPruned(s) == [s EXCEPT !.tokens = << >>, !.cursor = 0]
CursorLeft(s) == [s EXCEPT !.tokens = SubSeq(@, s.cursor, Len(@))]
NotReset(s, line) == [s EXCEPT !.line = line, !.node = Bare, !.list = << >>]

-----------------------------------------------------------------------------
(* Tokens and lookahead *)

Consume_Token(s) == [s EXCEPT !.ct = 0]

\* The next queued token, or one from the screener, which is queued while a
\* lookahead is active; otherwise the queue, used up, is destroyed.
Fetch(s) == [s EXCEPT !.fetched = @ + 1, !.ct = s.fetched + 1]
Next_Token(s) ==
    CASE s.cursor < Len(s.tokens) ->
           [s EXCEPT !.cursor = @ + 1, !.ct = s.tokens[s.cursor + 1]]
      [] s.cursor = Len(s.tokens) /\ s.tokens # << >> /\ s.active > 0 ->
           [Fetch(s) EXCEPT !.tokens = Append(@, s.fetched + 1), !.cursor = @ + 1]
      [] OTHER -> [Fetch(s) EXCEPT !.tokens = << >>, !.cursor = 0]

Read(s, F(_)) == F(Next_Token(s))

\* Remembers the place in the queue, which starts with the current token.
Activate_Lookahead(s) ==
    LET q == IF s.tokens = << >> THEN [s EXCEPT !.tokens = <<s.ct>>, !.cursor = 1] ELSE s
    IN  [q EXCEPT !.handles = Append(@, q.tokens[q.cursor]), !.active = @ + 1,
                  !.node = Bare]

\* Back to the place remembered last; the temporary node loses its children.
Restore_Current_Token(s) ==
    LET place == CHOOSE i \in DOMAIN s.tokens : s.tokens[i] = Last(s.handles)
    IN  [s EXCEPT !.cursor = place, !.ct = Last(s.handles), !.node.kids = << >>]

\* PruneList: the tokens before the current one are read for good.
DropRead(s) == [s EXCEPT !.tokens = SubSeq(@, s.cursor, Len(@)), !.cursor = 1]

Adopt(node, temp, keep) ==
    IF keep THEN [node EXCEPT !.kids = @ \o temp.kids] ELSE node

Terminate_Lookahead(s, node) ==
    LET t == [s EXCEPT !.active = @ - 1, !.handles = Front(@),
                       !.node = Adopt(node, s.node, s.res = "Accepted")]
    IN  IF t.active = 0 THEN DropRead(t) ELSE t

\* Where a word of two parts must go on with w.
SecondWord(s, w, F(_)) ==
    Read(Consume_Token(s), LAMBDA n : IF Word(n) = w THEN F(n) ELSE Report(n))

\* How lookahead is used: try F on a temporary node, and go back if it may
\* not apply.
GiveBack(s) == IF s.res = "Try_Again" THEN Restore_Current_Token(s) ELSE s
Look(s, F(_)) == Terminate_Lookahead(GiveBack(F(Activate_Lookahead(s))), s.node)

\* After an optional part only an error matters.
Optionally(s) == IF s.res = "Error" THEN s ELSE Accept(s)

\* Make_Child_Node(.., TRUE): F fills in the child, which stays whatever F returns.
AddChild(s, node) == [s EXCEPT !.node = [node EXCEPT !.kids = Append(@, s.node)]]
Child(s, F(_)) == AddChild(F([s EXCEPT !.node = Bare]), s.node)

Typed(s, type, value) == [s EXCEPT !.node.type = type, !.node.value = value]

\* Assign_Text, or strdup for a keyword.
Assign_Text(s, type) == Typed(s, type, Token(s).txt)

-----------------------------------------------------------------------------
(* Separators *)

Expect(s, c, Optional) ==
    Read(s, LAMBDA n : IF Token(n) = Separator(c) THEN Accept(Consume_Token(n))
                       ELSE Refuse(n, Optional))

Check_For_Colon(s, Optional) == Expect(s, ":", Optional)
Check_For_Comma(s, Optional) == Expect(s, ",", Optional)
Check_For_EqualSign(s, Optional) == Expect(s, "=", Optional)
Check_For_Open_Brace(s) == Expect(s, "{", FALSE)
Check_For_Closing_Brace(s) == Expect(s, "}", FALSE)
Check_For_Open_Paren(s) == Expect(s, "(", TRUE)
Check_For_Closing_Paren(s) == Expect(s, ")", TRUE)

\* A comma and then F, looked ahead for.
LookPastComma(s, F(_)) == Look(s, LAMBDA t : Then(Check_For_Comma(t, TRUE), F))

-----------------------------------------------------------------------------
(* Objects, names and values *)

Specify_Object(s, type, Optional) ==
    Read(s, LAMBDA n :
        IF Token(n).ch = "String"
        THEN Accept(Consume_Token(Child(n, LAMBDA c : Assign_Text(c, type))))
        ELSE Refuse(n, Optional))

RECURSIVE Objects(_)
\* Adds objects while there is a comma and an object.
Objects(s) ==
    Then(LookPastComma(s, LAMBDA t : Specify_Object(t, "Translate_Name_To_Handle", TRUE)),
         Objects)

AnyObjects(s, Optional) == IF s.node.kids = << >> THEN Refuse(s, Optional) ELSE Accept(s)

Parse_Object_List(s, Optional) ==
    Child(s, LAMBDA c : AnyObjects(Objects(Typed(c, "ObjectList", "")), Optional))

\* A string child; no report of its own.
Get_String(s, AcceptNumberAsString) ==
    LET kinds == {"KeyWord", "String"} \cup
                 (IF AcceptNumberAsString THEN {"Number", "RealNumber"} ELSE {})
    IN  Read(s, LAMBDA n :
            IF Token(n).ch \in kinds
            THEN Accept(Consume_Token(Child(n, LAMBDA c : Assign_Text(c, "StringData"))))
            ELSE Refuse(n, TRUE))

Name(s) == Get_String(s, FALSE)

DiskUnits == {"MB", "GB", "KB", "TB", "SECTORS"}
TimeUnits == {"MINUTES", "MILLISECONDS", "MICROSECONDS", "HOURS", "H", "SECONDS", "S"}

\* Keywords that begin like a unit: they are an error where a unit is optional.
UnitLetters ==
    {"M", "MKFS", "MOUNT", "MANUAL", "MODULE", "MODIFY", "MANAGER", "MANAGEMENT",
     "G", "GT", "H", "HOLD", "HELP", "K", "S", "SP", "SHRINKABLE", "SET", "SIZE", "SAVE",
     "START", "SHRINK", "SEGMENT", "SEGMENTS", "T", "TASK", "TYPE"}
    \cup DiskUnits \cup TimeUnits

UnitsOf(Allow_Time_Units) == DiskUnits \cup (IF Allow_Time_Units THEN TimeUnits ELSE {})
UnitName(w) == CASE w = "H" -> "HOURS" [] w = "S" -> "SECONDS" [] OTHER -> w

Parse_Units(s, Allow_Time_Units, Optional) ==
    Child(s, LAMBDA c : Read(c, LAMBDA n :
        IF Word(n) \in UnitsOf(Allow_Time_Units)
        THEN Accept(Consume_Token(Typed(n, "Units_Node", UnitName(Word(n)))))
        ELSE Refuse(n, Optional /\ Word(n) \notin UnitLetters)))

\* A number's child: the number and perhaps its units.
Measure(s, type, Allow_Time_Units) ==
    Optionally(Look(Consume_Token(Assign_Text(s, type)),
                    LAMBDA t : Parse_Units(t, Allow_Time_Units, TRUE)))

\* A string is not consumed here: the next token is read over it.
Value(s) ==
    Child(s, LAMBDA c : Read(c, LAMBDA n :
        CASE Token(n).ch = "Number"     -> Measure(n, "IntegerData", TRUE)
          [] Token(n).ch = "RealNumber" -> Measure(n, "RealNumberData", TRUE)
          [] Token(n).ch \in {"String", "KeyWord"} -> Accept(Assign_Text(n, "StringData"))
          [] OTHER -> Refuse(n, TRUE)))

Size(s) ==
    Child(s, LAMBDA c : Read(c, LAMBDA n :
        CASE Token(n).ch = "Number" ->
               Parse_Units(Consume_Token(Assign_Text(n, "IntegerData")), FALSE, FALSE)
          [] Token(n).ch = "RealNumber" ->
               Parse_Units(Consume_Token(Assign_Text(n, "RealNumberData")), FALSE, FALSE)
          [] OTHER -> Report(n)))

Precision(s) ==
    Child(s, LAMBDA c : Read(c, LAMBDA n :
        IF Token(n).ch = "Number" THEN Measure(n, "Precision_Node", FALSE)
        ELSE Refuse(n, TRUE)))

RECURSIVE Values(_)
\* A parenthesised list: what Value returned is overwritten by the search for
\* the parenthesis or the comma after it.
CloseOrComma(s, node) ==
    IF s.res = "Accepted" THEN Terminate_Lookahead(s, node)
    ELSE Then(Terminate_Lookahead(Check_For_Comma(Restore_Current_Token(s), FALSE), node),
              Values)
AfterValue(s) == CloseOrComma(Check_For_Closing_Paren(Activate_Lookahead(s)), s.node)
Values(s) == AfterValue(Value(s))

ValueOrValues(s) == IF s.res = "Accepted" THEN Values(s) ELSE Value(s)

Parse_Name_Value_Pair(s) ==
    Child(s, LAMBDA c :
        Then(Name(Typed(c, "Name_Value_Pair", "")), LAMBDA n :
            Then(Check_For_EqualSign(n, TRUE), LAMBDA e :
                ValueOrValues(Look(e, Check_For_Open_Paren)))))

RECURSIVE MorePairs(_)
\* Pairs, each after a comma, as long as there are any.
MorePairs(s) == Optionally(Then(LookPastComma(s, Parse_Name_Value_Pair), MorePairs))

\* The same where the comma before the first pair has been read.
Pairs(s) == Optionally(Then(Look(s, Parse_Name_Value_Pair), MorePairs))

\* name = string, the name part being a keyword.
NameValue(s, Optional) ==
    Read(s, LAMBDA v : IF Token(v).ch = "String"
                       THEN Accept(Consume_Token(Assign_Text(v, "StringData")))
                       ELSE Refuse(v, Optional))
Accept_Name(s, Name_Optional) ==
    Read(s, LAMBDA n :
        IF Word(n) \notin {"NAME", "N"} THEN Refuse(n, Name_Optional)
        ELSE Child(n, LAMBDA c :
               Then(Check_For_EqualSign(Consume_Token(Typed(c, "StringData", "")),
                                        Name_Optional),
                    LAMBDA e : NameValue(e, Name_Optional))))

Check_For_Compatibility_Keyword(s) ==
    Read(s, LAMBDA n : IF Word(n) \in {"COMPATIBILITY", "C"} THEN Accept(Consume_Token(n))
                       ELSE Refuse(n, TRUE))

\* A name or the word compatibility, which ends up in the command's value;
\* neither is an error, returned as Try_Again.
Compatible(s, node) ==
    IF s.res = "Accepted" THEN Terminate_Lookahead(s, [node EXCEPT !.value = "COMPATIBILITY"])
    ELSE [Terminate_Lookahead(s, node) EXCEPT !.reported = TRUE]
NamedOrCompatible(s, node) ==
    IF s.res # "Try_Again" THEN Terminate_Lookahead(s, node)
    ELSE Compatible(Check_For_Compatibility_Keyword(Restore_Current_Token(s)), node)
NameOrCompatibility(s) == NamedOrCompatible(Accept_Name(Activate_Lookahead(s), TRUE), s.node)

\* { pairs }, then what follows.
Braces(s, F(_)) ==
    Then(Check_For_EqualSign(s, FALSE), LAMBDA e :
        Then(Check_For_Open_Brace(e), LAMBDA b :
            Then(Pairs(b), LAMBDA p : Then(Check_For_Closing_Brace(p), F))))

\* The child of an identifier: a number is an id, a word or string a name.
Identifier(s, id, name, F(_)) ==
    Child(s, LAMBDA c : Read(c, LAMBDA n :
        IF Token(n).ch \in {"Number", "KeyWord", "String"}
        THEN F(Accept(Consume_Token(
                 Assign_Text(n, IF Token(n).ch = "Number" THEN id ELSE name))))
        ELSE Report(n)))

OptionalObjects(s, Optional) ==
    IF Optional THEN Accept(Look(s, LAMBDA t : Parse_Object_List(t, TRUE)))
    ELSE Look(s, LAMBDA t : Parse_Object_List(t, FALSE))

Feature_Identifier(s, Objects_Are_Optional) ==
    Identifier(s, "Feature_ID", "Feature_Name", LAMBDA i :
        Braces(i, LAMBDA b : OptionalObjects(b, Objects_Are_Optional)))

\* Parameters_Follow and Get_Object_List are both TRUE or both FALSE.
Plugin_Identifier(s, Parameters_Follow) ==
    Identifier(s, "Plugin_ID",
               IF Parameters_Follow THEN "Plugin_Name" ELSE "Name_To_Plugin_Handle",
               LAMBDA i : IF Parameters_Follow
                          THEN Braces(i, LAMBDA b : Parse_Object_List(b, FALSE))
                          ELSE i)

-----------------------------------------------------------------------------
(* Queries *)

\* One filter, if the query allows it and has not had it yet.
Filter(s, filter, Filters_Allowed, F(_)) ==
    IF filter \notin Filters_Allowed \/ filter \in s.used THEN Report(s)
    ELSE Then(Child(s, LAMBDA c : F(Consume_Token(Typed(c, "Filter", filter)))),
              LAMBDA r : [r EXCEPT !.used = @ \cup {filter}])

EqualTo(s) ==
    Then(Size(s), LAMBDA z : Optionally(LookPastComma(z, Precision)))

\* The words for a kind of plug-in: abbreviations and phrases, and the value
\* they stand for.
PluginKindsC == {<<(<<"CM">>), "CM">>, <<(<<"CLUSTER", "MANAGEMENT">>), "CM">>}
PluginKindsD ==
    {<<(<<"D">>), "DEVICE">>, <<(<<"DEVICE", "MANAGER">>), "DEVICE">>, <<(<<"DLM">>), "DLM">>,
     <<(<<"DISTRIBUTED", "LOCK", "MANAGER">>), "DLM">>}
PluginKindsF ==
    {<<(<<"F">>), "FEATURE">>, <<(<<"FEATURE">>), "FEATURE">>, <<(<<"FSIM">>), "FSIM">>,
     <<(<<"FILESYSTEM", "INTERFACE", "MODULE">>), "FSIM">>}
PluginKindsRS ==
    {<<(<<"R">>), "REGION">>, <<(<<"REGION", "MANAGER">>), "REGION">>,
     <<(<<"S">>), "SEGMENT">>, <<(<<"SEGMENT", "MANAGER">>), "SEGMENT">>}
PluginKinds == PluginKindsC \cup PluginKindsD \cup PluginKindsF \cup PluginKindsRS

RECURSIVE Phrase(_, _, _)
\* Reads the words of one of the phrases, the first of which are in said.
Phrase(s, said, phrases) ==
    Read(s, LAMBDA n :
        LET now == Append(said, Word(n))
            left == {p \in phrases : IsPrefix(now, p[1])}
        IN  CASE left = {} -> Report(n)
              [] \E p \in left : p[1] = now ->
                   Accept(Consume_Token(
                       [n EXCEPT !.node.value = (CHOOSE p \in left : p[1] = now)[2]]))
              [] OTHER -> Phrase(Consume_Token(n), now, left))

Plugin_Types(s) ==
    Child(s, LAMBDA c : Phrase(Typed(c, "Plugin_Mask", ""), << >>, PluginKinds))

\* A filter that names an object, looked up as one of a kind.
FilterOf(n, filter, type, allowed) ==
    Filter(n, filter, allowed, LAMBDA c :
        Then(Check_For_EqualSign(c, FALSE), LAMBDA e : Specify_Object(e, type, FALSE)))

FiltersAToD(n, w, allowed) ==
    CASE w \in {"AVAILABLE", "A"} -> Filter(n, "AVAILABLE", allowed, Accept)
      [] w = "CONVERTIBLE" -> Filter(n, "CONVERTIBLE", allowed, Accept)
      [] w \in {"CONTAINER", "C"} ->
           FilterOf(n, "CONTAINER", "Name_To_Container_Handle", allowed)
      [] w \in {"DISK", "D"} -> FilterOf(n, "DISK", "Name_To_Disk_Handle", allowed)

FiltersEToG(n, w, allowed) ==
    CASE w \in {"EXPANDABLE", "E"} -> Filter(n, "EXPANDABLE", allowed, Accept)
      [] w = "EQ" -> Filter(n, "EQ", allowed, EqualTo)
      [] w \in {"FREESPACE", "F"} -> Filter(n, "FREESPACE", allowed, Accept)
      [] w = "GT" -> Filter(n, "GT", allowed, Size)

FiltersLToP(n, w, allowed) ==
    CASE w = "LT" -> Filter(n, "LT", allowed, Size)
      [] w = "LO" -> Filter(n, "LO", allowed, Accept)
      [] w = "LIST" -> SecondWord(n, "OPTIONS", LAMBDA o : Filter(o, "LO", allowed, Accept))
      [] w \in {"OBJECT", "O"} -> FilterOf(n, "OBJECT", "Name_To_Object_Handle", allowed)
      [] w \in {"PLUGIN", "P"} ->
           Filter(n, "PLUGIN", allowed, LAMBDA c :
               Then(Check_For_EqualSign(c, FALSE), LAMBDA e : Plugin_Identifier(e, FALSE)))

FiltersRToV(n, w, allowed) ==
    CASE w \in {"REGION", "R"} -> FilterOf(n, "REGION", "Name_To_Region_Handle", allowed)
      [] w \in {"SEGMENT", "S"} -> FilterOf(n, "SEGMENT", "Name_To_Segment_Handle", allowed)
      [] w = "SHRINKABLE" -> Filter(n, "SHRINK", allowed, Accept)
      [] w \in {"TYPE", "T"} ->
           Filter(n, "TYPE", allowed, LAMBDA c :
               Then(Check_For_EqualSign(c, FALSE), Plugin_Types))
      [] w \in {"UNCLAIMED", "U"} -> Filter(n, "UNCLAIMED", allowed, Accept)
      [] w \in {"VOLUME", "V"} -> FilterOf(n, "VOLUME", "Name_To_Volume_Handle", allowed)

FilterBy(n, w, allowed) ==
    CASE w \in {"AVAILABLE", "A", "CONVERTIBLE", "CONTAINER", "C", "DISK", "D"} ->
           FiltersAToD(n, w, allowed)
      [] w \in {"EXPANDABLE", "E", "EQ", "FREESPACE", "F", "GT"} -> FiltersEToG(n, w, allowed)
      [] w \in {"LT", "LO", "LIST", "OBJECT", "O", "PLUGIN", "P"} -> FiltersLToP(n, w, allowed)
      [] w \in {"REGION", "R", "SEGMENT", "S", "SHRINKABLE", "TYPE", "T", "UNCLAIMED", "U",
                "VOLUME", "V"} -> FiltersRToV(n, w, allowed)
      [] OTHER -> Report(n)
Parse_Filters(s, Filters_Allowed) == Read(s, LAMBDA n : FilterBy(n, Word(n), Filters_Allowed))

RECURSIVE MoreFilters(_, _)
MoreFilters(s, allowed) ==
    Then(LookPastComma(s, LAMBDA t : Parse_Filters(t, allowed)),
         LAMBDA f : MoreFilters(f, allowed))

Parse_Optional_Query_Filters(s, allowed) ==
    Optionally(MoreFilters([s EXCEPT !.used = {}], allowed))

Sizes == {"LT", "GT", "EQ"}
Resizable == {"EXPANDABLE", "SHRINK"}

\* The filters each kind of query allows.
Listing ==
    [PLUGINS |-> {"AVAILABLE", "CONTAINER", "PLUGIN", "VOLUME", "REGION", "LO", "OBJECT",
                  "TYPE"},
     VOLUMES |-> {"CONTAINER", "PLUGIN", "VOLUME", "REGION", "LO", "OBJECT", "CONVERTIBLE"}
                 \cup Sizes \cup Resizable,
     REGIONS |-> {"AVAILABLE", "CONTAINER", "PLUGIN", "VOLUME", "UNCLAIMED", "REGION",
                  "LO", "OBJECT"} \cup Sizes \cup Resizable,
     DISKS |-> {"AVAILABLE", "PLUGIN", "UNCLAIMED", "LO", "SEGMENT", "DISK"} \cup Sizes,
     SEGMENTS |-> {"AVAILABLE", "CONTAINER", "PLUGIN", "UNCLAIMED", "LO", "DISK", "SEGMENT",
                   "FREESPACE"} \cup Sizes \cup Resizable,
     CONTAINERS |-> {"CONTAINER", "PLUGIN", "REGION", "LO", "SEGMENT", "FREESPACE"} \cup Sizes,
     OBJECTS |-> {"AVAILABLE", "CONTAINER", "PLUGIN", "VOLUME", "UNCLAIMED", "REGION", "LO",
                  "OBJECT"} \cup Sizes \cup Resizable]

\* A query about one object; s stands at the last word of its name.
QueryOne(s, value) ==
    Then(Check_For_Comma(Consume_Token(Typed(s, "Query_Node_Type_2", value)), FALSE),
         LAMBDA c : Specify_Object(c, "Translate_Name_To_Handle", FALSE))

Parse_Query_Extended_Info_Parameters(s) ==
    Then(Check_For_Comma(Consume_Token(Typed(s, "Query_Extended_Info", "")), FALSE), LAMBDA c :
        Then(Specify_Object(c, "Translate_Name_To_Handle", FALSE), LAMBDA o :
            Optionally(LookPastComma(o, Name))))

\* What to create; a volume takes nothing else, a container hides the rest in
\* a Task_Adjust node.
FeatureToCreate(s) ==
    Then(Check_For_Comma(Consume_Token(s), FALSE), LAMBDA f : Feature_Identifier(f, TRUE))
ToCreate(n, w) ==
    CASE w \in {"VOLUME", "V"} ->
           Accept(Consume_Token(Child(n, LAMBDA c : Typed(c, "Topmost_Objects", "VOLUME"))))
      [] w \in {"OBJECT", "O", "REGION", "R", "SEGMENT", "S"} -> FeatureToCreate(n)
      [] w \in {"CONTAINER", "C"} ->
           Child(n, LAMBDA c : FeatureToCreate(Typed(c, "Task_Adjust", "CONTAINER")))
      [] OTHER -> Report(n)
Parse_Query_Acceptable_Create(s) == Read(s, LAMBDA n : ToCreate(n, Word(n)))

AcceptableKind(n, filter) ==
    Check_For_Comma(Consume_Token(Typed(n, "Filter", filter)), FALSE)
AcceptableFor(n, w) ==
    CASE w \in {"CREATE", "C"} -> Then(AcceptableKind(n, "CREATE"), Parse_Query_Acceptable_Create)
      [] w \in {"EXPAND", "E"} ->
           Then(AcceptableKind(n, "EXPAND"), LAMBDA o :
               Then(Specify_Object(o, "Translate_Name_To_Handle", FALSE),
                    LAMBDA l : Accept(Parse_Object_List(l, TRUE))))
      [] OTHER -> Report(n)
Parse_Query_Acceptable_Parameters(s) ==
    Child(s, LAMBDA c : Read(c, LAMBDA n : AcceptableFor(n, Word(n))))

QueryList(n, what) ==
    Parse_Optional_Query_Filters(Consume_Token([n EXCEPT !.node.value = what]), Listing[what])

QueryAcceptable(n) ==
    Then(Check_For_Comma(Consume_Token([n EXCEPT !.node.value = "ACCEPTABLE"]), FALSE),
         Parse_Query_Acceptable_Parameters)

\* The words for a query that lists things, and about one thing.
Lists ==
    [CONTAINERS |-> "CONTAINERS", C |-> "CONTAINERS", SEGMENTS |-> "SEGMENTS",
     S |-> "SEGMENTS", PLUGINS |-> "PLUGINS", P |-> "PLUGINS", VOLUMES |-> "VOLUMES",
     V |-> "VOLUMES", REGIONS |-> "REGIONS", R |-> "REGIONS", DISKS |-> "DISKS",
     D |-> "DISKS", OBJECTS |-> "OBJECTS", O |-> "OBJECTS"]
Ones == {"CHILDREN", "PARENT", "EP", "SP"}

\* expand points, shrink points
Points(n, value) == SecondWord(n, "POINTS", LAMBDA p : QueryOne(p, value))

QueryAbout(n, w) ==
    CASE w \in {"ACCEPTABLE", "A"} -> QueryAcceptable(n)
      [] w \in DOMAIN Lists -> QueryList(n, Lists[w])
      [] w \in Ones -> QueryOne(n, w)
      [] w = "EXPAND" -> Points(n, "EP")
      [] w = "SHRINK" -> Points(n, "SP")
      [] w = "EXTENDED" -> SecondWord(n, "INFO", Parse_Query_Extended_Info_Parameters)
      [] w = "EI" -> Parse_Query_Extended_Info_Parameters(n)
      [] OTHER -> Report(n)
Query_Type(s) == Read(s, LAMBDA n : QueryAbout(n, Word(n)))

-----------------------------------------------------------------------------
(* Commands.  s stands at the keyword that begins the command. *)

\* The command's node, a colon, and the parameters.
Begin(s, type, F(_)) ==
    Then(Check_For_Colon(Consume_Token([s EXCEPT !.node.type = type]), FALSE), F)

TheObject(s) == Specify_Object(s, "Translate_Name_To_Handle", FALSE)
TheVolume(s) == Specify_Object(s, "Name_To_Volume_Handle", FALSE)

\* Assign_Parameters, Add_Feature_Parameters
Plugin_And_Objects(s) == Plugin_Identifier(s, TRUE)
Format_Parameters(s) == Plugin_And_Objects(s)

\* The object is in a list of its own, and a comma follows it always.
Allocate(s, type) ==
    Then(Child(s, LAMBDA c : Specify_Object(Typed(c, "ObjectList", ""), type, FALSE)),
         LAMBDA o : Then(Check_For_Comma(o, FALSE), Pairs))

Allocation_Parameters(s) == Allocate(s, "Translate_Name_To_Handle")

Set_Parameters(s) == Then(TheObject(s), MorePairs)
Check_Parameters(s) == Then(TheVolume(s), MorePairs)

Expand_Shrink_Task_Parameters(s) ==
    Then(TheObject(s), LAMBDA o : Then(MorePairs(o), LAMBDA p :
        Optionally(Look(p, LAMBDA t : Parse_Object_List(t, TRUE)))))

Mount_Parameters(s) ==
    Then(TheObject(s), LAMBDA o : Then(Check_For_Comma(o, FALSE), LAMBDA c :
        Then(Specify_Object(c, "StringData", FALSE), LAMBDA m :
            Optionally(LookPastComma(m, LAMBDA t : Specify_Object(t, "StringData", FALSE))))))

CreateVolume(s) ==
    Then(Check_For_Comma(s, FALSE), LAMBDA c : Then(TheObject(c), LAMBDA o :
        Then(Check_For_Comma(o, FALSE), NameOrCompatibility)))

CreateSegment(s) ==
    Then(Check_For_Comma([s EXCEPT !.node.type = "Allocate_Node"], FALSE),
         LAMBDA c : Allocate(c, "Name_To_Segment_Handle"))

Create(n, w) ==
    LET what(value) == Consume_Token([n EXCEPT !.node.value = value])
    IN  CASE w \in {"VOLUME", "V"} -> CreateVolume(what("VOLUME"))
          [] w \in {"OBJECT", "O"} ->
               Then(Check_For_Comma(what("OBJECT"), FALSE), LAMBDA c : Feature_Identifier(c, FALSE))
          [] w \in {"CONTAINER", "C", "REGION", "R"} ->
               Then(Check_For_Comma(what(IF w \in {"REGION", "R"} THEN "REGION" ELSE "CONTAINER"),
                                    FALSE), Plugin_And_Objects)
          [] w \in {"SEGMENT", "S"} -> CreateSegment(what("SEGMENT"))
          [] OTHER -> Report(n)
Creation_Parameters(s) == Read(s, LAMBDA n : Create(n, Word(n)))

\* A colon and a word that becomes the command's value, if they follow.
TakeWord(s, node) ==
    Accept(IF s.res = "Accepted" THEN Terminate_Lookahead(s, [node EXCEPT !.value = s.node.value])
           ELSE Terminate_Lookahead(Restore_Current_Token(s), node))
ColonAndWord(s, F(_)) ==
    TakeWord(Then(Check_For_Colon(Activate_Lookahead(s), TRUE), F), s.node)

Commit_Type(s) ==
    Read(s, LAMBDA n : IF Word(n) \in {"HOLD", "RELEASE"}
                       THEN Accept(Consume_Token([n EXCEPT !.node.value = Word(n)]))
                       ELSE Refuse(n, TRUE))

\* The second word of delete; s is looking ahead afterwards.
AfterDelete(s) == Next_Token(Consume_Token(Activate_Lookahead(s)))

\* The topics of help: for the words, what the node's value becomes.
TopicsAToD ==
    [ACTIVATE |-> "ACTIVATE", ACT |-> "ACTIVATE", AF |-> "AF", ALLOCATE |-> "ALLOCATE",
     A |-> "ALLOCATE", ASSIGN |-> "ASSIGN", ASM |-> "ASM", CREATE |-> "CREATE",
     C |-> "CREATE", CHECK |-> "CHECK", CONVERT |-> "CONVERT", COMMIT |-> "COMMIT",
     DEACTIVATE |-> "DEACTIVATE", DEACT |-> "DEACTIVATE", DR |-> "DELETE", D |-> "DELETE"]
TopicsEToS ==
    [EXPAND |-> "EXPAND", E |-> "EXPAND", ECHO |-> "ECHO", EXIT |-> "EXIT",
     FORMAT |-> "FORMAT", F |-> "FORMAT", MKFS |-> "MKFS", M |-> "MKFS",
     MODIFY |-> "MODIFY", MOUNT |-> "MOUNT", SHRINK |-> "SHRINK", S |-> "SHRINK",
     SET |-> "SET", SAVE |-> "SAVE"]
TopicsQToU ==
    [QUERY |-> "QUERY", Q |-> "QUERY", QUIT |-> "QUIT", PROBE |-> "PROBE", P |-> "PROBE",
     RENAME |-> "RENAME", REVERT |-> "REVERT", REMOVE |-> "REMOVE", REPLACE |-> "REPLACE",
     TASK |-> "TASK", T |-> "TASK", UNFORMAT |-> "UNFORMAT", U |-> "UNFORMAT",
     UNMKFS |-> "UNMKFS", UNMOUNT |-> "UNMOUNT"]
Topics == TopicsAToD @@ TopicsEToS @@ TopicsQToU

\* The words that begin with add, at the last of them.
AddPhrase(s, Optional, F(_, _)) ==
    Read(Consume_Token(s), LAMBDA second :
        CASE Word(second) = "FEATURE" -> F(second, "AF")
          [] Word(second) = "SEGMENT" ->
               Read(Consume_Token(second), LAMBDA third :
                   IF Word(third) = "MANAGER" THEN F(third, "ASM") ELSE Refuse(third, Optional))
          [] OTHER -> Refuse(second, Optional))

\* After delete the token behind it is given back only when it is a keyword
\* other than recursive; otherwise it stays read.
NotRecursive(s) ==
    IF Word(s) \in {"", "RECURSIVE"} THEN s ELSE Restore_Current_Token(s)
HelpDelete(s) ==
    Accept([Terminate_Lookahead(NotRecursive(AfterDelete(s)), s.node)
                EXCEPT !.node.value = "DELETE"])

Topic(s, value) == Accept(Consume_Token([s EXCEPT !.node.value = value]))
Help_Type(s) ==
    Read(s, LAMBDA n :
        CASE Word(n) \in DOMAIN Topics -> Topic(n, Topics[Word(n)])
          [] Word(n) = "ADD" -> AddPhrase(n, TRUE, Topic)
          [] Word(n) = "DELETE" -> HelpDelete(n)
          [] OTHER -> Refuse(n, TRUE))

AddOrAssign(s, says) ==
    Begin(s, IF says = "AF" THEN "Add_Feature_Node" ELSE "Assign_Node", Plugin_And_Objects)

CommandA(s, w) ==
    CASE w \in {"ACTIVATE", "ACT"} -> Begin(s, "Activate_Node", TheObject)
      [] w = "ADD" -> AddPhrase(s, FALSE, AddOrAssign)
      [] w \in {"AF", "ASSIGN", "ASM"} -> AddOrAssign(s, IF w = "AF" THEN "AF" ELSE "ASM")
      [] w \in {"ALLOCATE", "A"} -> Begin(s, "Allocate_Node", Allocation_Parameters)

CommandC(s, w) ==
    CASE w = "CHECK" -> Begin(s, "Check_Node", Check_Parameters)
      [] w = "COMMIT" ->
           ColonAndWord(Consume_Token([s EXCEPT !.node.type = "Commit_Node"]), Commit_Type)
      [] w = "CONVERT" ->
           Begin([s EXCEPT !.node.value = "EVMS"], "Convert_Node", LAMBDA c :
               Then(TheObject(c), LAMBDA o : Then(Check_For_Comma(o, FALSE), NameOrCompatibility)))
      [] w \in {"CREATE", "C"} -> Begin(s, "Create_Node", Creation_Parameters)

\* delete takes back a recursive delete's objects without recursive.
Recursive(s, node) ==
    IF Word(s) = "RECURSIVE"
    THEN Terminate_Lookahead(s, [node EXCEPT !.type = "Delete_Node"])
    ELSE Terminate_Lookahead(Restore_Current_Token(s), [node EXCEPT !.type = "Revert_Node"])

CommandD(s, w) ==
    CASE w \in {"DEACTIVATE", "DEACT"} -> Begin(s, "Deactivate_Node", TheObject)
      [] w = "DR" -> Begin(s, "Delete_Node", TheObject)
      [] w = "DELETE" ->
           Then(Check_For_Colon(Recursive(AfterDelete([s EXCEPT !.node.type = "Revert_Node"]),
                                          s.node), FALSE), TheObject)
      [] w = "D" -> Begin(s, "Revert_Node", TheObject)

CommandE(s, w) ==
    CASE w \in {"EXPAND", "E"} -> Begin(s, "Expand_Node", Expand_Shrink_Task_Parameters)
      [] w = "ECHO" -> Begin(s, "Echo_Node", LAMBDA c :
                         Optionally(Look(c, LAMBDA t : Get_String(t, TRUE))))
      [] w = "EXIT" -> Consume_Token([s EXCEPT !.node.type = "Quit_Node"])

CommandF(s, w) == Begin(s, "Format_Node", Format_Parameters)

CommandH(s, w) == ColonAndWord(Consume_Token([s EXCEPT !.node.type = "Help_Node"]), Help_Type)

CommandM(s, w) ==
    CASE w = "MKFS" -> Begin(s, "Format_Node", Format_Parameters)
      [] w = "MODIFY" -> Begin(s, "Set_Node", Set_Parameters)
      [] w = "MOUNT" -> Begin(s, "Mount_Node", Mount_Parameters)

CommandP(s, w) == Consume_Token([s EXCEPT !.node.type = "Probe_Node"])

CommandQ(s, w) ==
    CASE w \in {"QUERY", "Q"} -> Begin(s, "Query_Node", Query_Type)
      [] w = "QUIT" -> Consume_Token([s EXCEPT !.node.type = "Quit_Node"])

CommandR(s, w) ==
    LET objectAnd(type, F(_)) ==
            Begin(s, type, LAMBDA c :
                Then(TheObject(c), LAMBDA o : Then(Check_For_Comma(o, FALSE), F)))
    IN  CASE w = "REVERT" -> Begin(s, "Revert_Node", TheObject)
          [] w = "REPLACE" -> objectAnd("Replace_Node", TheObject)
          [] w = "RENAME" -> objectAnd("Rename_Node", LAMBDA c : Accept_Name(c, FALSE))
          [] w = "REMOVE" -> Begin(s, "Remove_Node", TheObject)

CommandS(s, w) ==
    CASE w = "SAVE" ->
           ColonAndWord(Consume_Token([s EXCEPT !.node.type = "Commit_Node"]), Commit_Type)
      [] w \in {"SHRINK", "S"} -> Begin(s, "Shrink_Node", Expand_Shrink_Task_Parameters)
      [] w = "SET" -> Begin(s, "Set_Node", Set_Parameters)

CommandT(s, w) ==
    Begin(s, "Task_Node", LAMBDA c :
        Then(Specify_Object(c, "StringData", FALSE), LAMBDA a :
            Then(Check_For_Comma(a, FALSE), Expand_Shrink_Task_Parameters)))

CommandU(s, w) ==
    CASE w \in {"UNFORMAT", "U", "UNMKFS"} -> Begin(s, "Unformat_Node", TheVolume)
      [] w = "UNMOUNT" -> Begin(s, "Unmount_Node", TheObject)

Command(s) ==
    LET w == Word(s)
    IN  CASE w \in {"ACTIVATE", "ACT", "ADD", "AF", "ALLOCATE", "A", "ASSIGN", "ASM"} ->
               CommandA(s, w)
          [] w \in {"CHECK", "COMMIT", "CONVERT", "CREATE", "C"} -> CommandC(s, w)
          [] w \in {"DEACTIVATE", "DEACT", "DELETE", "DR", "D"} -> CommandD(s, w)
          [] w \in {"EXPAND", "E", "ECHO", "EXIT"} -> CommandE(s, w)
          [] w \in {"FORMAT", "F"} -> CommandF(s, w)
          [] w \in {"HELP", "H"} -> CommandH(s, w)
          [] w \in {"MKFS", "MODIFY", "MOUNT"} -> CommandM(s, w)
          [] w \in {"PROBE", "P"} -> CommandP(s, w)
          [] w \in {"QUERY", "Q", "QUIT"} -> CommandQ(s, w)
          [] w \in {"REVERT", "REPLACE", "RENAME", "REMOVE"} -> CommandR(s, w)
          [] w \in {"SAVE", "SHRINK", "S", "SET"} -> CommandS(s, w)
          [] w \in {"TASK", "T"} -> CommandT(s, w)
          [] w \in {"UNFORMAT", "U", "UNMKFS", "UNMOUNT"} -> CommandU(s, w)
          [] OTHER -> Report(s)

\* Free_Command_List: whatever was parsed is given up.
Free_Command_List(s) == [s EXCEPT !.list = << >>]

RECURSIVE Commands(_)
AfterCommand(c) ==
    IF c.res # "Accepted" THEN Free_Command_List(IF c.res = "Error" THEN c ELSE Report(c))
    ELSE Read([c EXCEPT !.list = Append(@, c.node)], LAMBDA next :
             CASE Token(next) = Eof -> Consume_Token(next)
               [] Token(next) = Separator(":") -> Commands(Next_Token(Consume_Token(next)))
               [] OTHER -> Free_Command_List(Report(next)))
\* s stands at the first token of a command, or at the end of the line.
Commands(s) ==
    IF Token(s).ch \in {"EofToken", "InvalidCharacter"} THEN s
    ELSE AfterCommand(Command([s EXCEPT !.node = Bare]))

\* What the line before left behind goes, whatever way its parse ended.
Reset(s, line) == [Start(line) EXCEPT !.used = s.used]

Parse_Command_Line(s, line) == Commands(Next_Token(Reset(s, line)))
=============================================================================
