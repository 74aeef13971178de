------------------------------- MODULE MCEvmsCli -------------------------------
(* An empty disk; a disk with a data and a free segment; a container of the data segment, with
   three regions, one of them free; a volume made of an object on a region, and
   a compatibility volume on the next. *)
EXTENDS EvmsCli

Plugin(k) == [Thing EXCEPT !.kind = k]

MCWorld ==
    [rm |-> Plugin("REGION"), sm |-> Plugin("SEGMENT"), ft |-> Plugin("FEATURE"),
     fs |-> Plugin("FSIM"), dm |-> Plugin("DEVICE"),
     d |-> [Thing EXCEPT !.type = "DISK", !.plugin = "dm", !.parents = {"s", "sf"}, !.size = 64],
     e |-> [Thing EXCEPT !.type = "DISK", !.plugin = "dm", !.size = 64],
     s |-> [Thing EXCEPT !.type = "SEGMENT", !.plugin = "sm", !.children = {"d"},
                         !.parents = {"r", "rf", "q"}, !.consumer = "c", !.size = 32],
     sf |-> [Thing EXCEPT !.type = "SEGMENT", !.plugin = "sm", !.children = {"d"},
                          !.data = "FREE_SPACE", !.size = 32],
     c |-> [Thing EXCEPT !.type = "CONTAINER", !.plugin = "rm", !.children = {"s"},
                         !.parents = {"r", "rf", "q"}, !.size = 32],
     r |-> [Thing EXCEPT !.type = "REGION", !.plugin = "rm", !.children = {"s"},
                         !.parents = {"o"}, !.volume = "v", !.producer = "c", !.size = 16,
                         !.grows = TRUE],
     rf |-> [Thing EXCEPT !.type = "REGION", !.plugin = "rm", !.children = {"s"},
                          !.data = "FREE_SPACE", !.producer = "c", !.size = 8],
     q |-> [Thing EXCEPT !.type = "REGION", !.plugin = "rm", !.children = {"s"},
                         !.volume = "w", !.producer = "c", !.size = 8, !.shrinks = TRUE],
     o |-> [Thing EXCEPT !.type = "EVMS_OBJECT", !.plugin = "ft", !.children = {"r"},
                         !.volume = "v", !.features = {"ft"}, !.size = 16, !.grows = TRUE],
     v |-> [Thing EXCEPT !.type = "VOLUME", !.children = {"o"}, !.features = {"ft"},
                         !.size = 16, !.grows = TRUE],
     w |-> [Thing EXCEPT !.type = "VOLUME", !.children = {"q"}, !.size = 8, !.shrinks = TRUE,
                         !.converts = TRUE]]

Option(type, unit) == [type |-> type, unit |-> unit, list |-> FALSE, active |-> TRUE, most |-> 50]

MCOptions ==
    [size |-> Option("INTEGER", "MB"), count |-> Option("INTEGER", "None"),
     ratio |-> Option("REAL", "None"), label |-> Option("String", "None"),
     on |-> Option("Boolean", "None"), letter |-> Option("Char", "None"),
     parts |-> [Option("INTEGER", "KB") EXCEPT !.list = TRUE],
     off |-> [Option("INTEGER", "None") EXCEPT !.active = FALSE]]

MCNumbers == [n \in {"1", "2", "2.0", "4", "7", "64", "200"} |->
                 CASE n = "1" -> 1 [] n \in {"2", "2.0"} -> 2 [] n = "4" -> 4 [] n = "7" -> 7
                   [] n = "64" -> 64 [] n = "200" -> 200]

Names == DOMAIN MCWorld \cup DOMAIN MCOptions \cup {"x", "y", "TRUE", "nothing"}

Token(t) ==
    CASE t \in {":", ",", "=", "(", ")", "{", "}"} -> P!Separator(t)
      [] t = "2.0" -> [ch |-> "RealNumber", txt |-> t]
      [] t \in DOMAIN MCNumbers -> [ch |-> "Number", txt |-> t]
      [] t \in Names -> [ch |-> "String", txt |-> t]
      [] OTHER -> P!KeyWord(t)

Typing(lines) == [l \in DOMAIN lines |-> [i \in DOMAIN lines[l] |-> Token(lines[l][i])]]

MCSession ==
    [hold |-> <<"COMMIT", ":", "HOLD">>, save |-> <<"SAVE">>, probe |-> <<"PROBE">>,
     quit |-> <<"ECHO", ":", "x", ":", "QUIT", ":", "DEACT", ":", "v">>,
     help |-> <<"H", ":", "CREATE">>, both |-> <<"DEACT", ":", "v", ":", "ACT", ":", "w">>,
     wrong |-> <<"DEACT", ":", "v", ":", "ACT", ":", ",">>,
     late |-> <<"COMMIT", ":", "RELEASE", ":", "DEACT", ":", "v", ":", "COMMIT", ":", "HOLD">>]

MCChanges ==
    [rename |-> <<"RENAME", ":", "v", ",", "NAME", "=", "x">>,
     replace |-> <<"REPLACE", ":", "s", ",", "sf">>, delete |-> <<"D", ":", "v">>,
     deact |-> <<"DEACT", ":", "v">>,
     cv |-> <<"C", ":", "V", ",", "o", ",", "NAME", "=", "x">>,
     ccompat |-> <<"C", ":", "V", ",", "o", ",", "C">>,
     convert |-> <<"CONVERT", ":", "w", ",", "NAME", "=", "x">>,
     co |-> <<"C", ":", "O", ",", "ft", "=", "{", "size", "=", "4", "MB", ",", "count", "=", "4", "}", ",", "r", ",", "sf">>,
     cc |-> <<"C", ":", "C", ",", "rm", "=", "{", "}", ",", "sf">>,
     cr |-> <<"C", ":", "R", ",", "rm", "=", "{", "parts", "=", "(", "4", ",", "2", ")", "}", ",", "sf">>,
     alloc |-> <<"A", ":", "rf", ",", "label", "=", "x">>,
     cs |-> <<"C", ":", "S", ",", "sf", ",", "size", "=", "64", "KB">>,
     cod |-> <<"C", ":", "O", ",", "ft", "=", "{", "size", "=", "4", "MB", "}", ",", "e">>,
     format |-> <<"F", ":", "fs", "=", "{", "label", "=", "x", "}", ",", "r">>,
     asm |-> <<"ASM", ":", "sm", "=", "{", "}", ",", "d">>,
     af |-> <<"AF", ":", "ft", "=", "{", "on", "=", "TRUE", "}", ",", "r">>]

MCTasks ==
    [set |-> <<"SET", ":", "c", ",", "size", "=", "64", "KB", ",", "ratio", "=", "2.0">>,
     setlist |-> <<"SET", ":", "v", ",", "parts", "=", "(", "4", ",", "2", ")", ",", "size", "=", "64", "KB">>,
     setoff |-> <<"SET", ":", "v", ",", "off", "=", "4">>,
     setbig |-> <<"SET", ":", "v", ",", "size", "=", "64">>,
     setname |-> <<"SET", ":", "v", ",", "letter", "=", "x", ",", "nothing", "=", "4">>,
     settwo |-> <<"SET", ":", "v", ",", "size", "=", "4", "MB", ",", "count", "=", "7">>,
     setbool |-> <<"SET", ":", "v", ",", "on", "=", "x">>,
     expand |-> <<"E", ":", "v", ",", "size", "=", "4", "MB", ",", "sf">>,
     noexp |-> <<"E", ":", "w", ",", "size", "=", "4", "MB">>, shrink |-> <<"S", ":", "w">>,
     task |-> <<"T", ":", "x", ",", "v", ",", "count", "=", "1">>,
     notask |-> <<"T", ":", "y", ",", "v">>,
     mount |-> <<"MOUNT", ":", "v", ",", "x", ",", "x">>, echo |-> <<"ECHO", ":", "x">>]

MCErrors ==
    [nothing |-> <<"ECHO", ":">>,
     number |-> <<"C", ":", "R", ",", "7", "=", "{", "size", "=", "4", "MB", "}", ",", "sf">>,
     time |-> <<"SET", ":", "v", ",", "size", "=", "4", "MINUTES">>,
     misfit |-> <<"SET", ":", "v", ",", "count", "=", "4", "MB">>]

MCAsks ==
    [children |-> <<"Q", ":", "CHILDREN", ",", "c">>,
     parent |-> <<"Q", ":", "PARENT", ",", "r">>,
     parentq |-> <<"Q", ":", "PARENT", ",", "q">>, ep |-> <<"Q", ":", "EP", ",", "v">>,
     sp |-> <<"Q", ":", "SP", ",", "v">>, ei |-> <<"Q", ":", "EI", ",", "v">>,
     eix |-> <<"Q", ":", "EI", ",", "v", ",", "x">>,
     aexp |-> <<"Q", ":", "ACCEPTABLE", ",", "E", ",", "v", ",", "r">>,
     aexpe |-> <<"Q", ":", "ACCEPTABLE", ",", "E", ",", "v", ",", "e">>,
     aexpx |-> <<"Q", ":", "ACCEPTABLE", ",", "E", ",", "v">>,
     aco |-> <<"Q", ":", "ACCEPTABLE", ",", "C", ",", "O", ",", "ft", "=", "{", "size", "=", "4", "MB", "}">>,
     acc |-> <<"Q", ":", "ACCEPTABLE", ",", "C", ",", "C", ",", "rm", "=", "{", "}", ",", "sf">>,
     acv |-> <<"Q", ":", "ACCEPTABLE", ",", "C", ",", "V">>,
     lo |-> <<"Q", ":", "V", ",", "V", "=", "v", ",", "LO">>,
     lop |-> <<"Q", ":", "P", ",", "LO", ",", "P", "=", "ft">>]

MCFilters ==
    [pv |-> <<"Q", ":", "P", ",", "V", "=", "v">>,
     po |-> <<"Q", ":", "P", ",", "O", "=", "o">>,
     pt |-> <<"Q", ":", "P", ",", "T", "=", "F">>,
     pc |-> <<"Q", ":", "P", ",", "C", "=", "c">>,
     vc |-> <<"Q", ":", "V", ",", "C", "=", "c">>,
     vr |-> <<"Q", ":", "V", ",", "R", "=", "q">>,
     vrr |-> <<"Q", ":", "V", ",", "R", "=", "r">>,
     vd |-> <<"Q", ":", "V", ",", "D", "=", "d">>,
     vo |-> <<"Q", ":", "V", ",", "O", "=", "o">>,
     vconv |-> <<"Q", ":", "V", ",", "CONVERTIBLE">>,
     vexp |-> <<"Q", ":", "V", ",", "E", ",", "GT", "2", "KB">>,
     rc |-> <<"Q", ":", "R", ",", "C", "=", "c", ",", "LT", "4", "KB">>,
     rv |-> <<"Q", ":", "R", ",", "V", "=", "v">>,
     ro |-> <<"Q", ":", "R", ",", "O", "=", "o">>,
     rp |-> <<"Q", ":", "R", ",", "P", "=", "rm", ",", "SHRINKABLE">>,
     rexp |-> <<"Q", ":", "R", ",", "E">>, rgt |-> <<"Q", ":", "R", ",", "GT", "4", "KB">>,
     ov |-> <<"Q", ":", "O", ",", "V", "=", "v">>,
     oc |-> <<"Q", ":", "O", ",", "C", "=", "c">>,
     oo |-> <<"Q", ":", "O", ",", "O", "=", "o", ",", "E">>,
     op |-> <<"Q", ":", "S", ",", "P", "=", "sm">>,
     cs2 |-> <<"Q", ":", "C", ",", "S", "=", "s", ",", "R", "=", "r">>,
     cf |-> <<"Q", ":", "C", ",", "F", ",", "EQ", "7", "KB", ",", "1", "KB">>,
     sd |-> <<"Q", ":", "S", ",", "D", "=", "d", ",", "F">>,
     sc |-> <<"Q", ":", "S", ",", "C", "=", "c">>,
     ss |-> <<"Q", ":", "S", ",", "EQ", "7", "KB", ",", "64">>,
     ds |-> <<"Q", ":", "D", ",", "S", "=", "sf", ",", "GT", "1", "KB">>,
     du |-> <<"Q", ":", "D", ",", "U">>,
     sall |-> <<"Q", ":", "S", ",", "C", "=", "c", ",", "GT", "4", "KB", ",", "LT", "64", "KB", ",", "D", "=", "d">>,
     dd |-> <<"Q", ":", "D", ",", "D", "=", "d", ",", "EQ", "4", "MB">>]

MCLines == Typing(MCSession @@ MCChanges @@ MCTasks @@ MCErrors @@ MCAsks @@ MCFilters)
MCIds == [n \in {"7"} |-> "rm"]
=============================================================================
