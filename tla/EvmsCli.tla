-------------------------------- MODULE EvmsCli --------------------------------
(***************************************************************************)
(* The command sessions of the server (EvmsCmd.c, evms/evms.c): clients    *)
(* open the engine, send command lines and close the engine again.  All of *)
(* them share one parser, one interpreter and one engine.  A line is       *)
(* interpreted to its end in one step, any one call of the engine failing; *)
(* its answer is the next.  What two link threads do to each other inside  *)
(* a line, for nothing locks the shared statics, is not modelled.          *)
(***************************************************************************)
EXTENDS Interpreter

CONSTANTS
    Clients,
    Lines,       \* bound: the command lines sent, as tokens, by a name of theirs
    MaxLeftovers \* bound: no line is sent once more operands than this were left behind,
                 \* and no call of a line sent over any fails

ASSUME SessionAssumption == MaxLeftovers \in Nat

P == INSTANCE Parser

Parsed == [l \in DOMAIN Lines |-> P!Parse_Command_Line(P!Start(<< >>), Lines[l])]

VARIABLES
    machine, \* the statics of the interpreter, and the engine
    line,    \* the line interpreted and not yet answered
    asker,   \* the client that sent it
    users    \* the clients that opened the engine, or tried to, and did not close it

vars == <<machine, line, asker, users>>

Opened == [Machine EXCEPT !.open = TRUE]

\* What a parsed line makes of the machine: one that does not parse is answered with
\* an error.
Obey(m, parsed) ==
    IF parsed.res = "Accepted" THEN Interpret_Commands(m, parsed.list) ELSE Wrong(m, "Parse")
Interpreted(m, l) == Obey(m, Parsed[l])

-----------------------------------------------------------------------------
Init == /\ machine = Machine
        /\ line = None
        /\ asker = None
        /\ users = {}

Ready == machine.ended = "" /\ line = None

\* The socket is remembered before the engine is opened.  Whether an engine that
\* is open already refuses the client or has it wait, that is all it changes.
evms_init(c) ==
    /\ Ready
    /\ \E opened \in {machine.open, TRUE} :
          machine' = [machine EXCEPT !.sock = c, !.open = opened]
    /\ users' = users \cup {c}
    /\ UNCHANGED <<line, asker>>

evms_func(c, l, fails) ==
    /\ machine' = Interpreted([machine EXCEPT !.fails = fails], l)
    /\ line' = l /\ asker' = c
    /\ UNCHANGED users

\* The answer; what the line was about is forgotten, with the statics that are
\* always set before they are read: Task_Action, Use_Selected_Objects_Filter.
Answer ==
    /\ line # None /\ machine.ended = ""
    /\ machine' = [machine EXCEPT !.calls = 0, !.fails = 0, !.error = "OK", !.sent = {},
                                  !.given = << >>, !.values = << >>, !.changes = 0,
                                  !.wrote = FALSE, !.action = "none", !.useSelected = FALSE]
    /\ line' = None /\ asker' = None
    /\ UNCHANGED users

\* Nobody asks whose engine it is, nor whether changes are held.
evms_deinit(c) ==
    /\ Ready
    /\ machine' = Close_Engine(machine)
    /\ users' = users \ {c}
    /\ UNCHANGED <<line, asker>>

\* With nothing left over any call of the engine that the line makes may fail.
Calls == [l \in DOMAIN Lines |-> Interpreted(Opened, l).calls]
MayFail(l) == IF machine.stack = << >> THEN 0..Calls[l] ELSE {0}

Next ==
    \/ \E c \in Clients :
          \/ evms_init(c) \/ evms_deinit(c)
          \/ /\ Ready /\ Len(machine.stack) <= MaxLeftovers
             /\ \E l \in DOMAIN Lines : \E fails \in MayFail(l) : evms_func(c, l, fails)
    \/ Answer

Spec == Init /\ [][Next]_vars

-----------------------------------------------------------------------------
(* The lines, by the words in them *)

With(words) == {l \in DOMAIN Lines : \E t \in Range(Lines[l]) : t.txt \in words}
Probing == With({"PROBE"})
Committing == With({"PROBE", "COMMIT", "SAVE"})
AskingAcceptable == With({"ACCEPTABLE"})

\* Where known errors of the C files occur (README, section 8): a plug-in named
\* by its number with parameters, an echo of nothing, a time or a size for an
\* option that does not have the unit.
ByNumber ==
    {l \in DOMAIN Lines : \E i \in 1..(Len(Lines[l]) - 1) :
        Lines[l][i].ch = "Number" /\ Lines[l][i + 1].txt = "="}
Misfit(tokens) ==
    \E i \in 1..(Len(tokens) - 3) :
        /\ tokens[i].txt \in DOMAIN Options /\ tokens[i + 1].txt = "="
        /\ \/ tokens[i + 3].txt \in DOMAIN Factor \ Space
           \/ tokens[i + 3].txt \in Space /\ Options[tokens[i].txt].unit \notin Space
Fatal ==
    {l \in DOMAIN Lines : Misfit(Lines[l]) \/ \E i \in DOMAIN Lines[l] :
        Lines[l][i].txt = "ECHO" /\ i + 1 = Len(Lines[l])}

\* Filters that differ from their documentation: the region filter among objects,
\* the plug-in filter among volumes but for features, the container filter among
\* objects, a tolerance above the size.
Other(q, f, named) ==
    \/ q.value = "OBJECTS" /\ f.value \in {"REGION", "CONTAINER"}
    \/ q.value = "VOLUMES" /\ f.value = "PLUGIN" /\ World[named].kind # "FEATURE"

-----------------------------------------------------------------------------
(* What the help text says a query returns *)

Below ==
    LET below[o \in DOMAIN World] == World[o].children \cup UNION {below[c] : c \in World[o].children}
    IN  below

\* The object stays in the list although the filter names another one, called it.
RelatedTo(what, filter, it, o) ==
    CASE filter = "VOLUME" ->
           IF what = "PLUGINS" THEN o \in World[it].features ELSE o = it \/ o \in Below[it]
      [] filter = "OBJECT" ->
           CASE what = "PLUGINS" -> o \in World[it].features
             [] what = "VOLUMES" -> it \in Below[o]
             [] what = "REGIONS" -> o = it \/ o \in Below[it]
             [] OTHER -> o = it
      [] filter = "PLUGIN" ->
           CASE what = "PLUGINS" -> o = it
             [] what = "VOLUMES" -> \E b \in Below[o] : World[b].plugin = it
             [] OTHER -> World[o].plugin = it
      [] filter = "CONTAINER" ->
           CASE what = "PLUGINS" -> o = World[it].plugin
             [] what \in {"VOLUMES", "OBJECTS"} ->
                  \E b \in Below[o] \cup {o} : World[b].producer = it
             [] OTHER -> it \in {World[o].producer, World[o].consumer, o}
      [] filter = "REGION" -> it \in Below[o] \cup {o} \/ World[it].producer = o
      [] filter \in {"SEGMENT", "DISK"} -> it \in Below[o] \cup World[o].parents \cup {o}

Bytes(node) ==
    Numbers[node.value] * (IF node.kids = << >> THEN 1 ELSE Factor[node.kids[1].value])

\* A precision without a unit is a percentage of the size.
Precise(kids) ==
    CASE Len(kids) < 2 -> 0
      [] kids[2].kids = << >> -> (Bytes(kids[1]) * Numbers[kids[2].value]) \div 100
      [] OTHER -> Bytes(kids[2])

Documented(what, f, o) ==
    CASE f.value = "LT" -> World[o].size < Bytes(f.kids[1])
      [] f.value = "GT" -> World[o].size > Bytes(f.kids[1])
      [] f.value = "EQ" -> /\ World[o].size >= Bytes(f.kids[1]) - Precise(f.kids)
                           /\ World[o].size <= Bytes(f.kids[1]) + Precise(f.kids)
      [] f.value = "TYPE" -> World[o].kind = f.kids[1].value
      [] f.value = "CONVERTIBLE" -> World[o].converts
      [] f.value = "EXPANDABLE" -> World[o].grows
      [] f.value = "SHRINK" -> World[o].shrinks
      [] f.value = "FREESPACE" ->
           \E i \in IF what = "CONTAINERS" THEN World[o].parents ELSE {o} :
               World[i].data = "FREE_SPACE"
      [] f.value = "UNCLAIMED" -> World[o].parents = {}
      [] f.value = "LO" -> TRUE
      [] OTHER -> RelatedTo(what, f.value, Named(f.kids[1].value), o)

\* The engine's objects are also regions, segments and disks, of which the text
\* about objects does not speak.
Comparable(what, o) == what = "OBJECTS" => World[o].type = "EVMS_OBJECT"
DocumentedAnswer(q) ==
    {o \in Return_Values(q.value) : Comparable(q.value, o) /\
        \A f \in Range(q.kids) : Documented(q.value, f, o)}

Differs(q) ==
    \E f \in Range(q.kids) : f.kids # << >> /\ f.value \notin {"LT", "GT", "EQ", "TYPE"} /\
                              Other(q, f, Named(f.kids[1].value))
Answered(q) ==
    q.type = "Query_Node" /\ ~Differs(q) =>
        {o \in machine.sent : Comparable(q.value, o)} = DocumentedAnswer(q)

\* What the line's pairs say, read off the line itself: a value in the unit of its
\* option.
ValueAt(tokens, option, i) ==
    LET unit == IF i < Len(tokens) THEN tokens[i + 1].txt ELSE ""
    IN  IF tokens[i].ch = "String" THEN [text |-> tokens[i].txt, num |-> 0]
        ELSE [text |-> "", num |-> IF unit \in Space
                                   THEN (Numbers[tokens[i].txt] * Factor[unit])
                                            \div Factor[Options[option].unit]
                                   ELSE Numbers[tokens[i].txt]]

\* The values behind the name at i: all of them up to the parenthesis.
ValuesAt(tokens, i) ==
    LET last == IF tokens[i + 2].txt = "(" THEN SelectInSubSeq(tokens, i + 3, Len(tokens),
                                                               LAMBDA t : t.txt = ")") - 1
                ELSE i + 2
        at == SelectSeq([k \in 1..last |-> k],
                        LAMBDA k : k >= i + 2 /\ tokens[k].ch \in {"Number", "RealNumber", "String"})
    IN  [k \in DOMAIN at |-> ValueAt(tokens, tokens[i].txt, at[k])]

PairsOf(tokens) ==
    {[option |-> tokens[i].txt, values |-> ValuesAt(tokens, i)] :
        i \in {k \in 1..(Len(tokens) - 2) :
                  tokens[k].txt \in DOMAIN Options /\ tokens[k + 1].txt = "="}}

-----------------------------------------------------------------------------
(* Properties *)

TypeOK ==
    /\ users \subseteq Clients
    /\ line \in DOMAIN Lines \cup {None} /\ asker \in Clients \cup {None}
    /\ machine.sock \in Clients \cup {None}
    /\ machine.task \in {"none", "open"} /\ machine.ended \in {"", "abort", "exit", "crash"}
    /\ machine.error \in {"OK", "Engine", "EINVAL", "CORRUPTED", "INVALID_OPTION", "Quit", "Parse"}
    /\ \A i \in DOMAIN machine.stack :
          machine.stack[i].tag \in {"STRING", "HANDLE", "INTEGER", "REAL", "BOOLEAN", "LIST", "MASK"}
    /\ {machine.held, machine.lost, machine.open, machine.pending} \subseteq BOOLEAN
    /\ machine.sent \subseteq DOMAIN World /\ machine.chosen \subseteq Acceptable
    /\ machine.usage \subseteq DOMAIN Options

\* No line ends the server, which all clients share, whatever call of the engine
\* fails in it and whatever was left on the stack before: each command finds the
\* operands it pops, or does not come to pop them.  Known to end it is only the
\* call that asks what a task made.
Survives == line # None /\ line \notin Fatal => machine.ended \in {"", "crash"}

\* What a listing query sends is what the help text says its filters leave, the
\* engine's calls having succeeded.
AnswersQuery ==
    line \notin AskingAcceptable \cup {None} /\ machine.error = "OK" /\ machine.fails = 0 =>
        \A q \in Range(Parsed[line].list) : Answered(q)

\* The options a command set are the ones its line gives, each with all its
\* values in their order and in the option's own unit, although the interpreter
\* takes the pairs and their values off a stack and keeps one unit for all.
PairsArrive ==
    line # None /\ machine.changes > 0 /\ machine.error = "OK" =>
        Range(machine.given) = PairsOf(Lines[line])

Interprets == line = None /\ line' # None

\* A line uses none of the operands that an earlier one left on the stack when it
\* failed, and, when it is done itself, leaves none.
OwnOperands ==
    [][Interprets /\ line' \notin Fatal =>
          /\ IsPrefix(machine.stack, machine'.stack)
          /\ machine'.error = "OK" /\ line' \notin ByNumber => machine'.stack = machine.stack]_vars

\* While commits are held nothing is written before somebody commits or probes;
\* otherwise a command that succeeded left nothing unwritten.
CommitsAsAsked ==
    [][Interprets /\ line' \notin Committing =>
          /\ machine.held => ~machine'.wrote
          /\ ~machine.held /\ machine'.changes > 0 /\ machine'.error = "OK" => ~machine'.pending]_vars

\* Whichever call fails in the middle, the engine's task is destroyed, or at least
\* that was tried; only a query about acceptable objects that failed leaves one.
TasksClosed ==
    [][Interprets /\ machine'.ended = "" /\ machine.task = "none" =>
          /\ machine'.lost => machine.lost
          /\ machine'.task = "open" => line' \in AskingAcceptable /\ machine'.error # "OK"]_vars

\* How the line ends on an interpreter nobody used before.
Outcome(m) == <<m.error, m.ended, m.sent, m.given, m.changes, m.calls>>
Fresh(l, held, fails) == Outcome(Interpreted([Opened EXCEPT !.held = held, !.fails = fails], l))

\* What a line does and answers does not depend on what was interpreted before it:
\* no operand, unit, task or flag that a failed line left behind gets into it.
HistoryIndependent ==
    [][Interprets /\ machine.open /\ line' \notin Probing =>
          Outcome(machine') = Fresh(line', machine.held, machine'.fails)]_vars

-----------------------------------------------------------------------------
(* What the documentation says and the code does not do *)

\* The objects a query finds are sent to the client that asked, it having opened
\* the engine.
AnswerToAsker == asker \in users => machine.sent = {} \/ machine.sock = asker
=============================================================================
