----------------------------- MODULE CommandLines -----------------------------
(***************************************************************************)
(* Lines of the EVMS command language, typed one token at a time, and what *)
(* Parser makes of each: what a line means must not depend on how far the  *)
(* parser had to look ahead to understand it.                              *)
(***************************************************************************)
EXTENDS Parser

CONSTANTS
    Vocabulary, \* bound: for each kind of line, the tokens it is typed with
    MaxTokens   \* bound: for each kind of line, its length

ASSUME LinesAssumption ==
    DOMAIN Vocabulary = DOMAIN MaxTokens /\ \A k \in DOMAIN MaxTokens : MaxTokens[k] \in Nat

VARIABLES
    kind,   \* the kind of line being typed
    parsed  \* the parse state Parse_Command_Line ends in for the line so far

vars == <<kind, parsed>>

-----------------------------------------------------------------------------
(* Lines, each one token longer than the line parsed before it.  A line is
   made longer only where the parser read its end, so that no token it never
   looks at is typed. *)

Init == /\ kind \in DOMAIN MaxTokens
        /\ parsed = Parse_Command_Line(Start(<< >>), << >>)

Type(token) ==
    /\ Len(parsed.line) < MaxTokens[kind]
    /\ parsed.fetched > Len(parsed.line)
    /\ parsed' = Parse_Command_Line(parsed, Append(parsed.line, token))
    /\ UNCHANGED kind

Next == \E token \in Vocabulary[kind] : Type(token)

Spec == Init /\ [][Next]_vars
-----------------------------------------------------------------------------
(* Properties *)

RECURSIVE Nodes(_)
\* The nodes of trees, each before its children.
Nodes(trees) == FlattenSeq([i \in DOMAIN trees |-> <<trees[i]>> \o Nodes(trees[i].kids)])

Accepted == parsed.res = "Accepted"

\* Two known errors of the C file (README, section 8): where a list in
\* parentheses is read, and where help is asked about delete.
InParentheses == Separator("(") \in Range(parsed.line)
AsksAboutDelete(list) ==
    \E i \in DOMAIN list : list[i].type = "Help_Node" /\ list[i].value = "DELETE"

TypeOK ==
    /\ kind \in DOMAIN MaxTokens
    /\ parsed.line \in Seq(Vocabulary[kind]) /\ Len(parsed.line) <= MaxTokens[kind]
    /\ parsed.ct \in 0..parsed.fetched
    /\ parsed.cursor \in 0..Len(parsed.tokens)
    /\ Range(parsed.tokens) \subseteq 0..parsed.fetched
    /\ parsed.res \in {"Accepted", "Try_Again", "Error"}
    /\ parsed.reported \in BOOLEAN

\* However deep the lookaheads were nested and whichever were given back, an
\* accepted line leaves none of them open and no token queued that is still to
\* be read: the line was read to its end and no further.
LookaheadSettled ==
    Accepted =>
        /\ parsed.active = 0 /\ parsed.handles = << >>
        /\ parsed.cursor = Len(parsed.tokens)
        /\ parsed.fetched = Len(parsed.line) + 1 \/ AsksAboutDelete(parsed.list)

\* The names, numbers and strings of an accepted line are in the command tree,
\* each once and in the order they were typed: no lookahead that was given up
\* took one with it, or left one behind twice.
OperandsKept ==
    LET typed == SelectSeq(parsed.line, LAMBDA t : t.ch \in Operand)
        texts == {t.txt : t \in Range(typed)}
        kept == SelectSeq(Nodes(parsed.list), LAMBDA n : n.value \in texts)
    IN  Accepted /\ ~AsksAboutDelete(parsed.list) =>
            [i \in DOMAIN kept |-> kept[i].value] = [i \in DOMAIN typed |-> typed[i].txt]

\* No line is refused in silence: whoever typed it is told why, although
\* the same function reports an error only when what it looks for is not optional.
RejectedIsReported == ~Accepted => parsed.reported /\ parsed.list = << >>

\* Nothing that was reported as an error is accepted all the same, and no node
\* of an accepted command was left without a type for the interpreter to act on.
AcceptedIsClean ==
    Accepted /\ ~InParentheses =>
        ~parsed.reported /\ \A i \in DOMAIN Nodes(parsed.list) : Nodes(parsed.list)[i].type # "unset"

\* A colon after these reads on for an optional word of the same command.
TakesAWord(node) == node.type \in {"Help_Node", "Commit_Node"} /\ node.value = ""

Joint(i) ==
    /\ parsed.line[i] = Separator(":") /\ 1 < i /\ i < Len(parsed.line)
    /\ parsed.line[i - 1] # Separator(":") /\ Last(parsed.line) # Separator(":")

\* A part of the line as a line of its own.
Alone(first, last) == Parse_Command_Line(parsed, SubSeq(parsed.line, first, last))

Composed(one, other) ==
    /\ \A half \in {one, other} : half.res = "Accepted" /\ half.list # << >>
    /\ ~TakesAWord(Last(one.list)) /\ ~AsksAboutDelete(one.list)
    => Accepted /\ parsed.list = one.list \o other.list

\* Commands joined by a colon do what they do alone: what one command looked
\* ahead for is not missing from the next.
CommandsCompose ==
    \A i \in DOMAIN parsed.line :
        Joint(i) => Composed(Alone(1, i - 1), Alone(i + 1, Len(parsed.line)))
=============================================================================
