------------------------------- MODULE Parse -------------------------------
(***************************************************************************)
(* The parser (parse.c) on its tokenizer, in the loop that reads a text to *)
(* its end (builtin_load.c, parse_test.c).                                 *)
(*                                                                         *)
(* stack is the C stack of parse_sexpr and parse_list: each activation has *)
(* the place it goes on at and the local it keeps there.  back is what the *)
(* last call returned; the pointers that a failing call leaves alone point *)
(* to NULL.  roots are the new nodes that nothing links yet: a constructor *)
(* makes a root and a link to it takes that away (Memory.tla).             *)
(***************************************************************************)
EXTENDS Token, Node, FiniteSets

(* The texts, each with what it should be read as.                         *)
CONSTANT Inputs
ASSUME InputsAssumption == \A i \in Inputs : i.text \in Seq(Int)

VARIABLES
    meaning,
    gc_iterates,   \* not compiled with NODE_NO_INCREMENTAL_GC (node.c:100)
    mem, roots,
    stack,
    back,
    outs,          \* history: what every call of parse returned
    pc             \* the loop around parse

parseVars == <<mem, roots, stack, back, outs, pc>>
vars == <<tokenVars, meaning, gc_iterates, parseVars>>

NotYet == [status |-> "none", result |-> Nil]
Back(status, result) == [status |-> status, result |-> result]

Errors == {"PARSE_UNEXPECTED_DOT", "PARSE_UNEXPECTED_RPAREN", "PARSE_TOKEN_UNDERFLOW",
           "PARSE_EXPECTED_RPAREN", "PARSE_EXPECTED_LPAREN_ATOM"}

Init ==
    /\ \E i \in Inputs : text = i.text /\ meaning = i.meaning
    /\ gc_iterates \in BOOLEAN
    /\ TokenInit
    /\ mem = <<>> /\ roots = {} /\ stack = <<>> /\ back = NotYet /\ outs = <<>>
    /\ pc = "ready"

-----------------------------------------------------------------------------
(* One step of the parser: it runs while the tokenizer does not.           *)
Running == pc = "parsing" /\ chomp = "idle"
At(fn, place) == Running /\ stack # <<>> /\ Last(stack).fn = fn /\ Last(stack).at = place

Activation(fn) == [fn |-> fn, at |-> "start", child |-> Nil]
Pop == Front(stack)

(* The innermost call returns; it goes on; it calls another.               *)
Return(status, result) == stack' = Pop /\ back' = Back(status, result)
Continue(place) == stack' = Append(Pop, [Last(stack) EXCEPT !.at = place]) /\ back' = NotYet
CallFrom(place, child, fn) ==
    /\ stack' = Pop \o <<[Last(stack) EXCEPT !.at = place, !.child = child], Activation(fn)>>
    /\ back' = NotYet

Chomp == Goto("called") /\ UNCHANGED <<text, off, nextch, in_string, type, sym, lit, in_comment>>
NoChomp == UNCHANGED tokenVars

Build(node, linked) ==
    /\ mem' = New(mem, node)
    /\ roots' = (roots \ linked) \cup {Newest(mem) + 1}
NoBuild == UNCHANGED <<mem, roots>>

Others == UNCHANGED <<meaning, gc_iterates, outs>>

(* node_droproot asks a node for its memory state to let the collector     *)
(* take a step, which NULL does not have (node.c:149-153).                 *)
DropRootAndReturn(status, r) ==
    /\ Return(status, Nil)
    /\ roots' = roots \ {r}
    /\ mem' = mem
    /\ pc' = IF r = Nil /\ gc_iterates THEN "crashed" ELSE pc

-----------------------------------------------------------------------------
(* parse_sexpr                                                             *)
SexprEnd ==
    /\ At("sexpr", "start") /\ type = "TOK_END"
    /\ Return("PARSE_END", Nil)
    /\ NoChomp /\ NoBuild /\ Others /\ UNCHANGED pc

SexprAtom ==
    /\ At("sexpr", "start")
    /\ \/ type = "TOK_SYM" /\ Build(SymbolNode(sym), {})
       \/ type = "TOK_LIT" /\ Build(ValueNode(lit), {})
    /\ Return("PARSE_OK", Newest(mem'))
    /\ Chomp /\ Others /\ UNCHANGED pc

SexprOpen ==
    /\ At("sexpr", "start") /\ type = "TOK_LPAREN"
    /\ Continue("open")
    /\ Chomp /\ NoBuild /\ Others /\ UNCHANGED pc

SexprUnexpected ==
    /\ At("sexpr", "start") /\ type \in {"TOK_RPAREN", "TOK_DOT"}
    /\ DropRootAndReturn("PARSE_EXPECTED_LPAREN_ATOM", Nil)
    /\ NoChomp /\ Others

SexprEmpty ==
    /\ At("sexpr", "open") /\ type = "TOK_RPAREN"
    /\ Return("PARSE_OK", Nil)
    /\ Chomp /\ NoBuild /\ Others /\ UNCHANGED pc

SexprOpenError ==
    /\ At("sexpr", "open")
    /\ \/ type = "TOK_END" /\ DropRootAndReturn("PARSE_TOKEN_UNDERFLOW", Nil)
       \/ type = "TOK_DOT" /\ DropRootAndReturn("PARSE_UNEXPECTED_DOT", Nil)
    /\ NoChomp /\ Others

SexprList ==
    /\ At("sexpr", "open") /\ type \notin {"TOK_END", "TOK_RPAREN", "TOK_DOT"}
    /\ CallFrom("close", Nil, "list")
    /\ NoChomp /\ NoBuild /\ Others /\ UNCHANGED pc

(* The status of the list is looked at last: a parenthesis that is missing *)
(* comes first.                                                            *)
SexprClose ==
    /\ At("sexpr", "close") /\ type = "TOK_RPAREN"
    /\ Return(back.status, back.result)
    /\ Chomp /\ NoBuild /\ Others /\ UNCHANGED pc

SexprCloseError ==
    /\ At("sexpr", "close") /\ type # "TOK_RPAREN"
    /\ DropRootAndReturn(IF type = "TOK_END" THEN "PARSE_TOKEN_UNDERFLOW"
                                             ELSE "PARSE_EXPECTED_RPAREN", back.result)
    /\ NoChomp /\ Others

-----------------------------------------------------------------------------
(* parse_list                                                              *)
ListEnd ==
    /\ At("list", "start")
    /\ \/ type = "TOK_END"    /\ Return("PARSE_TOKEN_UNDERFLOW", Nil)
       \/ type = "TOK_RPAREN" /\ Return("PARSE_OK", Nil)
    /\ NoChomp /\ NoBuild /\ Others /\ UNCHANGED pc

ListDot ==
    /\ At("list", "start") /\ type = "TOK_DOT"
    /\ Continue("dot")
    /\ Chomp /\ NoBuild /\ Others /\ UNCHANGED pc

ListDotError ==
    /\ At("list", "dot")
    /\ \/ type = "TOK_END"    /\ Return("PARSE_TOKEN_UNDERFLOW", Nil)
       \/ type = "TOK_RPAREN" /\ Return("PARSE_UNEXPECTED_RPAREN", Nil)
       \/ type = "TOK_DOT"    /\ Return("PARSE_UNEXPECTED_DOT", Nil)
    /\ NoChomp /\ NoBuild /\ Others /\ UNCHANGED pc

(* What the expression after the dot returns, the list returns.            *)
ListTail ==
    /\ At("list", "dot") /\ type \notin {"TOK_END", "TOK_RPAREN", "TOK_DOT"}
    /\ stack' = Append(Pop, Activation("sexpr")) /\ back' = NotYet
    /\ NoChomp /\ NoBuild /\ Others /\ UNCHANGED pc

ListElement ==
    /\ At("list", "start") /\ type \notin {"TOK_END", "TOK_RPAREN", "TOK_DOT"}
    /\ CallFrom("element", Nil, "sexpr")
    /\ NoChomp /\ NoBuild /\ Others /\ UNCHANGED pc

(* The element gives up its root before the rest is read.                  *)
ListRest_DropsElement ==
    /\ At("list", "element")
    /\ IF back.status = "PARSE_OK"
       THEN CallFrom("rest", back.result, "list")
       ELSE Return(back.status, Nil)
    /\ roots' = roots \ {back.result}
    /\ NoChomp /\ Others /\ UNCHANGED <<mem, pc>>

ListRest ==
    /\ At("list", "element")
    /\ IF back.status = "PARSE_OK"
       THEN CallFrom("rest", back.result, "list")
       ELSE Return(back.status, Nil)
    /\ NoChomp /\ NoBuild /\ Others /\ UNCHANGED pc

ListCons_KeepsRest ==
    /\ At("list", "rest") /\ back.status = "PARSE_OK"
    /\ LET child == Last(stack).child
       IN  Build(ConsNode(child, back.result), {child})
    /\ Return("PARSE_OK", Newest(mem'))
    /\ NoChomp /\ Others /\ UNCHANGED pc

ListCons ==
    /\ At("list", "rest") /\ back.status = "PARSE_OK"
    /\ LET child == Last(stack).child
       IN  Build(ConsNode(child, back.result), {child, back.result})
    /\ Return("PARSE_OK", Newest(mem'))
    /\ NoChomp /\ Others /\ UNCHANGED pc

ListRestError ==
    /\ At("list", "rest") /\ back.status # "PARSE_OK"
    /\ DropRootAndReturn(back.status, back.result)
    /\ NoChomp /\ Others

-----------------------------------------------------------------------------
(* parse, and the loop around it: the first call primes the tokenizer, the *)
(* handle takes the result, and the loop gives it up before the next call. *)
ParseCall ==
    /\ pc = "ready"
    /\ pc' = "parsing"
    /\ stack' = <<Activation("sexpr")>>
    /\ IF type = "TOK_INIT" THEN Chomp ELSE NoChomp
    /\ UNCHANGED <<mem, roots, back, outs, meaning, gc_iterates>>

ParseReturn ==
    /\ Running /\ stack = <<>>
    /\ outs' = Append(outs, back)
    /\ roots' = roots \ {back.result}
    /\ back' = NotYet
    /\ pc' = IF back.status = "PARSE_OK" THEN "ready" ELSE "stopped"
    /\ UNCHANGED <<tokenVars, meaning, gc_iterates, mem, stack>>

Stopped == pc \in {"stopped", "crashed"} /\ UNCHANGED vars

ParseSexpr ==
    \/ SexprEnd \/ SexprAtom \/ SexprOpen \/ SexprUnexpected
    \/ SexprEmpty \/ SexprOpenError \/ SexprList \/ SexprClose \/ SexprCloseError
ParseList ==
    ListEnd \/ ListDot \/ ListDotError \/ ListTail \/ ListElement \/ ListRest \/ ListCons \/ ListRestError

Tokenizer == TokenChomp /\ UNCHANGED <<meaning, gc_iterates, parseVars>>

Step == Tokenizer \/ ParseSexpr \/ ParseList \/ ParseCall \/ ParseReturn

Next == Step \/ Stopped

Spec == Init /\ [][Next]_vars /\ WF_vars(Step)

-----------------------------------------------------------------------------
Refs == 0..Len(mem)

(* Where an activation that is on top of the stack goes on by itself, and  *)
(* where one goes on when the call it made has returned.                   *)
Entries == {"start", "open", "dot"}
Returns == {"close", "element", "rest"}

Activations ==
    [fn : {"sexpr"}, at : {"start", "open", "close"}, child : Nat]
    \cup [fn : {"list"}, at : {"start", "dot", "element", "rest"}, child : Nat]

Results == [status : Errors \cup {"none", "PARSE_OK", "PARSE_END"}, result : Nat]

ParseTypeOK ==
    /\ mem \in Seq({mem[r] : r \in DOMAIN mem})
    /\ roots \subseteq DOMAIN mem
    /\ stack \in Seq(Activations)
    /\ \A i \in DOMAIN stack : stack[i].child \in Refs
    /\ back \in Results /\ back.result \in Refs
    /\ outs \in Seq(Results)
    /\ pc \in {"ready", "parsing", "stopped", "crashed"}

(* Types; the buffer of the tokenizer is never overrun (token.c:165).      *)
TypeOK == TokenTypeOK /\ ParseTypeOK

(* The nodes that the locals of the parser hold.                           *)
Held == ({back.result} \cup {stack[i].child : i \in DOMAIN stack}) \ {Nil}

(* The collector may take a step at every token and in every constructor:  *)
(* what the parser still has in its locals must be a root all the time, or *)
(* a half-built list is freed under it.                                    *)
HeldIsRooted == Held \subseteq roots

(* An error is on its way to the caller, or has reached it.                *)
Failed ==
    \/ back.status \in Errors
    \/ \E i \in DOMAIN outs : outs[i].status \in Errors
    \/ pc = "crashed"

(* Until an error, the parser leaves no root behind: everything it built   *)
(* and does not hold any more is linked from what it returned, so that the *)
(* memory goes when the expression goes.                                   *)
NoStrayRoots == Failed \/ roots \subseteq Held

(* An error of the text is reported (parse.h:10-18; parse_test.c:59-65     *)
(* prints it), and does not end the program.                               *)
ErrorsAreReported == pc # "crashed"

-----------------------------------------------------------------------------
(* What makes the above true at every step.  A local is held by one        *)
(* activation only,                                                        *)
HeldOnce ==
    /\ \A i, j \in DOMAIN stack :
         i # j /\ stack[i].child # Nil => stack[i].child # stack[j].child
    /\ \A i \in DOMAIN stack : back.result # Nil => back.result # stack[i].child
    /\ \A i \in DOMAIN stack : stack[i].at # "rest" => stack[i].child = Nil

(* the activations below the top have called the one above,                *)
CallsNest ==
    /\ \A i \in DOMAIN stack : i < Len(stack) => stack[i].at \in Returns
    /\ stack # <<>> => stack[1].fn = "sexpr"

(* a result is there exactly when one is waited for,                       *)
ResultIsAwaited ==
    /\ stack # <<>> /\ stack[Len(stack)].at \in Entries => back = NotYet
    /\ pc = "ready" => stack = <<>> /\ back = NotYet
    /\ pc = "parsing" =>
         \/ back.status # "none"
         \/ stack # <<>> /\ stack[Len(stack)].at \in Entries

(* and the end of the text inside an expression is no end but an error:    *)
(* parse_sexpr is called inside a list only where an expression starts.    *)
EndIsOutside ==
    /\ back.status = "PARSE_END" => stack = <<>> /\ back.result = Nil
    /\ Len(stack) > 1 /\ stack[Len(stack)] = Activation("sexpr") =>
         chomp = "idle" /\ type \notin {"TOK_END", "TOK_RPAREN", "TOK_DOT"}

ParseInv ==
    /\ ParseTypeOK /\ HeldIsRooted /\ NoStrayRoots
    /\ HeldOnce /\ CallsNest /\ ResultIsAwaited /\ EndIsOutside
-----------------------------------------------------------------------------
(* What is left to read, and to do with it.  A character is worth what the *)
(* tokenizer and the parser do for it: Ahead counts the ones that are      *)
(* still in the stream twice, so that reading one at the start pays too,   *)
Ahead == 2 * (Len(text) - off) + (IF nextch = EOF THEN 0 ELSE 1)

(* Stage falls while a token is looked for, and rises when its first       *)
(* character is taken,                                                     *)
Stage ==
    CASE chomp = "called"                    -> 3
      [] chomp = "start"                     -> 2
      [] chomp = "atom" /\ sym = <<>>        -> 1
      [] chomp = "idle" /\ type = "TOK_END"  -> 0
      [] chomp = "idle" /\ type # "TOK_END"  -> 8
      [] OTHER                               -> 9

(* and Calls is what the activations can still do with the token.          *)
Own(a) ==
    CASE a.at = "open"                                     -> 4
      [] a.at = "element" /\ back.status = "PARSE_OK"      -> 4
      [] a.at = "dot"                                      -> 1
      [] a.at = "start" /\ a.fn = "list"                   -> 2
      [] OTHER                                             -> 0

Calls ==
    CASE stack # <<>>                                                  -> Len(stack) + 1 + Own(Last(stack))
      [] stack = <<>> /\ pc = "ready"                                  -> 3
      [] stack = <<>> /\ pc = "parsing" /\ back.status = "PARSE_OK"    -> 4
      [] stack = <<>> /\ pc = "parsing" /\ back.status # "PARSE_OK"    -> 1
      [] OTHER                                                         -> 0

Left == 10 * Ahead + Stage + Calls

(* The character ' starts no token and is no part of one: the atom that    *)
(* starts there is empty, is read as 0, and takes nothing from the text.   *)
AtQuote == chomp = "atom" /\ sym = <<>> /\ nextch = Apostrophe

(* The text ends in a comment, or in a name that fills the buffer: the     *)
(* tokenizer asks for one character after the other, for ever.             *)
CutOff ==
    /\ nextch = EOF /\ off = Len(text)
    /\ \/ chomp = "start" /\ in_comment
       \/ chomp = "atom" /\ Len(sym) = MaxSymLen

(* Every step that changes anything leaves less to do, as long as there is *)
(* no ' outside a string: no text makes the reader go round in circles, or *)
(* its recursion deeper than the text is long.                             *)
ReadingAdvances == [][~AtQuote => Left' < Left]_vars

(* What it rests on: in a string there is a character to look at, an atom  *)
(* starts with one of its own, a list is never an element, and no token is *)
(* read between two calls of parse.                                        *)
InStringLooksAhead == chomp = "start" /\ in_string => nextch # EOF
AtomStarts ==
    chomp = "atom" /\ sym = <<>> => (IsAtomChar(nextch) /\ nextch # EOF) \/ nextch = Apostrophe
ElementsAreSexprs ==
    \A i \in DOMAIN stack : i > 1 /\ stack[i - 1].at = "element" => stack[i].fn = "sexpr"
ReadyIsIdle == pc # "parsing" => chomp = "idle"

ReadInv == InStringLooksAhead /\ AtomStarts /\ ElementsAreSexprs /\ ReadyIsIdle
=============================================================================
