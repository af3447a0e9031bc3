------------------------------ MODULE Builtins ------------------------------
(***************************************************************************)
(* The foreign functions (builtins.c), called through extract_args         *)
(* (foreign_common.c).  A call gives a status, a store and a result.       *)
(***************************************************************************)
EXTENDS Node, Arithmetic

CONSTANT MaxSymLen     \* token.h:10
ASSUME MaxSymLenAssumption == MaxSymLen \in Nat \ {0}

ForeignNames ==
    {"nil?", "value?", "sym?", "cons?", "func?", "car", "cdr", "makesym", "splitsym",
     "cons", "symeq?"} \cup Predicates \cup Operations

Arity(f) == IF f \in {"cons", "symeq?"} \cup Predicates \cup Operations THEN 2 ELSE 1

Outcome(status, mem, out) == [status |-> status, mem |-> mem, out |-> out]

(* A failed assertion, or a trap of the machine: the program ends.         *)
Aborted(mem) == Outcome("aborted", mem, Nil)

(* The value 1 for true, Nil for false.                                    *)
Truth(b, mem) ==
    IF b THEN Outcome("ok", New(mem, ValueNode(1)), Newest(mem) + 1)
    ELSE Outcome("ok", mem, Nil)

HasArgs(mem, args, n) ==
    /\ IsCons(mem, args)
    /\ n = 2 => IsCons(mem, Cdr(mem, args))

ArgsLeft(mem, args, n) ==
    IF n = 2 THEN Cdr(mem, Cdr(mem, args)) ELSE Cdr(mem, args)

-----------------------------------------------------------------------------
(* Names and their characters.  Only lower-case letters are spelled.       *)
Alphabet == "abcdefghijklmnopqrstuvwxyz"
LetterCodes == 97..122
Letter(c) == SubSeq(Alphabet, c - 96, c - 96)
CodeOf(letter) == CHOOSE c \in LetterCodes : Letter(c) = letter

(* The nodes that the loop comes to: it looks at every other one, until    *)
(* the buffer of the name is full.                                         *)
Along(mem, list) ==
    LET rest == [r \in {Nil} \cup DOMAIN mem |-> IF IsCons(mem, r) THEN Cdr(mem, r) ELSE r]
        at[i \in 0..2 * MaxSymLen - 2] == IF i = 0 THEN list ELSE rest[at[i - 1]]
    IN  at

MakeSymbol(mem, list) ==
    LET at == Along(mem, list)
        read == {i \in DOMAIN at : i % 2 = 0 /\ IsCons(mem, at[i])}
        element(i) == Car(mem, at[i])
        code(i) == mem[element(i)].val
        wrong == {i \in read : TypeOf(mem, element(i)) # "value" \/ code(i) > 255}
        first == CHOOSE i \in wrong : \A j \in wrong : i <= j
        name[i \in DOMAIN at] ==
            (IF i = 0 THEN "" ELSE name[i - 1]) \o (IF i \in read THEN Letter(code(i)) ELSE "")
    IN  IF wrong # {}
        THEN Outcome(IF TypeOf(mem, element(first)) = "value" THEN "value bounds" ELSE "expected value",
                     mem, element(first))
        ELSE IF ~IsList(mem, at[2 * MaxSymLen - 2]) THEN Aborted(mem)    \* node.c:223, 234
        ELSE Outcome("ok", New(mem, SymbolNode(name[2 * MaxSymLen - 2])), Newest(mem) + 1)

(* The list of the codes of a name, built from its end: for each letter a  *)
(* value and the cons that holds it.  A name is as long as its buffer at   *)
(* most (node.h:67).                                                       *)
NameLength(name) == Cardinality({i \in 1..MaxSymLen : i <= Len(name)})

SplitSymbol(mem, name) ==
    LET n == NameLength(name)
        letter(i) == SubSeq(name, n + 1 - i, n + 1 - i)
        nodes == [k \in 1..2 * n |->
                     IF k % 2 = 1 THEN ValueNode(CodeOf(letter((k + 1) \div 2)))
                     ELSE ConsNode(Newest(mem) + k - 1, IF k = 2 THEN Nil ELSE Newest(mem) + k - 2)]
    IN  Outcome("ok", mem \o nodes, IF n = 0 THEN Nil ELSE Newest(mem) + 2 * n)

-----------------------------------------------------------------------------
FunctionTypes == {"lambda", "foreign", "continuation", "special"}

OfOne(f, mem, a) ==
    LET type == TypeOf(mem, a)
    IN  CASE f = "nil?"   -> Truth(type = "nil", mem)
          [] f = "value?" -> Truth(type = "value", mem)
          [] f = "sym?"   -> Truth(type = "symbol", mem)
          [] f = "cons?"  -> Truth(type = "symbol", mem)   \* what line 63 compares with
          [] f = "func?"  -> Truth(type \in FunctionTypes, mem)
          [] f \in {"car", "cdr", "makesym"} /\ type # "cons" -> Outcome("expected cons", mem, a)
          [] f = "splitsym" /\ type # "symbol" -> Outcome("expected symbol", mem, a)
          [] f = "car" /\ type = "cons"        -> Outcome("ok", mem, Car(mem, a))
          [] f = "cdr" /\ type = "cons"        -> Outcome("ok", mem, Cdr(mem, a))
          [] f = "makesym" /\ type = "cons"    -> MakeSymbol(mem, a)
          [] f = "splitsym" /\ type = "symbol" -> SplitSymbol(mem, mem[a].name)

(* The first argument that is not of the type is the error.                *)
OfTwo(f, mem, a, b) ==
    LET type == IF f = "symeq?" THEN "symbol" ELSE "value"
        wrong == IF TypeOf(mem, a) # type THEN a ELSE b
    IN  IF f = "cons" THEN Outcome("ok", New(mem, ConsNode(a, b)), Newest(mem) + 1)
        ELSE IF TypeOf(mem, wrong) # type THEN Outcome("expected " \o type, mem, wrong)
        ELSE CASE f = "symeq?" ->
                    Truth(mem[a].name # mem[b].name, mem)  \* line 227: strcmp, not its negation
               [] f \in Predicates -> Truth(Holds(f, mem[a].val, mem[b].val), mem)
               [] f \in {"div", "rem"} /\ Traps(mem[a].val, mem[b].val) -> Aborted(mem)
               [] OTHER -> Outcome("ok", New(mem, ValueNode(Computed(f, mem[a].val, mem[b].val))),
                                   Newest(mem) + 1)

CallForeign(f, mem, args) ==
    IF ~HasArgs(mem, args, Arity(f)) THEN Outcome("expected cons", mem, args)
    ELSE IF ArgsLeft(mem, args, Arity(f)) # Nil THEN Outcome("too many arguments", mem, args)
    ELSE IF Arity(f) = 1 THEN OfOne(f, mem, Car(mem, args))
    ELSE OfTwo(f, mem, Car(mem, args), Car(mem, Cdr(mem, args)))
=============================================================================
