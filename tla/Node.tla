-------------------------------- MODULE Node --------------------------------
(***************************************************************************)
(* The data of the evaluator (node.c): a store is a sequence of nodes and  *)
(* a reference is a place in it, or Nil.  Memory that nothing refers to    *)
(* stays in the sequence: giving it back is the matter of Memory.tla.      *)
(***************************************************************************)
EXTENDS Integers, Sequences

Nil == 0

ConsNode(a, d)         == [type |-> "cons", car |-> a, cdr |-> d]
SymbolNode(s)          == [type |-> "symbol", name |-> s]
ValueNode(n)           == [type |-> "value", val |-> n]
LambdaNode(e, vs, exs) == [type |-> "lambda", env |-> e, vars |-> vs, expr |-> exs]
ContinuationNode(bt)   == [type |-> "continuation", bt |-> bt]
SpecialNode(f)         == [type |-> "special", func |-> f]
ForeignNode(f)         == [type |-> "foreign", func |-> f]

TypeOf(mem, r) == IF r = Nil THEN "nil" ELSE mem[r].type

IsCons(mem, r)   == TypeOf(mem, r) = "cons"
IsSymbol(mem, r) == TypeOf(mem, r) = "symbol"
IsList(mem, r)   == TypeOf(mem, r) \in {"nil", "cons"}

(* Taking the car or cdr of a node that is neither Nil nor a cons fails an *)
(* assertion (node.c:223, 234): whoever uses these checks IsList.          *)
Car(mem, r) == IF r = Nil THEN Nil ELSE mem[r].car
Cdr(mem, r) == IF r = Nil THEN Nil ELSE mem[r].cdr

New(mem, node)    == Append(mem, node)
Newest(mem)       == Len(mem)
PatchCdr(mem, r, d) == [mem EXCEPT ![r].cdr = d]
=============================================================================
