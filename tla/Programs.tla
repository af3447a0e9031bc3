------------------------------ MODULE Programs ------------------------------
(***************************************************************************)
(* Writing programs for the evaluator as terms, loading them as the parser *)
(* and the start environment would, and reading results back as terms.     *)
(***************************************************************************)
EXTENDS Environ, TLC

N(n)       == <<"value", n>>
Y(s)       == <<"symbol", s>>
None       == <<"nil">>
Pair(a, d) == <<"cons", a, d>>

(* The list of the terms es that ends in the term last.                    *)
Dotted(es, last) == LET f[i \in 1..Len(es) + 1] ==
                            IF i > Len(es) THEN last ELSE Pair(es[i], f[i + 1])
                    IN  f[1]
L(es) == Dotted(es, None)

(* (name e1 ... en), and some calls that are written often.                *)
F(name, es) == L(<<Y(name)>> \o es)
Q(t) == F("quote", <<t>>)
Def(name, t) == F("def!", <<Y(name), t>>)
Set(name, t) == F("set!", <<Y(name), t>>)
Fun(vars, exprs) == L(<<Y("lambda"), vars>> \o exprs)
Vars(names) == L([i \in DOMAIN names |-> Y(names[i])])

-----------------------------------------------------------------------------
(* What parse builds of a term: the store and the reference of the term.   *)
RECURSIVE Loaded(_, _)
Loaded(mem, t) ==
    CASE t[1] = "nil"    -> [mem |-> mem, ref |-> Nil]
      [] t[1] = "value"  -> [mem |-> New(mem, ValueNode(t[2])), ref |-> Newest(mem) + 1]
      [] t[1] = "symbol" -> [mem |-> New(mem, SymbolNode(t[2])), ref |-> Newest(mem) + 1]
      [] t[1] = "cons"   ->
            LET a == Loaded(mem, t[2])
                d == Loaded(a.mem, t[3])
            IN  [mem |-> New(d.mem, ConsNode(a.ref, d.ref)), ref |-> Newest(d.mem) + 1]

(* environ_add_builtins: three nodes for each name, bound in one frame.    *)
SpecialNames == <<"quote", "if", "lambda", "call/cc", "def!", "set!", "defined?", "eval">>

ForeignNamesInOrder ==
    << "nil?", "value?", "sym?", "cons?", "func?", "car", "cdr", "makesym", "splitsym", "cons",
       "symeq?", "eq?", "lt?", "gt?", "ult?", "ugt?", "addc", "add", "sub", "mul", "div", "rem",
       "b_and", "b_or", "b_nand", "b_xor", "b_shl", "b_shr", "b_shra" >>

StartEnvironment ==
    [i \in DOMAIN SpecialNames |-> <<SpecialNames[i], SpecialNode(SpecialNames[i])>>]
    \o [i \in DOMAIN ForeignNamesInOrder |->
           <<ForeignNamesInOrder[i], ForeignNode(ForeignNamesInOrder[i])>>]

StartMem ==
    FlattenSeq([i \in DOMAIN StartEnvironment |->
        << SymbolNode(StartEnvironment[i][1]), StartEnvironment[i][2],
           ConsNode(3 * i - 2, 3 * i - 1) >>])

StartBindings ==
    [i \in DOMAIN StartEnvironment |-> 3 * (Len(StartEnvironment) + 1 - i)]

(* The program of these expressions, and the outcomes it should have.      *)
Program(terms, meaning) ==
    LET load == FoldLeft(LAMBDA acc, t :
                            LET l == Loaded(acc.mem, t)
                            IN  [mem |-> l.mem, forms |-> Append(acc.forms, l.ref)],
                         [mem |-> StartMem, forms |-> <<>>], terms)
    IN  [mem |-> load.mem, globals |-> StartBindings, forms |-> load.forms,
         meaning |-> meaning]

-----------------------------------------------------------------------------
(* A reference as a term.                                                  *)
RECURSIVE Shown(_, _)
Shown(mem, r) ==
    CASE r = Nil -> None
      [] TypeOf(mem, r) = "value" -> N(mem[r].val)
      [] TypeOf(mem, r) = "symbol" -> Y(mem[r].name)
      [] TypeOf(mem, r) = "cons" -> Pair(Shown(mem, mem[r].car), Shown(mem, mem[r].cdr))
      [] TypeOf(mem, r) = "lambda" ->
            <<"lambda", Shown(mem, mem[r].vars), Shown(mem, mem[r].expr)>>
      [] OTHER -> <<mem[r].type>>

Ok(t) == [status |-> "ok", value |-> t]
Error(st, t) == [status |-> st, value |-> t]
=============================================================================
