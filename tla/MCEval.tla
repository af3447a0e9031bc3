------------------------------- MODULE MCEval -------------------------------
(***************************************************************************)
(* Programs for the evaluator, and what they should mean.                  *)
(***************************************************************************)
EXTENDS Eval, LexicalScope

ShownOuts == [i \in DOMAIN outs |->
                 [status |-> outs[i].status, value |-> Shown(mem, outs[i].value)]]

(* Each expression of a program has the outcome that the program's meaning *)
(* gives it, in order, and every program comes to its end.                 *)
Abstract == INSTANCE Interpreter WITH meaning <- prog.meaning, outs <- ShownOuts
KeepsMeaning == Abstract!Spec

(* Tail calls take no frames (README:22): whatever a program of this run   *)
(* loops over, no more expressions wait for another than its text nests.   *)
TailCallsAreFlat == FramesAtMost(6)

-----------------------------------------------------------------------------
(* Scope: a global x, a function g of one parameter, a call of g beside a  *)
(* use of x.  No lambda is called in tail position.                        *)
Exprs ==
    { Y("x"), Y("y"), Q(Y("x")), Set("x", N(3)), Set("y", Y("x")), Def("x", N(4)), Def("y", N(4)),
      F("cons", <<Y("x"), Y("y")>>), F("if", <<Y("y"), Y("x"), N(1)>>), F("car", <<Y("x")>>),
      F("cons", <<L(<<Fun(Vars(<<"y">>), <<Y("x"), Y("y")>>), N(5)>>), Y("y")>>),
      F("eval", <<F("cons", <<Y("nil?"), Q(L(<<Y("y")>>))>>)>>) }

Bodies == {<<e>> : e \in Exprs} \cup {<<e, f>> : e, f \in Exprs}

CallsOfG == { F("cons", <<F("g", <<N(7)>>), Y("x")>>), F("cons", <<F("g", <<None>>), Y("x")>>) }

ScopePrograms ==
    { << Def("x", N(1)), Def("g", Fun(Vars(<<v>>), b)), c, Y("x") >> :
        v \in {"x", "y"}, b \in Bodies, c \in CallsOfG }

(* Errors: what is wrong, and where it stands.                             *)
Malformed ==
    { Y("q"), F("if", <<>>), F("if", <<N(1)>>), F("if", <<None, N(1)>>), Q(None), F("quote", <<N(1), N(2)>>),
      F("def!", <<N(5), N(1)>>), F("set!", <<N(5), N(1)>>), Set("q", N(1)), L(<<N(1), N(2)>>),
      L(<<None>>), L(<<Q(Y("x")), N(2)>>), L(<<Q(L(<<N(1)>>))>>), Dotted(<<Y("x")>>, N(5)),
      F("car", <<N(1)>>), F("cdr", <<None>>), F("car", <<>>), F("cons", <<N(1)>>),
      F("cons", <<N(1), N(2), N(3)>>), F("symeq?", <<Q(Y("x")), N(1)>>) }

MalformedCalls ==
    { L(<<Fun(Vars(<<"y">>), <<N(1)>>)>>), L(<<Fun(None, <<N(1)>>), N(1)>>),
      L(<<Fun(L(<<N(5)>>), <<N(1)>>), N(1)>>), L(<<Fun(N(5), <<N(1)>>)>>),
      L(<<Fun(Dotted(<<Y("y"), Y("x")>>, Y("z")), <<Y("z")>>), N(1), N(2), N(3), N(4)>>) }

Around(e) ==
    { e, F("cons", <<N(1), e>>), F("cons", <<e, Y("q")>>), F("if", <<e, N(1), N(2)>>),
      Def("z", e), L(<<Fun(Vars(<<"x">>), <<e, Y("x")>>), N(2)>>), L(<<e, Y("q")>>) }

InTailPosition(e) ==
    { F("if", <<N(1), e, N(2)>>), L(<<Fun(Vars(<<"y">>), <<N(3), e>>), N(2)>>) }

ErrorPrograms ==
    { << Def("x", N(1)), a, Y("x") >> :
        a \in UNION {Around(m) : m \in Malformed \cup MalformedCalls}
                \cup UNION {InTailPosition(m) : m \in Malformed} }

(* Tail calls: f ends in a call of g.  Both are made in one environment,   *)
(* so that what the call keeps stands on that of g (testcases/test.035).   *)
CallsOfGInF ==
    { F("g", <<Y("z")>>), F("g", <<>>), F("if", <<Y("z"), F("g", <<Y("x")>>), N(1)>>),
      F("eval", <<Q(F("g", <<N(7)>>))>>) }

TailCallPrograms ==
    { << Def("x", N(1)), Def("g", None), Def("f", None),
         Set("g", Fun(Vars(<<"y">>), <<b>>)), Set("f", Fun(Vars(<<"z">>), before \o <<c>>)),
         F("cons", <<F("f", <<N(5)>>), Y("x")>>), Y("x") >> :
        b \in Exprs \cup Malformed, before \in {<<>>, <<Set("x", Y("z"))>>}, c \in CallsOfGInF }

-----------------------------------------------------------------------------
(* Continuations.  An expression with a hole: what the hole's value goes   *)
(* through.  No hole stands in a call whose parameters are used later.     *)
Holes(e) ==
    << e, F("cons", <<e, N(8)>>), F("cons", <<N(8), e>>), F("if", <<e, N(8), N(9)>>),
      F("if", <<N(1), e, N(8)>>), F("if", <<None, N(8), e>>), Def("z", e),
      L(<<Fun(Vars(<<"y">>), <<Y("y")>>), e>>),
      L(<<Fun(Vars(<<"y", "z">>), <<F("cons", <<Y("z"), Y("y")>>)>>), N(8), e>>),
      F("car", <<F("cons", <<e, N(8)>>)>>) >>

Capture(a) == F("call/cc", <<Fun(Vars(<<"c">>), <<Set("k", Y("c")), a>>)>>)
Escape(a) == F("call/cc", <<Fun(Vars(<<"c">>), <<F("cons", <<N(8), L(<<Y("c"), a>>)>>)>>)>>)

(* A captured continuation that is given a value later goes on as the      *)
(* expression with that value in the hole would have, and what waited for  *)
(* the call of the continuation is forgotten (testcases/test.040).         *)
ReenteredMeans(C(_), v) ==
    LET text == << Def("k", None), C(Capture(N(5))), F("cons", <<N(0), L(<<Y("k"), v>>)>>) >>
        plain == << Def("k", None), C(N(5)), C(v) >>
    IN  Program(text, LexicalProgram(plain).meaning)

EscapedMeans(C(_), v) == Program(<<C(Escape(v))>>, LexicalProgram(<<C(v)>>).meaning)

WithCC(exprs) == F("call/cc", <<Fun(Vars(<<"cc">>), exprs)>>)
SaveCC == Set("foo", Y("cc"))

(* testcases/test.037 and test.040                                         *)
ReentryTests ==
    { Program(<<Def("foo", None), WithCC(<<SaveCC, N(2)>>), F("foo", <<N(3)>>)>>,
              <<Ok(Y("foo")), Ok(N(2)), Ok(N(3))>>),
      Program(<<Def("foo", None), F("cons", <<N(1), WithCC(<<SaveCC, F("if", <<None, N(1), N(2)>>)>>)>>),
                F("cons", <<N(5), F("foo", <<N(3)>>)>>)>>,
              <<Ok(Y("foo")), Ok(Pair(N(1), N(2))), Ok(Pair(N(1), N(3)))>>) }

ContinuationRuns ==
    ReentryTests \cup
    UNION { LET C(e) == Holes(Holes(e)[j])[i]
            IN  {ReenteredMeans(C, v) : v \in {N(3), None}} \cup {EscapedMeans(C, v) : v \in {N(3), None}} :
            i, j \in DOMAIN Holes(None) }

-----------------------------------------------------------------------------
(* The programs of testcases/, without the printing, and loops.            *)
Three(w) == <<N(5), N(6), w>>
SevenOf(params, body, v) ==
    Program(<<Def("fun", Fun(params, <<Y(body)>>)), F("fun", Three(N(7)))>>, <<Ok(Y("fun")), Ok(v)>>)
Value(t, v) == Program(<<t>>, <<Ok(v)>>)

ReverseFun ==
    Fun(Vars(<<"fwd", "rev">>),
        << F("if", << F("nil?", <<Y("fwd")>>), Y("rev"),
                      F("reverse", << F("cdr", <<Y("fwd")>>),
                                      F("cons", <<F("car", <<Y("fwd")>>), Y("rev")>>) >>) >>) >>)

TestRuns ==
    { Value(F("if", <<F("if", <<None, None, N(1)>>), N(2), N(3)>>), N(2)),                \* 012
      Value(F("if", <<F("if", <<N(1), None, N(1)>>), N(2), N(3)>>), N(3)),                \* 013
      Value(Fun(Vars(<<"x">>), <<Y("x")>>), <<"lambda", Vars(<<"x">>), L(<<Y("x")>>)>>),  \* 016
      Program(<<Def("W", Q(N(5))), Set("W", Q(N(6))), Y("W")>>, <<Ok(Y("W")), Ok(Y("W")), Ok(N(6))>>), \* 007
      Program(<<Def("x", N(5)), Def("five", Fun(None, <<Y("x")>>)), Def("x", N(6)), F("five", <<>>)>>,
              <<Ok(Y("x")), Ok(Y("five")), Ok(Y("x")), Ok(N(5))>>),                       \* 019
      SevenOf(Dotted(<<Y("x")>>, Y("y")), "y", L(<<N(6), N(7)>>)),                        \* 023
      SevenOf(Dotted(<<Y("x"), Y("y")>>, Y("z")), "z", L(<<N(7)>>)),                      \* 025
      SevenOf(Dotted(<<Y("x"), Y("y")>>, Y("z")), "y", N(6)),                             \* 026
      SevenOf(Y("x"), "x", L(Three(N(7)))),                                               \* 028
      Value(F("cons", <<N(1), L(<<Fun(Vars(<<"x">>), <<N(2), N(3)>>), N(4)>>)>>), Pair(N(1), N(3))), \* 033
      Program(<<Def("reverse", None), Set("reverse", ReverseFun), F("reverse", <<Q(L(Three(N(7)))), None>>)>>,
              <<Ok(Y("reverse")), Ok(Y("reverse")), Ok(L(<<N(7), N(6), N(5)>>))>>),       \* 035
      Program(<<Def("reverse", None), Set("reverse", ReverseFun),
                F("reverse", <<Q(L(Three(N(7)) \o Three(N(8)))), None>>)>>,
              <<Ok(Y("reverse")), Ok(Y("reverse")), Ok(L(<<N(8), N(6), N(5), N(7), N(6), N(5)>>))>>),
      Value(F("eval", <<Q(Q(N(5)))>>), N(5)),                                             \* 041
      Value(F("cons", <<F("sym?", <<Q(Y("x"))>>), F("func?", <<Y("car")>>)>>), Pair(N(1), N(1))),
      Value(F("cons", <<F("value?", <<N(5)>>), F("nil?", <<N(5)>>)>>), Pair(N(1), None)),
      Program(<<Def("foo", N(1)), F("defined?", <<Q(Y("foo"))>>)>>, <<Ok(Y("foo")), Ok(N(1))>>),
      (* returns from the middle, and assertions that end the program *)
      Program(<<Def("x", N(1)), F("def!", <<Y("y")>>), Y("x")>>, <<Ok(Y("x")), Error("expected cons", None)>>),
      Program(<<N(1), Dotted(<<Y("cons"), N(1)>>, N(2))>>, <<Ok(N(1))>>),
      Program(<<N(1), L(<<Fun(None, <<>>)>>)>>, <<Ok(N(1))>>) }

-----------------------------------------------------------------------------
(* Arithmetic, compared with what it is in two's complement: a number      *)
(* stands for the value it is congruent to, and a value is a set of bits.  *)
Represented(n) ==
    CHOOSE v \in {n - (n \div Size) * Size, n - (n \div Size) * Size - Size} :
        v \in MinValue..MaxValue

Places == 0..ValueBits - 1
BitsOf(a) == {i \in Places : (a \div 2 ^ i) % 2 = 1}
OfBits(S) == Represented(MapThenSumSet(LAMBDA i : 2 ^ i, S \cap Places))

BelowUnsigned(a, b) ==
    \E i \in BitsOf(b) \ BitsOf(a) :
        \A j \in i + 1..ValueBits - 1 : j \in BitsOf(a) <=> j \in BitsOf(b)

(* The quotient q and the remainder r of C, if there are any.              *)
Divided(a, b) ==
    {<<q, r>> \in {<<q, a - q * b>> : q \in {s * (a \div Magnitude(b)) + d : s \in {1, -1}, d \in -1..1}} :
        /\ Magnitude(r) < Magnitude(b)
        /\ r # 0 => (r < 0) = (a < 0)
        /\ q \in MinValue..MaxValue}

Compares(f, a, b) ==
    CASE f = "eq?"  -> BitsOf(a) = BitsOf(b)
      [] f = "lt?"  -> a - b < 0
      [] f = "gt?"  -> b - a < 0
      [] f = "ult?" -> BelowUnsigned(a, b)
      [] f = "ugt?" -> BelowUnsigned(b, a)

Result(f, a, b) ==
    LET A == BitsOf(a)
        B == BitsOf(b)
    IN  CASE f = "add"    -> {Represented(a + b)}
          [] f = "sub"    -> {Represented(a - b)}
          [] f = "mul"    -> {Represented(a * b)}
          [] f = "div"    -> IF b = 0 THEN {} ELSE {d[1] : d \in Divided(a, b)}
          [] f = "rem"    -> IF b = 0 THEN {} ELSE {d[2] : d \in Divided(a, b)}
          [] f = "b_and"  -> {OfBits(A \cap B)}
          [] f = "b_or"   -> {OfBits(A \cup B)}
          [] f = "b_nand" -> {OfBits(Places \ (A \cap B))}
          [] f = "b_xor"  -> {OfBits((A \cup B) \ (A \cap B))}
          [] f = "b_shl"  -> {OfBits({i + b : i \in A})}
          [] f = "b_shr"  -> {OfBits({i - b : i \in A})}
          [] f = "b_shra" -> {OfBits({i - b : i \in A} \cup (IF a < 0 THEN ValueBits - b..ValueBits ELSE {}))}

Corners == {0, 1, -1, 5, -8, MaxValue, MinValue}
Shifts == {"b_shl", "b_shr", "b_shra"}
Counts == {0, 1, 5, ValueBits - 1}

(* A division that has no result ends the program.                         *)
Arithmetics ==
    {Value(F(f, <<N(a), N(b)>>), IF Compares(f, a, b) THEN N(1) ELSE None) :
        f \in Predicates \ {"addc"}, a \in Corners, b \in Corners}
    \cup {Program(<<F(f, <<N(a), N(b)>>)>>, SetToSeq({Ok(N(v)) : v \in Result(f, a, b)})) :
        f \in Operations \ Shifts, a \in Corners, b \in Corners}
    \cup {Value(F(f, <<N(a), N(b)>>), N(CHOOSE v \in Result(f, a, b) : TRUE)) :
        f \in Shifts, a \in Corners, b \in Counts}

CodeList(codes) == Q(L([i \in DOMAIN codes |-> N(codes[i])]))
Fails(t, st, r) == Program(<<N(1), t, N(2)>>, <<Ok(N(1)), Error(st, r)>>)
Ends(t) == Program(<<N(1), t, N(2)>>, <<Ok(N(1))>>)

(* Where README and the code agree: the rest is in DocumentedRuns.         *)
NameRuns ==
    { Value(F("splitsym", <<Q(Y("cab"))>>), L(<<N(99), N(97), N(98)>>)),
      Value(F("makesym", <<CodeList(<<97>>)>>), Y("a")),
      Value(F("makesym", <<F("splitsym", <<Q(Y("a"))>>)>>), Y("a")),
      Value(F("cons?", <<N(5)>>), None),
      Value(F("addc", <<N(-1), N(MinValue)>>), N(1)),
      Value(F("addc", <<N(1), N(2)>>), None),
      Fails(F("makesym", <<N(97)>>), "expected cons", N(97)),
      Fails(F("makesym", <<CodeList(<<97, 98, 300>>)>>), "value bounds", N(300)),
      Fails(F("makesym", <<Q(Dotted(<<N(97), N(98), Y("a")>>, N(98)))>>), "expected value", Y("a")),
      Fails(F("splitsym", <<N(97)>>), "expected symbol", N(97)),
      Fails(F("add", <<N(1), Q(Y("a"))>>), "expected value", Y("a")),
      Fails(F("ult?", <<None, Q(Y("a"))>>), "expected value", None),
      Ends(F("makesym", <<Q(Dotted(<<N(97)>>, N(98)))>>)),
      Ends(F("makesym", <<Q(Dotted(<<N(97), N(98)>>, N(98)))>>)) }

ProgramRuns ==
    TestRuns \cup ContinuationRuns \cup Arithmetics \cup NameRuns
    \cup {LexicalProgram(p) : p \in ScopePrograms \cup ErrorPrograms \cup TailCallPrograms}

-----------------------------------------------------------------------------
(* Programs that show where the code and its documents part.               *)

(* What README says of scope (line 21; a call in tail position, in a body  *)
(* and in a branch outside of any body) and of five functions, with the    *)
(* values that it promises.  The code gives others in each of these.       *)
ScopeAsDocumented ==
    { Program(<<Def("x", N(1)), Def("f", Fun(None, <<Y("x")>>)), L(<<Fun(Vars(<<"x">>), <<F("f", <<>>)>>), N(2)>>)>>,
              <<Ok(Y("x")), Ok(Y("f")), Ok(N(1))>>),
      Program(<<Def("x", N(1)), Def("g", Fun(Vars(<<"x">>), <<Y("x")>>)), F("if", <<N(1), F("g", <<N(7)>>), N(0)>>), Y("x")>>,
              <<Ok(Y("x")), Ok(Y("g")), Ok(N(7)), Ok(N(1))>>) }

FunctionsAsDocumented ==
    { Value(F("defined?", <<Q(Y("y"))>>), None),                          \* README:39
      Value(F("cons?", <<Q(L(<<N(1)>>))>>), N(1)),                        \* README:46
      Value(F("makesym", <<F("splitsym", <<Q(Y("cab"))>>)>>), Y("cab")),  \* README:50-51
      Value(F("symeq?", <<Q(Y("a")), Q(Y("a"))>>), N(1)),                 \* README:53
      Value(F("addc", <<N(1), N(MaxValue)>>), N(1)) }                     \* README:59

DocumentedRuns == ScopeAsDocumented \cup FunctionsAsDocumented

(* When a program is done, each of its forms has had the value that README *)
(* promises for the scope of variables and for the functions that it lists *)
(* (README:19-71).                                                         *)
AnswersAsDocumented == Len(outs) = Len(prog.meaning) => ShownOuts = prog.meaning

(* A loop that jumps back into the call it is in, twice.                   *)
LoopRuns == { Program(
    << Def("k", None), Def("n", Q(L(Three(N(7))))),
       L(<< Fun(None, << Capture(None), Set("n", F("cdr", <<Y("n")>>)),
                         F("if", <<Y("n"), L(<<Y("k"), None>>), N(4)>>) >>) >>) >>,
    << Ok(Y("k")), Ok(Y("n")), Ok(N(4)) >>) }
=============================================================================
