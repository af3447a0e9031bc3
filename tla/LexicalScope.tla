---------------------------- MODULE LexicalScope ----------------------------
(***************************************************************************)
(* The meaning of a program under lexical scope (README:21), for programs  *)
(* without call/cc: an interpreter by recursion on the expression, without *)
(* frames, labels, flags or tail calls.  Every call of a lambda binds its  *)
(* parameters in a new frame on the environment the lambda was made in.    *)
(*                                                                         *)
(* A result r has a status and a value, the store and the environments.    *)
(***************************************************************************)
EXTENDS Programs, Builtins

Res(st, v, mem, envs) == [status |-> st, value |-> v, mem |-> mem, envs |-> envs]
With(r, st, v) == Res(st, v, r.mem, r.envs)

Bound(r, h, name, v) ==
    LET kv == environ_keyval_frame(r.mem, r.envs[h], name)
    IN  IF kv # Nil THEN [r EXCEPT !.mem = PatchCdr(@, kv, v)]
        ELSE [r EXCEPT !.mem = New(@, ConsNode(name, v)),
                       !.envs[h] = environ_add(@, Newest(r.mem) + 1)]

(* The parameters vs take the arguments as, one by one.                    *)
RECURSIVE BoundAll(_, _, _, _)
BoundAll(r, h, vs, as) ==
    LET tv == TypeOf(r.mem, vs)
    IN  CASE tv = "nil" -> IF as = Nil THEN r ELSE With(r, "too many arguments", Nil)
          [] tv = "symbol" -> Bound(r, h, vs, as)
          [] tv = "cons" ->
                IF ~IsCons(r.mem, as) THEN With(r, "missing argument", Nil)
                ELSE IF ~IsSymbol(r.mem, Car(r.mem, vs)) THEN With(r, "expected symbol", Nil)
                ELSE BoundAll(Bound(r, h, Car(r.mem, vs), Car(r.mem, as)), h,
                              Cdr(r.mem, vs), Cdr(r.mem, as))
          [] OTHER -> With(r, "expected cons or symbol", Nil)

RECURSIVE Evaluate(_, _, _)

(* The values of the list es, as a list.                                   *)
RECURSIVE EvalAll(_, _, _)
EvalAll(r, h, es) ==
    IF es = Nil THEN With(r, "ok", Nil)
    ELSE LET a == Evaluate(r, h, Car(r.mem, es))
             d == EvalAll(a, h, Cdr(r.mem, es))
         IN  IF a.status # "ok" THEN a
             ELSE IF d.status # "ok" THEN d
             ELSE Res("ok", Newest(d.mem) + 1, New(d.mem, ConsNode(a.value, d.value)), d.envs)

(* The value of the last expression of the list es.                        *)
RECURSIVE EvalBody(_, _, _)
EvalBody(r, h, es) ==
    LET a == Evaluate(r, h, Car(r.mem, es))
    IN  IF a.status # "ok" \/ Cdr(r.mem, es) = Nil THEN a ELSE EvalBody(a, h, Cdr(r.mem, es))

EvalIf(r, h, args) ==
    LET t == Evaluate(r, h, Car(r.mem, args))
        p == Cdr(t.mem, args)
        chosen == IF t.value # Nil \/ ~IsCons(t.mem, p) THEN p ELSE Cdr(t.mem, p)
    IN  IF t.status # "ok" THEN t
        ELSE IF ~IsCons(t.mem, chosen) THEN With(t, "expected cons", chosen)
        ELSE Evaluate(t, h, Car(t.mem, chosen))

EvalDefSet(r, h, which, args) ==
    LET name == Car(r.mem, args)
        v == Evaluate(r, h, Car(r.mem, Cdr(r.mem, args)))
        kv == environ_keyval(v.mem, v.envs[h], name)
    IN  IF ~IsSymbol(r.mem, name) THEN With(r, "expected symbol", name)
        ELSE IF v.status # "ok" THEN v
        ELSE IF which = "def!"
             THEN Res("ok", name, New(v.mem, ConsNode(name, v.value)),
                      [v.envs EXCEPT ![h] = environ_add(@, Newest(v.mem) + 1)])
        ELSE IF kv = Nil THEN With(v, "unresolved symbol", name)
        ELSE Res("ok", name, PatchCdr(v.mem, kv, v.value), v.envs)

Called(r, f, args) ==
    LET h == Len(r.envs) + 1
        b == BoundAll([r EXCEPT !.envs = Append(@, environ_pushframe(r.mem[f].env))],
                      h, r.mem[f].vars, args)
    IN  IF b.status # "ok" THEN With(b, b.status, f) ELSE EvalBody(b, h, r.mem[f].expr)

EvalCall(r, h, f, es) ==
    LET a == EvalAll(r, h, es)
        o == CallForeign(a.mem[f].func, a.mem, a.value)
    IN  CASE a.status # "ok" -> a
          [] a.status = "ok" /\ TypeOf(a.mem, f) = "special" -> Evaluate(a, h, Car(a.mem, a.value))
          [] a.status = "ok" /\ TypeOf(a.mem, f) = "foreign" -> Res(o.status, o.out, o.mem, a.envs)
          [] a.status = "ok" /\ TypeOf(a.mem, f) = "lambda"  -> Called(a, f, a.value)
          [] OTHER -> With(a, "invalid function call", f)

Evaluate(r, h, e) ==
    LET mem == r.mem
        args == Cdr(mem, e)
        f == Evaluate(r, h, Car(mem, e))
        special == IF f.status = "ok" /\ TypeOf(f.mem, f.value) = "special"
                   THEN f.mem[f.value].func ELSE "none"
        kv == environ_keyval(mem, r.envs[h], e)
    IN  CASE TypeOf(mem, e) = "symbol" ->
                IF kv = Nil THEN With(r, "unresolved symbol", e) ELSE With(r, "ok", Cdr(mem, kv))
          [] TypeOf(mem, e) = "cons" ->
                IF ~IsList(mem, args) THEN With(r, "expected cons", args)
                ELSE
                CASE f.status # "ok" -> f
                  [] special = "quote" ->
                        IF Cdr(mem, args) # Nil THEN With(f, "too many arguments", Cdr(mem, args))
                        ELSE With(f, "ok", Car(mem, args))
                  [] special = "lambda" ->
                        Res("ok", Newest(f.mem) + 1,
                            New(f.mem, LambdaNode(f.envs[h], Car(mem, args), Cdr(mem, args))), f.envs)
                  [] special = "if" -> EvalIf(f, h, args)
                  [] special \in {"def!", "set!"} -> EvalDefSet(f, h, special, args)
                  [] OTHER -> EvalCall(f, h, f.value, args)
          [] OTHER -> With(r, "ok", e)

(* The outcomes of a program, up to its first error.                       *)
Meaning(p) ==
    LET run == FoldLeft(LAMBDA acc, form :
                    IF acc.r.status # "ok" THEN acc
                    ELSE LET r == Evaluate(acc.r, 1, form)
                         IN  [r |-> r, outs |-> Append(acc.outs,
                                 [status |-> r.status, value |-> Shown(r.mem, r.value)])],
                    [r |-> Res("ok", Nil, p.mem, <<<<p.globals>>>>), outs |-> <<>>], p.forms)
    IN  run.outs

LexicalProgram(terms) ==
    LET p == Program(terms, <<>>) IN [p EXCEPT !.meaning = Meaning(p)]
=============================================================================
