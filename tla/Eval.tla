-------------------------------- MODULE Eval --------------------------------
(***************************************************************************)
(* The evaluator (eval.c), driven by the loop that reads and evaluates the *)
(* expressions of a text (readevalfn, eval_test.c).                        *)
(*                                                                         *)
(* eval() does not call itself: it pushes its eight locals on a list of    *)
(* frames, sets up the locals for the inner expression, and jumps to       *)
(* `restart`; when that is done it pops the frame and jumps to the label   *)
(* the frame holds.  Here pc is that label, and an action is the code from *)
(* one label, or one turn of a loop, to the next.  pc = "aborted" after an *)
(* assertion failed.  An operator whose name is that of an action and a    *)
(* suffix is the action with a bug, to see that the properties notice.     *)
(***************************************************************************)
EXTENDS Environ, Builtins, FiniteSets

(* What the texts contain, parsed: the nodes, the bindings of the start    *)
(* environment and the expressions.                                        *)
CONSTANT Programs

(* What the parser and environ_add_builtins leave: the conses that bind a  *)
(* name are known to the environment only, and no expression holds one.    *)
IsProgram(p) ==
    LET bindings == ToSet(p.globals)
        data == 0..Len(p.mem) \ bindings
    IN  /\ p.mem \in Seq(ToSet(p.mem)) /\ p.globals \in Seq(DOMAIN p.mem) /\ p.forms \in Seq(data)
        /\ \A r \in DOMAIN p.mem :
              \/ p.mem[r].type \in {"symbol", "value", "special"}
              \/ p.mem[r].type = "foreign" /\ p.mem[r].func \in ForeignNames
              \/ p.mem[r] \in [type : {"cons"}, car : data, cdr : data]
        /\ \A r \in bindings : IsCons(p.mem, r) /\ IsSymbol(p.mem, Car(p.mem, r))

ASSUME ProgramsAssumption == \A p \in Programs : IsProgram(p)

VARIABLES
    prog,     \* the program that runs
    mem,      \* the nodes
    envs,     \* the environment behind every environment handle
    frames,   \* frame_hdl: the saved locals, the newest last
    locals,
    result,   \* result_handle
    status,
    pc,
    bind,     \* lambda_bind's var_curs and arg_curs
    todo,     \* expressions that are not evaluated yet
    outs,     \* history: what every call of eval returned
    popped    \* history: environment handles whose frame is gone

vars == <<prog, mem, envs, frames, locals, result, status, pc, bind, todo, outs, popped>>
driver == <<prog, todo, outs>>

Global == 1   \* the environment handle of the start environment

Labels == {"post_func", "post_if_test", "post_def_set", "post_arg", "post_expr"}

(* locals for an expression that has not been looked at.                   *)
Fresh(env, input) ==
    [flags |-> {}, restart |-> "none", cursor |-> Nil, na_last |-> Nil, newargs |-> Nil,
     env |-> env, func |-> Nil, input |-> input]

Init ==
    /\ prog \in Programs
    /\ mem = prog.mem
    /\ envs = <<<<prog.globals>>>>
    /\ todo = prog.forms
    /\ frames = <<>>
    /\ locals = Fresh(Global, Nil)
    /\ result = Nil
    /\ status = "ok"
    /\ pc = "idle"
    /\ bind = [vars |-> Nil, args |-> Nil]
    /\ outs = <<>>
    /\ popped = {}

-----------------------------------------------------------------------------
(* The ways to go on.                                                      *)

Jump(l, label) == locals' = l /\ pc' = label

(* Evaluate input, come back to label with the locals l.                   *)
Push(l, label, input) ==
    /\ frames' = Append(frames, [l EXCEPT !.restart = label])
    /\ locals' = Fresh(l.env, input)
    /\ pc' = "restart"

(* The expression has a value, or an error that the node r illustrates.    *)
Leave(st, r) ==
    /\ result' = r
    /\ status' = st
    /\ pc' = "finish"

(* A failed assertion ends the program.                                    *)
Abort ==
    /\ pc' = "aborted"
    /\ UNCHANGED <<mem, envs, frames, locals, result, status, bind, popped>>

type(r) == TypeOf(mem, r)
car(r) == Car(mem, r)
cdr(r) == Cdr(mem, r)
EnvNow == envs[locals.env]

-----------------------------------------------------------------------------
(* The driver: the next expression.                                        *)
NextForm ==
    /\ pc = "idle" /\ todo # <<>>
    /\ frames' = <<>>
    /\ Jump(Fresh(Global, Head(todo)), "restart")
    /\ result' = Nil
    /\ status' = "ok"
    /\ todo' = Tail(todo)
    /\ UNCHANGED <<prog, mem, envs, bind, outs, popped>>

(* eval returns; an error ends the driver's loop.                          *)
Return(st, r) ==
    /\ outs' = Append(outs, [status |-> st, value |-> r])
    /\ pc' = IF st = "ok" THEN "idle" ELSE "stopped"

(* 182-219 *)
Restart ==
    /\ pc = "restart"
    /\ LET in == locals.input
       IN  \/ /\ type(in) \notin {"symbol", "cons"}
              /\ Leave(status, in)
              /\ UNCHANGED <<locals, frames>>
           \/ /\ type(in) = "symbol"
              /\ LET kv == environ_keyval(mem, EnvNow, in)
                 IN  IF kv = Nil THEN Leave("unresolved symbol", in)
                                 ELSE Leave(status, cdr(kv))
              /\ UNCHANGED <<locals, frames>>
           \/ /\ type(in) = "cons" /\ ~IsList(mem, cdr(in))
              /\ Leave("expected cons", cdr(in))
              /\ UNCHANGED <<locals, frames>>
           \/ /\ type(in) = "cons" /\ IsList(mem, cdr(in))
              /\ Push(locals, "post_func", car(in))
              /\ UNCHANGED <<result, status>>
    /\ UNCHANGED <<driver, mem, envs, bind, popped>>

(* 237-241, 377-380: what is not special, or evaluates its arguments.      *)
FuncIsPlain == type(result) = "special" => mem[result].func \in {"defined?", "eval"}

PostFuncPlain ==
    /\ pc = "post_func" /\ status = "ok" /\ FuncIsPlain
    /\ Jump([locals EXCEPT !.func = result, !.na_last = Nil, !.newargs = Nil,
                           !.cursor = cdr(locals.input)], "args")
    /\ UNCHANGED <<driver, mem, envs, frames, result, status, bind, popped>>

IsSpecial(name) ==
    /\ pc = "post_func" /\ status = "ok"
    /\ type(result) = "special" /\ mem[result].func = name

(* 247-255, 256-293 *)
If ==
    /\ IsSpecial("if")
    /\ Push([locals EXCEPT !.func = result], "post_if_test", car(cdr(locals.input)))
    /\ UNCHANGED <<driver, mem, envs, result, status, bind, popped>>

(* 256-293: the chosen branch is evaluated in the same locals.             *)
PostIfTest ==
    /\ pc = "post_if_test" /\ status = "ok"
    /\ LET branches == cdr(cdr(locals.input))
           chosen == IF result # Nil \/ type(branches) # "cons" THEN branches ELSE cdr(branches)
           expr == IF "new_input" \in locals.flags THEN Nil ELSE car(chosen)
       IN  \/ /\ type(chosen) # "cons"
              /\ Leave("expected cons", chosen)
              /\ UNCHANGED locals
           \/ /\ type(chosen) = "cons"
              /\ Jump([locals EXCEPT !.input = expr, !.func = Nil,
                                     !.flags = (@ \ {"new_input"}) \cup {"tailcall"}], "restart")
              /\ result' = Nil
              /\ UNCHANGED status
    /\ UNCHANGED <<driver, mem, envs, frames, bind, popped>>

(* 295-302 *)
MakeLambda ==
    /\ IsSpecial("lambda")
    /\ LET args == cdr(locals.input)
       IN  mem' = New(mem, LambdaNode(EnvNow, car(args), cdr(args)))
    /\ Leave(status, Newest(mem'))
    /\ UNCHANGED <<driver, envs, frames, locals, bind, popped>>

(* 304-312 *)
Quote ==
    /\ IsSpecial("quote")
    /\ LET args == cdr(locals.input)
       IN  IF cdr(args) # Nil THEN Leave("too many arguments", cdr(args))
                              ELSE Leave(status, car(args))
    /\ UNCHANGED <<driver, mem, envs, frames, locals, bind, popped>>

(* 314-324: (call/cc f) becomes (f <continuation>) in the same locals.     *)
CallCC ==
    /\ IsSpecial("call/cc")
    /\ mem' = mem \o << ContinuationNode(frames),
                        ConsNode(Newest(mem) + 1, Nil),
                        ConsNode(car(cdr(locals.input)), Newest(mem) + 2) >>
    /\ Jump([locals EXCEPT !.input = Newest(mem'), !.func = Nil,
                           !.flags = @ \cup {"new_input"}], "restart")
    /\ UNCHANGED <<driver, envs, frames, result, status, bind, popped>>

DefOrSet_ForgetsName ==
    /\ IsSpecial("def!") \/ IsSpecial("set!")
    /\ Push([locals EXCEPT !.func = result], "post_def_set", car(cdr(cdr(locals.input))))
    /\ UNCHANGED <<driver, mem, envs, result, status, bind, popped>>

(* 326-348 *)
DefOrSet ==
    /\ IsSpecial("def!") \/ IsSpecial("set!")
    /\ LET name == car(cdr(locals.input))
           value == cdr(cdr(locals.input))
       IN  \/ /\ type(name) # "symbol"
              /\ Leave("expected symbol", name)
              /\ UNCHANGED <<outs, frames, locals>>
           \/ /\ type(name) = "symbol" /\ type(value) # "cons"
              /\ Return("expected cons", Nil)        \* return, not goto
              /\ result' = value
              /\ UNCHANGED <<frames, locals, status>>
           \/ /\ type(name) = "symbol" /\ type(value) = "cons"
              /\ Push([locals EXCEPT !.func = result, !.cursor = name], "post_def_set", car(value))
              /\ UNCHANGED <<outs, result, status>>
    /\ UNCHANGED <<prog, todo, mem, envs, bind, popped>>

(* 349-369 *)
PostDefSet ==
    /\ pc = "post_def_set" /\ status = "ok"
    /\ LET name == locals.cursor
           kv == environ_keyval(mem, EnvNow, name)
       IN  \/ /\ mem[locals.func].func = "def!"
              /\ mem' = New(mem, ConsNode(name, result))
              /\ envs' = [envs EXCEPT ![locals.env] = environ_add(@, Newest(mem'))]
              /\ Leave(status, name)
           \/ /\ mem[locals.func].func = "set!" /\ kv = Nil
              /\ Leave("unresolved symbol", name)
              /\ UNCHANGED <<mem, envs>>
           \/ /\ mem[locals.func].func = "set!" /\ kv # Nil
              /\ mem' = PatchCdr(mem, kv, result)
              /\ Leave(status, name)
              /\ UNCHANGED envs
    /\ UNCHANGED <<driver, frames, locals, bind, popped>>

(* A label that finds an error leaves: 238, 257, 350, 391, 494.            *)
PostError ==
    /\ pc \in Labels /\ status # "ok"
    /\ Leave(status, result)
    /\ UNCHANGED <<driver, mem, envs, frames, locals, bind, popped>>

(* 380-389 *)
Args ==
    /\ pc = "args"
    /\ LET next == locals.cursor
       IN  \/ /\ next = Nil
              /\ Jump(locals, "call")
              /\ UNCHANGED <<mem, envs, frames, result, status, bind, popped>>
           \/ /\ type(next) = "cons"
              /\ Push(locals, "post_arg", car(next))
              /\ UNCHANGED <<mem, envs, result, status, bind, popped>>
           \/ ~IsList(mem, next) /\ Abort            \* node.c:223
    /\ UNCHANGED driver

PostArg_AfterFirst ==
    /\ pc = "post_arg" /\ status = "ok"
    /\ LET elem == Newest(mem) + 1
           mem2 == New(mem, ConsNode(result, Nil))
       IN  /\ mem' = IF locals.newargs = Nil THEN mem2 ELSE PatchCdr(mem2, locals.newargs, elem)
           /\ Jump([locals EXCEPT !.newargs = IF @ = Nil THEN elem ELSE @,
                                  !.na_last = elem,
                                  !.cursor = cdr(@)], "args")
    /\ UNCHANGED <<driver, envs, frames, result, status, bind, popped>>

(* 397-406: the value becomes the last element of the argument list.       *)
PostArg ==
    /\ pc = "post_arg" /\ status = "ok"
    /\ LET elem == Newest(mem) + 1
           mem2 == New(mem, ConsNode(result, Nil))
       IN  /\ mem' = IF locals.newargs = Nil THEN mem2 ELSE PatchCdr(mem2, locals.na_last, elem)
           /\ Jump([locals EXCEPT !.newargs = IF @ = Nil THEN elem ELSE @,
                                  !.na_last = elem,
                                  !.cursor = cdr(@)], "args")
    /\ UNCHANGED <<driver, envs, frames, result, status, bind, popped>>

-----------------------------------------------------------------------------
(* 408-510: the call, by the type of the function.                         *)

Calls(t) == pc = "call" /\ type(locals.func) = t

CallDefined ==
    /\ Calls("special") /\ mem[locals.func].func = "defined?"
    /\ LET name == car(locals.newargs)
           defined == type(name) = "symbol" /\ environ_keyval(mem, EnvNow, name) # Nil
       IN  /\ mem' = IF defined THEN New(mem, ValueNode(1)) ELSE mem
           /\ Leave(status, IF defined THEN Newest(mem') ELSE result)
    /\ UNCHANGED <<driver, envs, frames, locals, bind, popped>>

CallEval ==
    /\ Calls("special") /\ mem[locals.func].func = "eval"
    /\ Jump([locals EXCEPT !.input = car(locals.newargs)], "restart")
    /\ UNCHANGED <<driver, mem, envs, frames, result, status, bind, popped>>

CallForeignFunc ==
    /\ Calls("foreign")
    /\ LET o == CallForeign(mem[locals.func].func, mem, locals.newargs)
       IN  \/ /\ o.status # "aborted"
              /\ mem' = o.mem
              /\ Leave(o.status, o.out)
              /\ UNCHANGED <<envs, frames, locals, bind, popped>>
           \/ o.status = "aborted" /\ Abort
    /\ UNCHANGED driver

CallContinuation ==
    /\ Calls("continuation")
    /\ frames' = mem[locals.func].bt
    /\ Leave(status, car(locals.newargs))
    /\ UNCHANGED <<driver, mem, envs, locals, bind, popped>>

CallLambda_NoHandle ==
    /\ Calls("lambda")
    /\ bind' = [vars |-> mem[locals.func].vars, args |-> locals.newargs]
    /\ Jump([locals EXCEPT !.env = Len(envs) + 1, !.flags = @ \cup {"frame_added"}], "bind")
    /\ UNCHANGED <<driver, mem, envs, frames, result, status, popped>>

CallLambda_CallersHandle ==
    /\ Calls("lambda")
    /\ bind' = [vars |-> mem[locals.func].vars, args |-> locals.newargs]
    /\ envs' = [envs EXCEPT ![locals.env] = environ_pushframe(mem[locals.func].env)]
    /\ Jump([locals EXCEPT !.flags = @ \cup {"frame_added"}], "bind")
    /\ UNCHANGED <<driver, mem, frames, result, status, popped>>

CallLambda_CallersScope ==
    /\ Calls("lambda")
    /\ bind' = [vars |-> mem[locals.func].vars, args |-> locals.newargs]
    /\ envs' = Append(envs, environ_pushframe(EnvNow))
    /\ Jump([locals EXCEPT !.env = Len(envs) + 1, !.flags = @ \cup {"frame_added"}], "bind")
    /\ UNCHANGED <<driver, mem, frames, result, status, popped>>

(* 438-453: a call that is not a tail call gets a frame in a new handle on *)
(* the environment of the lambda; a tail call keeps the handle it has.     *)
CallLambda ==
    /\ Calls("lambda")
    /\ LET f == mem[locals.func]
       IN  /\ bind' = [vars |-> f.vars, args |-> locals.newargs]
           /\ \/ /\ "tailcall" \in locals.flags
                 /\ Jump(locals, "bind")
                 /\ UNCHANGED envs
              \/ /\ "tailcall" \notin locals.flags
                 /\ envs' = Append(envs, environ_pushframe(f.env))
                 /\ Jump([locals EXCEPT !.env = Len(envs) + 1,
                                        !.flags = @ \cup {"frame_added"}], "bind")
    /\ UNCHANGED <<driver, mem, frames, result, status, popped>>

CallOther ==
    /\ Calls("nil") \/ Calls("value") \/ Calls("symbol") \/ Calls("cons")
    /\ Leave("invalid function call", locals.func)
    /\ UNCHANGED <<driver, mem, envs, frames, locals, bind, popped>>

SetInFrame_AnyFrame(name, value) ==
    LET kv == environ_keyval(mem, EnvNow, name)
    IN  \/ kv # Nil /\ mem' = PatchCdr(mem, kv, value) /\ UNCHANGED envs
        \/ /\ kv = Nil
           /\ mem' = New(mem, ConsNode(name, value))
           /\ envs' = [envs EXCEPT ![locals.env] = environ_add(@, Newest(mem'))]

(* 55-61 *)
SetInFrame(name, value) ==
    LET kv == environ_keyval_frame(mem, EnvNow, name)
    IN  \/ /\ kv # Nil
           /\ mem' = PatchCdr(mem, kv, value)
           /\ UNCHANGED envs
        \/ /\ kv = Nil
           /\ mem' = New(mem, ConsNode(name, value))
           /\ envs' = [envs EXCEPT ![locals.env] = environ_add(@, Newest(mem'))]

BindError ==
    LET var == bind.vars
    IN  CASE var = Nil /\ bind.args # Nil -> "too many arguments"
          [] type(var) = "cons" /\ type(bind.args) # "cons" -> "missing argument"
          [] type(var) = "cons" /\ type(bind.args) = "cons" /\ ~IsSymbol(mem, car(var)) -> "expected symbol"
          [] type(var) \notin {"nil", "cons", "symbol"} -> "expected cons or symbol"
          [] OTHER -> "ok"

(* lambda_bind (12-71), one name per step; 455-465.                        *)
LambdaBind ==
    /\ pc = "bind"
    /\ LET var == bind.vars
           body == [locals EXCEPT !.cursor = mem[locals.func].expr]
       IN  \/ /\ BindError # "ok"
              /\ Leave(BindError, locals.func)
              /\ UNCHANGED <<mem, envs, locals, bind>>
           \/ /\ BindError = "ok" /\ var = Nil
              /\ Jump(body, "body")
              /\ UNCHANGED <<mem, envs, result, status, bind>>
           \/ /\ BindError = "ok" /\ type(var) = "symbol"
              /\ SetInFrame(var, bind.args)
              /\ Jump(body, "body")
              /\ UNCHANGED <<result, status, bind>>
           \/ /\ BindError = "ok" /\ type(var) = "cons"
              /\ SetInFrame(car(var), car(bind.args))
              /\ bind' = [vars |-> cdr(var), args |-> cdr(bind.args)]
              /\ UNCHANGED <<locals, pc, result, status>>
    /\ UNCHANGED <<driver, frames, popped>>

Body_NoTailCall ==
    /\ pc = "body"
    /\ Push(locals, "post_expr", car(locals.cursor))
    /\ UNCHANGED <<driver, mem, envs, result, status, bind, popped>>

Body_NoFlag ==
    /\ pc = "body" /\ type(locals.cursor) = "cons"
    /\ \/ /\ cdr(locals.cursor) = Nil
          /\ Jump([locals EXCEPT !.input = car(locals.cursor)], "restart")
          /\ UNCHANGED frames
       \/ /\ cdr(locals.cursor) # Nil
          /\ Push(locals, "post_expr", car(locals.cursor))
    /\ UNCHANGED <<driver, mem, envs, result, status, bind, popped>>

(* 465-499, 501: the last expression of a body is a tail call.             *)
Body ==
    /\ pc = "body"
    /\ LET next == locals.cursor
       IN  \/ type(next) # "cons" /\ Abort           \* 501, node.c:234
           \/ /\ type(next) = "cons" /\ cdr(next) = Nil
              /\ Jump([locals EXCEPT !.input = car(next), !.na_last = Nil, !.newargs = Nil,
                                     !.func = Nil,
                                     !.flags = (@ \ {"new_input"}) \cup {"tailcall"}], "restart")
              /\ UNCHANGED <<mem, envs, frames, result, status, bind, popped>>
           \/ /\ type(next) = "cons" /\ cdr(next) # Nil
              /\ Push(locals, "post_expr", car(next))
              /\ UNCHANGED <<mem, envs, result, status, bind, popped>>
    /\ UNCHANGED driver

PostExpr_Unchecked ==
    /\ pc = "post_expr"
    /\ Jump([locals EXCEPT !.cursor = cdr(@)], "body")
    /\ result' = Nil
    /\ UNCHANGED <<driver, mem, envs, frames, status, bind, popped>>

PostExpr ==
    /\ pc = "post_expr" /\ status = "ok"
    /\ Jump([locals EXCEPT !.cursor = cdr(@)], "body")
    /\ result' = Nil
    /\ UNCHANGED <<driver, mem, envs, frames, status, bind, popped>>

-----------------------------------------------------------------------------
(* 512-562: give up the frame of the call; go back to the newest saved     *)
(* locals, or return.                                                      *)
Finish ==
    /\ pc = "finish"
    /\ IF "frame_added" \in locals.flags
       THEN /\ envs' = [envs EXCEPT ![locals.env] = environ_popframe(@)]
            /\ popped' = popped \cup {locals.env}
       ELSE UNCHANGED <<envs, popped>>
    /\ \/ /\ frames # <<>>
          /\ frames' = Front(frames)
          /\ Jump(Last(frames), Last(frames).restart)
          /\ UNCHANGED outs
       \/ /\ frames = <<>>
          /\ Return(status, result)
          /\ UNCHANGED <<frames, locals>>
    /\ UNCHANGED <<prog, todo, mem, result, status, bind>>

Idle == /\ pc \in {"stopped", "aborted"} \/ (pc = "idle" /\ todo = <<>>)
        /\ UNCHANGED vars

Step ==
    \/ NextForm \/ Restart
    \/ PostError \/ PostFuncPlain \/ PostIfTest \/ PostDefSet \/ PostArg \/ PostExpr
    \/ If \/ MakeLambda \/ Quote \/ CallCC \/ DefOrSet
    \/ Args \/ CallDefined \/ CallEval \/ CallForeignFunc \/ CallContinuation
    \/ CallLambda \/ CallOther \/ LambdaBind \/ Body \/ Finish

Next == Step \/ Idle

Spec == Init /\ [][Next]_vars /\ WF_vars(Step)

-----------------------------------------------------------------------------
Refs == 0..Len(mem)
Handles == DOMAIN envs

IsLocals(l) ==
    /\ l.flags \subseteq {"tailcall", "frame_added", "new_input"}
    /\ l.restart \in Labels \cup {"none"}
    /\ {l.cursor, l.na_last, l.newargs, l.func, l.input} \subseteq Refs
    /\ l.env \in Handles

IsEnv(e) == \A i \in DOMAIN e : \A j \in DOMAIN e[i] : e[i][j] \in DOMAIN mem

TypeOK ==
    /\ \A h \in Handles : IsEnv(envs[h])
    /\ \A i \in DOMAIN frames : IsLocals(frames[i])
    /\ IsLocals(locals)
    /\ result \in Refs
    /\ {bind.vars, bind.args} \subseteq Refs
    /\ popped \subseteq Handles
    /\ pc \in Labels \cup {"idle", "restart", "args", "call", "bind", "body", "finish",
                           "stopped", "aborted"}

(* What a frame needs when its label is reached (244, 261, 354, 402, 497). *)
(* No frame is pushed without it, and continuations hold such frames.      *)
IsResumable(l) ==
    /\ l.restart = "post_func" => type(l.input) = "cons"
    /\ l.restart = "post_if_test" => type(l.input) = "cons"
    /\ l.restart = "post_def_set" => /\ type(l.cursor) = "symbol"
                                     /\ type(l.func) = "special"
    /\ l.restart = "post_arg" => /\ type(l.cursor) = "cons"
                                 /\ (l.newargs = Nil) = (l.na_last = Nil)
                                 /\ type(l.na_last) \in {"nil", "cons"}
    /\ l.restart = "post_expr" => type(l.cursor) = "cons" /\ cdr(l.cursor) # Nil
    /\ l.restart \in Labels

FramesResume ==
    /\ \A i \in DOMAIN frames : IsResumable(frames[i])
    /\ \A r \in DOMAIN mem : type(r) = "continuation" =>
         \A i \in DOMAIN mem[r].bt : IsResumable(mem[r].bt[i])

NoContinuation == \A r \in DOMAIN mem : type(r) # "continuation"

(* Lexical scope (README:21, eval.c:439-441): the frame in which a call    *)
(* binds its arguments stands on the environment of the lambda.  It is     *)
(* claimed until there is a continuation: call/cc calls its argument in    *)
(* the locals it stands in, which may be those of a tail call.             *)
CallsKeepDefiningScope ==
    pc = "bind" /\ NoContinuation => EnvNow # <<>> /\ Tail(EnvNow) = mem[locals.func].env

(* A frame that waits, and the expression under evaluation, have the       *)
(* variables of the call they belong to: nobody has popped them.           *)
PendingBodyHasItsVariables ==
    pc \notin {"idle", "stopped", "aborted"} =>
        /\ locals.env \notin popped
        /\ \A i \in DOMAIN frames : frames[i].env \notin popped

(* The expressions that wait, and the one under evaluation.                *)
Depth == Len(frames) + 1
Link(i) == IF i = Depth THEN locals ELSE frames[i]
InCall(l) == "frame_added" \in l.flags
Running == pc \notin {"idle", "stopped", "aborted"}

(* The environments that calls have made, and those of calls under way.    *)
Scopes == Handles \ {Global}
InUse == {Link(i).env : i \in {j \in 1..Depth : InCall(Link(j))}}
Returned == pc = "idle" \/ (pc = "stopped" /\ status # "ok")

(* Every environment that a call has made is given up once: it belongs to  *)
(* one call under way or is given up, and when eval returns, with a value  *)
(* or with an error, all are (eval.c:438-453, 512-520).  That is claimed   *)
(* until there is a continuation; the early return of eval.c:339 gives     *)
(* none of them up.                                                        *)
ScopesAreGivenUp ==
    NoContinuation => /\ Running => Scopes = popped \cup InUse /\ popped \cap InUse = {}
                      /\ Returned => Scopes = popped

(* After an error nothing is bound, built or evaluated: frames go until    *)
(* eval returns it (the tests of status at every label).                   *)
ErrorStops ==
    [][status # "ok" =>
         /\ mem' = mem /\ Len(envs') = Len(envs) /\ Len(frames') <= Len(frames)
         /\ pc' \in Labels \cup {"finish", "stopped"}
         /\ status' = status /\ (pc' # "stopped" => result' = result)]_vars

(* Data does not change under a program's hands: of the conses, only a     *)
(* binding and the open end of an argument list are ever patched.  Entering*)
(* a continuation that was captured among arguments opens their list again,*)
(* so this is claimed until there is one.                                  *)
BindingsNow == UNION {ToSet(EnvNow[i]) : i \in DOMAIN EnvNow}

ListsOnlyGrow ==
    [][NoContinuation => \A r \in DOMAIN mem \ BindingsNow :
         mem'[r] # mem[r] => cdr(r) = Nil /\ mem'[r] = [mem[r] EXCEPT !.cdr = mem'[r].cdr]]_vars

(* At most n expressions wait for another.                                 *)
FramesAtMost(n) == Len(frames) <= n
=============================================================================
