------------------------------ MODULE Environ ------------------------------
(***************************************************************************)
(* Environments (environ.c, and the lists of frame.c they are made of).    *)
(*                                                                         *)
(* An environment is a sequence of frames, the innermost first, and a      *)
(* frame a sequence of bindings, the newest first.  Both are immutable     *)
(* lists in the code: adding a binding makes a new first frame.  A binding *)
(* is a cons of a symbol and its value, and that cons is what set! changes.*)
(***************************************************************************)
EXTENDS Node, SequencesExt

NameIn(mem, kv) == mem[Car(mem, kv)].name

(* The newest binding of the symbol in the sequence of bindings, or Nil.   *)
Binding(mem, kvs, sym) ==
    LET named == {i \in DOMAIN kvs : NameIn(mem, kvs[i]) = mem[sym].name}
    IN  IF named = {} THEN Nil ELSE kvs[CHOOSE i \in named : \A j \in named : i <= j]

(* The one in the innermost frame that has any.                            *)
environ_keyval(mem, env, sym) ==
    LET found == [i \in DOMAIN env |-> Binding(mem, env[i], sym)]
        having == {i \in DOMAIN env : found[i] # Nil}
    IN  IF having = {} THEN Nil ELSE found[CHOOSE i \in having : \A j \in having : i <= j]

environ_keyval_frame(mem, env, sym) ==
    IF env = <<>> THEN Nil ELSE Binding(mem, Head(env), sym)

environ_add(env, kv) ==
    IF env = <<>> THEN <<<<kv>>>> ELSE <<<<kv>> \o Head(env)>> \o Tail(env)

environ_pushframe(env) == <<<<>>>> \o env

environ_popframe(env) == IF env = <<>> THEN <<>> ELSE Tail(env)
=============================================================================
