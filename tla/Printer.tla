------------------------------- MODULE Printer -------------------------------
(***************************************************************************)
(* Printing what the reader builds (node_print_pretty_stream in node.c,    *)
(* not verbose, as parse_test.c calls it after each parse): nodes back     *)
(* into text.  The other types of nodes have no text that could be read.   *)
(***************************************************************************)
EXTENDS Node, LibC

(* What is written of an array: the characters before the first 0.         *)
CString(s) ==
    LET ends == {i \in DOMAIN s : s[i] = 0} IN IF ends = {} THEN s ELSE SubSeq(s, 1, Min(ends) - 1)

(* The remainder of a negative number is negative in C, and as the         *)
(* unsigned argument of num_to_char it is no digit.                        *)
num_to_char(n) == IF n \in 0..9 THEN Zero + n ELSE 0

fmt_s64(val) ==
    LET sign == IF val < 0 THEN -1 ELSE 1
        digits[m \in Nat] ==
            IF m = 0 THEN <<>> ELSE Append(digits[m \div 10], num_to_char(sign * (m % 10)))
    IN  CASE val = 0 -> <<Zero>>
          [] val > 0 -> digits[val]
          [] val < 0 -> <<Minus>> \o digits[-val]

RECURSIVE Pretty(_, _), Shorthand(_, _)

(* The rest of a list, inside of its parentheses.                          *)
Shorthand_NoDot(mem, r) ==                               \* mutant: as if every list were proper
    IF IsCons(mem, r) THEN Pretty(mem, Car(mem, r)) \o Shorthand(mem, Cdr(mem, r))
    ELSE IF r = Nil THEN <<>>
    ELSE Pretty(mem, r)

Shorthand(mem, r) ==
    IF IsCons(mem, r) THEN Pretty(mem, Car(mem, r)) \o Shorthand(mem, Cdr(mem, r))
    ELSE IF r = Nil THEN <<>>
    ELSE <<Dot, Blank>> \o Pretty(mem, r)

Pretty(mem, r) ==
    CASE r = Nil -> <<Open, Close, Blank>>
      [] IsCons(mem, r) ->
            <<Open, Blank>> \o Pretty(mem, Car(mem, r))
            \o (IF IsList(mem, Cdr(mem, r)) THEN Shorthand(mem, Cdr(mem, r))
                ELSE <<Dot, Blank>> \o Pretty(mem, Cdr(mem, r)))
            \o <<Close, Blank>>
      [] IsSymbol(mem, r) -> CString(mem[r].name) \o <<Blank>>
      [] TypeOf(mem, r) = "value" -> CString(fmt_s64(mem[r].val)) \o <<Blank>>
=============================================================================
