---------------------------- MODULE Interpreter ----------------------------
(***************************************************************************)
(* What a user sees of the reader and of the evaluator: a text is a        *)
(* sequence of expressions, each has its outcome, and the outcomes come in *)
(* that order until the first error or the end.                            *)
(***************************************************************************)
EXTENDS Naturals, Sequences

VARIABLES
    meaning,   \* the outcomes that the text should have
    outs       \* the outcomes so far

Init == outs = <<>>

ReadEval ==
    /\ Len(outs) < Len(meaning)
    /\ outs' = Append(outs, meaning[Len(outs) + 1])
    /\ UNCHANGED meaning

EveryTextEnds == <>(outs = meaning)

Spec == Init /\ [][ReadEval]_<<meaning, outs>> /\ EveryTextEnds
=============================================================================
