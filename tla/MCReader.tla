------------------------------ MODULE MCReader ------------------------------
(***************************************************************************)
(* Texts for the reader, and what they should be read as.                  *)
(***************************************************************************)
EXTENDS Parse, Grammar, Printer

ShownOut(o) ==
    CASE o.status = "PARSE_OK"  -> Ok(Shown(mem, o.result))
      [] o.status = "PARSE_END" -> ReadEnd
      [] OTHER                  -> ReadError

(* A crash is as good as an error here: ErrorsAreReported is about it.     *)
ShownOuts ==
    [i \in DOMAIN outs |-> ShownOut(outs[i])] \o (IF pc = "crashed" THEN <<ReadError>> ELSE <<>>)

(* The reader finds the expressions of a text, in their order, and then    *)
(* its end, or an error exactly where the text is not an expression; and   *)
(* it comes to its end.                                                    *)
Abstract == INSTANCE Interpreter WITH outs <- ShownOuts
ReadsAsWritten == Abstract!Spec

(* What is read is printed (parse_test.c:70-73) as a text that reads as    *)
(* the same again, dotted lists and the digits of numbers included.  Left  *)
(* out is what cannot: a negative number, which is printed as its sign     *)
(* (libc_custom.c:146), and a name that fills its node, which has no end   *)
(* there (node.c:302).                                                     *)
RECURSIVE CanBeShown(_)
CanBeShown(t) ==
    CASE t[1] = "cons"   -> CanBeShown(t[2]) /\ CanBeShown(t[3])
      [] t[1] = "symbol" -> Len(t[2]) < MaxSymLen
      [] t[1] = "value"  -> t[2] >= 0
      [] OTHER           -> TRUE

ReadsBack(out) ==
    LET t == Shown(mem', out.result)
    IN  CanBeShown(t) => Meaning(Pretty(mem', out.result), MaxSymLen) = <<Ok(t), ReadEnd>>

PrintsReadable ==
    [][outs' # outs /\ Last(outs').status = "PARSE_OK" => ReadsBack(Last(outs'))]_vars

-----------------------------------------------------------------------------
LetterA == 97
Eight == 56

TextsOf(chars, n) == UNION {[1..k -> chars] : k \in 0..n}

Input(t) == [text |-> t, meaning |-> Meaning(t, MaxSymLen)]

(* Lists and dots, right and wrong.  A name that fills the buffer at the   *)
(* end of the text is left out: the tokenizer does not come back from it.  *)
InLists == {Open, Close, Dot, LetterA}
FullNames == {t \o [i \in 1..MaxSymLen |-> LetterA] : t \in TextsOf(InLists, 3)}
Lists ==
    (TextsOf(InLists, 6) \ FullNames)
    \cup {<<Open>> \o t \o <<Close>> : t \in [1..5 -> InLists]}

(* Spaces, comments and names, also longer than the buffer.  The text ends *)
(* with a line: from a comment without one the tokenizer does not come     *)
(* back.                                                                   *)
Lines == {t \o <<Newline>> : t \in TextsOf({Blank, Newline, Hash, LetterA, Open, StringQuote}, 4)}

(* Strings, with an end and without one.                                   *)
InStrings == {Backslash, 49, LetterN, Open, Eight}
Strings ==
    {<<StringQuote>> \o t : t \in TextsOf(InStrings, 4)}
    \cup {<<StringQuote>> \o t \o <<Newline>> : t \in TextsOf(InStrings \cup {StringQuote}, 4)}

(* Numbers and what looks like one.  A sign, or 0x, with nothing after it  *)
(* is left out: it is read as 0.                                           *)
NoNumber == {<<Minus>>, <<Plus>>, <<Zero, LetterX>>, <<Minus, Zero, LetterX>>, <<Plus, Zero, LetterX>>}
Numbers ==
    {t \o <<Newline>> : t \in {s \in TextsOf({Minus, Plus, Zero, 49, Eight, LetterA, LetterX}, 4) :
                                  SubSeq(s, 1, IF Len(s) < MaxSymLen THEN Len(s) ELSE MaxSymLen) \notin NoNumber}}

AllTexts == Lists \cup Lines \cup Strings \cup Numbers
ReaderInputs == {Input(t) : t \in AllTexts}

(* A list that is not closed.                                              *)
UnclosedInputs == {Input(<<Open, LetterA>>)}
=============================================================================
