------------------------------ MODULE Grammar ------------------------------
(***************************************************************************)
(* What a text should be read as: its tokens, by recursion on the text,    *)
(* and the expressions that they spell, with a stack of open lists instead *)
(* of a recursive descent.  Outcomes are in the form of Programs.tla.      *)
(***************************************************************************)
EXTENDS Programs, LibC

Spaces == {Tab, Newline, 11, 12, CarriageReturn, Blank}
Ends == Spaces \cup {Open, Close, Dot, Apostrophe}

(* How many characters s starts with before one of the set.                *)
Until(s, set) ==
    CHOOSE n \in 0..Len(s) : /\ \A i \in 1..n : s[i] \notin set
                             /\ n < Len(s) => s[n + 1] \in set
Drop(s, n) == SubSeq(s, n + 1, Len(s))

RECURSIVE ValueOf(_, _)
ValueOf(ds, base) ==
    IF ds = <<>> THEN 0 ELSE base * ValueOf(Front(ds), base) + CharToNum(Last(ds))

AllDigits(s, base) == \A i \in DOMAIN s : CharToNum(s[i]) \in 0..base - 1

(* Hexadecimal after 0x, octal after 0, otherwise decimal; the rest is a   *)
(* name, and so is a sign alone (README:60-61).                            *)
Unsigned(s) ==
    CASE Len(s) > 2 /\ s[1] = Zero /\ s[2] = LetterX /\ AllDigits(Drop(s, 2), 16)
            -> {ValueOf(Drop(s, 2), 16)}
      [] s # <<>> /\ s[1] = Zero /\ AllDigits(s, 8) -> {ValueOf(s, 8)}
      [] s # <<>> /\ s[1] # Zero /\ AllDigits(s, 10) -> {ValueOf(s, 10)}
      [] OTHER -> {}

Number(s) ==
    IF s[1] = Minus THEN {-n : n \in Unsigned(Tail(s))}
    ELSE IF s[1] = Plus THEN Unsigned(Tail(s)) ELSE Unsigned(s)

Atom(s) == IF Number(s) = {} THEN Y(s) ELSE N(CHOOSE n \in Number(s) : TRUE)

-----------------------------------------------------------------------------
(* A token is a term, or a tuple of "(", ")" or ".".  An atom counts up to its size-th   *)
(* character.  A string is the list of its characters.                     *)
RECURSIVE Tokens(_, _), StringTokens(_, _)

Tokens(s, size) ==
    IF s = <<>> THEN <<>>
    ELSE LET c == Head(s)
         IN  CASE c \in Spaces    -> Tokens(Tail(s), size)
               [] c = Hash        -> Tokens(Drop(s, Until(s, {Newline})), size)
               [] c = StringQuote -> <<<<"(">>>> \o StringTokens(Tail(s), size)
               [] c = Open        -> <<<<"(">>>> \o Tokens(Tail(s), size)
               [] c = Close       -> <<<<")">>>> \o Tokens(Tail(s), size)
               [] c = Dot         -> <<<<".">>>> \o Tokens(Tail(s), size)
               [] OTHER           ->
                    LET n == Until(s, Ends)
                    IN  <<Atom(SubSeq(s, 1, IF n < size THEN n ELSE size))>> \o Tokens(Drop(s, n), size)

StringTokens(s, size) ==
    IF s = <<>> THEN <<>>
    ELSE LET octal == Until(Tail(s), Int \ 48..55)
         IN  CASE Head(s) = StringQuote -> <<<<")">>>> \o Tokens(Tail(s), size)
               [] Head(s) \notin {StringQuote, Backslash} ->
                                           <<N(Head(s))>> \o StringTokens(Tail(s), size)
               [] s = <<Backslash>>     -> <<N(Backslash)>>
               [] Head(s) = Backslash /\ octal > 0 ->
                                           <<N(ValueOf(SubSeq(s, 2, octal + 1), 8))>>
                                               \o StringTokens(Drop(s, octal + 1), size)
               [] OTHER                 -> <<N(CASE s[2] = LetterN -> Newline
                                                 [] s[2] = LetterR -> CarriageReturn
                                                 [] s[2] = LetterT -> Tab
                                                 [] OTHER -> s[2])>>
                                               \o StringTokens(Drop(s, 2), size)

-----------------------------------------------------------------------------
(* An open list has its elements, and in tail what there is from the dot  *)
(* on: nothing, the dot, or the dot and a term.                            *)
EmptyList == [elements |-> <<>>, tail |-> <<>>]

Opened(r) == [r EXCEPT !.open = Append(@, EmptyList)]

(* Put a term where the text stands: in the innermost list, or outside.    *)
Put(r, t) ==
    IF r.open = <<>> THEN [r EXCEPT !.outs = Append(@, Ok(t))]
    ELSE LET l == Last(r.open)
             filled == IF l.tail = <<>> THEN [l EXCEPT !.elements = Append(@, t)]
                                        ELSE [l EXCEPT !.tail = Append(@, t)]
         IN  [r EXCEPT !.open = Append(Front(@), filled), !.wrong = Len(l.tail) = 2]

Closed(r) ==
    IF r.open = <<>> \/ Len(Last(r.open).tail) = 1 THEN [r EXCEPT !.wrong = TRUE]
    ELSE LET l == Last(r.open)
         IN  Put([r EXCEPT !.open = Front(@)],
                 Dotted(l.elements, IF l.tail = <<>> THEN None ELSE l.tail[2]))

Dotting(r) ==
    IF r.open = <<>> \/ Last(r.open).elements = <<>> \/ Last(r.open).tail # <<>>
    THEN [r EXCEPT !.wrong = TRUE]
    ELSE [r EXCEPT !.open = Append(Front(@), [Last(@) EXCEPT !.tail = <<".">>])]

Reading(r, token) ==
    IF r.wrong THEN r
    ELSE CASE token = <<"(">> -> Opened(r)
           [] token = <<")">> -> Closed(r)
           [] token = <<".">> -> Dotting(r)
           [] OTHER -> Put(r, token)

ReadError == Error("error", None)
ReadEnd == Error("end", None)

(* The expressions of the text and how it ends.                            *)
Meaning(s, size) ==
    LET r == FoldLeft(Reading, [open |-> <<>>, outs |-> <<>>, wrong |-> FALSE], Tokens(s, size))
    IN  Append(r.outs, IF r.wrong \/ r.open # <<>> THEN ReadError ELSE ReadEnd)
=============================================================================
