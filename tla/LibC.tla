-------------------------------- MODULE LibC --------------------------------
(***************************************************************************)
(* Characters and the reading of numbers (libc_custom.c).  A character is  *)
(* its code.  A number is read from a few characters only, so it stays far *)
(* from the limits of long long.                                           *)
(***************************************************************************)
EXTENDS Integers, SequencesExt

Tab == 9
Newline == 10
CarriageReturn == 13
Blank == 32
StringQuote == 34
Hash == 35
Apostrophe == 39
Open == 40
Close == 41
Plus == 43
Minus == 45
Dot == 46
Zero == 48
Backslash == 92
LetterN == 110
LetterR == 114
LetterT == 116
LetterX == 120

CharToNum(c) ==
    CASE c \in 48..57  -> c - 48
      [] c \in 65..90  -> c - 65 + 10
      [] c \in 97..122 -> c - 97 + 10
      [] OTHER         -> -1

IsDigit(c, base) == CharToNum(c) \in 0..base - 1

(* How many characters of s from place i + 1 on are digits.                *)
Digits(s, i, base) ==
    LET run == {n \in 0..Len(s) - i : \A j \in i + 1..i + n : IsDigit(s[j], base)}
    IN  CHOOSE n \in run : \A m \in run : m <= n

(* Strings end in 0, so that a character past the end can be looked at.    *)
CharAt(s, i) == IF i \in DOMAIN s THEN s[i] ELSE 0

(* The number that s starts with and how many characters it takes.  A sign *)
(* or a base without a digit after it is read as 0.                        *)
Strtoll(s) ==
    LET sign   == IF CharAt(s, 1) \in {Minus, Plus} THEN 1 ELSE 0
        zero   == CharAt(s, sign + 1) = Zero
        hex    == zero /\ CharAt(s, sign + 2) = LetterX
        base   == IF hex THEN 16 ELSE IF zero THEN 8 ELSE 10
        start  == IF hex THEN sign + 2 ELSE IF zero THEN sign + 1 ELSE sign
        count  == Digits(s, start, base)
        upto[n \in 0..count] ==
            IF n = 0 THEN 0 ELSE upto[n - 1] * base + CharToNum(s[start + n])
    IN  [val |-> IF CharAt(s, 1) = Minus THEN -upto[count] ELSE upto[count],
         end |-> start + count]
=============================================================================
