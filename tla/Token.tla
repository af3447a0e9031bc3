------------------------------- MODULE Token -------------------------------
(***************************************************************************)
(* The tokenizer (token.c).  chomp is the place in token_chomp: it is      *)
(* called by setting chomp to "called", and has returned when it is        *)
(* "idle".  Every step but the last of a call is one turn of a loop or one *)
(* branch, and reads at most one character.  The last step of a call       *)
(* leaves in nextch the first character that belongs to no token yet.      *)
(*                                                                         *)
(* A definition whose name is that of an action and a suffix is the action *)
(* with a bug, to see that the properties notice.                          *)
(***************************************************************************)
EXTENDS LibC

CONSTANT MaxSymLen     \* token.h:10
ASSUME MaxSymLenAssumption == MaxSymLen \in Nat \ {0}

VARIABLES
    text,        \* the characters of the stream
    off,         \* stream_off: how many of them have been read
    nextch,
    in_string,
    type,
    sym, lit,    \* the union u: the symbol or the literal of the token
    chomp,
    in_comment

tokenVars == <<text, off, nextch, in_string, type, sym, lit, chomp, in_comment>>

EOF == -1

Types == {"TOK_INIT", "TOK_LPAREN", "TOK_RPAREN", "TOK_DOT", "TOK_SYM", "TOK_LIT", "TOK_END"}

TokenInit ==
    /\ off = 0
    /\ nextch = EOF
    /\ in_string = FALSE
    /\ type = "TOK_INIT"
    /\ sym = <<>>
    /\ lit = 0
    /\ chomp = "idle"
    /\ in_comment = FALSE

IsSpace(c) == c \in 9..13 \cup {Blank}
IsAtomChar(c) == ~IsSpace(c) /\ c \notin {Open, Close, Dot, Apostrophe}
IsOctal(c) == c \in 48..55

(* Read the next character; at the end of the stream there is none.        *)
AdvanceTokStream ==
    IF off < Len(text)
    THEN off' = off + 1 /\ nextch' = text[off + 1]
    ELSE off' = off /\ nextch' = EOF

Stay == UNCHANGED <<off, nextch>>
Goto(place) == chomp' = place

(* The token t is read, the character after it is in nextch.               *)
Finish(t) == type' = t /\ Goto("idle") /\ AdvanceTokStream

Prime_KeepsInString ==                                   \* mutant: a string goes on after the end
    /\ chomp = "called"
    /\ Goto("start")
    /\ in_comment' = FALSE
    /\ IF nextch = EOF THEN AdvanceTokStream ELSE Stay
    /\ UNCHANGED <<text, in_string, type, sym, lit>>

(* The stream is primed when there is no character of lookahead, which     *)
(* also is the end of a string that has no closing quote.                  *)
Prime ==
    /\ chomp = "called"
    /\ Goto("start")
    /\ in_comment' = FALSE
    /\ IF nextch = EOF
       THEN in_string' = FALSE /\ AdvanceTokStream
       ELSE UNCHANGED in_string /\ Stay
    /\ UNCHANGED <<text, type, sym, lit>>

-----------------------------------------------------------------------------
(* In a string every character is a token.                                 *)
StringEnd ==
    /\ chomp = "start" /\ in_string /\ nextch = StringQuote
    /\ in_string' = FALSE
    /\ Finish("TOK_RPAREN")
    /\ UNCHANGED <<text, sym, lit, in_comment>>

StringChar ==
    /\ chomp = "start" /\ in_string /\ nextch \notin {StringQuote, Backslash}
    /\ lit' = nextch
    /\ Finish("TOK_LIT")
    /\ UNCHANGED <<text, in_string, sym, in_comment>>

StringEscape ==
    /\ chomp = "start" /\ in_string /\ nextch = Backslash
    /\ type' = "TOK_LIT"
    /\ Goto("escape")
    /\ AdvanceTokStream
    /\ UNCHANGED <<text, in_string, sym, lit, in_comment>>

Escaped(c) ==
    CASE c = EOF     -> Backslash
      [] c = LetterN -> Newline
      [] c = LetterR -> CarriageReturn
      [] c = LetterT -> Tab
      [] OTHER       -> c

EscapeChar ==
    /\ chomp = "escape" /\ ~IsOctal(nextch)
    /\ lit' = Escaped(nextch)
    /\ in_string' = (in_string /\ nextch # EOF)
    /\ Finish("TOK_LIT")
    /\ UNCHANGED <<text, sym, in_comment>>

EscapeOctal ==
    /\ chomp = "escape" /\ IsOctal(nextch)
    /\ lit' = nextch - Zero
    /\ Goto("octal")
    /\ AdvanceTokStream
    /\ UNCHANGED <<text, in_string, type, sym, in_comment>>

OctalDigit ==
    /\ chomp = "octal" /\ IsOctal(nextch)
    /\ lit' = lit * 8 + nextch - Zero
    /\ AdvanceTokStream
    /\ UNCHANGED <<text, in_string, type, sym, chomp, in_comment>>

OctalEnd_Advances ==
    /\ chomp = "octal" /\ ~IsOctal(nextch)
    /\ Goto("idle")
    /\ AdvanceTokStream
    /\ UNCHANGED <<text, in_string, type, sym, lit, in_comment>>

(* The character after the digits has been read: no advance here.          *)
OctalEnd ==
    /\ chomp = "octal" /\ ~IsOctal(nextch)
    /\ Goto("idle")
    /\ Stay
    /\ UNCHANGED <<text, in_string, type, sym, lit, in_comment>>

-----------------------------------------------------------------------------
(* Outside a string: skip to the next token.                               *)
InComment == nextch = Hash \/ (nextch # Newline /\ in_comment)
Skipped == IsSpace(nextch) \/ InComment

Skip ==
    /\ chomp = "start" /\ ~in_string /\ Skipped
    /\ in_comment' = InComment
    /\ AdvanceTokStream
    /\ UNCHANGED <<text, in_string, type, sym, lit, chomp>>

Punctuation ==
    /\ chomp = "start" /\ ~in_string /\ ~Skipped
    /\ \/ nextch = EOF         /\ Finish("TOK_END")
       \/ nextch = StringQuote /\ Finish("TOK_LPAREN")
       \/ nextch = Open        /\ Finish("TOK_LPAREN")
       \/ nextch = Close       /\ Finish("TOK_RPAREN")
       \/ nextch = Dot         /\ Finish("TOK_DOT")
    /\ in_string' = (nextch = StringQuote)
    /\ UNCHANGED <<text, sym, lit, in_comment>>

AtomStart ==
    /\ chomp = "start" /\ ~in_string /\ ~Skipped
    /\ nextch \notin {EOF, StringQuote, Open, Close, Dot}
    /\ sym' = <<>>
    /\ Goto("atom")
    /\ Stay
    /\ UNCHANGED <<text, in_string, type, lit, in_comment>>

AtomChar_OneMore ==
    /\ chomp = "atom" /\ Len(sym) <= MaxSymLen /\ IsAtomChar(nextch) /\ nextch # EOF
    /\ sym' = Append(sym, nextch)
    /\ AdvanceTokStream
    /\ UNCHANGED <<text, in_string, type, lit, chomp, in_comment>>

AtomChar ==
    /\ chomp = "atom" /\ Len(sym) < MaxSymLen /\ IsAtomChar(nextch) /\ nextch # EOF
    /\ sym' = Append(sym, nextch)
    /\ AdvanceTokStream
    /\ UNCHANGED <<text, in_string, type, lit, chomp, in_comment>>

(* What does not fit in the buffer is discarded.  The end of the stream is *)
(* not tested for here, and counts as an atom character.                   *)
AtomDiscard ==
    /\ chomp = "atom" /\ Len(sym) = MaxSymLen /\ IsAtomChar(nextch)
    /\ AdvanceTokStream
    /\ UNCHANGED <<text, in_string, type, sym, lit, chomp, in_comment>>

(* An atom that is a number as a whole is a literal.                       *)
AtomEnd ==
    /\ chomp = "atom"
    /\ ~IsAtomChar(nextch) \/ (nextch = EOF /\ Len(sym) < MaxSymLen)
    /\ LET number == Strtoll(sym)
       IN  IF number.end = Len(sym)
           THEN type' = "TOK_LIT" /\ lit' = number.val
           ELSE type' = "TOK_SYM" /\ UNCHANGED lit
    /\ Goto("idle")
    /\ Stay
    /\ UNCHANGED <<text, in_string, sym, in_comment>>

TokenChomp ==
    \/ Prime
    \/ StringEnd \/ StringChar \/ StringEscape \/ EscapeChar \/ EscapeOctal \/ OctalDigit \/ OctalEnd
    \/ Skip \/ Punctuation \/ AtomStart \/ AtomChar \/ AtomDiscard \/ AtomEnd

-----------------------------------------------------------------------------
(* The symbol stays in its buffer, which has place for the final 0         *)
(* (token.h:33), and no more is read ahead than one character.             *)
TokenTypeOK ==
    /\ off \in 0..Len(text)
    /\ nextch \in Int
    /\ in_string \in BOOLEAN /\ in_comment \in BOOLEAN
    /\ type \in Types
    /\ sym \in Seq(Int) /\ Len(sym) <= MaxSymLen
    /\ lit \in Int
    /\ chomp \in {"idle", "called", "start", "escape", "octal", "atom"}
=============================================================================
