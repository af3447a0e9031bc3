---------------------------- MODULE Parse_proofs ----------------------------
(***************************************************************************)
(* What the parser holds is rooted, what is rooted is held, and reading    *)
(* gets on: for every text and every size of the buffer.                   *)
(***************************************************************************)
EXTENDS Parse, SequenceTheorems, NaturalsInduction, WellFoundedInduction, TLAPS

-----------------------------------------------------------------------------
(* Sequences as stacks.                                                    *)
LEMMA PopSeq ==
    ASSUME NEW S, NEW s \in Seq(S), s # <<>>
    PROVE  /\ Front(s) \in Seq(S)
           /\ Len(s) \in Nat \ {0}
           /\ Len(Front(s)) = Len(s) - 1
           /\ \A i \in 1..Len(s) - 1 : Front(s)[i] = s[i]
<1>1. Len(s) \in Nat \ {0} /\ \A i \in 1..Len(s) - 1 : s[i] \in S
  BY EmptySeq, ElementOfSeq
<1> DEFINE n == Len(s) - 1
<1>2. n \in Int /\ \A i \in 1..n : s[i] \in S
  BY <1>1
<1> HIDE DEF n
<1>3. /\ SubSeq(s, 1, n) \in Seq(S)
      /\ Len(SubSeq(s, 1, n)) = IF 1 <= n THEN n - 1 + 1 ELSE 0
      /\ \A i \in 1..n - 1 + 1 : SubSeq(s, 1, n)[i] = s[1 + i - 1]
  BY <1>2, SubSeqProperties
<1>4. Front(s) = SubSeq(s, 1, n) /\ n \in Nat /\ n = Len(s) - 1
  BY <1>1 DEF Front, n
<1> QED
  BY <1>1, <1>3, <1>4

LEMMA ReplaceSeq ==
    ASSUME NEW S, NEW s \in Seq(S), s # <<>>, NEW x \in S
    PROVE  /\ Append(Front(s), x) \in Seq(S)
           /\ Len(Append(Front(s), x)) = Len(s)
           /\ \A i \in 1..Len(s) - 1 : Append(Front(s), x)[i] = s[i]
           /\ Append(Front(s), x)[Len(s)] = x
<1>1. /\ Front(s) \in Seq(S) /\ Len(s) \in Nat \ {0} /\ Len(Front(s)) = Len(s) - 1
      /\ \A i \in 1..Len(s) - 1 : Front(s)[i] = s[i]
  BY PopSeq
<1> DEFINE f == Front(s)
<1> HIDE DEF f
<1>2. /\ f \in Seq(S) /\ Len(f) = Len(s) - 1
      /\ \A i \in 1..Len(s) - 1 : f[i] = s[i]
  BY <1>1 DEF f
<1>3. /\ Append(f, x) \in Seq(S)
      /\ Len(Append(f, x)) = Len(s)
      /\ \A i \in 1..Len(s) - 1 : Append(f, x)[i] = s[i]
      /\ Append(f, x)[Len(s)] = x
  BY <1>1, <1>2
<1> QED
  BY <1>3 DEF f

LEMMA CallSeq ==
    ASSUME NEW S, NEW s \in Seq(S), s # <<>>, NEW x \in S, NEW y \in S
    PROVE  /\ Front(s) \o <<x, y>> \in Seq(S)
           /\ Len(Front(s) \o <<x, y>>) = Len(s) + 1
           /\ \A i \in 1..Len(s) - 1 : (Front(s) \o <<x, y>>)[i] = s[i]
           /\ (Front(s) \o <<x, y>>)[Len(s)] = x
           /\ (Front(s) \o <<x, y>>)[Len(s) + 1] = y
<1>1. /\ Front(s) \in Seq(S) /\ Len(s) \in Nat \ {0} /\ Len(Front(s)) = Len(s) - 1
      /\ \A i \in 1..Len(s) - 1 : Front(s)[i] = s[i]
  BY PopSeq
<1> DEFINE f == Front(s)
<1> HIDE DEF f
<1>2. /\ f \in Seq(S) /\ Len(f) = Len(s) - 1
      /\ \A i \in 1..Len(s) - 1 : f[i] = s[i]
  BY <1>1 DEF f
<1>3. /\ f \o <<x, y>> \in Seq(S)
      /\ Len(f \o <<x, y>>) = Len(s) + 1
      /\ \A i \in 1..Len(s) - 1 : (f \o <<x, y>>)[i] = s[i]
      /\ (f \o <<x, y>>)[Len(s)] = x
      /\ (f \o <<x, y>>)[Len(s) + 1] = y
  BY <1>1, <1>2
<1> QED
  BY <1>3 DEF f

LEMMA AppendSeq ==
    ASSUME NEW s, s \in Seq({s[i] : i \in DOMAIN s}), NEW x
    PROVE  /\ Append(s, x) \in Seq({Append(s, x)[i] : i \in DOMAIN Append(s, x)})
           /\ Len(s) \in Nat
           /\ Len(Append(s, x)) = Len(s) + 1
           /\ DOMAIN s = 1..Len(s)
           /\ DOMAIN Append(s, x) = 1..Len(s) + 1
<1> DEFINE S == {s[i] : i \in DOMAIN s} \cup {x}
<1>1. s \in Seq(S)
  OBVIOUS
<1> DEFINE t == Append(s, x)
<1>2. t \in Seq(S) /\ Len(t) = Len(s) + 1 /\ Len(s) \in Nat /\ DOMAIN t = 1..Len(t) /\ DOMAIN s = 1..Len(s)
  BY <1>1
<1> HIDE DEF S, t
<1>3. t \in Seq({t[i] : i \in DOMAIN t})
  BY <1>2
<1> QED
  BY <1>2, <1>3 DEF t

-----------------------------------------------------------------------------
(* The innermost call returns r, which nothing below it holds.             *)
LEMMA ReturnKeeps ==
    ASSUME ParseInv, pc = "parsing", stack # <<>>,
           NEW st \in Errors \cup {"PARSE_OK", "PARSE_END"}, NEW r \in Nat,
           Return(st, r),
           st = "PARSE_END" => Front(stack) = <<>> /\ r = Nil,
           mem' \in Seq({mem'[x] : x \in DOMAIN mem'}), DOMAIN mem \subseteq DOMAIN mem',
           roots' \subseteq DOMAIN mem',
           r = Nil \/ r \in roots',
           \A i \in 1..Len(stack) - 1 :
              stack[i].child # Nil => stack[i].child \in roots' /\ stack[i].child # r,
           \/ st \in Errors \/ pc' = "crashed" \/ \E i \in DOMAIN outs : outs[i].status \in Errors
           \/ roots' \subseteq {r} \cup {stack[i].child : i \in 1..Len(stack) - 1},
           outs' = outs, pc' \in {"parsing", "crashed"}
    PROVE  ParseInv'
<1> DEFINE n == Len(stack) - 1
<1>1. /\ stack' \in Seq(Activations) /\ Len(stack') = n /\ n \in Nat /\ Len(stack) = n + 1
      /\ DOMAIN stack' = 1..n /\ DOMAIN stack = 1..n + 1
      /\ \A i \in 1..n : stack'[i] = stack[i]
  BY PopSeq DEF ParseInv, ParseTypeOK, Return, Pop
<1>2. back' = [status |-> st, result |-> r]
  BY DEF Return, Back
<1>3. DOMAIN mem = 1..Len(mem) /\ Len(mem) \in Nat /\ DOMAIN mem' = 1..Len(mem') /\ Len(mem') \in Nat
  BY DEF ParseInv, ParseTypeOK
<1> HIDE DEF n
<1>4. ParseTypeOK'
  <2>1. back' \in Results
    BY <1>2 DEF Results
  <2>2. r \in 0..Len(mem') /\ \A i \in 1..n : stack[i].child \in 0..Len(mem')
    BY <1>1, <1>3 DEF ParseInv, ParseTypeOK, Refs, Nil
  <2> QED
    BY <1>1, <1>2, <2>1, <2>2 DEF ParseInv, ParseTypeOK, Refs
<1>5. Held' = ({r} \cup {stack[i].child : i \in 1..n}) \ {Nil}
  BY <1>1, <1>2 DEF Held
<1>6. HeldIsRooted' /\ NoStrayRoots'
  <2>1. HeldIsRooted'
    BY <1>5 DEF HeldIsRooted, n
  <2>2. Nil \notin roots'
    BY <1>3 DEF Nil
  <2>3. \/ pc' = "crashed" \/ st \in Errors
        \/ \E i \in DOMAIN outs : outs[i].status \in Errors
        => Failed'
    BY <1>2 DEF Failed
  <2> QED
    BY <1>5, <2>1, <2>2, <2>3 DEF NoStrayRoots, n
<1>7. HeldOnce'
  <2>1. \A i \in 1..n : stack[i].child # Nil => stack[i].child # r
    BY DEF n
  <2>2. \A i, j \in 1..n : i # j /\ stack[i].child # Nil => stack[i].child # stack[j].child
    <3>1. \A i, j \in DOMAIN stack : i # j /\ stack[i].child # Nil => stack[i].child # stack[j].child
      BY DEF ParseInv, HeldOnce
    <3>2. \A i \in 1..n : i \in DOMAIN stack
      BY <1>1
    <3> QED
      BY <3>1, <3>2
  <2>3. \A i \in 1..n : stack[i].at # "rest" => stack[i].child = Nil
    BY <1>1 DEF ParseInv, HeldOnce
  <2> QED
    BY <1>1, <1>2, <2>1, <2>2, <2>3 DEF HeldOnce
<1>8. CallsNest'
  <2>1. \A i \in 1..n : stack[i].at \in Returns
    BY <1>1 DEF ParseInv, CallsNest
  <2>2. stack[1].fn = "sexpr"
    BY DEF ParseInv, CallsNest
  <2>3. stack' # <<>> => n > 0
    BY <1>1, EmptySeq
  <2> QED
    BY <1>1, <2>1, <2>2, <2>3 DEF CallsNest
<1>9. ResultIsAwaited'
  <2>1. stack' # <<>> => stack'[Len(stack')].at \in Returns
    BY <1>1 DEF ParseInv, CallsNest
  <2> QED
    BY <1>2, <2>1 DEF ResultIsAwaited, Returns, Entries, Errors
<1>10. EndIsOutside'
  <2>1. Len(stack') > 1 => stack'[Len(stack')].at \in Returns
    BY <1>1 DEF ParseInv, CallsNest
  <2>2. stack' = Front(stack)
    BY DEF Return, Pop
  <2> QED
    BY <1>2, <2>1, <2>2 DEF EndIsOutside, Activation, Returns, Errors
<1> QED
  BY <1>4, <1>6, <1>7, <1>8, <1>9, <1>10 DEF ParseInv

(* The innermost call comes to another place of its own, or goes over to   *)
(* another function.                                                       *)
LEMMA TurnKeeps ==
    ASSUME ParseInv, pc = "parsing", stack # <<>>, stack[Len(stack)].at \in Entries,
           NEW x \in Activations, stack' = Append(Pop, x), back' = NotYet,
           x.at \in Entries, x.child = Nil, x.fn = "sexpr" \/ x.fn = stack[Len(stack)].fn,
           x = Activation("sexpr") => chomp' = "idle" /\ type' \notin {"TOK_END", "TOK_RPAREN", "TOK_DOT"},
           UNCHANGED <<mem, roots, outs, pc>>
    PROVE  ParseInv'
<1> DEFINE n == Len(stack)
<1>1. /\ stack' \in Seq(Activations) /\ Len(stack') = n /\ n \in Nat \ {0}
      /\ DOMAIN stack' = 1..n /\ DOMAIN stack = 1..n
      /\ \A i \in 1..n - 1 : stack'[i] = stack[i]
      /\ stack'[n] = x
  <2>1. stack \in Seq(Activations)
    BY DEF ParseInv, ParseTypeOK
  <2> QED
    BY <2>1, PopSeq, ReplaceSeq DEF Pop
<1>2. back = NotYet /\ stack[n].child = Nil
  BY <1>1 DEF ParseInv, ResultIsAwaited, HeldOnce, Entries
<1> HIDE DEF n
<1>3. \A i \in 1..n : i < n => stack'[i] = stack[i]
  BY <1>1
<1>4. \A i \in 1..n : stack'[i].child = stack[i].child
  <2>1. \A i \in 1..n : i < n \/ i = n
    BY <1>1
  <2>2. stack'[n].child = stack[n].child
    BY <1>1, <1>2
  <2> QED
    BY <1>3, <2>1, <2>2
<1>5. ParseTypeOK'
  BY <1>1, <1>2, <1>4 DEF ParseInv, ParseTypeOK, Refs
<1>6. Held' = Held
  BY <1>1, <1>2, <1>4 DEF Held
<1>7. HeldIsRooted' /\ NoStrayRoots'
  BY <1>2, <1>6 DEF ParseInv, HeldIsRooted, NoStrayRoots, Failed
<1>8. HeldOnce'
  <2>1. \A i, j \in 1..n : i # j /\ stack[i].child # Nil => stack[i].child # stack[j].child
    BY <1>1 DEF ParseInv, HeldOnce
  <2>2. \A i \in 1..n : stack'[i].at # "rest" => stack'[i].child = Nil
    BY <1>1, <1>3 DEF ParseInv, HeldOnce
  <2>3. \A i, j \in 1..n : i # j /\ stack'[i].child # Nil => stack'[i].child # stack'[j].child
    BY <1>4, <2>1
  <2> QED
    BY <1>1, <1>2, <2>2, <2>3 DEF HeldOnce, NotYet
<1>9. CallsNest'
  <2>1. \A i \in 1..n : i < n => stack[i].at \in Returns
    BY <1>1 DEF ParseInv, CallsNest, n
  <2>2. stack[1].fn = "sexpr"
    BY DEF ParseInv, CallsNest
  <2>3. stack'[1].fn = "sexpr"
    BY <1>1, <2>2 DEF n
  <2> QED
    BY <1>1, <1>3, <2>1, <2>3 DEF CallsNest
<1>10. ResultIsAwaited' /\ EndIsOutside'
  <2>1. stack' # <<>>
    BY <1>1, EmptySeq
  <2> QED
    BY <1>1, <2>1 DEF ResultIsAwaited, EndIsOutside, NotYet
<1> QED
  BY <1>5, <1>7, <1>8, <1>9, <1>10 DEF ParseInv

(* The innermost call makes another one, and keeps what it got before.     *)
LEMMA CallKeeps ==
    ASSUME ParseInv, pc = "parsing", stack # <<>>, stack[Len(stack)].child = Nil,
           back.status \notin Errors \cup {"PARSE_END"},
           NEW place \in Returns, NEW fn \in {"sexpr", "list"},
           CallFrom(place, back.result, fn),
           [stack[Len(stack)] EXCEPT !.at = place, !.child = back.result] \in Activations,
           back.result # Nil => place = "rest",
           fn = "sexpr" => chomp' = "idle" /\ type' \notin {"TOK_END", "TOK_RPAREN", "TOK_DOT"},
           UNCHANGED <<mem, roots, outs, pc>>
    PROVE  ParseInv'
<1> DEFINE n == Len(stack)
           x == [stack[n] EXCEPT !.at = place, !.child = back.result]
           y == Activation(fn)
<1>1. stack \in Seq(Activations) /\ n \in Nat \ {0} /\ stack[n] \in Activations
  BY PopSeq, ElementOfSeq DEF ParseInv, ParseTypeOK
<1>2. y \in Activations
  BY DEF Activation, Activations, Nil
<1>3. x.at = place /\ x.child = back.result /\ x.fn = stack[n].fn
  BY <1>1 DEF Activations
<1>4. y.at = "start" /\ y.child = Nil /\ y.fn = fn
  BY DEF Activation
<1> HIDE DEF y
<1>5. stack' = Front(stack) \o <<x, y>> /\ back' = NotYet
  BY DEF CallFrom, Pop, Last, y
<1>6. x \in Activations
  OBVIOUS
<1> HIDE DEF x, n
<1>7. /\ stack' \in Seq(Activations) /\ Len(stack') = n + 1
      /\ DOMAIN stack' = 1..n + 1 /\ DOMAIN stack = 1..n
      /\ \A i \in 1..n - 1 : stack'[i] = stack[i]
      /\ stack'[n] = x /\ stack'[n + 1] = y
  <2>1. /\ Front(stack) \o <<x, y>> \in Seq(Activations)
        /\ Len(Front(stack) \o <<x, y>>) = n + 1
        /\ \A i \in 1..n - 1 : (Front(stack) \o <<x, y>>)[i] = stack[i]
        /\ (Front(stack) \o <<x, y>>)[n] = x
        /\ (Front(stack) \o <<x, y>>)[n + 1] = y
    BY <1>1, <1>2, <1>6, CallSeq DEF n
  <2> QED
    BY <1>1, <1>5, <2>1 DEF n
<1>8. \A i \in 1..n + 1 : i = n \/ i = n + 1 \/ (i \in 1..n - 1 /\ stack'[i] = stack[i])
  BY <1>1, <1>7
<1>9. back.result \in Refs /\ \A i \in 1..n : stack[i].child \in Refs
  BY <1>7 DEF ParseInv, ParseTypeOK
<1>10. stack[n].child = Nil
  BY DEF n
<1>11. ParseTypeOK'
  <2>1. \A i \in 1..n + 1 : stack'[i].child \in Refs
    BY <1>1, <1>3, <1>4, <1>7, <1>8, <1>9 DEF Refs, Nil, ParseInv, ParseTypeOK
  <2>2. NotYet \in Results /\ NotYet.result \in Refs
    BY DEF NotYet, Results, Nil, Refs, ParseInv, ParseTypeOK
  <2> QED
    BY <1>5, <1>7, <2>1, <2>2 DEF ParseInv, ParseTypeOK, Refs
<1>12. Held' = Held
  <2>1. Held = ({back.result} \cup {stack[i].child : i \in 1..n - 1}) \ {Nil}
    <3>1. \A i \in 1..n : i = n \/ i \in 1..n - 1
      BY <1>1
    <3> QED
      BY <1>1, <1>7, <1>10, <3>1 DEF Held
  <2>2. Held' = ({back.result} \cup {stack[i].child : i \in 1..n - 1}) \ {Nil}
    <3>1. \A i \in 1..n - 1 : i \in 1..n + 1 /\ stack'[i] = stack[i]
      BY <1>1, <1>7
    <3>2. n \in 1..n + 1 /\ n + 1 \in 1..n + 1 /\ stack'[n].child = back.result /\ stack'[n + 1].child = Nil
      BY <1>1, <1>3, <1>4, <1>7
    <3>3. back'.result = Nil
      BY <1>5 DEF NotYet
    <3> QED
      BY <1>7, <1>8, <3>1, <3>2, <3>3 DEF Held
  <2> QED
    BY <2>1, <2>2
<1>13. HeldIsRooted' /\ NoStrayRoots'
  BY <1>12 DEF ParseInv, HeldIsRooted, NoStrayRoots, Failed
<1>14. HeldOnce'
  <2>1. \A i, j \in 1..n : i # j /\ stack[i].child # Nil => stack[i].child # stack[j].child
    BY <1>7 DEF ParseInv, HeldOnce
  <2>2. \A i \in 1..n : back.result # Nil => back.result # stack[i].child
    BY <1>7 DEF ParseInv, HeldOnce
  <2>3. \A i \in 1..n : stack[i].at # "rest" => stack[i].child = Nil
    BY <1>7 DEF ParseInv, HeldOnce
  <2>4. \A i \in 1..n - 1 : i \in 1..n
    BY <1>1
  <2>5. \A i \in 1..n + 1 : stack'[i].at # "rest" => stack'[i].child = Nil
    BY <1>3, <1>4, <1>7, <1>8, <2>3, <2>4
  <2>6. \A i, j \in 1..n + 1 : i # j /\ stack'[i].child # Nil => stack'[i].child # stack'[j].child
    BY <1>3, <1>4, <1>7, <1>8, <2>1, <2>2, <2>4
  <2> QED
    BY <1>5, <1>7, <2>5, <2>6 DEF HeldOnce, NotYet
<1>15. CallsNest'
  <2>1. \A i \in 1..n : i < n => stack[i].at \in Returns
    BY <1>7 DEF ParseInv, CallsNest, n
  <2>2. stack[1].fn = "sexpr"
    BY DEF ParseInv, CallsNest
  <2>3. stack'[1].fn = "sexpr"
    BY <1>1, <1>3, <1>7, <2>2
  <2>4. \A i \in 1..n + 1 : i < n + 1 => stack'[i].at \in Returns
    BY <1>1, <1>3, <1>7, <1>8, <2>1
  <2> QED
    BY <1>7, <2>3, <2>4 DEF CallsNest
<1>16. ResultIsAwaited' /\ EndIsOutside'
  <2>1. stack' # <<>> /\ stack'[Len(stack')] = y
    BY <1>1, <1>7, EmptySeq
  <2> QED
    BY <1>4, <1>5, <2>1 DEF ResultIsAwaited, EndIsOutside, NotYet, Entries, Activation
<1> QED
  BY <1>11, <1>13, <1>14, <1>15, <1>16 DEF ParseInv

-----------------------------------------------------------------------------
(* A call with nothing to give returns an error, or an empty list.         *)
LEMMA ReturnNothingKeeps ==
    ASSUME ParseInv, pc = "parsing", stack # <<>>,
           NEW st \in Errors \cup {"PARSE_OK", "PARSE_END"}, Return(st, Nil),
           st = "PARSE_END" => Front(stack) = <<>>,
           \/ st \in Errors
           \/ stack[Len(stack)].child = Nil /\ back.result = Nil /\ back.status \notin Errors,
           mem' = mem, roots' = roots \/ roots' = roots \ {back.result}, outs' = outs,
           pc' \in {"parsing", "crashed"}
    PROVE  ParseInv'
<1> DEFINE n == Len(stack)
<1>1. /\ n \in Nat \ {0} /\ DOMAIN stack = 1..n /\ DOMAIN mem = 1..Len(mem) /\ Len(mem) \in Nat
      /\ \A i \in 1..n - 1 : i \in 1..n
      /\ \A i \in 1..n : i = n \/ i \in 1..n - 1
  BY PopSeq DEF ParseInv, ParseTypeOK
<1>2. roots \subseteq DOMAIN mem /\ roots' \subseteq roots
  BY DEF ParseInv, ParseTypeOK
<1>3. \A i \in 1..n : stack[i].child # Nil => stack[i].child \in roots'
  <2>1. \A i \in 1..n : stack[i].child # Nil => stack[i].child \in roots
    BY <1>1 DEF ParseInv, HeldIsRooted, Held
  <2>2. \A i \in 1..n : back.result # Nil => back.result # stack[i].child
    BY <1>1 DEF ParseInv, HeldOnce
  <2>3. Nil \notin roots
    <3>1. DOMAIN mem = 1..Len(mem) /\ Len(mem) \in Nat /\ roots \subseteq DOMAIN mem
      BY DEF ParseInv, ParseTypeOK
    <3> QED
      BY <3>1 DEF Nil
  <2> QED
    BY <1>2, <2>1, <2>2, <2>3
<1>4. \/ st \in Errors \/ \E i \in DOMAIN outs : outs[i].status \in Errors
      \/ roots' \subseteq {Nil} \cup {stack[i].child : i \in 1..n - 1}
  <2>1. CASE st \notin Errors
    <3>1. NoStrayRoots /\ back.result = Nil /\ back.status \notin Errors /\ stack[n].child = Nil
      BY <2>1 DEF ParseInv
    <3>2. Held \subseteq {stack[i].child : i \in 1..n - 1}
      BY <1>1, <3>1 DEF Held
    <3> QED
      BY <1>2, <3>1, <3>2 DEF NoStrayRoots, Failed
  <2> QED
    BY <2>1
<1>5. /\ mem' \in Seq({mem'[x] : x \in DOMAIN mem'}) /\ DOMAIN mem \subseteq DOMAIN mem'
      /\ roots' \subseteq DOMAIN mem'
  BY <1>2 DEF ParseInv, ParseTypeOK
<1>6. Nil \in Nat
  BY DEF Nil
<1>7. \A i \in 1..Len(stack) - 1 : stack[i].child # Nil => stack[i].child \in roots' /\ stack[i].child # Nil
  BY <1>1, <1>3
<1> QED
  BY <1>4, <1>5, <1>6, <1>7, ReturnKeeps

(* A call that returns the node it built from what it held.                *)
LEMMA ReturnNewKeeps ==
    ASSUME ParseInv, pc = "parsing", stack # <<>>,
           NEW node, Build(node, {stack[Len(stack)].child, back.result}),
           Return("PARSE_OK", Newest(mem')), back.status \notin Errors,
           outs' = outs, pc' = pc
    PROVE  ParseInv'
<1> DEFINE n == Len(stack)
           new == Len(mem) + 1
<1>1. /\ n \in Nat \ {0} /\ DOMAIN stack = 1..n
      /\ \A i \in 1..n - 1 : i \in 1..n /\ i # n
      /\ \A i \in 1..n : i = n \/ i \in 1..n - 1
      /\ n \in 1..n
  BY PopSeq DEF ParseInv, ParseTypeOK
<1>2. mem' = Append(mem, node) /\ mem \in Seq({mem[x] : x \in DOMAIN mem})
  BY DEF Build, New, ParseInv, ParseTypeOK
<1>3. /\ mem' \in Seq({mem'[x] : x \in DOMAIN mem'})
      /\ Len(mem) \in Nat /\ Len(mem') = new
      /\ DOMAIN mem = 1..Len(mem) /\ DOMAIN mem' = 1..new
  BY <1>2, AppendSeq
<1>4. new \in Nat /\ new \notin DOMAIN mem /\ new # Nil /\ DOMAIN mem \subseteq DOMAIN mem' /\ new \in DOMAIN mem'
  BY <1>3 DEF Nil
<1>5. roots' = (roots \ {stack[n].child, back.result}) \cup {new} /\ Return("PARSE_OK", new)
  BY <1>3 DEF Build, Newest
<1>6. roots \subseteq DOMAIN mem /\ Nil \notin roots
  BY <1>3 DEF ParseInv, ParseTypeOK, Nil
<1> HIDE DEF new
<1>7. \A i \in 1..n - 1 : stack[i].child # Nil => stack[i].child \in roots' /\ stack[i].child # new
  <2>1. \A i \in 1..n : stack[i].child # Nil => stack[i].child \in roots
    BY <1>1 DEF ParseInv, HeldIsRooted, Held
  <2>2. \A i \in 1..n : back.result # Nil => back.result # stack[i].child
    BY <1>1 DEF ParseInv, HeldOnce
  <2>3. \A i \in 1..n - 1 : stack[i].child # Nil => stack[i].child # stack[n].child
    <3>1. \A i, j \in 1..n : i # j /\ stack[i].child # Nil => stack[i].child # stack[j].child
      BY <1>1 DEF ParseInv, HeldOnce
    <3> QED
      BY <1>1, <3>1
  <2> QED
    BY <1>1, <1>4, <1>5, <1>6, <2>1, <2>2, <2>3
<1>8. \/ \E i \in DOMAIN outs : outs[i].status \in Errors
      \/ roots' \subseteq {new} \cup {stack[i].child : i \in 1..n - 1}
  <2>1. Held \subseteq {back.result, stack[n].child} \cup {stack[i].child : i \in 1..n - 1}
    BY <1>1 DEF Held
  <2>2. NoStrayRoots
    BY DEF ParseInv
  <2> QED
    BY <1>5, <2>1, <2>2 DEF NoStrayRoots, Failed
<1>9. roots' \subseteq DOMAIN mem' /\ new \in roots'
  BY <1>4, <1>5, <1>6
<1> QED
  BY <1>3, <1>4, <1>5, <1>7, <1>8, <1>9, ReturnKeeps

-----------------------------------------------------------------------------
(* What is known of the activation on top.                                 *)
LEMMA TopIs ==
    ASSUME ParseInv, NEW fn, NEW place, At(fn, place)
    PROVE  /\ pc = "parsing" /\ chomp = "idle" /\ stack # <<>>
           /\ stack[Len(stack)] \in Activations
           /\ stack[Len(stack)].fn = fn /\ stack[Len(stack)].at = place
           /\ Last(stack) = stack[Len(stack)]
           /\ place \in Entries => back = NotYet /\ back.result = Nil /\ back.status = "none"
           /\ place # "rest" => stack[Len(stack)].child = Nil
           /\ place \in Returns => back.status \in Errors \cup {"PARSE_OK"}
           /\ Nil \notin roots
           /\ stack[Len(stack)].child \in Nat
<1>1. /\ pc = "parsing" /\ chomp = "idle" /\ stack # <<>> /\ Last(stack) = stack[Len(stack)]
      /\ stack[Len(stack)].fn = fn /\ stack[Len(stack)].at = place
  BY DEF At, Running, Last
<1>2. Len(stack) \in Nat \ {0} /\ DOMAIN stack = 1..Len(stack) /\ stack \in Seq(Activations)
      /\ Len(stack) \in DOMAIN stack
  BY <1>1, PopSeq DEF ParseInv, ParseTypeOK
<1>3. stack[Len(stack)] \in Activations
  BY <1>2, ElementOfSeq
<1>4. place \in Entries => back = NotYet /\ back.result = Nil /\ back.status = "none"
  BY <1>1 DEF ParseInv, ResultIsAwaited, NotYet
<1>5. place # "rest" => stack[Len(stack)].child = Nil
  BY <1>1, <1>2 DEF ParseInv, HeldOnce
<1>6. place \in Returns => back.status \in Errors \cup {"PARSE_OK"}
  BY <1>1 DEF ParseInv, ParseTypeOK, ResultIsAwaited, EndIsOutside, Results, Returns, Entries
<1>7. Nil \notin roots
  <2>1. DOMAIN mem = 1..Len(mem) /\ Len(mem) \in Nat /\ roots \subseteq DOMAIN mem
    BY DEF ParseInv, ParseTypeOK
  <2> QED
    BY <2>1 DEF Nil
<1> QED
  BY <1>1, <1>3, <1>4, <1>5, <1>6, <1>7 DEF Activations

(* parse_sexpr keeps the invariant.                                        *)
LEMMA SexprKeeps == ParseInv /\ ParseSexpr => ParseInv'
<1> SUFFICES ASSUME ParseInv, ParseSexpr PROVE ParseInv'
  OBVIOUS
<1>1. CASE SexprEnd
  <2>1. At("sexpr", "start") /\ type = "TOK_END" /\ Return("PARSE_END", Nil)
        /\ mem' = mem /\ roots' = roots /\ outs' = outs /\ pc' = pc
    BY <1>1 DEF SexprEnd, NoBuild, Others
  <2>2. stack[Len(stack)] = Activation("sexpr")
    BY <2>1, TopIs DEF Activation, Activations, Entries
  <2>3. ~(Len(stack) > 1)
    BY <2>1, <2>2 DEF ParseInv, EndIsOutside
  <2>4. Front(stack) = <<>>
    <3>1. Len(stack) \in Nat /\ Len(stack) - 1 \in Int /\ Len(stack) - 1 < 1
      BY <2>3, LenProperties DEF ParseInv, ParseTypeOK
    <3> QED
      BY <3>1, SubSeqEmpty DEF Front
  <2> QED
    BY <2>1, <2>4, TopIs, ReturnNothingKeeps DEF Entries, Errors
<1>2. CASE SexprAtom
  <2>1. PICK node : Build(node, {})
    BY <1>2 DEF SexprAtom
  <2>2. At("sexpr", "start") /\ Return("PARSE_OK", Newest(mem')) /\ outs' = outs /\ pc' = pc
    BY <1>2 DEF SexprAtom, Others
  <2>3. Build(node, {stack[Len(stack)].child, back.result})
    BY <2>1, <2>2, TopIs DEF Build, Entries
  <2> QED
    BY <2>2, <2>3, TopIs, ReturnNewKeeps DEF Entries, Errors
<1>3. CASE SexprOpen
  <2> DEFINE x == [stack[Len(stack)] EXCEPT !.at = "open"]
  <2>1. At("sexpr", "start") /\ UNCHANGED <<mem, roots, outs, pc>> /\ back' = NotYet
        /\ stack' = Append(Pop, x)
    BY <1>3 DEF SexprOpen, Continue, NoBuild, Others, Last
  <2>2. x \in Activations /\ x.at = "open" /\ x.child = Nil /\ x.fn = "sexpr"
    BY <2>1, TopIs DEF Activations
  <2> HIDE DEF x
  <2> QED
    BY <2>1, <2>2, TopIs, TurnKeeps DEF Entries, Activation
<1>4. CASE SexprUnexpected \/ SexprOpenError
  <2>1. PICK st \in Errors, place \in {"start", "open"} : At("sexpr", place) /\ DropRootAndReturn(st, Nil)
    BY <1>4 DEF SexprUnexpected, SexprOpenError, Errors
  <2>2. Return(st, Nil) /\ mem' = mem /\ roots' = roots \ {Nil} /\ pc' \in {pc, "crashed"} /\ outs' = outs
    BY <1>4, <2>1 DEF DropRootAndReturn, SexprUnexpected, SexprOpenError, Others
  <2>3. pc = "parsing" /\ stack # <<>> /\ roots' = roots
    BY <2>1, <2>2, TopIs
  <2> QED
    BY <2>2, <2>3, ReturnNothingKeeps DEF Errors
<1>5. CASE SexprEmpty
  <2>1. At("sexpr", "open") /\ Return("PARSE_OK", Nil)
        /\ mem' = mem /\ roots' = roots /\ outs' = outs /\ pc' = pc
    BY <1>5 DEF SexprEmpty, NoBuild, Others
  <2> QED
    BY <2>1, TopIs, ReturnNothingKeeps DEF Entries, Errors
<1>6. CASE SexprList
  <2>1. At("sexpr", "open") /\ CallFrom("close", Nil, "list") /\ UNCHANGED <<mem, roots, outs, pc>>
    BY <1>6 DEF SexprList, NoBuild, Others
  <2>2. [stack[Len(stack)] EXCEPT !.at = "close", !.child = Nil] \in Activations
    BY <2>1, TopIs DEF Activations, Nil
  <2>3. back.result = Nil /\ back.status = "none" /\ pc = "parsing" /\ stack # <<>> /\ stack[Len(stack)].child = Nil
    BY <2>1, TopIs DEF Entries
  <2> QED
    BY <2>1, <2>2, <2>3, CallKeeps DEF Returns, Errors
<1>7. CASE SexprClose
  <2>1. At("sexpr", "close") /\ Return(back.status, back.result)
        /\ mem' = mem /\ roots' = roots /\ outs' = outs /\ pc' = pc
    BY <1>7 DEF SexprClose, NoBuild, Others
  <2>2. pc = "parsing" /\ stack # <<>> /\ back.status \in Errors \cup {"PARSE_OK"} /\ stack[Len(stack)].child = Nil
    BY <2>1, TopIs DEF Returns
  <2> DEFINE n == Len(stack)
  <2>3. /\ n \in Nat \ {0} /\ DOMAIN stack = 1..n
        /\ \A i \in 1..n - 1 : i \in 1..n
        /\ \A i \in 1..n : i = n \/ i \in 1..n - 1
    BY <2>2, PopSeq DEF ParseInv, ParseTypeOK
  <2>4. \A i \in 1..n - 1 : stack[i].child # Nil => stack[i].child \in roots' /\ stack[i].child # back.result
    <3>1. \A i \in 1..n : stack[i].child # Nil => stack[i].child \in roots
      BY <2>3 DEF ParseInv, HeldIsRooted, Held
    <3>2. \A i \in 1..n : back.result # Nil => back.result # stack[i].child
      BY <2>3 DEF ParseInv, HeldOnce
    <3> QED
      BY <2>1, <2>3, <3>1, <3>2
  <2>5. \/ back.status \in Errors \/ \E i \in DOMAIN outs : outs[i].status \in Errors
        \/ roots' \subseteq {back.result} \cup {stack[i].child : i \in 1..n - 1}
    <3>1. Held \subseteq {back.result} \cup {stack[i].child : i \in 1..n - 1}
      BY <2>2, <2>3 DEF Held
    <3> QED
      BY <2>1, <2>2, <3>1 DEF ParseInv, NoStrayRoots, Failed
  <2>6. back.result = Nil \/ back.result \in roots'
    BY <2>1 DEF ParseInv, HeldIsRooted, Held
  <2>7. back.result \in Nat
    BY DEF ParseInv, ParseTypeOK, Results
  <2>8. /\ mem' \in Seq({mem'[x] : x \in DOMAIN mem'}) /\ DOMAIN mem \subseteq DOMAIN mem'
        /\ roots' \subseteq DOMAIN mem'
    BY <2>1 DEF ParseInv, ParseTypeOK
  <2>9. back.status # "PARSE_END"
    BY <2>2 DEF Errors
  <2> QED
    BY <2>1, <2>2, <2>4, <2>5, <2>6, <2>7, <2>8, <2>9, ReturnKeeps
<1>8. CASE SexprCloseError
  <2>1. PICK st \in Errors : At("sexpr", "close") /\ DropRootAndReturn(st, back.result) /\ outs' = outs
    BY <1>8 DEF SexprCloseError, Others, Errors
  <2>2. Return(st, Nil) /\ mem' = mem /\ roots' = roots \ {back.result} /\ pc' \in {pc, "crashed"}
    BY <2>1 DEF DropRootAndReturn
  <2>3. pc = "parsing" /\ stack # <<>>
    BY <2>1, TopIs
  <2> QED
    BY <2>1, <2>2, <2>3, ReturnNothingKeeps DEF Errors
<1> QED
  BY <1>1, <1>2, <1>3, <1>4, <1>5, <1>6, <1>7, <1>8 DEF ParseSexpr

(* parse_list keeps the invariant.                                         *)
LEMMA ListKeeps == ParseInv /\ ParseList => ParseInv'
<1> SUFFICES ASSUME ParseInv, ParseList PROVE ParseInv'
  OBVIOUS
<1>1. CASE ListEnd \/ ListDotError
  <2>1. PICK st \in Errors \cup {"PARSE_OK"}, place \in {"start", "dot"} :
          At("list", place) /\ Return(st, Nil)
    BY <1>1 DEF ListEnd, ListDotError, Errors
  <2>2. mem' = mem /\ roots' = roots /\ outs' = outs /\ pc' = pc
    BY <1>1 DEF ListEnd, ListDotError, NoBuild, Others
  <2>3. /\ pc = "parsing" /\ stack # <<>> /\ stack[Len(stack)].child = Nil
        /\ back.result = Nil /\ back.status \notin Errors
    BY <2>1, TopIs DEF Entries, Errors
  <2>4. st # "PARSE_END"
    BY <2>1 DEF Errors
  <2> QED
    BY <2>1, <2>2, <2>3, <2>4, ReturnNothingKeeps
<1>2. CASE ListDot
  <2> DEFINE x == [stack[Len(stack)] EXCEPT !.at = "dot"]
  <2>1. At("list", "start") /\ UNCHANGED <<mem, roots, outs, pc>> /\ back' = NotYet
        /\ stack' = Append(Pop, x)
    BY <1>2 DEF ListDot, Continue, NoBuild, Others, Last
  <2>2. x \in Activations /\ x.at = "dot" /\ x.child = Nil /\ x.fn = "list"
    BY <2>1, TopIs DEF Activations
  <2> HIDE DEF x
  <2> QED
    BY <2>1, <2>2, TopIs, TurnKeeps DEF Entries, Activation
<1>3. CASE ListTail
  <2> DEFINE x == Activation("sexpr")
  <2>1. At("list", "dot") /\ UNCHANGED <<mem, roots, outs, pc>> /\ back' = NotYet
        /\ stack' = Append(Pop, x)
    BY <1>3 DEF ListTail, NoBuild, Others
  <2>2. x \in Activations /\ x.at = "start" /\ x.child = Nil /\ x.fn = "sexpr"
    BY DEF Activations, Activation, Nil
  <2>3. chomp' = "idle" /\ type' \notin {"TOK_END", "TOK_RPAREN", "TOK_DOT"}
    BY <1>3, <2>1, TopIs DEF ListTail, NoChomp, tokenVars
  <2> HIDE DEF x
  <2> QED
    BY <2>1, <2>2, <2>3, TopIs, TurnKeeps DEF Entries
<1>4. CASE ListElement
  <2>1. At("list", "start") /\ CallFrom("element", Nil, "sexpr") /\ UNCHANGED <<mem, roots, outs, pc>>
    BY <1>4 DEF ListElement, NoBuild, Others
  <2>2. [stack[Len(stack)] EXCEPT !.at = "element", !.child = Nil] \in Activations
    BY <2>1, TopIs DEF Activations, Nil
  <2>3. back.result = Nil /\ back.status = "none" /\ pc = "parsing" /\ stack # <<>> /\ stack[Len(stack)].child = Nil
    BY <2>1, TopIs DEF Entries
  <2>4. chomp' = "idle" /\ type' \notin {"TOK_END", "TOK_RPAREN", "TOK_DOT"}
    BY <1>4, <2>1, TopIs DEF ListElement, NoChomp, tokenVars
  <2> QED
    BY <2>1, <2>2, <2>3, <2>4, CallKeeps DEF Returns, Errors
<1>5. CASE ListRest
  <2>1. At("list", "element") /\ UNCHANGED <<mem, roots, outs, pc>>
        /\ IF back.status = "PARSE_OK" THEN CallFrom("rest", back.result, "list") ELSE Return(back.status, Nil)
    BY <1>5 DEF ListRest, NoBuild, Others
  <2>2. pc = "parsing" /\ stack # <<>> /\ stack[Len(stack)].child = Nil
        /\ back.status \in Errors \cup {"PARSE_OK"}
    BY <2>1, TopIs DEF Returns
  <2>3. CASE back.status = "PARSE_OK"
    <3>1. [stack[Len(stack)] EXCEPT !.at = "rest", !.child = back.result] \in Activations
      BY <2>1, TopIs DEF Activations, ParseInv, ParseTypeOK, Results
    <3> QED
      BY <2>1, <2>2, <2>3, <3>1, CallKeeps DEF Returns, Errors
  <2>4. CASE back.status # "PARSE_OK"
    BY <2>1, <2>2, <2>4, ReturnNothingKeeps DEF Errors
  <2> QED
    BY <2>3, <2>4
<1>6. CASE ListCons
  <2>1. At("list", "rest") /\ back.status = "PARSE_OK" /\ Return("PARSE_OK", Newest(mem'))
        /\ outs' = outs /\ pc' = pc
    BY <1>6 DEF ListCons, Others
  <2>2. PICK node : Build(node, {stack[Len(stack)].child, back.result})
    BY <1>6, <2>1, TopIs DEF ListCons
  <2> QED
    BY <2>1, <2>2, TopIs, ReturnNewKeeps DEF Errors
<1>7. CASE ListRestError
  <2>1. At("list", "rest") /\ DropRootAndReturn(back.status, back.result) /\ outs' = outs
        /\ back.status # "PARSE_OK"
    BY <1>7 DEF ListRestError, Others
  <2>2. Return(back.status, Nil) /\ mem' = mem /\ roots' = roots \ {back.result} /\ pc' \in {pc, "crashed"}
    BY <2>1 DEF DropRootAndReturn
  <2>3. pc = "parsing" /\ stack # <<>> /\ back.status \in Errors
    BY <2>1, TopIs DEF Returns
  <2> QED
    BY <2>1, <2>2, <2>3, ReturnNothingKeeps DEF Errors
<1> QED
  BY <1>1, <1>2, <1>3, <1>4, <1>5, <1>6, <1>7 DEF ParseList

-----------------------------------------------------------------------------
(* So do the calls of parse and their returns, and the tokenizer: it does  *)
(* nothing while the parser is about to look at a token.                   *)
LEMMA CallKeepsInv == ParseInv /\ ParseCall => ParseInv'
<1> SUFFICES ASSUME ParseInv, ParseCall PROVE ParseInv'
  OBVIOUS
<1> DEFINE x == Activation("sexpr")
<1>1. /\ stack = <<>> /\ back = NotYet /\ pc = "ready" /\ pc' = "parsing" /\ stack' = <<x>>
      /\ UNCHANGED <<mem, roots, back, outs>>
  BY DEF ParseCall, ParseInv, ResultIsAwaited
<1>2. x \in Activations /\ x.at = "start" /\ x.child = Nil /\ x.fn = "sexpr"
  BY DEF Activations, Activation, Nil
<1> HIDE DEF x
<1>3. stack' \in Seq(Activations) /\ Len(stack') = 1 /\ DOMAIN stack' = {1} /\ stack'[1] = x /\ stack' # <<>>
  BY <1>1, <1>2
<1>4. ParseTypeOK'
  <2>1. Nil \in Refs
    BY DEF ParseInv, ParseTypeOK, Refs, Nil
  <2> QED
    BY <1>1, <1>2, <1>3, <2>1 DEF ParseInv, ParseTypeOK, Refs
<1>5. Held' = Held
  BY <1>1, <1>2, <1>3 DEF Held
<1>6. HeldIsRooted' /\ NoStrayRoots'
  BY <1>1, <1>5 DEF ParseInv, HeldIsRooted, NoStrayRoots, Failed
<1>7. HeldOnce' /\ CallsNest' /\ ResultIsAwaited' /\ EndIsOutside'
  BY <1>1, <1>2, <1>3 DEF HeldOnce, CallsNest, ResultIsAwaited, EndIsOutside, NotYet, Entries
<1> QED
  BY <1>4, <1>6, <1>7 DEF ParseInv

LEMMA ReturnKeepsInv == ParseInv /\ ParseReturn => ParseInv'
<1> SUFFICES ASSUME ParseInv, ParseReturn PROVE ParseInv'
  OBVIOUS
<1>1. /\ stack = <<>> /\ stack' = <<>> /\ back' = NotYet /\ outs' = Append(outs, back)
      /\ roots' = roots \ {back.result} /\ mem' = mem /\ pc' \in {"ready", "stopped"}
  BY DEF ParseReturn
<1>2. back \in Results /\ outs \in Seq(Results) /\ pc = "parsing"
  BY DEF ParseReturn, Running, ParseInv, ParseTypeOK
<1>3. /\ outs' \in Seq(Results) /\ outs'[Len(outs) + 1] = back /\ Len(outs) + 1 \in DOMAIN outs'
      /\ \A i \in DOMAIN outs : i \in DOMAIN outs' /\ outs'[i] = outs[i]
  BY <1>1, <1>2
<1>4. ParseTypeOK'
  <2>1. NotYet \in Results /\ NotYet.result \in Refs
    BY DEF NotYet, Results, Nil, Refs, ParseInv, ParseTypeOK
  <2>2. stack' \in Seq(Activations) /\ DOMAIN stack' = {}
    BY <1>1
  <2> QED
    BY <1>1, <1>3, <2>1, <2>2 DEF ParseInv, ParseTypeOK, Refs
<1>5. Held' = {} /\ Held = {back.result} \ {Nil}
  BY <1>1 DEF Held, NotYet
<1>6. HeldIsRooted' /\ NoStrayRoots'
  <2>1. Failed => Failed'
    BY <1>2, <1>3 DEF Failed
  <2> QED
    BY <1>1, <1>5, <2>1 DEF ParseInv, HeldIsRooted, NoStrayRoots
<1>7. HeldOnce' /\ CallsNest' /\ ResultIsAwaited' /\ EndIsOutside'
  BY <1>1 DEF HeldOnce, CallsNest, ResultIsAwaited, EndIsOutside, NotYet
<1> QED
  BY <1>4, <1>6, <1>7 DEF ParseInv

LEMMA TokenizerKeeps == ParseInv /\ Tokenizer => ParseInv'
<1> SUFFICES ASSUME ParseInv, Tokenizer PROVE ParseInv'
  OBVIOUS
<1>1. UNCHANGED parseVars
  BY DEF Tokenizer
<1>2. chomp # "idle"
  BY DEF Tokenizer, TokenChomp, Prime, StringEnd, StringChar, StringEscape, EscapeChar, EscapeOctal,
         OctalDigit, OctalEnd, Skip, InComment, Skipped, Punctuation, AtomStart, AtomChar, AtomDiscard, AtomEnd
<1>3. ParseTypeOK' /\ HeldIsRooted' /\ NoStrayRoots' /\ HeldOnce' /\ CallsNest' /\ ResultIsAwaited'
  BY <1>1 DEF parseVars, ParseInv, ParseTypeOK, HeldIsRooted, NoStrayRoots, HeldOnce, CallsNest,
              ResultIsAwaited, Held, Failed, Refs
<1>4. EndIsOutside'
  BY <1>1, <1>2 DEF parseVars, ParseInv, EndIsOutside
<1> QED
  BY <1>3, <1>4 DEF ParseInv

LEMMA StutterKeeps == ParseInv /\ UNCHANGED vars => ParseInv'
BY DEF vars, tokenVars, parseVars, ParseInv, ParseTypeOK, HeldIsRooted, NoStrayRoots, HeldOnce, CallsNest,
       ResultIsAwaited, EndIsOutside, Held, Failed, Refs

LEMMA InitHolds == Init => ParseInv
<1> SUFFICES ASSUME Init PROVE ParseInv
  OBVIOUS
<1>1. mem = <<>> /\ roots = {} /\ stack = <<>> /\ back = NotYet /\ outs = <<>> /\ pc = "ready"
  BY DEF Init
<1>2. ParseTypeOK
  BY <1>1 DEF ParseTypeOK, NotYet, Nil, Results, Refs
<1>3. HeldIsRooted /\ NoStrayRoots
  BY <1>1 DEF HeldIsRooted, NoStrayRoots, Held, NotYet
<1>4. HeldOnce /\ CallsNest /\ ResultIsAwaited /\ EndIsOutside
  BY <1>1 DEF HeldOnce, CallsNest, ResultIsAwaited, EndIsOutside, NotYet
<1> QED
  BY <1>2, <1>3, <1>4 DEF ParseInv

-----------------------------------------------------------------------------
(* The parser's stack, its locals and its roots go together at every step, *)
(* whatever the text is (parse.c:14-164).                                  *)
THEOREM ParserConsistent == Spec => []ParseInv
<1>1. ParseInv /\ [Next]_vars => ParseInv'
  BY TokenizerKeeps, SexprKeeps, ListKeeps, CallKeepsInv, ReturnKeepsInv, StutterKeeps DEF Next, Step, Stopped
<1> QED
  BY <1>1, InitHolds, PTL DEF Spec

(* What the parser keeps in its locals is a root at every step: a half-    *)
(* built list is never the collector's.                                    *)
THEOREM HeldAlwaysRooted == Spec => []HeldIsRooted
<1>1. ParseInv => HeldIsRooted
  BY DEF ParseInv
<1> QED
  BY <1>1, ParserConsistent, PTL

(* Until an error, the parser leaves no root behind.                       *)
THEOREM RootsAlwaysHeld == Spec => []NoStrayRoots
<1>1. ParseInv => NoStrayRoots
  BY DEF ParseInv
<1> QED
  BY <1>1, ParserConsistent, PTL
-----------------------------------------------------------------------------
(* The tokenizer keeps to its types, too: what is left to show is that the *)
(* reading of a number ends in the text and gives a number.                *)
LEMMA LeastNumber ==
    ASSUME NEW T, T \subseteq Nat, T # {}
    PROVE  \E x \in T : \A y \in T : x <= y
<1>1. PICK R : /\ IsWellFoundedOn(R, Nat)
               /\ \A x, y \in Nat : (<<x, y>> \in R) <=> (x < y)
  <2>1. \A x, y \in Nat : (<<x, y>> \in OpToRel(<, Nat)) <=> (x < y)
    BY DEF OpToRel
  <2> QED
    BY <2>1, NatLessThanWellFounded
<1>2. IsWellFoundedOn(R, Nat)
  BY <1>1
<1>3. PICK x \in T : \A y \in T : ~(<<y, x>> \in R)
  BY <1>2, WFMin, Zenon
<1>4. \A y \in T : ~(y < x)
  BY <1>1, <1>3
<1> QED
  BY <1>4

LEMMA DigitsOfText ==
    ASSUME NEW s \in Seq(Int), NEW i \in 0..Len(s), NEW base
    PROVE  Digits(s, i, base) \in 0..Len(s) - i
<1> DEFINE k == Len(s) - i
<1> DEFINE run == {n \in 0..k : \A j \in i + 1..i + n : IsDigit(s[j], base)}
<1> DEFINE T == {n \in 0..k : k - n \in run}
<1>1. k \in Nat
  OBVIOUS
<1>2. 0 \in run
  <2>1. i + 1..i + 0 = {}
    OBVIOUS
  <2> QED
    BY <1>1, <2>1
<1>3. run \subseteq 0..k
  OBVIOUS
<1>4. Digits(s, i, base) = CHOOSE n \in run : \A m \in run : m <= n
  BY DEF Digits
<1> HIDE DEF run, k
<1>5. T \subseteq Nat /\ k \in T
  BY <1>1, <1>2
<1>6. PICK x \in T : \A y \in T : x <= y
  <2> HIDE DEF T
  <2> QED
    BY <1>5, LeastNumber
<1>7. k - x \in run /\ \A m \in run : m <= k - x
  <2>1. ASSUME NEW m \in run PROVE m <= k - x
    <3>1. m \in 0..k
      BY <1>3
    <3>2. k - m \in 0..k /\ k - (k - m) = m
      BY <1>1, <3>1
    <3>3. k - m \in T
      BY <3>2
    <3>4. x <= k - m /\ x \in Nat
      <4> HIDE DEF T
      <4> QED
        BY <1>5, <1>6, <3>3
    <3> QED
      BY <1>1, <3>1, <3>4
  <2> QED
    BY <1>6, <2>1
<1>8. (CHOOSE n \in run : \A m \in run : m <= n) \in run
  BY <1>7
<1> QED
  BY <1>3, <1>4, <1>8 DEF k

LEMMA DigitIsNumber ==
    ASSUME NEW c
    PROVE  CharToNum(c) \in Int
BY DEF CharToNum

LEMMA StrtollIsNumber ==
    ASSUME NEW s \in Seq(Int)
    PROVE  Strtoll(s).val \in Int
<1> DEFINE sign  == IF CharAt(s, 1) \in {Minus, Plus} THEN 1 ELSE 0
<1> DEFINE zero  == CharAt(s, sign + 1) = Zero
<1> DEFINE hex   == zero /\ CharAt(s, sign + 2) = LetterX
<1> DEFINE base  == IF hex THEN 16 ELSE IF zero THEN 8 ELSE 10
<1> DEFINE start == IF hex THEN sign + 2 ELSE IF zero THEN sign + 1 ELSE sign
<1> DEFINE count == Digits(s, start, base)
<1> DEFINE Sum(n, g) ==
      g = [k \in 0..n |-> IF k = 0 THEN 0 ELSE g[k - 1] * base + CharToNum(s[start + k])]
<1> DEFINE upto == CHOOSE g : Sum(count, g)
<1>1. Strtoll(s).val = IF CharAt(s, 1) = Minus THEN -upto[count] ELSE upto[count]
  BY DEF Strtoll
<1>2. start \in 0..Len(s) /\ base \in Int
  <2>1. \A i : CharAt(s, i) # 0 => i \in 1..Len(s)
    BY DEF CharAt
  <2>2. sign \in {0, 1} /\ (sign = 1 => 1 \in 1..Len(s))
    BY <2>1 DEF Minus, Plus
  <2>3. zero => sign + 1 \in 1..Len(s)
    BY <2>1 DEF Zero
  <2>4. hex => sign + 2 \in 1..Len(s)
    BY <2>1 DEF LetterX
  <2>5. Len(s) \in Nat
    OBVIOUS
  <2> HIDE DEF sign, zero, hex
  <2> QED
    BY <2>2, <2>3, <2>4, <2>5
<1> HIDE DEF sign, zero, hex, base, start
<1>3. count \in Nat
  <2>1. Len(s) \in Nat
    OBVIOUS
  <2> QED
    BY <1>2, <2>1, DigitsOfText
<1> HIDE DEF count
<1> DEFINE d == [k \in Nat |-> CharToNum(s[start + k])]
<1>4. \A k \in Nat : d[k] \in Int /\ CharToNum(s[start + k]) = d[k]
  BY DigitIsNumber
<1> HIDE DEF d
<1>5. \A n \in Nat : \A g : Sum(n, g) <=> g = [k \in 0..n |-> IF k = 0 THEN 0 ELSE g[k - 1] * base + d[k]]
  <2>1. \A n \in Nat : \A k \in 0..n : CharToNum(s[start + k]) = d[k]
    BY <1>4
  <2> QED
    BY <2>1
<1> HIDE DEF Sum
<1>6. \A n \in Nat : \E g : Sum(n, g) /\ \A k \in 0..n : g[k] \in Int
  <2> DEFINE T == {n \in Nat : ~ \E g : Sum(n, g) /\ \A k \in 0..n : g[k] \in Int}
  <2> SUFFICES ASSUME T # {} PROVE FALSE
    OBVIOUS
  <2>1. PICK x \in T : \A y \in T : x <= y
    BY LeastNumber
  <2>2. x # 0
    <3> DEFINE g == [k \in 0..0 |-> 0]
    <3>1. g = [k \in 0..0 |-> IF k = 0 THEN 0 ELSE g[k - 1] * base + d[k]]
      OBVIOUS
    <3>2. \A k \in 0..0 : g[k] \in Int
      OBVIOUS
    <3> HIDE DEF g
    <3>3. Sum(0, g)
      BY <1>5, <3>1
    <3> QED
      BY <2>1, <3>2, <3>3
  <2>3. PICK g : Sum(x - 1, g) /\ \A k \in 0..x - 1 : g[k] \in Int
    <3>1. x - 1 \in Nat /\ ~(x <= x - 1)
      BY <2>1, <2>2
    <3> QED
      BY <2>1, <3>1
  <2> DEFINE f == [k \in 0..x |-> IF k = 0 THEN 0 ELSE g[k - 1] * base + d[k]]
  <2>4. x \in Nat /\ x - 1 \in Nat
    BY <2>1, <2>2
  <2>5. \A k \in 0..x : k # 0 => f[k - 1] = g[k - 1]
    <3> SUFFICES ASSUME NEW k \in 0..x, k # 0 PROVE f[k - 1] = g[k - 1]
      OBVIOUS
    <3>1. k - 1 \in 0..x /\ k - 1 \in 0..(x - 1)
      BY <2>4
    <3>2. g = [i \in 0..x - 1 |-> IF i = 0 THEN 0 ELSE g[i - 1] * base + d[i]]
      BY <1>5, <2>3, <2>4
    <3>3. g[k - 1] = IF k - 1 = 0 THEN 0 ELSE g[k - 1 - 1] * base + d[k - 1]
      BY <3>1, <3>2
    <3> QED
      BY <3>1, <3>3
  <2>6. f = [k \in 0..x |-> IF k = 0 THEN 0 ELSE f[k - 1] * base + d[k]]
    BY <2>5
  <2>7. Sum(x, f)
    BY <1>5, <2>4, <2>6
  <2>8. \A k \in 0..x : f[k] \in Int
    <3> SUFFICES ASSUME NEW k \in 0..x PROVE f[k] \in Int
      OBVIOUS
    <3>1. k # 0 => g[k - 1] \in Int /\ d[k] \in Int
      BY <1>4, <2>3, <2>4
    <3> QED
      BY <1>2, <3>1
  <2> QED
    BY <2>1, <2>7, <2>8
<1>7. PICK a : Sum(count, a) /\ \A k \in 0..count : a[k] \in Int
  BY <1>3, <1>6
<1>8. Sum(count, upto)
  BY <1>7
<1> HIDE DEF upto
<1>9. upto[count] \in Int
  <2>1. upto = [k \in 0..count |-> IF k = 0 THEN 0 ELSE upto[k - 1] * base + d[k]]
    BY <1>3, <1>5, <1>8
  <2> DEFINE T == {k \in 0..count : upto[k] \notin Int}
  <2>2. T \subseteq Nat
    BY <1>3
  <2>3. ASSUME T # {} PROVE FALSE
    <3>1. PICK x \in T : \A y \in T : x <= y
      <4> HIDE DEF T
      <4> QED
        BY <2>2, <2>3, LeastNumber
    <3>2. x # 0
      BY <1>3, <2>1, <3>1
    <3>3. x - 1 \in 0..count /\ ~(x <= x - 1)
      BY <1>3, <3>1, <3>2
    <3>4. upto[x - 1] \in Int /\ d[x] \in Int
      BY <1>3, <1>4, <3>1, <3>3
    <3>5. upto[x] = upto[x - 1] * base + d[x]
      BY <2>1, <3>1, <3>2
    <3> QED
      BY <1>2, <3>1, <3>4, <3>5
  <2> QED
    BY <1>3, <2>3
<1> QED
  BY <1>1, <1>9

LEMMA TokenizerTypes ==
    ASSUME TokenTypeOK, text \in Seq(Int), TokenChomp
    PROVE  TokenTypeOK' /\ text' \in Seq(Int)
<1>1. text' = text
  BY DEF TokenChomp, Prime, StringEnd, StringChar, StringEscape, EscapeChar, EscapeOctal,
         OctalDigit, OctalEnd, Skip, Punctuation, AtomStart, AtomChar, AtomDiscard, AtomEnd
<1>2. Len(text) \in Nat /\ \A i \in 1..Len(text) : text[i] \in Int
  OBVIOUS
<1>3. AdvanceTokStream \/ Stay => off' \in 0..Len(text') /\ nextch' \in Int
  BY <1>1, <1>2 DEF AdvanceTokStream, Stay, TokenTypeOK, EOF
<1>4. off' \in 0..Len(text') /\ nextch' \in Int
  BY <1>3 DEF TokenChomp, Prime, StringEnd, StringChar, StringEscape, EscapeChar, EscapeOctal,
         OctalDigit, OctalEnd, Skip, Punctuation, AtomStart, AtomChar, AtomDiscard, AtomEnd, Finish
<1>5. \A c \in Int : Escaped(c) \in Int
  BY DEF Escaped, Backslash, Newline, CarriageReturn, Tab, EOF, LetterN, LetterR, LetterT
<1>6. CASE Prime \/ StringEnd \/ StringChar \/ StringEscape
  BY <1>1, <1>4, <1>6 DEF TokenTypeOK, Prime, StringEnd, StringChar, StringEscape, Finish, Goto, Types
<1>7. CASE EscapeChar
  BY <1>1, <1>4, <1>5, <1>7 DEF TokenTypeOK, EscapeChar, Finish, Goto, Types
<1>8. CASE EscapeOctal \/ OctalDigit \/ OctalEnd
  BY <1>1, <1>4, <1>8 DEF TokenTypeOK, EscapeOctal, OctalDigit, OctalEnd, Goto, Types, Zero
<1>9. CASE Skip \/ Punctuation
  BY <1>1, <1>4, <1>9 DEF TokenTypeOK, Skip, Punctuation, Finish, Goto, Types, InComment
<1>10. CASE AtomStart \/ AtomChar \/ AtomDiscard
  <2>1. sym' \in Seq(Int) /\ Len(sym') <= MaxSymLen
    <3>1. sym \in Seq(Int) /\ Len(sym) <= MaxSymLen /\ nextch \in Int
      BY DEF TokenTypeOK
    <3>2. <<>> \in Seq(Int) /\ Len(<<>>) <= MaxSymLen
      BY MaxSymLenAssumption
    <3>3. ASSUME Len(sym) < MaxSymLen
          PROVE  Append(sym, nextch) \in Seq(Int) /\ Len(Append(sym, nextch)) <= MaxSymLen
      <4>1. Len(Append(sym, nextch)) = Len(sym) + 1 /\ Append(sym, nextch) \in Seq(Int)
        BY <3>1
      <4> QED
        BY <3>1, <3>3, <4>1, MaxSymLenAssumption
    <3>4. CASE AtomStart
      BY <3>2, <3>4 DEF AtomStart, Goto
    <3>5. CASE AtomChar
      BY <3>3, <3>5 DEF AtomChar, Goto
    <3>6. CASE AtomDiscard
      BY <3>1, <3>6 DEF AtomDiscard, Goto
    <3> QED
      BY <1>10, <3>4, <3>5, <3>6
  <2> QED
    BY <1>1, <1>4, <1>10, <2>1 DEF TokenTypeOK, AtomStart, AtomChar, AtomDiscard, Goto
<1>11. CASE AtomEnd
  <2>1. Strtoll(sym).val \in Int
    BY StrtollIsNumber DEF TokenTypeOK
  <2> QED
    BY <1>1, <1>4, <1>11, <2>1 DEF TokenTypeOK, AtomEnd, Goto, Types
<1> QED
  BY <1>1, <1>6, <1>7, <1>8, <1>9, <1>10, <1>11 DEF TokenChomp

TokenInv == TokenTypeOK /\ text \in Seq(Int)

LEMMA ReaderTypes ==
    ASSUME TokenInv, [Next]_vars
    PROVE  TokenInv'
<1>1. CASE UNCHANGED tokenVars
  BY <1>1 DEF tokenVars, TokenInv, TokenTypeOK
<1>2. CASE Chomp
  BY <1>2 DEF Chomp, Goto, TokenInv, TokenTypeOK
<1>3. CASE Tokenizer
  BY <1>3, TokenizerTypes DEF Tokenizer, TokenInv
<1>4. CASE ParseSexpr
  BY <1>1, <1>2, <1>4 DEF ParseSexpr, SexprEnd, SexprAtom, SexprOpen, SexprUnexpected, SexprEmpty, SexprOpenError,
                          SexprList, SexprClose, SexprCloseError, NoChomp
<1>5. CASE ParseList
  BY <1>1, <1>2, <1>5 DEF ParseList, ListEnd, ListDot, ListDotError, ListTail, ListElement, ListRest, ListCons,
                          ListRestError, NoChomp
<1>6. CASE ParseCall \/ ParseReturn \/ UNCHANGED vars
  BY <1>1, <1>2, <1>6 DEF ParseCall, ParseReturn, NoChomp, vars
<1> QED
  BY <1>3, <1>4, <1>5, <1>6 DEF Next, Step, Stopped

LEMMA InitTyped == Init => TokenInv
<1> SUFFICES ASSUME Init PROVE TokenInv
  OBVIOUS
<1>1. text \in Seq(Int)
  BY InputsAssumption DEF Init
<1>2. TokenInit /\ Len(text) \in Nat /\ MaxSymLen \in Nat
  BY <1>1, MaxSymLenAssumption DEF Init
<1>3. <<>> \in Seq(Int) /\ Len(<<>>) <= MaxSymLen
  BY <1>2
<1>4. off \in 0..Len(text) /\ nextch \in Int
  BY <1>2 DEF TokenInit, EOF
<1>5. sym \in Seq(Int) /\ Len(sym) <= MaxSymLen
  <2>1. sym = <<>>
    BY <1>2 DEF TokenInit
  <2> QED
    BY <1>3, <2>1, Zenon
<1>6. /\ in_string \in BOOLEAN /\ in_comment \in BOOLEAN
      /\ type \in Types
      /\ lit \in Int
      /\ chomp \in {"idle", "called", "start", "escape", "octal", "atom"}
  <2>1. in_string \in BOOLEAN /\ in_comment \in BOOLEAN
    <3>1. in_string = FALSE /\ in_comment = FALSE
      BY <1>2, Zenon DEF TokenInit
    <3> QED
      BY <3>1, Zenon
  <2>2. type \in Types /\ chomp \in {"idle", "called", "start", "escape", "octal", "atom"}
    <3>1. type = "TOK_INIT" /\ chomp = "idle"
      BY <1>2, Zenon DEF TokenInit
    <3> QED
      BY <3>1 DEF Types
  <2>3. lit \in Int
    <3>1. lit = 0
      BY <1>2, Zenon DEF TokenInit
    <3> QED
      BY <3>1
  <2> QED
    BY <2>1, <2>2, <2>3
<1> QED
  BY <1>1, <1>4, <1>5, <1>6 DEF TokenInv, TokenTypeOK

(* The buffer of the tokenizer is never overrun, and the types are as said *)
(* (token.c:165, token.h:33).                                              *)
THEOREM ReaderIsTyped == Spec => []TypeOK
<1>1. Init => TokenInv
  BY InitTyped
<1>2. TokenInv /\ [Next]_vars => TokenInv'
  BY ReaderTypes
<1>3. TokenInv /\ ParseInv => TypeOK
  BY DEF TokenInv, ParseInv, TypeOK
<1> QED
  BY <1>1, <1>2, <1>3, ParserConsistent, PTL DEF Spec

-----------------------------------------------------------------------------
(* Progress: every step that changes anything leaves less to do.           *)
LEMMA NumbersFit ==
    TokenInv /\ ParseInv => Ahead \in Nat /\ Stage \in 0..9 /\ Calls \in Nat
<1> SUFFICES ASSUME TokenInv, ParseInv
             PROVE  Ahead \in Nat /\ Stage \in 0..9 /\ Calls \in Nat
  OBVIOUS
<1>1. Len(text) \in Nat /\ off \in 0..Len(text)
  BY DEF TokenInv, TokenTypeOK
<1>2. Ahead \in Nat
  BY <1>1 DEF Ahead
<1>3. Stage \in 0..9
  BY DEF Stage
<1>4. Len(stack) \in Nat
  BY LenProperties DEF ParseInv, ParseTypeOK
<1>5. Own(Last(stack)) \in Nat
  BY DEF Own
<1>6. Calls \in Nat
  BY <1>4, <1>5 DEF Calls
<1> QED
  BY <1>2, <1>3, <1>6

(* Reading a character pays, unless the stream is at its end.              *)
LEMMA AdvancingReads ==
    ASSUME TokenInv, AdvanceTokStream, text' = text
    PROVE  /\ Ahead' <= Ahead
           /\ nextch # EOF => Ahead' < Ahead
           /\ Ahead' = Ahead => off = Len(text) /\ nextch = EOF /\ off' = off /\ nextch' = nextch
<1>1. Len(text) \in Nat /\ off \in 0..Len(text)
  BY DEF TokenInv, TokenTypeOK
<1>2. CASE off < Len(text)
  <2>1. off' = off + 1
    BY <1>2 DEF AdvanceTokStream
  <2>2. Ahead' < Ahead /\ Ahead' \in Int /\ Ahead \in Int
    BY <1>1, <2>1 DEF Ahead
  <2> QED
    BY <2>2
<1>3. CASE ~(off < Len(text))
  <2>1. off' = off /\ nextch' = EOF
    BY <1>3 DEF AdvanceTokStream
  <2>2. off = Len(text)
    BY <1>1, <1>3
  <2> QED
    BY <1>1, <2>1, <2>2 DEF Ahead
<1> QED
  BY <1>2, <1>3

LEMMA StayingReads ==
    ASSUME Stay, text' = text
    PROVE  Ahead' = Ahead
BY DEF Stay, Ahead

(* The tokenizer makes a token out of characters, and none out of nothing. *)
LEMMA TokenizerTurns ==
    ASSUME TokenInv, InStringLooksAhead, AtomStarts, TokenChomp, ~AtQuote
    PROVE  \/ Ahead' < Ahead /\ Stage' <= Stage + 8
           \/ Ahead' <= Ahead /\ Stage' < Stage
           \/ CutOff /\ UNCHANGED tokenVars
<1>0. text' = text
  BY DEF TokenChomp, Prime, StringEnd, StringChar, StringEscape, EscapeChar, EscapeOctal,
         OctalDigit, OctalEnd, Skip, Punctuation, AtomStart, AtomChar, AtomDiscard, AtomEnd
<1>1. Ahead \in Nat /\ Stage \in 0..9 /\ Stage' \in 0..9
  BY DEF Ahead, Stage, TokenInv, TokenTypeOK
<1>2. CASE Prime
  <2>1. Stage = 3 /\ Stage' = 2
    BY <1>2 DEF Prime, Goto, Stage
  <2>2. Ahead' <= Ahead
    BY <1>0, <1>1, <1>2, AdvancingReads, StayingReads DEF Prime
  <2> QED
    BY <2>1, <2>2
<1>3. CASE StringEnd \/ StringChar \/ StringEscape
  <2>1. chomp = "start" /\ in_string /\ AdvanceTokStream
    BY <1>3 DEF StringEnd, StringChar, StringEscape, Finish
  <2>2. nextch # EOF
    BY <2>1 DEF InStringLooksAhead
  <2>3. Ahead' < Ahead
    BY <1>0, <2>1, <2>2, AdvancingReads
  <2>4. Stage = 2
    BY <2>1 DEF Stage
  <2> QED
    BY <1>1, <2>3, <2>4
<1>4. CASE EscapeChar
  <2>1. Stage = 9 /\ Stage' = 8 /\ AdvanceTokStream
    BY <1>4 DEF EscapeChar, Finish, Goto, Stage
  <2> QED
    BY <1>0, <2>1, AdvancingReads
<1>5. CASE EscapeOctal \/ OctalDigit
  <2>1. Stage = 9 /\ AdvanceTokStream /\ nextch # EOF
    BY <1>5 DEF EscapeOctal, OctalDigit, Stage, IsOctal, EOF
  <2> QED
    BY <1>0, <1>1, <2>1, AdvancingReads
<1>6. CASE OctalEnd
  <2>1. Stage = 9 /\ Stage' <= 8 /\ Stay
    BY <1>6 DEF OctalEnd, Goto, Stage
  <2> QED
    BY <1>0, <1>1, <2>1, StayingReads
<1>7. CASE Skip
  <2>1. Stage = 2 /\ Stage' = 2 /\ AdvanceTokStream
    BY <1>7 DEF Skip, Stage
  <2>2. CASE Ahead' < Ahead
    BY <2>1, <2>2
  <2>3. CASE ~(Ahead' < Ahead)
    <3>1. nextch = EOF /\ Ahead' = Ahead
      <4>1. Ahead' <= Ahead /\ (nextch # EOF => Ahead' < Ahead)
        BY <1>0, <2>1, AdvancingReads
      <4>2. Ahead' \in Int
        BY <1>0, <2>1 DEF Ahead, AdvanceTokStream, TokenInv, TokenTypeOK
      <4> QED
        BY <1>1, <2>3, <4>1, <4>2
    <3>2. off = Len(text) /\ off' = off /\ nextch' = nextch
      BY <1>0, <2>1, <3>1, AdvancingReads
    <3>3. in_comment = TRUE /\ in_comment' = TRUE
      <4>1. nextch # Hash /\ nextch # Newline /\ ~IsSpace(nextch)
        BY <3>1 DEF IsSpace, EOF, Hash, Newline, Blank
      <4>2. Skipped /\ in_comment' = InComment /\ in_comment \in BOOLEAN
        BY <1>7 DEF Skip, TokenInv, TokenTypeOK
      <4> QED
        BY <4>1, <4>2, Zenon DEF Skipped, InComment
    <3> QED
      BY <1>0, <1>7, <3>1, <3>2, <3>3 DEF Skip, CutOff, tokenVars
  <2> QED
    BY <2>2, <2>3
<1>8. CASE Punctuation
  <2>1. Stage = 2 /\ AdvanceTokStream
    BY <1>8 DEF Punctuation, Stage, Finish
  <2>2. CASE nextch = EOF
    <3>1. Stage' = 0
      BY <1>8, <2>2 DEF Punctuation, Stage, Finish, Goto, EOF, StringQuote, Open, Close, Dot
    <3> QED
      BY <1>0, <2>1, <3>1, AdvancingReads
  <2>3. CASE nextch # EOF
    BY <1>0, <1>1, <2>1, <2>3, AdvancingReads
  <2> QED
    BY <2>2, <2>3
<1>9. CASE AtomStart
  <2>1. Stage = 2 /\ Stage' = 1 /\ Stay
    BY <1>9 DEF AtomStart, Stage, Goto
  <2> QED
    BY <1>0, <1>1, <2>1, StayingReads
<1>10. CASE AtomChar
  <2>1. Stage \in 1..9 /\ AdvanceTokStream /\ nextch # EOF
    BY <1>10 DEF AtomChar, Stage
  <2> QED
    BY <1>0, <1>1, <2>1, AdvancingReads
<1>11. CASE AtomDiscard
  <2>1. sym # <<>>
    BY <1>11, MaxSymLenAssumption DEF AtomDiscard
  <2>2. Stage = 9 /\ Stage' = 9 /\ AdvanceTokStream
    BY <1>11, <2>1 DEF AtomDiscard, Stage
  <2>3. CASE Ahead' = Ahead
    <3>1. off = Len(text) /\ nextch = EOF /\ off' = off /\ nextch' = nextch
      BY <1>0, <2>2, <2>3, AdvancingReads
    <3> QED
      BY <1>0, <1>11, <3>1 DEF AtomDiscard, CutOff, tokenVars
  <2>4. CASE Ahead' # Ahead
    <3>1. Ahead' <= Ahead
      BY <1>0, <2>2, AdvancingReads
    <3>2. Ahead' \in Int
      BY <1>0, <2>2 DEF Ahead, AdvanceTokStream, TokenInv, TokenTypeOK
    <3> QED
      BY <1>1, <2>2, <2>4, <3>1, <3>2
  <2> QED
    BY <2>3, <2>4
<1>12. CASE AtomEnd
  <2>1. sym # <<>>
    <3>1. ASSUME sym = <<>> PROVE FALSE
      <4>1. IsAtomChar(nextch) /\ nextch # EOF
        BY <1>12, <3>1 DEF AtomEnd, AtomStarts, AtQuote
      <4> QED
        BY <1>12, <4>1 DEF AtomEnd
    <3> QED
      BY <3>1
  <2>2. Stage = 9 /\ Stage' = 8 /\ Stay
    BY <1>12, <2>1 DEF AtomEnd, Stage, Goto
  <2> QED
    BY <1>0, <1>1, <2>2, StayingReads
<1> QED
  BY <1>2, <1>3, <1>4, <1>5, <1>6, <1>7, <1>8, <1>9, <1>10, <1>11, <1>12 DEF TokenChomp

(* The innermost call returns: the activation below, or the loop, has less *)
(* to do than there was with it.                                           *)
LEMMA ReturnEnds ==
    ASSUME ParseInv, ElementsAreSexprs, stack # <<>>, NEW st, NEW r, Return(st, r),
           pc' \in {"parsing", "crashed"}
    PROVE  Calls' <= Len(stack) + (IF st = "PARSE_OK" /\ Last(stack).fn = "sexpr" THEN 4 ELSE 0)
<1> DEFINE n == Len(stack)
<1>1. /\ n \in Nat \ {0} /\ stack' \in Seq(Activations) /\ Len(stack') = n - 1
      /\ \A i \in 1..n - 1 : stack'[i] = stack[i] /\ stack[i].at \in Returns
      /\ DOMAIN stack = 1..n /\ Last(stack) = stack[n] /\ stack[1].fn = "sexpr"
  BY PopSeq DEF ParseInv, ParseTypeOK, CallsNest, Return, Pop, Last
<1>2. back'.status = st
  BY DEF Return, Back
<1>3. CASE n = 1
  <2>1. stack' = <<>>
    BY <1>1, <1>3, EmptySeq
  <2>2. Last(stack).fn = "sexpr"
    BY <1>1, <1>3
  <2>3. Calls' \in {0, 1} \/ (st = "PARSE_OK" /\ Calls' = 4)
    BY <1>2, <2>1 DEF Calls
  <2> QED
    BY <1>3, <2>2, <2>3
<1>4. CASE n # 1
  <2>1. stack' # <<>> /\ n - 1 \in 1..n - 1 /\ Last(stack') = stack[n - 1]
    BY <1>1, <1>4, EmptySeq DEF Last
  <2>2. stack[n - 1].at \in Returns
    BY <1>1, <2>1
  <2>3. stack[n - 1].at = "element" => Last(stack).fn = "sexpr"
    BY <1>1, <2>1, <1>4 DEF ElementsAreSexprs
  <2>4. Own(Last(stack))' = IF stack[n - 1].at = "element" /\ st = "PARSE_OK" THEN 4 ELSE 0
    BY <1>2, <2>1, <2>2 DEF Own, Returns
  <2>5. Calls' = n - 1 + 1 + Own(Last(stack))'
    BY <1>1, <2>1 DEF Calls
  <2> HIDE DEF n
  <2>6. n - 1 + 1 = n
    BY <1>1
  <2> QED
    BY <1>1, <2>3, <2>4, <2>5, <2>6 DEF n
<1> QED
  BY <1>3, <1>4

LEMMA ContinueEnds ==
    ASSUME ParseInv, stack # <<>>, NEW place \in {"open", "dot"}, Continue(place)
    PROVE  Calls' = Len(stack) + 1 + (IF place = "open" THEN 4 ELSE 1)
<1> DEFINE n == Len(stack)
           a == [Last(stack) EXCEPT !.at = place]
<1>1. /\ n \in Nat \ {0} /\ Last(stack) = stack[n] /\ Len(stack') = n /\ stack'[n] = a
  <2>1. stack' = Append(Front(stack), a)
    BY DEF Continue, Pop
  <2>2. stack \in Seq(Activations)
    BY DEF ParseInv, ParseTypeOK
  <2> DEFINE S == Activations \cup {a}
  <2>3. stack \in Seq(S) /\ a \in S
    BY <2>2
  <2> HIDE DEF S, a
  <2>4. Len(Append(Front(stack), a)) = Len(stack) /\ Append(Front(stack), a)[Len(stack)] = a
        /\ Len(stack) \in Nat \ {0}
    BY <2>3, ReplaceSeq, PopSeq
  <2> QED
    BY <2>1, <2>4 DEF Last
<1>2. a.at = place
  <2>1. stack[n] \in Activations
    BY <1>1, ElementOfSeq DEF ParseInv, ParseTypeOK
  <2> QED
    BY <1>1, <2>1 DEF Activations
<1> HIDE DEF a
<1>3. stack' # <<>> /\ Last(stack') = a
  BY <1>1, EmptySeq DEF Last
<1>4. Own(Last(stack))' = IF place = "open" THEN 4 ELSE 1
  BY <1>2, <1>3 DEF Own
<1> QED
  BY <1>1, <1>3, <1>4 DEF Calls

LEMMA CallEnds ==
    ASSUME ParseInv, stack # <<>>, NEW place, NEW child, NEW fn \in {"sexpr", "list"},
           CallFrom(place, child, fn)
    PROVE  Calls' = Len(stack) + 2 + (IF fn = "list" THEN 2 ELSE 0)
<1> DEFINE n == Len(stack)
           a == [Last(stack) EXCEPT !.at = place, !.child = child]
           b == Activation(fn)
<1>1. /\ n \in Nat \ {0} /\ Len(stack') = n + 1 /\ stack'[n + 1] = b
  <2>1. stack' = Front(stack) \o <<a, b>>
    BY DEF CallFrom, Pop
  <2>2. stack \in Seq(Activations)
    BY DEF ParseInv, ParseTypeOK
  <2> DEFINE S == Activations \cup {a, b}
  <2>3. stack \in Seq(S) /\ a \in S /\ b \in S
    BY <2>2
  <2> HIDE DEF S, a, b
  <2>4. Len(Front(stack) \o <<a, b>>) = Len(stack) + 1 /\ (Front(stack) \o <<a, b>>)[Len(stack) + 1] = b
        /\ Len(stack) \in Nat \ {0}
    BY <2>3, CallSeq, PopSeq
  <2> QED
    BY <2>1, <2>4
<1>2. b.at = "start" /\ b.fn = fn
  BY DEF Activation
<1> HIDE DEF a, b
<1>3. stack' # <<>> /\ Last(stack') = b
  BY <1>1, EmptySeq DEF Last
<1>4. Own(Last(stack))' = IF fn = "list" THEN 2 ELSE 0
  BY <1>2, <1>3 DEF Own
<1>5. Calls' = n + 1 + 1 + Own(Last(stack))'
  BY <1>1, <1>3 DEF Calls
<1> HIDE DEF n
<1>6. n + 1 + 1 = n + 2
  BY <1>1
<1> QED
  BY <1>4, <1>5, <1>6 DEF n

LEMMA TailEnds ==
    ASSUME ParseInv, stack # <<>>, stack' = Append(Pop, Activation("sexpr"))
    PROVE  Calls' = Len(stack) + 1
<1> DEFINE n == Len(stack)
           b == Activation("sexpr")
<1>1. b \in Activations /\ b.at = "start" /\ b.fn = "sexpr"
  BY DEF Activation, Activations, Nil
<1> HIDE DEF b
<1>2. n \in Nat \ {0} /\ Len(stack') = n /\ stack'[n] = b
  BY <1>1, ReplaceSeq, PopSeq DEF ParseInv, ParseTypeOK, Pop, b
<1>3. stack' # <<>> /\ Last(stack') = b
  BY <1>2, EmptySeq DEF Last
<1>4. Own(Last(stack))' = 0
  BY <1>1, <1>3 DEF Own
<1> QED
  BY <1>2, <1>3, <1>4 DEF Calls

(* Between two steps of the tokenizer the parser takes the token, or looks *)
(* at it and leaves it for another call.                                   *)
LEMMA ChompTurns ==
    ASSUME Chomp, chomp = "idle", type # "TOK_END"
    PROVE  Ahead' = Ahead /\ Stage = 8 /\ Stage' = 3
BY DEF Chomp, Goto, Ahead, Stage

LEMMA NoChompTurns ==
    ASSUME NoChomp
    PROVE  Ahead' = Ahead /\ Stage' = Stage
BY DEF NoChomp, tokenVars, Ahead, Stage

LEMMA SexprAdvances ==
    ASSUME TokenInv, ParseInv, ElementsAreSexprs, ParseSexpr
    PROVE  Left' < Left
<1> DEFINE n == Len(stack)
<1>0. /\ pc = "parsing" /\ chomp = "idle" /\ stack # <<>> /\ n \in Nat \ {0}
      /\ Last(stack).fn = "sexpr" /\ Calls = n + 1 + Own(Last(stack))
  <2>1. /\ pc = "parsing" /\ chomp = "idle" /\ stack # <<>> /\ Last(stack).fn = "sexpr"
    BY DEF ParseSexpr, SexprEnd, SexprAtom, SexprOpen, SexprUnexpected, SexprEmpty, SexprOpenError,
           SexprList, SexprClose, SexprCloseError, At, Running
  <2> QED
    BY <2>1, PopSeq DEF Calls, ParseInv, ParseTypeOK
<1>1. /\ Last(stack).at = "start" => Calls = n + 1
      /\ Last(stack).at = "open" => Calls = n + 5
      /\ Last(stack).at = "close" => Calls = n + 1
  <2>1. /\ Last(stack).at = "start" => Own(Last(stack)) = 0
        /\ Last(stack).at = "open" => Own(Last(stack)) = 4
        /\ Last(stack).at = "close" => Own(Last(stack)) = 0
    BY <1>0 DEF Own
  <2> QED
    BY <1>0, <2>1
<1>2. ASSUME NEW st, NEW r, Return(st, r), pc' \in {"parsing", "crashed"}
      PROVE  Calls' <= n + (IF st = "PARSE_OK" THEN 4 ELSE 0)
  BY <1>0, <1>2, ReturnEnds
<1>3. Ahead \in Nat /\ Stage \in 0..9 /\ Calls \in Nat
  BY NumbersFit
<1>4. Ahead' \in Nat /\ Stage' \in 0..9 /\ Calls' \in Nat
  <2>1. TokenInv' /\ ParseInv'
    BY SexprKeeps, ReaderTypes DEF Next, Step
  <2>2. (TokenInv /\ ParseInv => Ahead \in Nat /\ Stage \in 0..9 /\ Calls \in Nat)'
    BY NumbersFit, PTL
  <2> QED
    BY <2>1, <2>2
<1> HIDE DEF n
<1>5. CASE \/ SexprEnd \/ SexprUnexpected \/ SexprOpenError \/ SexprCloseError
  <2>1. NoChomp /\ pc' \in {"parsing", "crashed"} /\ \E st, r : Return(st, r) /\ st # "PARSE_OK"
    BY <1>0, <1>5 DEF SexprEnd, SexprUnexpected, SexprOpenError, SexprCloseError, DropRootAndReturn
  <2>2. Calls' <= n
    <3>1. PICK st, r : Return(st, r) /\ st # "PARSE_OK"
      BY <2>1
    <3>2. Calls' <= n + (IF st = "PARSE_OK" THEN 4 ELSE 0)
      BY <1>2, <2>1, <3>1
    <3> QED
      BY <1>0, <1>4, <3>1, <3>2
  <2>3. Calls \in {n + 1, n + 5}
    BY <1>1, <1>5 DEF SexprEnd, SexprUnexpected, SexprOpenError, SexprCloseError, At
  <2> QED
    BY <1>0, <1>3, <1>4, <2>1, <2>2, <2>3, NoChompTurns DEF Left
<1>6. CASE \/ SexprAtom \/ SexprEmpty \/ SexprClose
  <2>1. Chomp /\ type # "TOK_END" /\ pc' = "parsing" /\ \E st, r : Return(st, r)
    BY <1>0, <1>6 DEF SexprAtom, SexprEmpty, SexprClose
  <2>2. Calls' <= n + 4
    BY <1>0, <1>2, <1>4, <2>1
  <2>3. Calls \in {n + 1, n + 5}
    BY <1>1, <1>6 DEF SexprAtom, SexprEmpty, SexprClose, At
  <2> QED
    BY <1>0, <1>3, <1>4, <2>1, <2>2, <2>3, ChompTurns DEF Left
<1>7. CASE SexprOpen
  <2>1. Chomp /\ type # "TOK_END" /\ Continue("open") /\ Last(stack).at = "start"
    BY <1>7 DEF SexprOpen, At
  <2>2. Calls' = n + 5
    BY <1>0, <2>1, ContinueEnds DEF n
  <2> QED
    BY <1>0, <1>1, <1>3, <2>1, <2>2, ChompTurns DEF Left
<1>8. CASE SexprList
  <2>1. NoChomp /\ CallFrom("close", Nil, "list") /\ Last(stack).at = "open"
    BY <1>8 DEF SexprList, At
  <2>2. Calls' = n + 4
    BY <1>0, <2>1, CallEnds DEF n
  <2> QED
    BY <1>0, <1>1, <1>3, <2>1, <2>2, NoChompTurns DEF Left
<1> QED
  BY <1>5, <1>6, <1>7, <1>8 DEF ParseSexpr

LEMMA ListAdvances ==
    ASSUME TokenInv, ParseInv, ElementsAreSexprs, ParseList
    PROVE  Left' < Left
<1> DEFINE n == Len(stack)
<1>0. /\ pc = "parsing" /\ chomp = "idle" /\ stack # <<>> /\ n \in Nat \ {0}
      /\ Last(stack).fn = "list" /\ Calls = n + 1 + Own(Last(stack))
  <2>1. /\ pc = "parsing" /\ chomp = "idle" /\ stack # <<>> /\ Last(stack).fn = "list"
    BY DEF ParseList, ListEnd, ListDot, ListDotError, ListTail, ListElement, ListRest, ListCons,
           ListRestError, At, Running
  <2> QED
    BY <2>1, PopSeq DEF Calls, ParseInv, ParseTypeOK
<1>1. /\ Last(stack).at = "start" => Calls = n + 3
      /\ Last(stack).at = "dot" => Calls = n + 2
      /\ Last(stack).at = "element" => Calls = n + 1 + (IF back.status = "PARSE_OK" THEN 4 ELSE 0)
      /\ Calls >= n + 1
  <2>1. /\ Last(stack).at = "start" => Own(Last(stack)) = 2
        /\ Last(stack).at = "dot" => Own(Last(stack)) = 1
        /\ Last(stack).at = "element" => Own(Last(stack)) = IF back.status = "PARSE_OK" THEN 4 ELSE 0
        /\ Own(Last(stack)) \in Nat
    BY <1>0 DEF Own
  <2> QED
    BY <1>0, <2>1
<1>2. ASSUME NEW st, NEW r, Return(st, r), pc' \in {"parsing", "crashed"}
      PROVE  Calls' <= n + 0
  BY <1>0, <1>2, ReturnEnds
<1>3. Ahead \in Nat /\ Stage \in 0..9 /\ Calls \in Nat
  BY NumbersFit
<1>4. Ahead' \in Nat /\ Stage' \in 0..9 /\ Calls' \in Nat
  <2>1. TokenInv' /\ ParseInv'
    BY ListKeeps, ReaderTypes DEF Next, Step
  <2>2. (TokenInv /\ ParseInv => Ahead \in Nat /\ Stage \in 0..9 /\ Calls \in Nat)'
    BY NumbersFit, PTL
  <2> QED
    BY <2>1, <2>2
<1> HIDE DEF n
<1>5. CASE \/ ListEnd \/ ListDotError \/ ListCons \/ ListRestError \/ (ListRest /\ back.status # "PARSE_OK")
  <2>1. NoChomp /\ pc' \in {"parsing", "crashed"} /\ \E st, r : Return(st, r)
    BY <1>0, <1>5 DEF ListEnd, ListDotError, ListCons, ListRestError, ListRest, DropRootAndReturn
  <2>2. Calls' <= n
    BY <1>0, <1>2, <2>1
  <2> QED
    BY <1>0, <1>1, <1>3, <1>4, <2>1, <2>2, NoChompTurns DEF Left
<1>6. CASE ListDot
  <2>1. Chomp /\ type # "TOK_END" /\ Continue("dot") /\ Last(stack).at = "start"
    BY <1>6 DEF ListDot, At
  <2>2. Calls' = n + 2
    BY <1>0, <2>1, ContinueEnds DEF n
  <2> QED
    BY <1>0, <1>1, <1>3, <2>1, <2>2, ChompTurns DEF Left
<1>7. CASE ListTail
  <2>1. NoChomp /\ Last(stack).at = "dot" /\ stack' = Append(Pop, Activation("sexpr"))
    BY <1>7 DEF ListTail, At
  <2>2. Calls' = n + 1
    BY <1>0, <2>1, TailEnds DEF n
  <2> QED
    BY <1>0, <1>1, <1>3, <2>1, <2>2, NoChompTurns DEF Left
<1>8. CASE ListElement
  <2>1. NoChomp /\ Last(stack).at = "start" /\ CallFrom("element", Nil, "sexpr")
    BY <1>8 DEF ListElement, At
  <2>2. Calls' = n + 2
    BY <1>0, <2>1, CallEnds DEF n
  <2> QED
    BY <1>0, <1>1, <1>3, <2>1, <2>2, NoChompTurns DEF Left
<1>9. CASE ListRest /\ back.status = "PARSE_OK"
  <2>1. NoChomp /\ Last(stack).at = "element" /\ CallFrom("rest", back.result, "list")
    BY <1>9 DEF ListRest, At
  <2>2. Calls' = n + 4
    BY <1>0, <2>1, CallEnds DEF n
  <2>3. Calls = n + 5
    BY <1>0, <1>1, <1>9, <2>1
  <2> QED
    BY <1>0, <1>3, <2>1, <2>2, <2>3, NoChompTurns DEF Left
<1> QED
  BY <1>5, <1>6, <1>7, <1>8, <1>9 DEF ParseList

LEMMA LoopAdvances ==
    ASSUME TokenInv, ParseInv, ReadyIsIdle, ParseCall \/ ParseReturn
    PROVE  Left' < Left
<1>1. Ahead \in Nat /\ Stage \in 0..9
  BY NumbersFit
<1>2. CASE ParseCall
  <2>1. Calls = 3
    BY <1>2 DEF ParseCall, ParseInv, ResultIsAwaited, Calls
  <2>2. Calls' = 2
    <3>1. stack' = <<Activation("sexpr")>>
      BY <1>2 DEF ParseCall
    <3>2. stack' # <<>> /\ Len(stack') = 1 /\ Last(stack') = Activation("sexpr")
      BY <3>1 DEF Last
    <3>3. Own(Last(stack))' = 0
      BY <3>2 DEF Own, Activation
    <3> QED
      BY <3>2, <3>3 DEF Calls
  <2>3. Ahead' = Ahead /\ Stage' \in 0..9 /\ Stage' <= Stage
    <3>1. CASE NoChomp
      BY <1>1, <3>1, NoChompTurns
    <3>2. CASE Chomp /\ type = "TOK_INIT"
      <4>1. chomp = "idle"
        BY <1>2 DEF ParseCall, ReadyIsIdle
      <4> QED
        BY <3>2, <4>1, ChompTurns
    <3> QED
      BY <1>2, <3>1, <3>2 DEF ParseCall
  <2>4. Left = 10 * Ahead + Stage + 3 /\ Left' = 10 * Ahead + Stage' + 2
    BY <2>1, <2>2, <2>3 DEF Left
  <2>5. \A a, s, t \in Nat : t <= s => 10 * a + t + 2 < 10 * a + s + 3
    OBVIOUS
  <2>6. Stage \in Nat /\ Stage' \in Nat /\ Ahead \in Nat /\ Stage' <= Stage
    BY <1>1, <2>3
  <2>7. 10 * Ahead + Stage' + 2 < 10 * Ahead + Stage + 3
    BY <2>5, <2>6
  <2> QED
    BY <2>4, <2>7
<1>3. CASE ParseReturn
  <2>1. Ahead' = Ahead /\ Stage' = Stage
    BY <1>3 DEF ParseReturn, tokenVars, Ahead, Stage
  <2>2. /\ Calls = IF back.status = "PARSE_OK" THEN 4 ELSE 1
        /\ Calls' = IF back.status = "PARSE_OK" THEN 3 ELSE 0
    BY <1>3 DEF ParseReturn, Running, Calls
  <2> QED
    BY <1>1, <2>1, <2>2 DEF Left
<1> QED
  BY <1>2, <1>3

(* What the progress rests on, step by step.                               *)
LEMMA TokensStart ==
    ASSUME ReadInv, TokenInv, TokenChomp
    PROVE  InStringLooksAhead' /\ AtomStarts'
<1>1. CASE Prime
  BY <1>1 DEF Prime, Goto, Stay, InStringLooksAhead, AtomStarts
<1>2. CASE Skip
  BY <1>2 DEF Skip, InStringLooksAhead, AtomStarts
<1>3. CASE AtomStart
  <2>1. /\ chomp' = "atom" /\ nextch' = nextch /\ ~IsSpace(nextch)
        /\ nextch \notin {EOF, StringQuote, Open, Close, Dot}
    BY <1>3 DEF AtomStart, Goto, Stay, Skipped
  <2>2. IsAtomChar(nextch) \/ nextch = Apostrophe
    BY <2>1 DEF IsAtomChar
  <2> QED
    BY <2>1, <2>2 DEF InStringLooksAhead, AtomStarts
<1>4. CASE AtomChar
  <2>1. sym' # <<>> /\ chomp' = "atom"
    BY <1>4 DEF AtomChar, TokenInv, TokenTypeOK
  <2> QED
    BY <2>1 DEF InStringLooksAhead, AtomStarts
<1>5. CASE AtomDiscard
  <2>1. sym # <<>>
    BY <1>5, MaxSymLenAssumption DEF AtomDiscard
  <2>2. sym' # <<>> /\ chomp' = "atom"
    BY <1>5, <2>1 DEF AtomDiscard
  <2> QED
    BY <2>2 DEF InStringLooksAhead, AtomStarts
<1>6. CASE \/ StringEnd \/ StringChar \/ StringEscape \/ EscapeChar \/ EscapeOctal
           \/ OctalDigit \/ OctalEnd \/ Punctuation \/ AtomEnd
  <2>1. chomp' \in {"idle", "escape", "octal"}
    BY <1>6 DEF StringEnd, StringChar, StringEscape, EscapeChar, EscapeOctal, OctalDigit, OctalEnd,
           Punctuation, AtomEnd, Finish, Goto
  <2> QED
    BY <2>1 DEF InStringLooksAhead, AtomStarts
<1> QED
  BY <1>1, <1>2, <1>3, <1>4, <1>5, <1>6 DEF TokenChomp

LEMMA ParserStarts ==
    ASSUME ReadInv, Chomp \/ NoChomp
    PROVE  InStringLooksAhead' /\ AtomStarts'
<1>1. CASE Chomp
  BY <1>1 DEF Chomp, Goto, InStringLooksAhead, AtomStarts
<1>2. CASE NoChomp
  <2>1. chomp' = chomp /\ in_string' = in_string /\ nextch' = nextch /\ sym' = sym
    BY <1>2 DEF NoChomp, tokenVars
  <2> QED
    BY <2>1 DEF ReadInv, InStringLooksAhead, AtomStarts
<1> QED
  BY <1>1, <1>2

(* The activations below the top stay as they are; an element is called    *)
(* for as one.                                                             *)
LEMMA SameBelow ==
    ASSUME ElementsAreSexprs, ParseInv, stack # <<>>,
           Len(stack') \in Nat, DOMAIN stack' = 1..Len(stack'), Len(stack') <= Len(stack) + 1,
           \A i \in 1..Len(stack) - 1 : i <= Len(stack') => stack'[i] = stack[i],
           Len(stack') >= Len(stack) => stack'[Len(stack)].fn = Last(stack).fn \/ stack'[Len(stack)].fn = "sexpr",
           Len(stack') > Len(stack) /\ stack'[Len(stack)].at = "element"
               => stack'[Len(stack) + 1].fn = "sexpr"
    PROVE  ElementsAreSexprs'
<1> DEFINE n == Len(stack)
<1>1. n \in Nat \ {0} /\ DOMAIN stack = 1..n /\ Last(stack) = stack[n]
  BY PopSeq DEF ParseInv, ParseTypeOK, Last
<1> SUFFICES ASSUME NEW i \in DOMAIN stack', i > 1, stack'[i - 1].at = "element"
             PROVE  stack'[i].fn = "sexpr"
  BY DEF ElementsAreSexprs
<1>2. i \in 1..n + 1
  BY <1>1
<1>3. CASE i < n
  <2>1. stack'[i] = stack[i] /\ stack'[i - 1] = stack[i - 1] /\ i \in DOMAIN stack
    BY <1>1, <1>3
  <2> QED
    BY <2>1 DEF ElementsAreSexprs
<1>4. CASE i = n
  <2>1. stack'[i - 1] = stack[i - 1] /\ i \in DOMAIN stack
    BY <1>1, <1>4
  <2>2. stack[i].fn = "sexpr"
    BY <2>1 DEF ElementsAreSexprs
  <2> QED
    BY <1>1, <1>4, <2>2
<1>5. CASE i = n + 1
  BY <1>1, <1>5
<1> QED
  BY <1>1, <1>2, <1>3, <1>4, <1>5

LEMMA StackMoves ==
    ASSUME ElementsAreSexprs, ParseInv, stack # <<>>, NEW st, NEW r, NEW place,
           \/ Return(st, r) \/ Continue(place)
           \/ stack' = Append(Pop, Activation("sexpr"))
    PROVE  ElementsAreSexprs'
<1> DEFINE n == Len(stack)
           l == Last(stack)
<1>1. n \in Nat \ {0} /\ stack \in Seq(Activations) /\ l \in Activations
  BY PopSeq, ElementOfSeq DEF ParseInv, ParseTypeOK, Last
<1>2. CASE Return(st, r)
  <2>1. /\ Len(stack') = n - 1 /\ stack' \in Seq(Activations)
        /\ \A i \in 1..n - 1 : stack'[i] = stack[i]
    BY <1>1, <1>2, PopSeq DEF Return, Pop
  <2> HIDE DEF l
  <2> QED
    BY <1>1, <2>1, SameBelow
<1>3. ASSUME NEW a, stack' = Append(Front(stack), a), a.fn = l.fn \/ a.fn = "sexpr"
      PROVE  ElementsAreSexprs'
  <2> DEFINE S == Activations \cup {a}
  <2>1. stack \in Seq(S) /\ a \in S
    BY <1>1
  <2> HIDE DEF S, l
  <2>2. /\ Append(Front(stack), a) \in Seq(S)
        /\ Len(Append(Front(stack), a)) = Len(stack)
        /\ \A i \in 1..Len(stack) - 1 : Append(Front(stack), a)[i] = stack[i]
        /\ Append(Front(stack), a)[Len(stack)] = a
    BY <2>1, ReplaceSeq
  <2>3. /\ Len(stack') = n /\ stack' \in Seq(S) /\ stack'[n] = a
        /\ \A i \in 1..n - 1 : stack'[i] = stack[i]
    BY <1>3, <2>2
  <2>4. stack'[n].fn = Last(stack).fn \/ stack'[n].fn = "sexpr"
    BY <1>3, <2>3 DEF l
  <2> QED
    BY <1>1, <2>3, <2>4, SameBelow
<1>4. CASE Continue(place)
  <2> DEFINE a == [l EXCEPT !.at = place]
  <2>1. stack' = Append(Front(stack), a) /\ a.fn = l.fn
    BY <1>1, <1>4 DEF Continue, Pop, Activations
  <2> HIDE DEF a, l
  <2> QED
    BY <1>3, <2>1
<1>5. CASE stack' = Append(Pop, Activation("sexpr"))
  <2>1. stack' = Append(Front(stack), Activation("sexpr")) /\ Activation("sexpr").fn = "sexpr"
    BY <1>5 DEF Pop, Activation
  <2> HIDE DEF l
  <2> QED
    BY <1>3, <2>1
<1> QED
  BY <1>2, <1>4, <1>5

LEMMA CallMoves ==
    ASSUME ElementsAreSexprs, ParseInv, stack # <<>>, NEW place, NEW child, NEW fn \in {"sexpr", "list"},
           CallFrom(place, child, fn), place # "element" \/ fn = "sexpr"
    PROVE  ElementsAreSexprs'
<1> DEFINE n == Len(stack)
           l == Last(stack)
<1>0. n \in Nat \ {0} /\ stack \in Seq(Activations) /\ l \in Activations
  BY PopSeq, ElementOfSeq DEF ParseInv, ParseTypeOK, Last
<1> DEFINE a == [l EXCEPT !.at = place, !.child = child]
           b == Activation(fn)
           S == Activations \cup {a, b}
<1>1. stack' = Front(stack) \o <<a, b>>
  BY DEF CallFrom, Pop
<1>2. a.fn = l.fn /\ a.at = place /\ b.fn = fn
  BY <1>0 DEF Activation, Activations
<1>3. stack \in Seq(S) /\ a \in S /\ b \in S
  BY <1>0
<1> HIDE DEF S, a, b, l
<1>4. /\ Len(stack') = n + 1 /\ stack' \in Seq(S) /\ stack'[n] = a /\ stack'[n + 1] = b
      /\ \A i \in 1..n - 1 : stack'[i] = stack[i]
  BY <1>0, <1>1, <1>3, CallSeq
<1>5. stack'[n].fn = Last(stack).fn
  BY <1>2, <1>4 DEF l
<1> QED
  BY <1>0, <1>2, <1>4, <1>5, SameBelow

LEMMA ReadKeeps ==
    ASSUME TokenInv, ParseInv, ReadInv, [Next]_vars
    PROVE  ReadInv'
<1>1. CASE ParseSexpr
  <2>1. (Chomp \/ NoChomp) /\ stack # <<>> /\ pc = "parsing" /\ chomp = "idle"
    BY <1>1 DEF ParseSexpr, SexprEnd, SexprAtom, SexprOpen, SexprUnexpected, SexprEmpty, SexprOpenError,
                SexprList, SexprClose, SexprCloseError, At, Running
  <2>2. \E st, r : Return(st, r) \/ Continue("open") \/ CallFrom("close", Nil, "list")
    BY <1>1 DEF ParseSexpr, SexprEnd, SexprAtom, SexprOpen, SexprUnexpected, SexprEmpty, SexprOpenError,
                SexprList, SexprClose, SexprCloseError, DropRootAndReturn
  <2>3. ElementsAreSexprs'
    <3>1. CASE Continue("open")
      BY <2>1, <3>1, StackMoves DEF ReadInv
    <3>2. CASE CallFrom("close", Nil, "list")
      BY <2>1, <3>2, CallMoves DEF ReadInv
    <3>3. ASSUME NEW st, NEW r, Return(st, r) PROVE ElementsAreSexprs'
      BY <2>1, <3>3, StackMoves DEF ReadInv
    <3> QED
      BY <2>2, <3>1, <3>2, <3>3
  <2>4. ReadyIsIdle'
    <3>1. \/ NoChomp
          \/ pc' = pc
      BY <1>1 DEF ParseSexpr, SexprEnd, SexprAtom, SexprOpen, SexprUnexpected, SexprEmpty, SexprOpenError,
                  SexprList, SexprClose, SexprCloseError
    <3> QED
      BY <2>1, <3>1 DEF NoChomp, tokenVars, ReadyIsIdle
  <2> QED
    BY <2>1, <2>3, <2>4, ParserStarts DEF ReadInv
<1>2. CASE ParseList
  <2>1. (Chomp \/ NoChomp) /\ stack # <<>> /\ pc = "parsing" /\ chomp = "idle"
    BY <1>2 DEF ParseList, ListEnd, ListDot, ListDotError, ListTail, ListElement, ListRest, ListCons,
                ListRestError, At, Running
  <2>2. \E st, r : \/ Return(st, r) \/ Continue("dot") \/ CallFrom("element", Nil, "sexpr")
                   \/ CallFrom("rest", r, "list") \/ stack' = Append(Pop, Activation("sexpr"))
    BY <1>2 DEF ParseList, ListEnd, ListDot, ListDotError, ListTail, ListElement, ListRest, ListCons,
                ListRestError, DropRootAndReturn
  <2>3. ElementsAreSexprs'
    <3>1. CASE Continue("dot") \/ stack' = Append(Pop, Activation("sexpr"))
      BY <2>1, <3>1, StackMoves DEF ReadInv
    <3>2. CASE CallFrom("element", Nil, "sexpr")
      BY <2>1, <3>2, CallMoves DEF ReadInv
    <3>3. ASSUME NEW st, NEW r, Return(st, r) PROVE ElementsAreSexprs'
      BY <2>1, <3>3, StackMoves DEF ReadInv
    <3>4. ASSUME NEW r, CallFrom("rest", r, "list") PROVE ElementsAreSexprs'
      BY <2>1, <3>4, CallMoves DEF ReadInv
    <3> QED
      BY <2>2, <3>1, <3>2, <3>3, <3>4
  <2>4. ReadyIsIdle'
    <3>1. NoChomp \/ pc' = pc
      BY <1>2 DEF ParseList, ListEnd, ListDot, ListDotError, ListTail, ListElement, ListRest, ListCons,
                  ListRestError
    <3> QED
      BY <2>1, <3>1 DEF NoChomp, tokenVars, ReadyIsIdle
  <2> QED
    BY <2>1, <2>3, <2>4, ParserStarts DEF ReadInv
<1>3. CASE ParseCall
  <2>1. stack' = <<Activation("sexpr")>> /\ pc' = "parsing" /\ (Chomp \/ NoChomp)
    BY <1>3 DEF ParseCall
  <2>2. ElementsAreSexprs' /\ ReadyIsIdle'
    BY <2>1 DEF ElementsAreSexprs, ReadyIsIdle
  <2> QED
    BY <2>1, <2>2, ParserStarts DEF ReadInv
<1>4. CASE ParseReturn
  <2>1. stack' = stack /\ chomp' = "idle" /\ NoChomp
    BY <1>4 DEF ParseReturn, Running, NoChomp, tokenVars
  <2>2. ElementsAreSexprs' /\ ReadyIsIdle'
    BY <2>1 DEF ReadInv, ElementsAreSexprs, ReadyIsIdle
  <2> QED
    BY <2>1, <2>2, ParserStarts DEF ReadInv
<1>5. CASE Tokenizer
  <2>1. stack' = stack /\ pc' = pc /\ chomp # "idle"
    BY <1>5 DEF Tokenizer, parseVars, TokenChomp, Prime, StringEnd, StringChar, StringEscape, EscapeChar,
                EscapeOctal, OctalDigit, OctalEnd, Skip, Punctuation, AtomStart, AtomChar, AtomDiscard, AtomEnd
  <2>2. ElementsAreSexprs' /\ ReadyIsIdle'
    BY <2>1 DEF ReadInv, ElementsAreSexprs, ReadyIsIdle
  <2> QED
    BY <1>5, <2>2, TokensStart DEF ReadInv, Tokenizer
<1>6. CASE UNCHANGED vars
  <2>1. NoChomp /\ stack' = stack /\ pc' = pc /\ chomp' = chomp
    BY <1>6 DEF vars, NoChomp, tokenVars, parseVars
  <2>2. ElementsAreSexprs' /\ ReadyIsIdle'
    BY <2>1 DEF ReadInv, ElementsAreSexprs, ReadyIsIdle
  <2> QED
    BY <2>1, <2>2, ParserStarts DEF ReadInv
<1> QED
  BY <1>1, <1>2, <1>3, <1>4, <1>5, <1>6 DEF Next, Step, Stopped

LEMMA ReadStarts == Init => ReadInv
<1> SUFFICES ASSUME Init PROVE ReadInv
  OBVIOUS
<1>1. chomp = "idle" /\ stack = <<>>
  BY Zenon DEF Init, TokenInit
<1> QED
  BY <1>1 DEF ReadInv, InStringLooksAhead, AtomStarts, ElementsAreSexprs, ReadyIsIdle

(* A character that is read outweighs the token that it starts.            *)
LEMMA LessIsLeft ==
    ASSUME NEW a \in Nat, NEW b \in Nat, NEW s \in 0..9, NEW t \in 0..9, NEW c \in Nat,
           (b < a /\ t <= s + 8) \/ (b <= a /\ t < s)
    PROVE  10 * b + t + c < 10 * a + s + c
OBVIOUS

(* Only where the text cuts off what is read can a step change nothing.    *)
LEMMA StepAdvances ==
    ASSUME TokenInv, ParseInv, ReadInv, Step, ~AtQuote
    PROVE  Left' < Left \/ (CutOff /\ UNCHANGED vars)
<1>1. CASE Tokenizer
  <2>1. TokenChomp /\ Calls' = Calls
    BY <1>1 DEF Tokenizer, parseVars, Calls, Own
  <2>2. \/ Ahead' < Ahead /\ Stage' <= Stage + 8
        \/ Ahead' <= Ahead /\ Stage' < Stage
        \/ CutOff /\ UNCHANGED tokenVars
    BY <2>1, TokenizerTurns DEF ReadInv
  <2>3. CASE CutOff /\ UNCHANGED tokenVars
    BY <1>1, <2>3 DEF Tokenizer, vars
  <2>4. CASE ~(CutOff /\ UNCHANGED tokenVars)
    <3>1. Ahead \in Nat /\ Stage \in 0..9 /\ Calls \in Nat
      BY NumbersFit
    <3>2. Ahead' \in Nat /\ Stage' \in 0..9
      <4>1. TokenInv' /\ ParseInv'
        BY <1>1, TokenizerKeeps, ReaderTypes DEF Next, Step
      <4>2. (TokenInv /\ ParseInv => Ahead \in Nat /\ Stage \in 0..9 /\ Calls \in Nat)'
        BY NumbersFit, PTL
      <4> QED
        BY <4>1, <4>2
    <3>3. \/ Ahead' < Ahead /\ Stage' <= Stage + 8
          \/ Ahead' <= Ahead /\ Stage' < Stage
      BY <2>2, <2>4, Zenon
    <3>4. Left' = 10 * Ahead' + Stage' + Calls /\ Left = 10 * Ahead + Stage + Calls
      BY <2>1 DEF Left
    <3>5. 10 * Ahead' + Stage' + Calls < 10 * Ahead + Stage + Calls
      BY <3>1, <3>2, <3>3, LessIsLeft
    <3> QED
      BY <3>4, <3>5
  <2> QED
    BY <2>3, <2>4
<1>2. CASE ParseSexpr
  BY <1>2, SexprAdvances DEF ReadInv
<1>3. CASE ParseList
  BY <1>3, ListAdvances DEF ReadInv
<1>4. CASE ParseCall \/ ParseReturn
  BY <1>4, LoopAdvances DEF ReadInv
<1> QED
  BY <1>1, <1>2, <1>3, <1>4 DEF Step

(* Reading advances (token.c:78-203, parse.c:92-164): what is left to do   *)
(* is at first a number that goes with the length of the text, and every   *)
(* step that changes anything leaves less, as long as no ' is met outside  *)
(* a string.                                                               *)
THEOREM ReaderAdvances ==
    Spec => Left = 20 * Len(text) + 11 /\ [](Left \in Nat) /\ ReadingAdvances
<1>0. Init => Left = 20 * Len(text) + 11
  <2> SUFFICES ASSUME Init PROVE Left = 20 * Len(text) + 11
    OBVIOUS
  <2>1. Len(text) \in Nat
    BY InitTyped DEF TokenInv
  <2>2. /\ stack = <<>> /\ pc = "ready" /\ chomp = "idle" /\ type = "TOK_INIT"
        /\ off = 0 /\ nextch = EOF
    BY Zenon DEF Init, TokenInit
  <2>3. Ahead = 2 * Len(text) /\ Stage = 8 /\ Calls = 3
    BY <2>1, <2>2 DEF Ahead, Stage, Calls
  <2> QED
    BY <2>1, <2>3 DEF Left
<1>1. Init => TokenInv
  BY InitTyped
<1>2. TokenInv /\ [Next]_vars => TokenInv'
  BY ReaderTypes
<1>3. TokenInv /\ ParseInv /\ ReadInv /\ [Next]_vars => ReadInv'
  BY ReadKeeps
<1>4. TokenInv /\ ParseInv => Left \in Nat
  <2> SUFFICES ASSUME TokenInv, ParseInv PROVE Left \in Nat
    OBVIOUS
  <2>1. Ahead \in Nat /\ Stage \in 0..9 /\ Calls \in Nat
    BY NumbersFit
  <2> QED
    BY <2>1 DEF Left
<1>5. TokenInv /\ ParseInv /\ ReadInv /\ [Next]_vars => [~AtQuote => Left' < Left]_vars
  BY StepAdvances DEF Next, Stopped
<1> QED
  BY <1>0, <1>1, <1>2, <1>3, <1>4, <1>5, ReadStarts, ParserConsistent, PTL DEF Spec, ReadingAdvances
=============================================================================
