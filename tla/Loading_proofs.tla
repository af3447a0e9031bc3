--------------------------- MODULE Loading_proofs ---------------------------
(***************************************************************************)
(* What paren gives back when files load files, and what becomes of their  *)
(* errors: for every set of descriptors and every depth.                   *)
(***************************************************************************)
EXTENDS Loading, FiniteSetTheorems, SequenceTheorems, TLAPS

(* The calls that hold handles, and the calls whose eval links env_handle. *)
Loaded == {i \in 1..Depth : stack[i].handles}
Links(a) == a.env = "main" /\ a.pc = "eval"
Linking == {i \in 1..Depth : Links(stack[i])}
One(b) == IF b THEN 1 ELSE 0

(* Only the innermost call is not waiting for its eval.                    *)
CallsNest ==
    /\ phase = "eval" => stack # <<>>
    /\ phase \notin {"eval", "crashed", "undefined"} => stack = <<>>
    /\ stack # <<>> => stack[1].env = "main"
    /\ \A i \in 1..Depth : i # Depth => stack[i].pc = "eval"

(* A call has a file from map_file to its end, and nobody else has it.     *)
FilesHeld ==
    /\ \A i \in 1..Depth :
         /\ stack[i].pc \in {"read", "eval"} => stack[i].handles
         /\ stack[i].pc = "path" => stack[i].fd = Unset /\ ~stack[i].handles
         /\ stack[i].handles => stack[i].fd \in Fd
    /\ \A fd \in Fd : fd \in descriptors <=> \E i \in 1..Depth : stack[i].fd = fd
    /\ \A fd \in Fd : fd \in mappings <=> \E i \in 1..Depth : stack[i].handles /\ stack[i].fd = fd
    /\ \A i, j \in 1..Depth : stack[i].fd = stack[j].fd /\ stack[i].fd \in Fd => i = j

(* An error is at the top of the stack, or has come out of it.             *)
ErrorsRise ==
    /\ \A i \in 1..Depth : stack[i].stat = "error" => stack[i].pc = "cleanup"
    /\ phase = "start" => ~failed
    /\ phase \in {"start", "eval"} => status = "OK"
    /\ phase = "eval" => (failed <=> Top.stat = "error")
    /\ phase \in {"returned", "cleanup", "checked", "exited"} => (failed <=> status = "error")

(* The links to the environment are those of main's eval and of the evals  *)
(* under way, and one more if eval has left early.                         *)
EnvIsLinked ==
    LET linked == Cardinality(Linking) + One(phase \in {"eval", "returned"})
    IN  /\ phase = "start" => ~env.made /\ ~env.locked /\ ~env.freed
        /\ phase \in {"eval", "returned"} => env.made
        /\ phase \in {"returned", "cleanup"} => ~env.locked
        /\ env.refcount >= linked
        /\ ~abandoned /\ phase \notin {"crashed", "undefined"} => env.refcount = linked

Locked ==
    2 * Cardinality(Loaded)
    + (IF phase \in {"eval", "returned", "crashed", "undefined"} /\ env.made THEN 2 ELSE 0)
    + (IF abandoned THEN 10 ELSE 0)

LoadingInv ==
    /\ TypeOK
    /\ CallsNest
    /\ FilesHeld
    /\ ErrorsRise
    /\ EnvIsLinked
    /\ locks = Locked
    /\ EnvironmentStaysAlive
    /\ LeakCheckFindsLeaks

-----------------------------------------------------------------------------
(* Changing whether k is in a set of calls changes its size by one at most. *)
LEMMA CountAt ==
    ASSUME NEW n \in Nat, NEW S \in SUBSET (1..n), NEW T, NEW k, T \ {k} = S \ {k}
    PROVE  /\ Cardinality(S) \in Nat /\ Cardinality(T) \in Nat
           /\ Cardinality(T) = Cardinality(S) + One(k \in T) - One(k \in S)
<1>1. IsFiniteSet(S)
  <2>1. IsFiniteSet(1..n)
    BY FS_Interval
  <2> QED
    BY <2>1, FS_Subset
<1> DEFINE R == S \ {k}
<1>2. IsFiniteSet(R) /\ Cardinality(R) = Cardinality(S) - One(k \in S)
  BY <1>1, FS_RemoveElement, FS_CardinalityType DEF One
<1>3. R = T \ {k}
  OBVIOUS
<1> HIDE DEF R
<1>4. T = IF k \in T THEN R \cup {k} ELSE R
  BY <1>3
<1>5. k \notin R
  BY <1>3
<1>6. IsFiniteSet(T) /\ Cardinality(T) = Cardinality(R) + One(k \in T)
  <2>1. IsFiniteSet(R \cup {k}) /\ Cardinality(R \cup {k}) = Cardinality(R) + 1
    BY <1>2, <1>5, FS_AddElement
  <2>2. Cardinality(R) \in Nat
    BY <1>2, FS_CardinalityType
  <2>3. CASE k \in T
    BY <1>4, <2>1, <2>3 DEF One
  <2>4. CASE k \notin T
    BY <1>2, <1>4, <2>2, <2>4 DEF One
  <2> QED
    BY <2>3, <2>4
<1> QED
  BY <1>1, <1>2, <1>6, FS_CardinalityType DEF One

(* The same when n + 1 is taken out besides.                               *)
LEMMA CountBelow ==
    ASSUME NEW n \in Nat, NEW S \in SUBSET (1..n + 1), NEW T, T \ {n} = S \ {n, n + 1}, n + 1 \notin T
    PROVE  Cardinality(T) = Cardinality(S) - One(n + 1 \in S) + One(n \in T) - One(n \in S)
<1> DEFINE m == n + 1
           R == S \ {m}
<1>1. /\ m \in Nat /\ S \in SUBSET (1..m)
      /\ R \in SUBSET (1..m) /\ R \ {m} = S \ {m} /\ m \notin R
      /\ T \ {n} = R \ {n}
      /\ n \in R <=> n \in S
  OBVIOUS
<1> HIDE DEF m, R
<1>2. /\ Cardinality(S) \in Nat /\ Cardinality(R) \in Nat
      /\ Cardinality(R) = Cardinality(S) + One(m \in R) - One(m \in S)
  BY <1>1, CountAt
<1>3. /\ Cardinality(R) \in Nat /\ Cardinality(T) \in Nat
      /\ Cardinality(T) = Cardinality(R) + One(n \in T) - One(n \in R)
  <2>1. m \in Nat /\ R \in SUBSET (1..m) /\ T \ {n} = R \ {n}
    BY <1>1
  <2> QED
    BY <2>1, CountAt
<1>4. Cardinality(T) = Cardinality(S) - One(m \in S) + One(n \in T) - One(n \in S)
  BY <1>1, <1>2, <1>3 DEF One
<1> QED
  BY <1>4 DEF m

(* Both sets of calls are finite.                                          *)
LEMMA Counts ==
    ASSUME TypeOK
    PROVE  Cardinality(Loaded) \in Nat /\ Cardinality(Linking) \in Nat
<1>1. Depth \in Nat
  BY DEF TypeOK, Depth
<1>2. Loaded \in SUBSET (1..Depth) /\ Linking \in SUBSET (1..Depth)
  BY DEF Loaded, Linking
<1> QED
  BY <1>1, <1>2, CountAt

(* The innermost call goes on as a.                                        *)
LEMMA TopChanges ==
    ASSUME TypeOK, stack # <<>>, NEW a \in Activation, stack' = NewTop(a)
    PROVE  /\ stack' \in Seq(Activation) /\ stack' # <<>>
           /\ Depth' = Depth /\ Depth \in Nat \ {0} /\ Top' = a /\ stack'[Depth] = a
           /\ \A i \in 1..Depth : stack[i] \in Activation
           /\ \A i \in 1..Depth : i # Depth => stack'[i] = stack[i]
           /\ Cardinality(Loaded') = Cardinality(Loaded) + One(a.handles) - One(Top.handles)
           /\ Cardinality(Linking') = Cardinality(Linking) + One(Links(a)) - One(Links(Top))
<1>1. /\ Depth \in Nat \ {0} /\ stack \in [1..Depth -> Activation]
      /\ stack' \in Seq(Activation) /\ Depth' = Depth /\ stack'[Depth] = a
      /\ \A i \in 1..Depth : i # Depth => stack'[i] = stack[i]
  BY EmptySeq, LenProperties DEF TypeOK, Depth, NewTop
<1>2. stack' # <<>> /\ Top' = a
  BY <1>1 DEF Top, Depth
<1>3. /\ Loaded \in SUBSET (1..Depth) /\ Loaded' \ {Depth} = Loaded \ {Depth}
      /\ Depth \in Loaded <=> Top.handles
      /\ Depth \in Loaded' <=> a.handles
  BY <1>1 DEF Loaded, Top
<1>4. /\ Linking \in SUBSET (1..Depth) /\ Linking' \ {Depth} = Linking \ {Depth}
      /\ Depth \in Linking <=> Links(Top)
      /\ Depth \in Linking' <=> Links(a)
  BY <1>1 DEF Linking, Top
<1>5. Cardinality(Loaded') = Cardinality(Loaded) + One(a.handles) - One(Top.handles)
  BY <1>1, <1>3, CountAt DEF One
<1>6. Cardinality(Linking') = Cardinality(Linking) + One(Links(a)) - One(Links(Top))
  BY <1>1, <1>4, CountAt DEF One
<1> QED
  BY <1>1, <1>2, <1>5, <1>6

(* A form of the innermost call loads another file.                        *)
LEMMA CallGrows ==
    ASSUME TypeOK, NEW in \in {"main", "closure"}, stack' = Append(stack, Called(in))
    PROVE  /\ stack' \in Seq(Activation) /\ stack' # <<>>
           /\ Depth' = Depth + 1 /\ Depth \in Nat /\ Top' = Called(in) /\ stack'[Depth + 1] = Called(in)
           /\ \A i \in 1..Depth : stack'[i] = stack[i] /\ stack[i] \in Activation
           /\ Loaded' = Loaded /\ Linking' = Linking
<1>1. Called(in) \in Activation
  BY DEF Called, Activation
<1>2. /\ stack' \in Seq(Activation) /\ stack' # <<>> /\ Depth' = Depth + 1
      /\ \A i \in 1..Depth : stack'[i] = stack[i] /\ stack[i] \in Activation
      /\ stack'[Depth + 1] = Called(in) /\ Depth \in Nat
  BY <1>1, AppendProperties, LenProperties DEF TypeOK, Depth
<1>3. \A i : i \in 1..Depth' <=> i \in 1..Depth \/ i = Depth + 1
  BY <1>2
<1>4. ~stack'[Depth + 1].handles /\ ~Links(stack'[Depth + 1])
  <2>1. ~Called(in).handles /\ ~Links(Called(in))
    BY DEF Called, Links
  <2> QED
    BY <1>2, <2>1
<1>5. Loaded' = Loaded
  <2>1. Loaded' = {i \in 1..Depth' : stack'[i].handles}
    BY DEF Loaded
  <2>2. Loaded' = {i \in 1..Depth : stack[i].handles}
    BY <1>2, <1>3, <1>4, <2>1
  <2> QED
    BY <2>2 DEF Loaded
<1>6. Linking' = Linking
  <2>1. Linking' = {i \in 1..Depth' : Links(stack'[i])}
    BY DEF Linking
  <2>2. Linking' = {i \in 1..Depth : Links(stack[i])}
    BY <1>2, <1>3, <1>4, <2>1
  <2> QED
    BY <2>2 DEF Linking
<1> QED
  BY <1>2, <1>5, <1>6 DEF Top

(* The innermost call is over, and its caller goes on as a.                *)
LEMMA CallReturns ==
    ASSUME TypeOK, Depth > 1, NEW a \in Activation,
           stack' = [SubSeq(stack, 1, Depth - 1) EXCEPT ![Depth - 1] = a]
    PROVE  /\ stack' \in Seq(Activation) /\ stack' # <<>>
           /\ Depth' = Depth - 1 /\ Depth \in Nat /\ Top' = a /\ stack'[Depth - 1] = a
           /\ \A i \in 1..Depth : stack[i] \in Activation
           /\ \A i \in 1..Depth - 1 : i # Depth - 1 => stack'[i] = stack[i]
           /\ Cardinality(Loaded') = Cardinality(Loaded) - One(Top.handles)
                 + One(a.handles) - One(stack[Depth - 1].handles)
           /\ Cardinality(Linking') = Cardinality(Linking) - One(Links(Top))
                 + One(Links(a)) - One(Links(stack[Depth - 1]))
<1>1. Depth \in Nat /\ \A i \in 1..Depth : stack[i] \in Activation
  BY LenProperties DEF TypeOK, Depth
<1> DEFINE n == Depth - 1
           s == SubSeq(stack, 1, n)
<1>2. n \in Nat \ {0} /\ Depth = n + 1
  BY <1>1
<1>3. s \in Seq(Activation) /\ Len(s) = n /\ \A i \in 1..n : s[i] = stack[i]
  <2> HIDE DEF n
  <2>1. n \in Int /\ 1 \in Int /\ \A i \in 1..n : stack[i] \in Activation
    BY <1>1, <1>2
  <2>2. /\ s \in Seq(Activation)
        /\ Len(s) = IF 1 <= n THEN n - 1 + 1 ELSE 0
        /\ \A i \in 1..n - 1 + 1 : s[i] = stack[1 + i - 1]
    BY <2>1, SubSeqProperties
  <2> QED
    BY <1>2, <2>2
<1> HIDE DEF s
<1>4. stack' = [s EXCEPT ![n] = a]
  BY DEF s
<1>5. /\ stack' \in Seq(Activation) /\ Depth' = n /\ stack'[n] = a
      /\ \A i \in 1..n : i # n => stack'[i] = stack[i]
  <2> HIDE DEF n
  <2>1. s \in [1..n -> Activation]
    BY <1>3, LenProperties
  <2> QED
    BY <1>2, <1>3, <1>4, <2>1 DEF Depth
<1>6. stack' # <<>> /\ Top' = a
  BY <1>2, <1>5 DEF Top, Depth
<1>7. /\ Loaded \in SUBSET (1..n + 1) /\ Loaded' \in SUBSET (1..n)
      /\ Loaded' \ {n} = Loaded \ {n, n + 1}
      /\ n + 1 \in Loaded <=> Top.handles
      /\ n \in Loaded <=> stack[n].handles
      /\ n \in Loaded' <=> a.handles
  BY <1>1, <1>2, <1>5 DEF Loaded, Top
<1>8. /\ Linking \in SUBSET (1..n + 1) /\ Linking' \in SUBSET (1..n)
      /\ Linking' \ {n} = Linking \ {n, n + 1}
      /\ n + 1 \in Linking <=> Links(Top)
      /\ n \in Linking <=> Links(stack[n])
      /\ n \in Linking' <=> Links(a)
  BY <1>1, <1>2, <1>5 DEF Linking, Top
<1> HIDE DEF n
<1>9. Cardinality(Loaded') = Cardinality(Loaded) - One(Top.handles)
                 + One(a.handles) - One(stack[n].handles)
  BY <1>2, <1>7, CountBelow DEF One
<1>10. Cardinality(Linking') = Cardinality(Linking) - One(Links(Top))
                 + One(Links(a)) - One(Links(stack[n]))
  BY <1>2, <1>8, CountBelow DEF One
<1> QED
  BY <1>1, <1>5, <1>6, <1>9, <1>10 DEF n

-----------------------------------------------------------------------------
(* No files and no calls: the parts of the invariant that are left.        *)
LEMMA NoCalls ==
    ASSUME TypeOK, stack = <<>>
    PROVE  Cardinality(Loaded) = 0 /\ Cardinality(Linking) = 0 /\ Depth = 0 /\ 1..Depth = {}
<1>1. Depth = 0 /\ 1..Depth = {}
  BY DEF Depth
<1>2. Loaded = {} /\ Linking = {}
  BY <1>1 DEF Loaded, Linking
<1> QED
  BY <1>1, <1>2, FS_EmptySet

(* What depends on the stack and the files alone stays with them.          *)
LEMMA SameFiles ==
    ASSUME UNCHANGED files
    PROVE  /\ Depth' = Depth /\ Top' = Top /\ Loaded' = Loaded /\ Linking' = Linking
           /\ FilesHeld <=> FilesHeld'
<1>1. stack' = stack /\ descriptors' = descriptors /\ mappings' = mappings
  BY DEF files
<1> QED
  BY <1>1 DEF Depth, Top, Loaded, Linking, FilesHeld

(* The program starts without files, locks and calls.                      *)
LEMMA LoadingInit == Init => LoadingInv
<1> SUFFICES ASSUME Init PROVE LoadingInv
  OBVIOUS
<1>1. TypeOK
  <2>1. stack \in Seq(Activation) /\ Depth = 0 /\ Depth <= MaxDepth
    BY LoadingAssumption DEF Init, Depth
  <2>2. env \in Environment
    BY DEF Init, Environment
  <2> QED
    BY <2>1, <2>2 DEF Init, TypeOK
<1>2. Cardinality(Loaded) = 0 /\ Cardinality(Linking) = 0 /\ Depth = 0 /\ 1..Depth = {}
  BY <1>1, NoCalls DEF Init
<1>4. locks = Locked
  BY <1>2 DEF Locked, Init
<1>5. CallsNest /\ FilesHeld /\ ErrorsRise
  BY <1>2 DEF CallsNest, FilesHeld, ErrorsRise, Init
<1>6. EnvIsLinked /\ EnvironmentStaysAlive /\ LeakCheckFindsLeaks
  BY <1>2 DEF EnvIsLinked, EnvironmentStaysAlive, LeakCheckFindsLeaks, Init, One
<1> QED
  BY <1>1, <1>4, <1>5, <1>6 DEF LoadingInv

(* main, before and after its eval.                                        *)
LEMMA MainKeeps == ASSUME LoadingInv, Main PROVE LoadingInv'
<1>1. CASE Bootstrap
  <2>1. Called("main") \in Activation
    BY DEF Called, Activation
  <2>2. /\ stack' = <<Called("main")>> /\ Depth' = 1 /\ 1..Depth' = {1}
        /\ stack'[1] = Called("main") /\ Top' = Called("main") /\ stack' \in Seq(Activation)
    BY <1>1, <2>1 DEF Bootstrap, Depth, Top
  <2>3. Loaded' = {} /\ Linking' = {}
    BY <2>2 DEF Loaded, Linking, Links, Called
  <2>4. stack = <<>>
    BY <1>1 DEF Bootstrap, LoadingInv, CallsNest
  <2>5. Cardinality(Loaded) = 0 /\ Cardinality(Linking) = 0 /\ 1..Depth = {}
    BY <2>4, NoCalls DEF LoadingInv
  <2>6. Cardinality(Loaded') = 0 /\ Cardinality(Linking') = 0
    BY <2>3, FS_EmptySet
  <2>7. TypeOK'
    <3>1. env' \in Environment
      <4> DEFINE e == [env EXCEPT !.made = TRUE, !.locked = TRUE]
      <4>1. e \in Environment /\ e.refcount = env.refcount
        BY DEF LoadingInv, TypeOK, Environment
      <4>2. env' = [e EXCEPT !.refcount = @ + 1]
        BY <1>1 DEF Bootstrap, LoadingInv, TypeOK, Environment
      <4> HIDE DEF e
      <4> QED
        BY <4>1, <4>2 DEF Environment
    <3>2. Depth' <= MaxDepth
      BY <2>2, LoadingAssumption
    <3> QED
      BY <1>1, <2>2, <3>1, <3>2 DEF Bootstrap, LoadingInv, TypeOK, ends
  <2>8. CallsNest' /\ ErrorsRise'
    BY <1>1, <2>2 DEF Bootstrap, LoadingInv, CallsNest, ErrorsRise, Called, ends
  <2>9. FilesHeld'
    <3>1. descriptors = {} /\ mappings = {}
      BY <2>5 DEF LoadingInv, FilesHeld, TypeOK
    <3>2. descriptors' = {} /\ mappings' = {}
      BY <1>1, <3>1 DEF Bootstrap
    <3>3. Called("main").fd \notin Fd /\ ~Called("main").handles
          /\ Called("main").pc = "path" /\ Called("main").fd = Unset
      BY LoadingAssumption DEF Called, Unset
    <3> QED
      BY <2>2, <3>2, <3>3 DEF FilesHeld
  <2>10. EnvIsLinked'
    BY <1>1, <2>5, <2>6 DEF Bootstrap, LoadingInv, EnvIsLinked, One, TypeOK, Environment, ends
  <2>11. (locks = Locked)'
    BY <1>1, <2>5, <2>6 DEF Bootstrap, LoadingInv, Locked, EnvIsLinked, TypeOK, ends
  <2>12. EnvironmentStaysAlive' /\ LeakCheckFindsLeaks'
    BY <1>1 DEF Bootstrap, LoadingInv, EnvironmentStaysAlive, LeakCheckFindsLeaks, EnvIsLinked, ends
  <2> QED
    BY <2>7, <2>8, <2>9, <2>10, <2>11, <2>12 DEF LoadingInv
<1> SUFFICES ASSUME NoArguments \/ EvalReturns \/ PrintEnv \/ LeakCheck \/ Exit PROVE LoadingInv'
  BY <1>1 DEF Main
<1>2. /\ stack = <<>> /\ UNCHANGED files /\ UNCHANGED <<incremental, failed, abandoned, strays, status>>
      /\ phase' \in {"cleanup", "crashed", "checked", "exited"}
  BY DEF LoadingInv, CallsNest, NoArguments, EvalReturns, PrintEnv, LeakCheck, Exit, files, ends
<1>3. /\ Cardinality(Loaded) = 0 /\ Cardinality(Linking) = 0 /\ Depth = 0
      /\ Depth' = Depth /\ Loaded' = Loaded /\ Linking' = Linking /\ (FilesHeld <=> FilesHeld')
  BY <1>2, NoCalls, SameFiles DEF LoadingInv
<1>4. env' \in Environment /\ warned' \in BOOLEAN /\ locks' \in Nat
  <2>1. CASE NoArguments \/ PrintEnv
    BY <2>1 DEF NoArguments, PrintEnv, LoadingInv, TypeOK, ends
  <2>2. CASE EvalReturns
    BY <1>3, <2>2 DEF EvalReturns, LoadingInv, TypeOK, Environment, EnvIsLinked, One, Locked, ends
  <2>3. CASE LeakCheck
    BY <2>3 DEF LeakCheck, LoadingInv, TypeOK, Environment, Garbage
  <2>4. CASE Exit
    BY <2>4 DEF Exit, LoadingInv, TypeOK, Environment, ends
  <2> QED
    BY <2>1, <2>2, <2>3, <2>4
<1>5. TypeOK' /\ CallsNest' /\ FilesHeld' /\ EnvironmentStaysAlive'
  BY <1>2, <1>3, <1>4 DEF LoadingInv, TypeOK, CallsNest, EnvironmentStaysAlive, files
<1>6. ErrorsRise'
  BY <1>2, <1>3 DEF LoadingInv, ErrorsRise, NoArguments, EvalReturns, PrintEnv, LeakCheck, Exit
<1>7. EnvIsLinked' /\ (locks = Locked)' /\ LeakCheckFindsLeaks'
  <2>1. CASE NoArguments
    BY <1>2, <1>3, <2>1 DEF LoadingInv, EnvIsLinked, Locked, LeakCheckFindsLeaks, NoArguments, One, ends
  <2>2. CASE PrintEnv
    BY <1>2, <1>3, <2>2 DEF LoadingInv, EnvIsLinked, Locked, LeakCheckFindsLeaks, PrintEnv, One, ends
  <2>3. CASE EvalReturns
    BY <1>2, <1>3, <2>3 DEF LoadingInv, TypeOK, Environment, EnvIsLinked, Locked, LeakCheckFindsLeaks, EvalReturns, One, ends
  <2>4. CASE LeakCheck
    BY <1>2, <1>3, <2>4
       DEF LoadingInv, TypeOK, Environment, EnvIsLinked, Locked, LeakCheckFindsLeaks, LeakCheck, Garbage, One
  <2>5. CASE Exit
    BY <1>2, <1>3, <2>5 DEF LoadingInv, TypeOK, Environment, EnvIsLinked, Locked, LeakCheckFindsLeaks, Exit, One, ends
  <2> QED
    BY <2>1, <2>2, <2>3, <2>4, <2>5
<1> QED
  BY <1>5, <1>6, <1>7 DEF LoadingInv

-----------------------------------------------------------------------------
(* The innermost call goes on as a, with the file that it has.             *)
LEMMA KeepsFile ==
    ASSUME LoadingInv, phase = "eval", NEW a \in Activation, stack' = NewTop(a),
           a.env = Top.env, a.fd = Top.fd, a.handles = Top.handles,
           a.pc # "path", a.pc \in {"read", "eval"} => a.handles,
           UNCHANGED <<phase, descriptors, mappings>>
    PROVE  CallsNest' /\ FilesHeld'
<1>1. /\ stack' # <<>> /\ Depth' = Depth /\ Depth \in Nat \ {0} /\ stack'[Depth] = a
      /\ \A i \in 1..Depth : i # Depth => stack'[i] = stack[i]
  BY TopChanges DEF LoadingInv, CallsNest
<1>2. stack[Depth] = Top
  BY DEF Top
<1>3. CallsNest'
  BY <1>1, <1>2 DEF LoadingInv, CallsNest
<1>4. \A i \in 1..Depth : stack'[i].fd = stack[i].fd /\ stack'[i].handles = stack[i].handles
  BY <1>1, <1>2
<1>5. \A i \in 1..Depth :
         /\ stack'[i].pc \in {"read", "eval"} => stack'[i].handles
         /\ stack'[i].pc = "path" => stack'[i].fd = Unset /\ ~stack'[i].handles
         /\ stack'[i].handles => stack'[i].fd \in Fd
  BY <1>1, <1>2 DEF LoadingInv, FilesHeld
<1>6. FilesHeld'
  BY <1>1, <1>4, <1>5 DEF LoadingInv, FilesHeld
<1> QED
  BY <1>3, <1>6

(* It goes on as a, which has tried to get a file.                     *)
LEMMA GetsFile ==
    ASSUME LoadingInv, At("path"), NEW a \in Activation, stack' = NewTop(a),
           a.env = Top.env, a.pc # "path", a.pc \in {"read", "eval"} => a.handles,
           a.fd \notin descriptors, a.handles => a.fd \in Fd,
           descriptors' = descriptors \cup ({a.fd} \cap Fd),
           mappings' = mappings \cup (IF a.handles THEN {a.fd} ELSE {}),
           phase' = phase
    PROVE  CallsNest' /\ FilesHeld'
<1>1. /\ stack' # <<>> /\ Depth' = Depth /\ Depth \in Nat \ {0} /\ stack'[Depth] = a
      /\ \A i \in 1..Depth : i # Depth => stack'[i] = stack[i]
  BY TopChanges DEF LoadingInv, At
<1>2. stack[Depth] = Top /\ Top.fd = Unset /\ ~Top.handles /\ Unset \notin Fd
  BY <1>1, LoadingAssumption DEF Top, At, LoadingInv, FilesHeld, Unset
<1>3. CallsNest'
  BY <1>1, <1>2 DEF LoadingInv, CallsNest, At
<1>4. \A i \in 1..Depth :
         /\ stack'[i].pc \in {"read", "eval"} => stack'[i].handles
         /\ stack'[i].pc = "path" => stack'[i].fd = Unset /\ ~stack'[i].handles
         /\ stack'[i].handles => stack'[i].fd \in Fd
  BY <1>1 DEF LoadingInv, FilesHeld
<1>5. \A fd \in Fd : fd \in descriptors' <=> \E i \in 1..Depth : stack'[i].fd = fd
  <2>1. ASSUME NEW fd \in Fd, fd \in descriptors' PROVE \E i \in 1..Depth : stack'[i].fd = fd
    <3>1. CASE fd = a.fd
      BY <1>1, <3>1
    <3>2. CASE fd # a.fd
      <4>1. PICK i \in 1..Depth : stack[i].fd = fd
        BY <2>1, <3>2 DEF LoadingInv, FilesHeld
      <4> QED
        BY <1>1, <1>2, <4>1
    <3> QED
      BY <3>1, <3>2
  <2>2. ASSUME NEW fd \in Fd, NEW i \in 1..Depth, stack'[i].fd = fd PROVE fd \in descriptors'
    BY <1>1, <2>2 DEF LoadingInv, FilesHeld
  <2> QED
    BY <2>1, <2>2
<1>6. \A fd \in Fd : fd \in mappings' <=> \E i \in 1..Depth : stack'[i].handles /\ stack'[i].fd = fd
  <2>1. ASSUME NEW fd \in Fd, fd \in mappings'
        PROVE  \E i \in 1..Depth : stack'[i].handles /\ stack'[i].fd = fd
    <3>1. CASE a.handles /\ fd = a.fd
      BY <1>1, <3>1
    <3>2. CASE ~(a.handles /\ fd = a.fd)
      <4>1. PICK i \in 1..Depth : stack[i].handles /\ stack[i].fd = fd
        BY <2>1, <3>2 DEF LoadingInv, FilesHeld
      <4> QED
        BY <1>1, <1>2, <4>1
    <3> QED
      BY <3>1, <3>2
  <2>2. ASSUME NEW fd \in Fd, NEW i \in 1..Depth, stack'[i].handles, stack'[i].fd = fd PROVE fd \in mappings'
    BY <1>1, <2>2 DEF LoadingInv, FilesHeld
  <2> QED
    BY <2>1, <2>2
<1>7. \A i, j \in 1..Depth : stack'[i].fd = stack'[j].fd /\ stack'[i].fd \in Fd => i = j
  <2> SUFFICES ASSUME NEW i \in 1..Depth, NEW j \in 1..Depth, i # j,
                      stack'[i].fd = stack'[j].fd, stack'[i].fd \in Fd
               PROVE  FALSE
    OBVIOUS
  <2>1. \A k \in 1..Depth : stack[k].fd \in Fd => stack[k].fd \in descriptors
    BY DEF LoadingInv, FilesHeld
  <2>2. CASE i # Depth /\ j # Depth
    BY <1>1, <2>2 DEF LoadingInv, FilesHeld
  <2>3. CASE i = Depth \/ j = Depth
    BY <1>1, <2>1, <2>3
  <2> QED
    BY <2>2, <2>3
<1> QED
  BY <1>1, <1>3, <1>4, <1>5, <1>6, <1>7 DEF FilesHeld

(* Going on as a: what has to fit for the rest of the invariant.           *)
LEMMA TopStep ==
    ASSUME LoadingInv, phase = "eval", NEW a \in Activation, stack' = NewTop(a),
           CallsNest' /\ FilesHeld',
           UNCHANGED <<incremental, phase, status, warned>>,
           descriptors' \subseteq Fd /\ mappings' \subseteq Fd,
           a.stat = "error" => a.pc = "cleanup",
           failed' \in BOOLEAN, failed' <=> a.stat = "error",
           abandoned' \in BOOLEAN, abandoned => abandoned', strays' \in BOOLEAN,
           env' \in Environment, env'.made = env.made, env'.freed = env.freed,
           env'.refcount >= env.refcount + One(Links(a)) - One(Links(Top)),
           ~abandoned' => env'.refcount = env.refcount + One(Links(a)) - One(Links(Top)),
           locks' = locks + 2 * One(a.handles) - 2 * One(Top.handles)
                    + (IF abandoned' /\ ~abandoned THEN 10 ELSE 0)
    PROVE  LoadingInv'
<1>1. /\ stack' \in Seq(Activation) /\ stack' # <<>>
      /\ Depth' = Depth /\ Depth \in Nat \ {0} /\ Top' = a /\ stack'[Depth] = a
      /\ \A i \in 1..Depth : i # Depth => stack'[i] = stack[i]
      /\ Cardinality(Loaded') = Cardinality(Loaded) + One(a.handles) - One(Top.handles)
      /\ Cardinality(Linking') = Cardinality(Linking) + One(Links(a)) - One(Links(Top))
  BY TopChanges DEF LoadingInv, CallsNest
<1>2. Cardinality(Loaded) \in Nat /\ Cardinality(Linking) \in Nat
  BY Counts DEF LoadingInv
<1>3. env.made /\ ~env.freed /\ env.refcount \in Nat /\ locks \in Nat /\ env'.refcount \in Nat
  BY <1>1 DEF LoadingInv, TypeOK, EnvIsLinked, EnvironmentStaysAlive, Environment, CallsNest
<1>4. ErrorsRise'
  BY <1>1 DEF LoadingInv, ErrorsRise
<1> DEFINE h == One(a.handles) - One(Top.handles)
           l == One(Links(a)) - One(Links(Top))
           more == IF abandoned' /\ ~abandoned THEN 10 ELSE 0
<1>5. h \in Int /\ l \in Int /\ more \in Nat
  BY DEF One
<1>6. /\ Cardinality(Loaded') = Cardinality(Loaded) + h
      /\ Cardinality(Linking') = Cardinality(Linking) + l
      /\ env'.refcount >= env.refcount + l
      /\ ~abandoned' => env'.refcount = env.refcount + l
      /\ locks' = locks + 2 * h + more
  <2>1. One(a.handles) \in Int /\ One(Top.handles) \in Int /\ One(Links(a)) \in Int /\ One(Links(Top)) \in Int
    BY DEF One
  <2> QED
    BY <1>1, <1>2, <1>3, <1>5, <2>1
<1>7. EnvIsLinked'
  <2>1. env.refcount >= Cardinality(Linking) + 1 /\ (~abandoned => env.refcount = Cardinality(Linking) + 1)
    BY DEF LoadingInv, EnvIsLinked, One
  <2> HIDE DEF h, l, more
  <2>2. env'.refcount >= Cardinality(Linking') + 1 /\ (~abandoned' => env'.refcount = Cardinality(Linking') + 1)
    BY <1>2, <1>3, <1>5, <1>6, <2>1
  <2> QED
    BY <1>3, <2>2 DEF EnvIsLinked, One
<1>8. (locks = Locked)'
  <2>1. locks = 2 * Cardinality(Loaded) + 2 + (IF abandoned THEN 10 ELSE 0)
    BY <1>3 DEF LoadingInv, Locked
  <2>2. more = (IF abandoned' THEN 10 ELSE 0) - (IF abandoned THEN 10 ELSE 0)
    OBVIOUS
  <2> HIDE DEF h, l, more
  <2>3. locks' = 2 * Cardinality(Loaded') + 2 + (IF abandoned' THEN 10 ELSE 0)
    BY <1>2, <1>3, <1>5, <1>6, <2>1, <2>2
  <2> QED
    BY <1>3, <2>3 DEF Locked
<1>9. locks' \in Nat
  <2>1. Cardinality(Loaded') \in Nat
    <3>1. Loaded' \in SUBSET (1..Depth)
      BY <1>1 DEF Loaded
    <3> QED
      BY <1>1, <3>1, CountAt
  <2> QED
    BY <1>8, <2>1 DEF Locked
<1>10. TypeOK'
  BY <1>1, <1>9 DEF LoadingInv, TypeOK
<1>11. EnvironmentStaysAlive' /\ LeakCheckFindsLeaks'
  BY <1>3 DEF LoadingInv, EnvironmentStaysAlive, LeakCheckFindsLeaks
<1> QED
  BY <1>4, <1>7, <1>8, <1>10, <1>11 DEF LoadingInv

(* readevalfn up to its loop.                                              *)
LEMMA OpeningKeeps == ASSUME LoadingInv, Opening PROVE LoadingInv'
<1>1. /\ At("path") /\ stack # <<>> /\ phase = "eval" /\ Top \in Activation
      /\ Top.fd = Unset /\ ~Top.handles /\ Top.pc = "path" /\ Top.stat # "error"
      /\ Unset \notin Fd /\ NoFd \notin Fd /\ descriptors \subseteq Fd /\ mappings \subseteq Fd
  <2>1. At("path")
    BY DEF Opening, BadPath, OpenFails, MapFails, MapFile
  <2>2. Depth \in Nat \ {0} /\ Top = stack[Depth] /\ Top \in Activation
    BY <2>1, EmptySeq, LenProperties DEF LoadingInv, TypeOK, At, Depth, Top
  <2> QED
    BY <2>1, <2>2, LoadingAssumption DEF LoadingInv, TypeOK, FilesHeld, ErrorsRise, At, Unset, NoFd
<1>2. CASE BadPath
  <2> DEFINE a == [Top EXCEPT !.pc = "cleanup", !.stat = "error"]
  <2>1. /\ a \in Activation /\ a.env = Top.env /\ a.fd = Top.fd /\ a.handles = Top.handles
        /\ a.pc = "cleanup" /\ a.stat = "error"
    BY <1>1 DEF Activation
  <2>2. stack' = NewTop(a) /\ failed' = TRUE
        /\ UNCHANGED <<incremental, phase, status, warned, strays, descriptors, mappings, locks, env, abandoned>>
    BY <1>2 DEF BadPath, Fails
  <2> HIDE DEF a
  <2>3. CallsNest' /\ FilesHeld'
    BY <1>1, <2>1, <2>2, KeepsFile
  <2>4. ~Links(a) /\ ~Links(Top)
    BY <1>1, <2>1 DEF Links
  <2> QED
    BY <1>1, <2>1, <2>2, <2>3, <2>4, TopStep DEF LoadingInv, TypeOK, Environment, One
<1>3. CASE OpenFails
  <2> DEFINE a == [Top EXCEPT !.fd = NoFd, !.pc = "cleanup", !.stat = "error"]
  <2>1. /\ a \in Activation /\ a.env = Top.env /\ a.fd = NoFd /\ a.handles = Top.handles
        /\ a.pc = "cleanup" /\ a.stat = "error"
    BY <1>1 DEF Activation
  <2>2. stack' = NewTop(a) /\ failed' = TRUE
        /\ UNCHANGED <<incremental, phase, status, warned, strays, descriptors, mappings, locks, env, abandoned>>
    BY <1>1, <1>3 DEF OpenFails, Fails, Activation
  <2> HIDE DEF a
  <2>3. CallsNest' /\ FilesHeld'
    BY <1>1, <2>1, <2>2, GetsFile
  <2>4. ~Links(a) /\ ~Links(Top)
    BY <1>1, <2>1 DEF Links
  <2> QED
    BY <1>1, <2>1, <2>2, <2>3, <2>4, TopStep DEF LoadingInv, TypeOK, Environment, One
<1>4. CASE MapFails
  <2>1. PICK fd \in Fd \ descriptors :
           /\ descriptors' = descriptors \cup {fd}
           /\ Fails([Top EXCEPT !.fd = fd])
    BY <1>4 DEF MapFails
  <2> DEFINE a == [Top EXCEPT !.fd = fd, !.pc = "cleanup", !.stat = "error"]
  <2>2. /\ a \in Activation /\ a.env = Top.env /\ a.fd = fd /\ a.handles = Top.handles
        /\ a.pc = "cleanup" /\ a.stat = "error"
    BY <1>1 DEF Activation
  <2>3. stack' = NewTop(a) /\ failed' = TRUE
        /\ UNCHANGED <<incremental, phase, status, warned, strays, mappings, locks, env, abandoned>>
    BY <1>1, <1>4, <2>1 DEF MapFails, Fails, Activation
  <2> HIDE DEF a
  <2>4. CallsNest' /\ FilesHeld'
    BY <1>1, <2>1, <2>2, <2>3, GetsFile
  <2>5. ~Links(a) /\ ~Links(Top)
    BY <1>1, <2>2 DEF Links
  <2> QED
    BY <1>1, <2>1, <2>2, <2>3, <2>4, <2>5, TopStep DEF LoadingInv, TypeOK, Environment, One
<1>5. CASE MapFile
  <2>1. PICK fd \in Fd \ descriptors :
           /\ descriptors' = descriptors \cup {fd} /\ mappings' = mappings \cup {fd}
           /\ stack' = NewTop([Top EXCEPT !.pc = "read", !.fd = fd, !.handles = TRUE])
    BY <1>5 DEF MapFile
  <2> DEFINE a == [Top EXCEPT !.pc = "read", !.fd = fd, !.handles = TRUE]
  <2>2. /\ a \in Activation /\ a.env = Top.env /\ a.fd = fd /\ a.handles
        /\ a.pc = "read" /\ a.stat = Top.stat
    BY <1>1 DEF Activation
  <2>3. stack' = NewTop(a) /\ locks' = locks + 2
        /\ UNCHANGED <<incremental, phase, status, failed, warned, strays, env, abandoned>>
    BY <1>5, <2>1 DEF MapFile, ends
  <2> HIDE DEF a
  <2>4. CallsNest' /\ FilesHeld'
    BY <1>1, <2>1, <2>2, <2>3, GetsFile
  <2>5. ~Links(a) /\ ~Links(Top)
    BY <1>1, <2>2 DEF Links
  <2>6. failed <=> a.stat = "error"
    BY <1>1, <2>2 DEF LoadingInv, ErrorsRise
  <2> QED
    BY <1>1, <2>1, <2>2, <2>3, <2>4, <2>5, <2>6, TopStep DEF LoadingInv, TypeOK, Environment, One
<1> QED
  BY <1>2, <1>3, <1>4, <1>5 DEF Opening

(* Its loop.                                                               *)
LEMMA LoopKeeps ==
    ASSUME LoadingInv, ParseForm \/ ParseError \/ ParseEnd \/ EvalDone \/ EvalError \/ EvalReturnsEarly
    PROVE  LoadingInv'
<1>1. /\ stack # <<>> /\ phase = "eval" /\ Top \in Activation /\ Top.handles
      /\ Top.pc \in {"read", "eval"} /\ Top.stat # "error" /\ failed = FALSE
      /\ env \in Environment /\ abandoned \in BOOLEAN /\ strays \in BOOLEAN /\ locks \in Nat
      /\ descriptors \subseteq Fd /\ mappings \subseteq Fd
      /\ env.refcount >= 1 + One(Links(Top))
  <2>1. At("read") \/ At("eval")
    BY DEF ParseForm, ParseError, ParseEnd, EvalDone, EvalError, EvalReturnsEarly
  <2>2. Depth \in Nat \ {0} /\ Top = stack[Depth] /\ Top \in Activation /\ phase = "eval" /\ stack # <<>>
    BY <2>1, EmptySeq, LenProperties DEF LoadingInv, TypeOK, At, Depth, Top
  <2>3. Links(Top) => Cardinality(Linking) # 0
    <3>1. Linking \in SUBSET (1..Depth)
      BY DEF Linking
    <3>2. IsFiniteSet(Linking)
      <4>1. IsFiniteSet(1..Depth)
        BY <2>2, FS_Interval
      <4> QED
        BY <3>1, <4>1, FS_Subset
    <3>3. Links(Top) => Depth \in Linking
      BY <2>2 DEF Linking
    <3> QED
      BY <3>2, <3>3, FS_EmptySet
  <2>4. Cardinality(Linking) \in Nat
    BY Counts DEF LoadingInv
  <2> QED
    BY <2>1, <2>2, <2>3, <2>4
       DEF LoadingInv, TypeOK, FilesHeld, ErrorsRise, EnvIsLinked, Environment, At, One
<1> DEFINE b == [env EXCEPT !.refcount = @ + 1]
           c == [env EXCEPT !.refcount = @ - 1]
<1>2. /\ b \in Environment /\ b.made = env.made /\ b.freed = env.freed /\ b.refcount = env.refcount + 1
      /\ Links(Top) => c \in Environment /\ c.made = env.made /\ c.freed = env.freed
                       /\ c.refcount = env.refcount - 1
  BY <1>1 DEF Environment, One
<1>3. LinkedBy(Top.env, 1) = (IF Top.env = "main" THEN b ELSE env)
      /\ LinkedBy(Top.env, -1) = (IF Top.env = "main" THEN c ELSE env)
  BY <1>1 DEF LinkedBy, Environment
<1> HIDE DEF b, c
<1>4. CASE ParseForm
  <2> DEFINE a == [Top EXCEPT !.pc = "eval"]
  <2>1. /\ a \in Activation /\ a.env = Top.env /\ a.fd = Top.fd /\ a.handles = Top.handles
        /\ a.pc = "eval" /\ a.stat = Top.stat
    BY <1>1 DEF Activation
  <2>2. /\ stack' = NewTop(a) /\ Top.pc = "read" /\ env' = IF Top.env = "main" THEN b ELSE env
        /\ UNCHANGED <<incremental, phase, status, failed, warned, strays, descriptors, mappings, locks, abandoned>>
    BY <1>3, <1>4 DEF ParseForm, At, ends
  <2> HIDE DEF a
  <2>3. CallsNest' /\ FilesHeld'
    BY <1>1, <2>1, <2>2, KeepsFile
  <2>4. (Links(a) <=> Top.env = "main") /\ ~Links(Top)
    BY <2>1, <2>2 DEF Links
  <2>5. /\ env' \in Environment /\ env'.made = env.made /\ env'.freed = env.freed
        /\ env'.refcount \in Nat
        /\ env'.refcount = env.refcount + One(Links(a)) - One(Links(Top))
    BY <1>1, <1>2, <2>2, <2>4 DEF Environment, One
  <2>6. locks' = locks + 2 * One(a.handles) - 2 * One(Top.handles) + (IF abandoned' /\ ~abandoned THEN 10 ELSE 0)
    BY <1>1, <2>1, <2>2 DEF One
  <2>7. env'.refcount >= env.refcount + One(Links(a)) - One(Links(Top))
    BY <2>5
  <2> QED
    BY <1>1, <2>1, <2>2, <2>3, <2>5, <2>6, <2>7, TopStep
<1>5. CASE ParseError
  <2> DEFINE a == [Top EXCEPT !.pc = "cleanup", !.stat = "error"]
  <2>1. /\ a \in Activation /\ a.env = Top.env /\ a.fd = Top.fd /\ a.handles = Top.handles
        /\ a.pc = "cleanup" /\ a.stat = "error"
    BY <1>1 DEF Activation
  <2>2. /\ stack' = NewTop(a) /\ Top.pc = "read" /\ failed' = TRUE
        /\ strays' \in BOOLEAN
        /\ UNCHANGED <<incremental, phase, status, warned, descriptors, mappings, locks, env, abandoned>>
    BY <1>3, <1>5 DEF ParseError, Fails, At
  <2> HIDE DEF a
  <2>3. CallsNest' /\ FilesHeld'
    BY <1>1, <2>1, <2>2, KeepsFile
  <2>4. ~Links(a) /\ ~Links(Top)
    BY <2>1, <2>2 DEF Links
  <2>5. /\ env' \in Environment /\ env'.made = env.made /\ env'.freed = env.freed
        /\ env'.refcount \in Nat
        /\ env'.refcount = env.refcount + One(Links(a)) - One(Links(Top))
    BY <1>1, <1>2, <2>2, <2>4 DEF Environment, One
  <2>6. locks' = locks + 2 * One(a.handles) - 2 * One(Top.handles) + (IF abandoned' /\ ~abandoned THEN 10 ELSE 0)
    BY <1>1, <2>1, <2>2 DEF One
  <2>7. env'.refcount >= env.refcount + One(Links(a)) - One(Links(Top))
    BY <2>4, <2>5 DEF One
  <2> QED
    BY <1>1, <2>1, <2>2, <2>3, <2>5, <2>6, <2>7, TopStep
<1>6. CASE ParseEnd
  <2> DEFINE a == [Top EXCEPT !.pc = "cleanup"]
  <2>1. /\ a \in Activation /\ a.env = Top.env /\ a.fd = Top.fd /\ a.handles = Top.handles
        /\ a.pc = "cleanup" /\ a.stat = Top.stat
    BY <1>1 DEF Activation
  <2>2. /\ stack' = NewTop(a) /\ Top.pc = "read"
        /\ UNCHANGED <<incremental, phase, status, warned, strays, descriptors, mappings, failed, locks, env, abandoned>>
    BY <1>3, <1>6 DEF ParseEnd, At, ends
  <2> HIDE DEF a
  <2>3. CallsNest' /\ FilesHeld'
    BY <1>1, <2>1, <2>2, KeepsFile
  <2>4. ~Links(a) /\ ~Links(Top)
    BY <2>1, <2>2 DEF Links
  <2>5. /\ env' \in Environment /\ env'.made = env.made /\ env'.freed = env.freed
        /\ env'.refcount \in Nat
        /\ env'.refcount = env.refcount + One(Links(a)) - One(Links(Top))
    BY <1>1, <1>2, <2>2, <2>4 DEF Environment, One
  <2>6. locks' = locks + 2 * One(a.handles) - 2 * One(Top.handles) + (IF abandoned' /\ ~abandoned THEN 10 ELSE 0)
    BY <1>1, <2>1, <2>2 DEF One
  <2>7. env'.refcount >= env.refcount + One(Links(a)) - One(Links(Top))
    BY <2>4, <2>5 DEF One
  <2> QED
    BY <1>1, <2>1, <2>2, <2>3, <2>5, <2>6, <2>7, TopStep
<1>7. CASE EvalDone
  <2> DEFINE a == [Top EXCEPT !.pc = "read"]
  <2>1. /\ a \in Activation /\ a.env = Top.env /\ a.fd = Top.fd /\ a.handles = Top.handles
        /\ a.pc = "read" /\ a.stat = Top.stat
    BY <1>1 DEF Activation
  <2>2. /\ stack' = NewTop(a) /\ Top.pc = "eval"
        /\ env' = IF Top.env = "main" THEN c ELSE env
        /\ UNCHANGED <<incremental, phase, status, warned, strays, descriptors, mappings, failed, locks, abandoned>>
    BY <1>3, <1>7 DEF EvalDone, At, ends
  <2> HIDE DEF a
  <2>3. CallsNest' /\ FilesHeld'
    BY <1>1, <2>1, <2>2, KeepsFile
  <2>4. ~Links(a) /\ (Links(Top) <=> Top.env = "main")
    BY <2>1, <2>2 DEF Links
  <2>5. /\ env' \in Environment /\ env'.made = env.made /\ env'.freed = env.freed
        /\ env'.refcount \in Nat
        /\ env'.refcount = env.refcount + One(Links(a)) - One(Links(Top))
    BY <1>1, <1>2, <2>2, <2>4 DEF Environment, One
  <2>6. locks' = locks + 2 * One(a.handles) - 2 * One(Top.handles) + (IF abandoned' /\ ~abandoned THEN 10 ELSE 0)
    BY <1>1, <2>1, <2>2 DEF One
  <2>7. env'.refcount >= env.refcount + One(Links(a)) - One(Links(Top))
    BY <2>4, <2>5 DEF One
  <2> QED
    BY <1>1, <2>1, <2>2, <2>3, <2>5, <2>6, <2>7, TopStep
<1>8. CASE EvalError
  <2> DEFINE a == [Top EXCEPT !.pc = "cleanup", !.stat = "error"]
  <2>1. /\ a \in Activation /\ a.env = Top.env /\ a.fd = Top.fd /\ a.handles = Top.handles
        /\ a.pc = "cleanup" /\ a.stat = "error"
    BY <1>1 DEF Activation
  <2>2. /\ stack' = NewTop(a) /\ Top.pc = "eval" /\ failed' = TRUE
        /\ env' = IF Top.env = "main" THEN c ELSE env
        /\ UNCHANGED <<incremental, phase, status, warned, strays, descriptors, mappings, locks, abandoned>>
    BY <1>3, <1>8 DEF EvalError, Fails, At
  <2> HIDE DEF a
  <2>3. CallsNest' /\ FilesHeld'
    BY <1>1, <2>1, <2>2, KeepsFile
  <2>4. ~Links(a) /\ (Links(Top) <=> Top.env = "main")
    BY <2>1, <2>2 DEF Links
  <2>5. /\ env' \in Environment /\ env'.made = env.made /\ env'.freed = env.freed
        /\ env'.refcount \in Nat
        /\ env'.refcount = env.refcount + One(Links(a)) - One(Links(Top))
    BY <1>1, <1>2, <2>2, <2>4 DEF Environment, One
  <2>6. locks' = locks + 2 * One(a.handles) - 2 * One(Top.handles) + (IF abandoned' /\ ~abandoned THEN 10 ELSE 0)
    BY <1>1, <2>1, <2>2 DEF One
  <2>7. env'.refcount >= env.refcount + One(Links(a)) - One(Links(Top))
    BY <2>4, <2>5 DEF One
  <2> QED
    BY <1>1, <2>1, <2>2, <2>3, <2>5, <2>6, <2>7, TopStep
<1>9. CASE EvalReturnsEarly
  <2> DEFINE a == [Top EXCEPT !.pc = "cleanup", !.stat = "error"]
  <2>1. /\ a \in Activation /\ a.env = Top.env /\ a.fd = Top.fd /\ a.handles = Top.handles
        /\ a.pc = "cleanup" /\ a.stat = "error"
    BY <1>1 DEF Activation
  <2>2. /\ stack' = NewTop(a) /\ Top.pc = "eval" /\ failed' = TRUE /\ locks' = locks + 10 /\ ~abandoned /\ abandoned' = TRUE
        /\ UNCHANGED <<incremental, phase, status, warned, strays, descriptors, mappings, env>>
    BY <1>3, <1>9 DEF EvalReturnsEarly, Fails, At
  <2> HIDE DEF a
  <2>3. CallsNest' /\ FilesHeld'
    BY <1>1, <2>1, <2>2, KeepsFile
  <2>4. ~Links(a) /\ (Links(Top) <=> Top.env = "main")
    BY <2>1, <2>2 DEF Links
  <2>5. /\ env' \in Environment /\ env'.made = env.made /\ env'.freed = env.freed
        /\ env'.refcount \in Nat
        /\ env'.refcount = env.refcount
    BY <1>1, <1>2, <2>2, <2>4 DEF Environment, One
  <2>6. locks' = locks + 2 * One(a.handles) - 2 * One(Top.handles) + (IF abandoned' /\ ~abandoned THEN 10 ELSE 0)
    BY <1>1, <2>1, <2>2 DEF One
  <2>7. env'.refcount >= env.refcount + One(Links(a)) - One(Links(Top))
    BY <2>4, <2>5 DEF One
  <2> QED
    BY <1>1, <2>1, <2>2, <2>3, <2>5, <2>6, <2>7, TopStep
<1> QED
  BY <1>4, <1>5, <1>6, <1>7, <1>8, <1>9

(* A form that loads another file.                                         *)
LEMMA ReadEvalKeeps == ASSUME LoadingInv, ReadEval PROVE LoadingInv'
<1>1. /\ At("eval") /\ phase = "eval" /\ stack # <<>> /\ Top = stack[Depth] /\ Top.pc = "eval"
      /\ Depth \in Nat \ {0} /\ Depth < MaxDepth /\ Top \in Activation /\ Top.stat # "error"
      /\ UNCHANGED <<incremental, phase, descriptors, mappings, locks, env, ends>>
  <2>1. At("eval") /\ Depth < MaxDepth /\ UNCHANGED <<incremental, phase, descriptors, mappings, locks, env, ends>>
    BY DEF ReadEval
  <2>2. Depth \in Nat \ {0} /\ Top = stack[Depth] /\ Top \in Activation
    BY <2>1, EmptySeq, LenProperties DEF LoadingInv, TypeOK, At, Depth, Top
  <2> QED
    BY <2>1, <2>2 DEF LoadingInv, ErrorsRise, At
<1>2. PICK in \in {"main", "closure"} : stack' = Append(stack, Called(in))
  BY <1>1 DEF ReadEval, Activation
<1>3. /\ stack' \in Seq(Activation) /\ stack' # <<>>
      /\ Depth' = Depth + 1 /\ Top' = Called(in) /\ stack'[Depth + 1] = Called(in)
      /\ \A i \in 1..Depth : stack'[i] = stack[i]
      /\ Loaded' = Loaded /\ Linking' = Linking
  BY <1>2, CallGrows DEF LoadingInv
<1>4. \A i : i \in 1..Depth' <=> i \in 1..Depth \/ i = Depth'
  BY <1>1, <1>3
<1>5. /\ Called(in).pc = "path" /\ Called(in).fd = Unset /\ Called(in).handles = FALSE
      /\ Called(in).stat = "OK" /\ Unset \notin Fd
  BY LoadingAssumption DEF Called, Unset
<1>6. TypeOK'
  <2>1. Depth' <= MaxDepth
    BY <1>1, <1>3, LoadingAssumption
  <2> QED
    BY <1>1, <1>3, <2>1 DEF LoadingInv, TypeOK, ends
<1>7. CallsNest'
  BY <1>1, <1>3, <1>4 DEF LoadingInv, CallsNest
<1>8. FilesHeld'
  BY <1>1, <1>3, <1>4, <1>5, SMTT(20) DEF LoadingInv, FilesHeld
<1>9. ErrorsRise'
  BY <1>1, <1>3, <1>4, <1>5 DEF LoadingInv, ErrorsRise, ends
<1>10. EnvIsLinked' /\ (locks = Locked)' /\ EnvironmentStaysAlive' /\ LeakCheckFindsLeaks'
  BY <1>1, <1>3 DEF LoadingInv, EnvIsLinked, Locked, EnvironmentStaysAlive, LeakCheckFindsLeaks, ends
<1> QED
  BY <1>6, <1>7, <1>8, <1>9, <1>10 DEF LoadingInv

(* The end of readevalfn.                                                  *)
LEMMA CleanupKeeps == ASSUME LoadingInv, Cleanup PROVE LoadingInv'
<1>1. /\ phase = "eval" /\ stack # <<>> /\ Top = stack[Depth] /\ Top.pc = "cleanup"
      /\ Depth \in Nat \ {0} /\ stack \in Seq(Activation)
      /\ \A i \in 1..Depth : stack[i] \in Activation
      /\ env \in Environment /\ env.made /\ ~env.freed /\ locks \in Nat /\ abandoned \in BOOLEAN
      /\ Cardinality(Loaded) \in Nat /\ Cardinality(Linking) \in Nat
      /\ ~Links(Top)
  <2>1. At("cleanup")
    BY DEF Cleanup
  <2>2. Depth \in Nat \ {0} /\ stack \in [1..Depth -> Activation] /\ stack # <<>>
    BY <2>1, EmptySeq, LenProperties DEF LoadingInv, TypeOK, At, Depth
  <2> QED
    BY <2>1, <2>2, Counts DEF LoadingInv, TypeOK, EnvIsLinked, EnvironmentStaysAlive, At, Links, Top
<1>2. /\ descriptors' = descriptors \ {Top.fd} /\ mappings' = mappings \ {Top.fd}
      /\ locks' = locks - 2 * One(Top.handles)
      /\ UNCHANGED <<incremental, failed, abandoned, strays, warned>>
  BY <1>1 DEF Cleanup, unmap_file, HandlesDropped, One
<1> DEFINE dropped == Dropped(Top)
<1>3. /\ dropped \in Environment /\ dropped.made = env.made /\ dropped.freed = env.freed
      /\ dropped.refcount = env.refcount
      /\ Top.env = "main" => ~dropped.locked
  BY <1>1 DEF Dropped, Environment
<1> HIDE DEF dropped
<1>4. CASE Depth = 1
  <2>1. stack' = <<>> /\ env' = dropped /\ phase' = "returned" /\ status' = Top.stat
    BY <1>4 DEF Cleanup, dropped
  <2>2. Depth' = 0 /\ 1..Depth' = {} /\ Loaded' = {} /\ Linking' = {}
    BY <2>1 DEF Depth, Loaded, Linking
  <2>3. Cardinality(Loaded') = 0 /\ Cardinality(Linking') = 0
    BY <2>2, FS_EmptySet
  <2>4. Cardinality(Loaded) = One(Top.handles) /\ Cardinality(Linking) = 0
    <3>1. /\ Loaded = IF Top.handles THEN {1} ELSE {}
          /\ Linking = {}
      BY <1>1, <1>4 DEF Loaded, Linking
    <3>2. Cardinality({1}) = 1 /\ Cardinality({}) = 0
      BY FS_EmptySet, FS_Singleton
    <3> QED
      BY <3>1, <3>2 DEF One
  <2>5. locks = 2 * One(Top.handles) + 2 + (IF abandoned THEN 10 ELSE 0)
    BY <1>1, <2>4 DEF LoadingInv, Locked
  <2>6. locks' = 2 + (IF abandoned THEN 10 ELSE 0)
    BY <1>2, <2>5 DEF One
  <2>7. TypeOK'
    <3>1. Depth' <= MaxDepth /\ stack' \in Seq(Activation) /\ locks' \in Nat
      BY <2>1, <2>2, <2>6, LoadingAssumption
    <3>2. Top.stat \in {"OK", "error"}
      BY <1>1 DEF Activation
    <3> QED
      BY <1>2, <1>3, <2>1, <3>1, <3>2 DEF LoadingInv, TypeOK
  <2>8. CallsNest'
    BY <2>1, <2>2 DEF CallsNest
  <2>9. FilesHeld'
    <3>1. descriptors' = {} /\ mappings' = {}
      BY <1>1, <1>2, <1>4 DEF LoadingInv, TypeOK, FilesHeld
    <3> QED
      BY <2>2, <3>1 DEF FilesHeld
  <2>10. ErrorsRise'
    BY <1>1, <1>2, <2>1, <2>2 DEF LoadingInv, ErrorsRise
  <2>11. EnvIsLinked'
    <3>1. ~dropped.locked
      BY <1>1, <1>3, <1>4 DEF LoadingInv, CallsNest
    <3>2. env.refcount >= 1 /\ (~abandoned => env.refcount = 1)
      BY <1>1, <2>4 DEF LoadingInv, EnvIsLinked, One
    <3>3. env'.made /\ ~env'.locked /\ env'.refcount = env.refcount
      BY <1>1, <1>3, <2>1, <3>1
    <3>4. phase' = "returned" /\ Cardinality(Linking') + 1 = 1 /\ abandoned' = abandoned
      BY <1>2, <2>1, <2>3
    <3> QED
      BY <3>2, <3>3, <3>4 DEF EnvIsLinked, One
  <2>12. (locks = Locked)'
    <3>1. env'.made /\ phase' = "returned" /\ abandoned' = abandoned
      BY <1>1, <1>2, <1>3, <2>1
    <3> QED
      BY <2>3, <2>6, <3>1 DEF Locked
  <2>13. EnvironmentStaysAlive' /\ LeakCheckFindsLeaks'
    BY <1>2, <2>1 DEF LoadingInv, EnvironmentStaysAlive, LeakCheckFindsLeaks
  <2> QED
    BY <2>7, <2>8, <2>9, <2>10, <2>11, <2>12, <2>13 DEF LoadingInv
<1>5. CASE Depth > 1
  <2> DEFINE n == Depth - 1
             caller == stack[n]
             a == ReturnTo(caller, Top.stat)
             gone == Top.stat # "OK"
  <2>1. /\ n \in 1..Depth /\ n \in Nat \ {0} /\ Depth = n + 1 /\ n # Depth
        /\ 1..Depth = 1..n \cup {Depth} /\ Depth \notin 1..n
    BY <1>1, <1>5
  <2>2. /\ caller \in Activation /\ caller.pc = "eval" /\ caller.handles /\ caller.stat = "OK"
        /\ Top \in Activation
    BY <1>1, <2>1 DEF LoadingInv, CallsNest, FilesHeld, ErrorsRise, Activation
  <2>3. /\ a \in Activation /\ a.env = caller.env /\ a.fd = caller.fd /\ a.handles
        /\ a.stat = Top.stat
        /\ a.pc = IF gone THEN "cleanup" ELSE "eval"
    BY <2>2 DEF ReturnTo, Activation
  <2>4. /\ stack' = [SubSeq(stack, 1, Depth - 1) EXCEPT ![Depth - 1] = a]
        /\ env' = (IF a.pc = "cleanup" /\ caller.env = "main"
                   THEN [dropped EXCEPT !.refcount = @ - 1] ELSE dropped)
        /\ UNCHANGED <<phase, status>>
    BY <1>5 DEF Cleanup, dropped
  <2> HIDE DEF n, caller, a, gone
  <2>5. /\ stack' \in Seq(Activation) /\ stack' # <<>>
        /\ Depth' = n /\ Top' = a /\ stack'[n] = a
        /\ \A i \in 1..n : i # n => stack'[i] = stack[i]
        /\ Cardinality(Loaded') = Cardinality(Loaded) - One(Top.handles) + One(a.handles) - One(caller.handles)
        /\ Cardinality(Linking') = Cardinality(Linking) - One(Links(Top)) + One(Links(a)) - One(Links(caller))
    BY <1>5, <2>3, <2>4, CallReturns DEF LoadingInv, n, caller
  <2>6. /\ One(a.handles) = 1 /\ One(caller.handles) = 1 /\ One(Links(Top)) = 0
        /\ One(Links(caller)) = One(caller.env = "main")
        /\ One(Links(a)) = One(caller.env = "main" /\ ~gone)
        /\ One(Top.handles) \in Nat
    BY <1>1, <2>2, <2>3 DEF One, Links
  <2> DEFINE released == One(caller.env = "main" /\ gone)
  <2>7. /\ released \in Nat
        /\ Cardinality(Loaded') = Cardinality(Loaded) - One(Top.handles)
        /\ Cardinality(Linking') = Cardinality(Linking) - released
    BY <1>1, <2>5, <2>6 DEF One
  <2>8. Cardinality(Loaded') \in Nat /\ Cardinality(Linking') \in Nat
    <3>1. Loaded' \in SUBSET (1..n) /\ Linking' \in SUBSET (1..n)
      BY <2>5 DEF Loaded, Linking
    <3> QED
      BY <2>1, <3>1, CountAt
  <2>9. env.refcount >= Cardinality(Linking) + 1 /\ (~abandoned => env.refcount = Cardinality(Linking) + 1)
    BY <1>1 DEF LoadingInv, EnvIsLinked, One
  <2>10. /\ env' \in Environment /\ env'.made /\ ~env'.freed
         /\ env'.refcount = env.refcount - released
    <3>1. env.refcount \in Nat /\ env.refcount >= released
      BY <1>1, <2>7, <2>8, <2>9 DEF Environment
    <3>2. CASE gone /\ caller.env = "main"
      <4>1. released = 1 /\ env' = [dropped EXCEPT !.refcount = @ - 1]
        BY <2>3, <2>4, <3>2 DEF One, released
      <4>2. env.refcount - 1 \in Nat
        BY <3>1, <4>1
      <4> QED
        BY <1>1, <1>3, <4>1, <4>2 DEF Environment
    <3>3. CASE ~(gone /\ caller.env = "main")
      <4>1. released = 0 /\ env' = dropped
        BY <2>3, <2>4, <3>3 DEF One, released
      <4>2. env.refcount - released = env.refcount
        BY <3>1, <4>1
      <4> QED
        BY <1>1, <1>3, <4>1, <4>2
    <3> QED
      BY <3>2, <3>3
  <2> HIDE DEF released
  <2>11. (locks = Locked)' /\ locks' \in Nat
    <3>1. locks = 2 * Cardinality(Loaded) + 2 + (IF abandoned THEN 10 ELSE 0)
      BY <1>1 DEF LoadingInv, Locked
    <3> DEFINE stay == IF abandoned THEN 10 ELSE 0
    <3>2. Cardinality(Loaded) \in Nat /\ stay \in Nat /\ locks' = locks - 2 * One(Top.handles)
      BY <1>1, <1>2
    <3> HIDE DEF stay
    <3>3. locks = 2 * Cardinality(Loaded) + 2 + stay
      BY <3>1 DEF stay
    <3>4. locks' = 2 * Cardinality(Loaded') + 2 + stay
      BY <2>6, <2>7, <3>2, <3>3
    <3>5. locks' = 2 * Cardinality(Loaded') + 2 + (IF abandoned THEN 10 ELSE 0)
      BY <3>4 DEF stay
    <3>6. phase' = "eval" /\ abandoned' = abandoned
      BY <1>1, <1>2, <2>4
    <3> QED
      BY <2>8, <2>10, <3>5, <3>6 DEF Locked
  <2>12. EnvIsLinked'
    <3>1. phase' = "eval" /\ abandoned' = abandoned
      BY <1>1, <1>2, <2>4
    <3>2. env'.refcount >= Cardinality(Linking') + 1 /\ (~abandoned => env'.refcount = Cardinality(Linking') + 1)
      BY <1>1, <2>7, <2>8, <2>9, <2>10 DEF Environment
    <3> QED
      BY <2>10, <3>1, <3>2 DEF EnvIsLinked, One
  <2>13. TypeOK'
    <3>1. Depth' <= MaxDepth
      BY <1>1, <2>1, <2>5, LoadingAssumption DEF LoadingInv, TypeOK
    <3> QED
      BY <1>2, <2>4, <2>5, <2>10, <2>11, <3>1 DEF LoadingInv, TypeOK
  <2>14. CallsNest'
    <3>1. stack'[1].env = "main"
      BY <1>1, <2>1, <2>3, <2>5 DEF LoadingInv, CallsNest, caller
    <3>2. \A i \in 1..n : i # n => stack'[i].pc = "eval"
      BY <2>1, <2>5 DEF LoadingInv, CallsNest
    <3> QED
      BY <1>1, <2>4, <2>5, <3>1, <3>2 DEF CallsNest
  <2>15. ErrorsRise'
    <3>1. a.stat = "error" => a.pc = "cleanup"
      BY <2>3 DEF gone
    <3>2. \A i \in 1..n : stack'[i].stat = "error" => stack'[i].pc = "cleanup"
      BY <2>1, <2>5, <3>1 DEF LoadingInv, ErrorsRise
    <3>3. phase = "eval" /\ phase' = "eval" /\ status' = status /\ failed' = failed /\ Top'.stat = Top.stat
      BY <1>1, <1>2, <2>3, <2>4, <2>5
    <3>4. status = "OK" /\ (failed <=> Top.stat = "error")
      BY <3>3 DEF LoadingInv, ErrorsRise
    <3> QED
      BY <2>5, <3>2, <3>3, <3>4 DEF ErrorsRise
  <2>16. FilesHeld'
    <3>1. \A i \in 1..n : stack'[i].fd = stack[i].fd /\ stack'[i].handles = stack[i].handles
      BY <2>2, <2>3, <2>5 DEF caller, Activation
    <3>2. \A i \in 1..n : stack[i].handles /\ stack[i].fd \in Fd /\ stack[i].fd # Top.fd
      <4>1. \A i \in 1..n : i \in 1..Depth /\ i # Depth
        BY <2>1
      <4>2. \A i \in 1..n : stack[i].handles /\ stack[i].fd \in Fd
        BY <4>1 DEF LoadingInv, CallsNest, FilesHeld
      <4>3. \A i \in 1..n : stack[i].fd # stack[Depth].fd
        BY <1>1, <4>1, <4>2 DEF LoadingInv, FilesHeld
      <4> QED
        BY <1>1, <4>2, <4>3
    <3>3. \A i \in 1..n : i # n => stack'[i].pc = "eval"
      BY <2>1, <2>5 DEF LoadingInv, CallsNest
    <3>4. \A i \in 1..n : stack'[i].pc \in {"eval", "cleanup"} /\ stack'[i].handles /\ stack'[i].fd \in Fd
      BY <2>3, <2>5, <3>1, <3>2, <3>3
    <3>5. \A fd \in Fd : fd \in descriptors' <=> \E i \in 1..n : stack'[i].fd = fd
      <4>1. \A fd \in Fd : fd \in descriptors <=> \E i \in 1..Depth : stack[i].fd = fd
        BY DEF LoadingInv, FilesHeld
      <4> QED
        BY <1>1, <1>2, <2>1, <3>1, <3>2, <4>1, SMTT(20)
    <3>6. \A fd \in Fd : fd \in mappings' <=> \E i \in 1..n : stack'[i].handles /\ stack'[i].fd = fd
      <4>1. \A fd \in Fd : fd \in mappings <=> \E i \in 1..Depth : stack[i].handles /\ stack[i].fd = fd
        BY DEF LoadingInv, FilesHeld
      <4>2. ASSUME NEW fd \in Fd, fd \in mappings'
            PROVE  \E i \in 1..n : stack'[i].handles /\ stack'[i].fd = fd
        <5>1. PICK i \in 1..Depth : stack[i].handles /\ stack[i].fd = fd
          BY <1>2, <4>1, <4>2
        <5>2. i \in 1..n
          BY <1>1, <1>2, <2>1, <4>2, <5>1
        <5> QED
          BY <3>1, <5>1, <5>2
      <4>3. ASSUME NEW fd \in Fd, NEW i \in 1..n, stack'[i].fd = fd PROVE fd \in mappings'
        BY <1>2, <2>1, <3>1, <3>2, <4>1, <4>3
      <4> QED
        BY <4>2, <4>3
    <3>7. \A i, j \in 1..n : stack'[i].fd = stack'[j].fd /\ stack'[i].fd \in Fd => i = j
      BY <2>1, <3>1 DEF LoadingInv, FilesHeld
    <3> QED
      BY <2>5, <3>4, <3>5, <3>6, <3>7 DEF FilesHeld
  <2>17. EnvironmentStaysAlive' /\ LeakCheckFindsLeaks'
    BY <1>1, <2>4, <2>10 DEF EnvironmentStaysAlive, LeakCheckFindsLeaks
  <2> QED
    BY <2>11, <2>12, <2>13, <2>14, <2>15, <2>16, <2>17 DEF LoadingInv
<1> QED
  BY <1>1, <1>4, <1>5

(* The ends of the program in readevalfn, and the collector.               *)
LEMMA OtherKeeps ==
    ASSUME LoadingInv, DropsNull \/ UnmapsUnset \/ ParseCrash \/ Collect \/ UNCHANGED vars
    PROVE  LoadingInv'
<1>1. /\ UNCHANGED <<incremental, files, locks, status, abandoned, strays, warned>>
      /\ failed' \in BOOLEAN /\ (ParseCrash \/ failed' = failed)
  BY DEF DropsNull, UnmapsUnset, ParseCrash, Collect, vars, ends, LoadingInv, TypeOK
<1>2. /\ stack' = stack /\ Depth' = Depth /\ Top' = Top /\ Loaded' = Loaded /\ Linking' = Linking
      /\ (FilesHeld <=> FilesHeld')
      /\ descriptors' = descriptors /\ mappings' = mappings
  BY <1>1, SameFiles DEF files
<1>3. Cardinality(Linking) \in Nat /\ env \in Environment
  BY Counts DEF LoadingInv, TypeOK
<1>4. CASE DropsNull \/ UnmapsUnset \/ ParseCrash
  <2>1. phase = "eval" /\ phase' \in {"crashed", "undefined"} /\ env' = env
    BY <1>4 DEF DropsNull, UnmapsUnset, ParseCrash, At
  <2>2. TypeOK' /\ CallsNest' /\ ErrorsRise'
    BY <1>1, <1>2, <2>1 DEF LoadingInv, TypeOK, CallsNest, ErrorsRise, ends
  <2>3. EnvIsLinked'
    BY <1>1, <1>2, <1>3, <2>1 DEF LoadingInv, EnvIsLinked, Environment, One, ends
  <2>4. (locks = Locked)' /\ EnvironmentStaysAlive' /\ LeakCheckFindsLeaks'
    BY <1>1, <1>2, <2>1 DEF LoadingInv, Locked, EnvIsLinked, EnvironmentStaysAlive, LeakCheckFindsLeaks, ends
  <2> QED
    BY <1>2, <2>2, <2>3, <2>4 DEF LoadingInv
<1>5. CASE Collect
  <2>1. /\ phase' = phase /\ phase \in {"eval", "returned", "cleanup"}
        /\ env' = [env EXCEPT !.freed = TRUE] /\ env.refcount = 0
    BY <1>5 DEF Collect, Garbage
  <2>2. /\ env' \in Environment /\ env'.made = env.made /\ env'.locked = env.locked
        /\ env'.refcount = env.refcount
    BY <1>3, <2>1 DEF Environment
  <2>3. stack = <<>> /\ failed' = failed
    BY <1>1, <1>3, <2>1 DEF LoadingInv, EnvIsLinked, CallsNest, One, ParseCrash
  <2>4. TypeOK' /\ CallsNest' /\ ErrorsRise' /\ EnvironmentStaysAlive' /\ LeakCheckFindsLeaks'
    BY <1>1, <1>2, <2>1, <2>2, <2>3
       DEF LoadingInv, TypeOK, CallsNest, ErrorsRise, EnvironmentStaysAlive, LeakCheckFindsLeaks, ends
  <2>5. EnvIsLinked' /\ (locks = Locked)'
    BY <1>1, <1>2, <2>1, <2>2 DEF LoadingInv, EnvIsLinked, Locked, One, ends
  <2> QED
    BY <1>2, <2>4, <2>5 DEF LoadingInv
<1>6. CASE UNCHANGED vars
  <2>1. phase' = phase /\ env' = env /\ failed' = failed
    BY <1>6 DEF vars, ends
  <2> QED
    BY <1>1, <1>2, <2>1
       DEF LoadingInv, TypeOK, CallsNest, ErrorsRise, EnvIsLinked, Locked, EnvironmentStaysAlive, LeakCheckFindsLeaks, ends
<1> QED
  BY <1>4, <1>5, <1>6

(* The invariant, for every set of descriptors and every depth.            *)
THEOREM LoadingCorrect == Spec => []LoadingInv
<1>1. LoadingInv /\ [Next]_vars => LoadingInv'
  <2> SUFFICES ASSUME LoadingInv, [Next]_vars PROVE LoadingInv'
    OBVIOUS
  <2>1. CASE Main
    BY <2>1, MainKeeps
  <2>2. CASE Opening
    BY <2>2, OpeningKeeps
  <2>3. CASE ParseForm \/ ParseError \/ ParseEnd \/ EvalDone \/ EvalError \/ EvalReturnsEarly
    BY <2>3, LoopKeeps
  <2>4. CASE ReadEval
    BY <2>4, ReadEvalKeeps
  <2>5. CASE Cleanup
    BY <2>5, CleanupKeeps
  <2>6. CASE DropsNull \/ UnmapsUnset \/ ParseCrash \/ Collect \/ Over \/ UNCHANGED vars
    BY <2>6, OtherKeeps DEF Over
  <2> QED
    BY <2>1, <2>2, <2>3, <2>4, <2>5, <2>6 DEF Next, Reading, Evaluating, Ending
<1> QED
  BY <1>1, LoadingInit, PTL DEF Spec

-----------------------------------------------------------------------------
(* However deep files load files and wherever one fails, every call has a  *)
(* descriptor and a mapping of its own, and gives both back (readevalfn,   *)
(* map_file, unmap_file).                                                  *)
THEOREM FilesCorrect == Spec => []FilesFollowCalls
<1>1. LoadingInv => FilesFollowCalls
  <2> SUFFICES ASSUME LoadingInv PROVE FilesFollowCalls
    OBVIOUS
  <2>1. /\ stack \in [1..Depth -> Activation] /\ NoFd \notin Fd /\ Unset \notin Fd
        /\ descriptors \subseteq Fd /\ mappings \subseteq Fd
    BY LenProperties, LoadingAssumption DEF LoadingInv, TypeOK, Depth, NoFd, Unset
  <2>2. \A i \in 1..Depth : stack[i].fd \in Fd \cup {NoFd, Unset}
    BY <2>1 DEF Activation
  <2>3. descriptors = {stack[i].fd : i \in 1..Depth} \ {NoFd, Unset}
    BY <2>1, <2>2 DEF LoadingInv, FilesHeld
  <2>4. mappings = {stack[i].fd : i \in {j \in 1..Depth : stack[j].handles}}
    BY <2>1 DEF LoadingInv, FilesHeld
  <2>5. \A i, j \in 1..Depth : stack[i].fd = stack[j].fd /\ i # j => stack[i].fd = Unset
    <3> SUFFICES ASSUME NEW i \in 1..Depth, NEW j \in 1..Depth, stack[i].fd = stack[j].fd, i # j PROVE FALSE
      OBVIOUS
    <3>1. i # Depth \/ j # Depth
      OBVIOUS
    <3>2. stack[i].fd \in Fd
      BY <3>1 DEF LoadingInv, CallsNest, FilesHeld
    <3> QED
      BY <3>2 DEF LoadingInv, FilesHeld
  <2> QED
    BY <2>3, <2>4, <2>5 DEF FilesFollowCalls, LoadingInv
<1> QED
  BY <1>1, LoadingCorrect, PTL

(* The handles locked are those of the calls under way, and the ten of an  *)
(* early return of eval (eval.c:339).                                      *)
THEOREM LocksCorrect == Spec => []LocksFollowCalls
<1>1. LoadingInv => LocksFollowCalls
  BY DEF LoadingInv, LocksFollowCalls, Locked, Loaded
<1> QED
  BY <1>1, LoadingCorrect, PTL

(* No failure is lost on the way out of nested files: main's status is     *)
(* that of success only if everything was loaded to its end.               *)
THEOREM ErrorsCorrect == Spec => []ErrorsReachMain
<1>1. LoadingInv => ErrorsReachMain
  BY DEF LoadingInv, ErrorsRise, ErrorsReachMain
<1> QED
  BY <1>1, LoadingCorrect, PTL

(* The environment is there as long as anything is evaluated in it.        *)
THEOREM EnvironmentCorrect == Spec => []EnvironmentStaysAlive
<1>1. LoadingInv => EnvironmentStaysAlive
  BY DEF LoadingInv
<1> QED
  BY <1>1, LoadingCorrect, PTL

(* PAREN_LEAK_CHECK (paren.c:146-155) warns exactly if eval has left by its *)
(* early return or a failed parse has left a root.                         *)
THEOREM LeakCheckCorrect == Spec => []LeakCheckFindsLeaks
<1>1. LoadingInv => LeakCheckFindsLeaks
  BY DEF LoadingInv
<1> QED
  BY <1>1, LoadingCorrect, PTL

-----------------------------------------------------------------------------
(* The way out.  A call that failed has only to end, and then the program; *)
(* the environment may be freed once on the way.                           *)
Rank ==
    CASE phase = "start"    -> 5
      [] phase = "eval"     -> 4
      [] phase = "returned" -> 3
      [] phase = "cleanup"  -> 2
      [] phase = "checked"  -> 1
      [] OTHER              -> 0
ToUnwind == Depth + Rank + One(~env.freed)

(* After a failure every step brings the program nearer to its end: no     *)
(* file is opened and no form read or evaluated any more, in any of the    *)
(* files that are being loaded.                                            *)
FailureUnwinds == [][failed => ToUnwind' < ToUnwind]_vars

LEMMA UnwindFits == LoadingInv => ToUnwind \in Nat
<1> SUFFICES ASSUME LoadingInv PROVE ToUnwind \in Nat
  OBVIOUS
<1>1. Depth \in Nat
  BY LenProperties DEF LoadingInv, TypeOK, Depth
<1>2. Rank \in 0..5 /\ One(~env.freed) \in 0..1
  BY DEF Rank, One
<1> QED
  BY <1>1, <1>2 DEF ToUnwind

(* A step goes down a rank, ends a call, or frees the environment.         *)
LEMMA UnwindsBy ==
    ASSUME NEW d \in Nat, NEW e \in Nat, NEW r \in Nat, NEW s \in Nat, NEW f \in 0..1, NEW g \in 0..1,
           e <= d, s <= r, g <= f, e < d \/ s < r \/ g < f
    PROVE  e + s + g < d + r + f
OBVIOUS

LEMMA UnwindStep ==
    ASSUME LoadingInv, LoadingInv', Next, failed
    PROVE  ToUnwind' < ToUnwind \/ UNCHANGED vars
<1>1. /\ Depth \in Nat /\ Rank \in Nat /\ One(~env.freed) \in 0..1
      /\ Depth' \in Nat /\ Rank' \in Nat /\ One(~env.freed)' \in 0..1
  <2>1. Depth \in Nat /\ Depth' \in Nat
    BY LenProperties DEF LoadingInv, TypeOK, Depth
  <2> QED
    BY <2>1 DEF Rank, One
<1>2. SUFFICES ASSUME ~UNCHANGED vars
               PROVE  /\ Depth' <= Depth /\ Rank' <= Rank /\ One(~env.freed)' <= One(~env.freed)
                      /\ Depth' < Depth \/ Rank' < Rank \/ One(~env.freed)' < One(~env.freed)
  BY <1>1, UnwindsBy DEF ToUnwind
<1>3. /\ phase # "start"
      /\ phase = "eval" => Top.stat = "error" /\ Top.pc = "cleanup"
  <2>1. phase # "start" /\ (phase = "eval" => Top.stat = "error")
    BY DEF LoadingInv, ErrorsRise
  <2>2. phase = "eval" => Depth \in 1..Depth
    BY <1>1, EmptySeq, LenProperties DEF LoadingInv, TypeOK, CallsNest, Depth
  <2> QED
    BY <2>1, <2>2 DEF LoadingInv, ErrorsRise, Top
<1>4. ~Opening /\ ~Reading /\ ~Evaluating /\ ~NoArguments /\ ~Bootstrap
  BY <1>3 DEF Opening, BadPath, OpenFails, MapFails, MapFile, Reading, ParseForm, ParseError, ParseCrash, ParseEnd,
              Evaluating, EvalDone, EvalError, EvalReturnsEarly, ReadEval, At, NoArguments, Bootstrap
<1>5. CASE EvalReturns \/ PrintEnv \/ LeakCheck \/ Exit \/ DropsNull \/ UnmapsUnset
  <2>1. Depth' = Depth
    BY <1>5 DEF EvalReturns, PrintEnv, LeakCheck, Exit, DropsNull, UnmapsUnset, files, Depth
  <2>2. Rank' < Rank
    <3>1. \/ phase = "returned" /\ phase' = "cleanup"
          \/ phase = "cleanup" /\ phase' \in {"checked", "crashed", "exited"}
          \/ phase = "checked" /\ phase' = "exited"
          \/ phase = "eval" /\ phase' \in {"crashed", "undefined"}
      BY <1>5 DEF EvalReturns, PrintEnv, LeakCheck, Exit, DropsNull, UnmapsUnset, At
    <3> QED
      BY <3>1 DEF Rank
  <2>3. env.freed => env'.freed
    BY <1>5 DEF EvalReturns, PrintEnv, LeakCheck, Exit, DropsNull, UnmapsUnset, LoadingInv, TypeOK, Environment
  <2> QED
    BY <1>1, <2>1, <2>2, <2>3 DEF One
<1>6. CASE Collect
  <2>1. Depth' = Depth /\ Rank' = Rank
    BY <1>6 DEF Collect, files, Depth, Rank
  <2>2. ~env.freed /\ env'.freed
    BY <1>6 DEF Collect, LoadingInv, TypeOK, Environment
  <2> QED
    BY <1>1, <2>1, <2>2 DEF One
<1>7. CASE Cleanup
  <2>1. Depth' = Depth - 1
    <3>1. CASE Depth > 1
      <4> DEFINE caller == stack[Depth - 1]
                 returned == ReturnTo(caller, Top.stat)
      <4>1. stack' = [SubSeq(stack, 1, Depth - 1) EXCEPT ![Depth - 1] = returned]
        BY <1>7, <3>1 DEF Cleanup
      <4>2. returned \in Activation
        <5>1. caller \in Activation
          BY <1>1, <3>1, ElementOfSeq DEF LoadingInv, TypeOK, Depth
        <5>2. [caller EXCEPT !.pc = "cleanup", !.stat = "error"] \in Activation
          BY <5>1 DEF Activation
        <5> QED
          BY <5>1, <5>2 DEF ReturnTo
      <4> HIDE DEF returned
      <4> QED
        BY <3>1, <4>1, <4>2, CallReturns DEF LoadingInv
    <3>2. CASE ~(Depth > 1)
      <4>1. stack' = <<>> /\ stack # <<>>
        BY <1>7, <3>2 DEF Cleanup, At
      <4>2. Depth = 1
        <5>1. Depth # 0
          BY <4>1, EmptySeq DEF LoadingInv, TypeOK, Depth
        <5>2. Depth \in Nat
          BY <1>1
        <5> QED
          BY <3>2, <5>1, <5>2
      <4> QED
        BY <4>1, <4>2 DEF Depth
    <3> QED
      BY <3>1, <3>2
  <2>2. Rank' <= Rank
    BY <1>7 DEF Cleanup, At, Rank
  <2>3. env'.freed = env.freed
    <3>1. env \in Environment /\ Dropped(Top) \in Environment /\ Dropped(Top).freed = env.freed
      BY DEF LoadingInv, TypeOK, Environment, Dropped
    <3>2. \/ env' = Dropped(Top)
          \/ env' = [Dropped(Top) EXCEPT !.refcount = @ - 1]
      BY <1>7 DEF Cleanup
    <3> QED
      BY <3>1, <3>2 DEF Environment
  <2> QED
    BY <1>1, <2>1, <2>2, <2>3 DEF One
<1> QED
  BY <1>2, <1>4, <1>5, <1>6, <1>7 DEF Next, Main, Ending, Over

(* What the failure of a file or a library leads to (builtin_load.c:113,   *)
(* 140, 149; paren.c:125-164): at most as many steps to the end of the     *)
(* program as there are calls of readevalfn, and five.                     *)
THEOREM FailureCorrect == Spec => [](ToUnwind \in Nat) /\ FailureUnwinds
<1>1. LoadingInv /\ LoadingInv' /\ [Next]_vars => [failed => ToUnwind' < ToUnwind]_vars
  BY UnwindStep
<1> QED
  BY <1>1, LoadingCorrect, UnwindFits, PTL DEF Spec, FailureUnwinds
=============================================================================
