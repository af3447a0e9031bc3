----------------------------- MODULE Eval_proofs -----------------------------
(***************************************************************************)
(* The evaluator, for any programs: whatever is called, with whatever      *)
(* arguments, every label finds in the locals what it takes for granted,   *)
(* also in the frames that continuations bring back.  From that: calls     *)
(* bind in the scope of their lambda, and as long as there is no           *)
(* continuation no expression loses its variables or its arguments.        *)
(***************************************************************************)
EXTENDS Eval, SequenceTheorems, FiniteSetTheorems, TLAPS

-----------------------------------------------------------------------------
(* What is good, of a store m.  K are the conses that bind a name: they    *)
(* are known to environments and to nothing else, so that no expression,   *)
(* argument list or value changes when a variable is set.  E are the       *)
(* handles of environments.                                                *)
Data(m, K) == (0..Len(m)) \ K
EnvsOf(K) == Seq(Seq(K))

LocalsOn(m, K, E) ==
    [flags : SUBSET {"tailcall", "frame_added", "new_input"}, restart : Labels \cup {"none"},
     cursor : Data(m, K), na_last : Data(m, K), newargs : Data(m, K), env : E,
     func : Data(m, K), input : Data(m, K)]

GoodLocals(l, m, K, E) ==
    /\ l \in LocalsOn(m, K, E)
    /\ IsList(m, l.newargs) /\ IsList(m, l.na_last)
    /\ (l.newargs = Nil) = (l.na_last = Nil)

(* IsResumable, and that calls have a list of arguments.                   *)
IsCall(m, r) == IsCons(m, r) /\ IsList(m, Cdr(m, r))
Resumes(l, m) ==
    /\ l.restart \in Labels
    /\ l.restart \in {"post_func", "post_if_test"} => IsCall(m, l.input)
    /\ l.restart = "post_def_set" => IsSymbol(m, l.cursor) /\ TypeOf(m, l.func) = "special"
    /\ l.restart = "post_arg" => IsCons(m, l.cursor)
    /\ l.restart = "post_expr" => IsCons(m, l.cursor) /\ Cdr(m, l.cursor) # Nil

GoodFrames(fs, m, K, E) ==
    /\ fs \in Seq(LocalsOn(m, K, E))
    /\ \A i \in DOMAIN fs : GoodLocals(fs[i], m, K, E) /\ Resumes(fs[i], m)

Conses(m, K) == [type : {"cons"}, car : Data(m, K), cdr : Data(m, K)]

GoodNode(n, m, K, E) ==
    \/ n.type \in {"symbol", "value", "special"}
    \/ n.type = "foreign" /\ n.func \in ForeignNames
    \/ n \in Conses(m, K)
    \/ n.type = "lambda" /\ n.env \in EnvsOf(K) /\ n.vars \in Data(m, K) /\ n.expr \in Data(m, K)
    \/ n.type = "continuation" /\ GoodFrames(n.bt, m, K, E)

IsStore(m) == m \in Seq(ToSet(m))

GoodStore(m, K, E) ==
    /\ IsStore(m) /\ K \subseteq DOMAIN m
    /\ \A r \in DOMAIN m : GoodNode(m[r], m, K, E)
    /\ \A k \in K : IsCons(m, k) /\ IsSymbol(m, Car(m, k))

(* How a store goes on: new nodes, other values of bindings, and longer    *)
(* argument lists.                                                         *)
GrowsTo(m, n, K) ==
    /\ Len(m) <= Len(n)
    /\ \A r \in DOMAIN m :
         /\ n[r].type = m[r].type
         /\ m[r].type = "cons" => n[r].car = m[r].car
         /\ m[r].type # "cons" => n[r] = m[r]
         /\ m[r].type = "cons" /\ r \notin K => n[r].cdr = m[r].cdr \/ IsCons(n, n[r].cdr)

(* ... with more bindings among the new nodes, and more handles.           *)
Later(m, K, E, n, L, F) ==
    /\ GrowsTo(m, n, K) /\ K \subseteq L /\ E \subseteq F
    /\ GoodStore(m, K, E) /\ IsStore(n)
    /\ L \subseteq DOMAIN n /\ L \cap DOMAIN m = K

-----------------------------------------------------------------------------
(* Stores as sequences.                                                    *)
LEMMA StoreLength ==
    ASSUME NEW m, IsStore(m)
    PROVE  Len(m) \in Nat /\ DOMAIN m = 1..Len(m)
BY DEF IsStore

LEMMA StoreIs ==
    ASSUME NEW m, NEW S, m \in Seq(S)
    PROVE  IsStore(m)
BY DEF IsStore, ToSet

LEMMA Appended ==
    ASSUME NEW m, NEW node, IsStore(m)
    PROVE  /\ IsStore(New(m, node)) /\ Len(New(m, node)) = Len(m) + 1
           /\ New(m, node)[Len(m) + 1] = node
           /\ \A r \in DOMAIN m : New(m, node)[r] = m[r]
<1> DEFINE S == ToSet(m) \cup {node}
<1>1. m \in Seq(S) /\ node \in S
  BY DEF IsStore
<1>2. New(m, node) \in Seq(S)
  BY <1>1 DEF New
<1>3. IsStore(New(m, node))
  BY <1>2, StoreIs
<1> HIDE DEF S
<1> QED
  BY <1>1, <1>3 DEF New

LEMMA Joined ==
    ASSUME NEW m, NEW s, IsStore(m), IsStore(s)
    PROVE  /\ IsStore(m \o s) /\ Len(m \o s) = Len(m) + Len(s)
           /\ \A r \in DOMAIN m : (m \o s)[r] = m[r]
           /\ \A i \in DOMAIN s : (m \o s)[Len(m) + i] = s[i]
<1> DEFINE S == ToSet(m) \cup ToSet(s)
<1>1. m \in Seq(S) /\ s \in Seq(S)
  BY DEF IsStore
<1>2. m \o s \in Seq(S)
  BY <1>1
<1>3. IsStore(m \o s)
  BY <1>2, StoreIs
<1> HIDE DEF S
<1> QED
  BY <1>1, <1>3

LEMMA Patched ==
    ASSUME NEW m, NEW r \in DOMAIN m, NEW d, IsStore(m)
    PROVE  /\ IsStore(PatchCdr(m, r, d)) /\ Len(PatchCdr(m, r, d)) = Len(m)
           /\ DOMAIN PatchCdr(m, r, d) = DOMAIN m
           /\ PatchCdr(m, r, d)[r] = [m[r] EXCEPT !.cdr = d]
           /\ \A q \in DOMAIN m : q # r => PatchCdr(m, r, d)[q] = m[q]
<1> DEFINE node == [m[r] EXCEPT !.cdr = d]
<1> DEFINE p == [m EXCEPT ![r] = node]
<1> DEFINE S == ToSet(m) \cup {node}
<1>1. PatchCdr(m, r, d) = p
  BY DEF PatchCdr
<1>2. m \in Seq(S) /\ node \in S
  BY DEF IsStore
<1> HIDE DEF node, S
<1>3. p \in Seq(S) /\ Len(p) = Len(m) /\ DOMAIN p = DOMAIN m
  BY <1>2
<1>4. IsStore(p)
  BY <1>3, StoreIs
<1>5. p[r] = node /\ \A q \in DOMAIN m : q # r => p[q] = m[q]
  BY <1>2
<1> QED
  BY <1>1, <1>3, <1>4, <1>5 DEF node

-----------------------------------------------------------------------------
(* What stays good when the store goes on.                                 *)
LEMMA DataStays ==
    ASSUME NEW m, NEW K, NEW E, NEW n, NEW L, NEW F, Later(m, K, E, n, L, F)
    PROVE  /\ Data(m, K) \subseteq Data(n, L)
           /\ \A r \in 0..Len(m) : TypeOf(n, r) = TypeOf(m, r)
           /\ \A r \in Data(m, K) : IsList(m, r) /\ IsList(m, Cdr(m, r)) => IsList(n, Cdr(n, r))
           /\ \A r \in Data(m, K) : IsCons(m, r) /\ Cdr(m, r) # Nil => Cdr(n, r) # Nil
<1>1. /\ Len(m) \in Nat /\ DOMAIN m = 1..Len(m) /\ Len(n) \in Nat /\ DOMAIN n = 1..Len(n)
      /\ Len(m) <= Len(n)
  BY StoreLength DEF Later, GrowsTo, GoodStore
<1>2. Data(m, K) \subseteq Data(n, L)
  BY <1>1 DEF Data, Later
<1>3. \A r \in 0..Len(m) : r # 0 => r \in DOMAIN m
  BY <1>1
<1>4. \A r \in 0..Len(m) : TypeOf(n, r) = TypeOf(m, r)
  BY <1>3 DEF TypeOf, Nil, Later, GrowsTo
<1>5. ASSUME NEW r \in Data(m, K), r # 0, IsCons(m, r)
      PROVE  Cdr(n, r) = Cdr(m, r) \/ IsCons(n, Cdr(n, r))
  BY <1>3, <1>5 DEF Later, GrowsTo, Cdr, IsCons, TypeOf, Nil, Data
<1>6. \A r \in Data(m, K) : r \in 0..Len(m)
  BY DEF Data
<1>7. \A r : IsCons(n, r) => r # Nil /\ IsList(n, r)
  BY DEF IsCons, IsList, TypeOf
<1>8. ASSUME NEW r \in Data(m, K), IsList(m, r), IsList(m, Cdr(m, r))
      PROVE  IsList(n, Cdr(n, r))
  <2>1. CASE r = Nil
    BY <2>1 DEF IsList, TypeOf, Cdr
  <2>2. CASE r # Nil
    <3>0. r \in DOMAIN m
      BY <1>3, <1>6, <1>8, <2>2 DEF Nil
    <3>1. IsCons(m, r) /\ r \in DOMAIN m
      <4>1. TypeOf(m, r) \in {"nil", "cons"}
        BY <1>8 DEF IsList
      <4>2. CASE TypeOf(m, r) = "nil"
        <5>1. m[r].type = "nil"
          BY <4>2, <2>2 DEF TypeOf
        <5>2. GoodNode(m[r], m, K, E)
          BY <3>0 DEF Later, GoodStore
        <5> QED
          BY <5>1, <5>2 DEF GoodNode, Conses
      <4> QED
        BY <3>0, <4>1, <4>2 DEF IsCons
    <3>2. m[r] \in Conses(m, K)
      BY <3>1, <2>2 DEF Later, GoodStore, GoodNode, IsCons, TypeOf
    <3>3. Cdr(m, r) \in Data(m, K)
      BY <2>2, <3>2 DEF Conses, Cdr
    <3>4. IsList(n, Cdr(m, r))
      BY <1>4, <1>6, <1>8, <3>3 DEF IsList
    <3> QED
      BY <1>5, <1>7, <3>1, <3>4, <2>2 DEF Nil
  <2> QED
    BY <2>1, <2>2
<1>9. ASSUME NEW r \in Data(m, K), IsCons(m, r), Cdr(m, r) # Nil
      PROVE  Cdr(n, r) # Nil
  BY <1>5, <1>7, <1>9 DEF IsCons, TypeOf, Nil
<1> QED
  BY <1>2, <1>4, <1>8, <1>9

LEMMA LocalsStay ==
    ASSUME NEW m, NEW K, NEW E, NEW n, NEW L, NEW F, Later(m, K, E, n, L, F),
           NEW l, GoodLocals(l, m, K, E)
    PROVE  /\ GoodLocals(l, n, L, F)
           /\ Resumes(l, m) => Resumes(l, n)
<1>1. /\ Data(m, K) \subseteq Data(n, L) /\ E \subseteq F
      /\ \A r \in Data(m, K) : TypeOf(n, r) = TypeOf(m, r)
      /\ \A r \in Data(m, K) : IsList(m, r) /\ IsList(m, Cdr(m, r)) => IsList(n, Cdr(n, r))
      /\ \A r \in Data(m, K) : IsCons(m, r) /\ Cdr(m, r) # Nil => Cdr(n, r) # Nil
  <2>1. \A r \in Data(m, K) : r \in 0..Len(m)
    BY DEF Data
  <2>2. E \subseteq F
    BY DEF Later
  <2> QED
    BY DataStays, <2>1, <2>2
<1>2. /\ l \in LocalsOn(m, K, E) /\ IsList(m, l.newargs) /\ IsList(m, l.na_last)
      /\ (l.newargs = Nil) = (l.na_last = Nil)
  BY DEF GoodLocals
<1>3. l.cursor \in Data(m, K) /\ l.na_last \in Data(m, K) /\ l.newargs \in Data(m, K)
      /\ l.func \in Data(m, K) /\ l.input \in Data(m, K)
  BY <1>2 DEF LocalsOn
<1>4. l \in LocalsOn(n, L, F)
  BY <1>1, <1>2 DEF LocalsOn
<1>5. GoodLocals(l, n, L, F)
  BY <1>1, <1>2, <1>3, <1>4 DEF GoodLocals, IsList
<1>6. ASSUME Resumes(l, m) PROVE Resumes(l, n)
  <2>1. IsCall(m, l.input) => IsCall(n, l.input)
    BY <1>1, <1>3 DEF IsCall, IsCons, IsList
  <2>2. IsCons(m, l.cursor) => IsCons(n, l.cursor)
    BY <1>1, <1>3 DEF IsCons
  <2>3. IsSymbol(m, l.cursor) => IsSymbol(n, l.cursor)
    BY <1>1, <1>3 DEF IsSymbol
  <2>4. TypeOf(n, l.func) = TypeOf(m, l.func)
    BY <1>1, <1>3
  <2>5. IsCons(m, l.cursor) /\ Cdr(m, l.cursor) # Nil => Cdr(n, l.cursor) # Nil
    BY <1>1, <1>3
  <2> QED
    BY <1>6, <2>1, <2>2, <2>3, <2>4, <2>5 DEF Resumes
<1> QED
  BY <1>5, <1>6

LEMMA FramesStay ==
    ASSUME NEW m, NEW K, NEW E, NEW n, NEW L, NEW F, Later(m, K, E, n, L, F),
           NEW fs, GoodFrames(fs, m, K, E)
    PROVE  GoodFrames(fs, n, L, F)
<1>1. fs \in Seq(LocalsOn(m, K, E)) /\ \A i \in DOMAIN fs : GoodLocals(fs[i], m, K, E) /\ Resumes(fs[i], m)
  BY DEF GoodFrames
<1>2. \A i \in DOMAIN fs : GoodLocals(fs[i], n, L, F) /\ Resumes(fs[i], n)
  BY <1>1, LocalsStay
<1>3. \A i \in DOMAIN fs : fs[i] \in LocalsOn(n, L, F)
  BY <1>2 DEF GoodLocals
<1>4. fs \in Seq(LocalsOn(n, L, F))
  BY <1>1, <1>3
<1> QED
  BY <1>2, <1>4 DEF GoodFrames

LEMMA EnvsStay ==
    ASSUME NEW K, NEW L, K \subseteq L, NEW e \in EnvsOf(K)
    PROVE  e \in EnvsOf(L)
<1>1. Seq(K) \subseteq Seq(L)
  OBVIOUS
<1> HIDE DEF EnvsOf
<1>2. \A S, T : S \subseteq T => Seq(S) \subseteq Seq(T)
  OBVIOUS
<1> QED
  BY <1>1, <1>2 DEF EnvsOf

(* A node that is not patched.                                             *)
LEMMA NodeStays ==
    ASSUME NEW m, NEW K, NEW E, NEW n, NEW L, NEW F, Later(m, K, E, n, L, F),
           NEW node, GoodNode(node, m, K, E)
    PROVE  GoodNode(node, n, L, F)
<1>1. Data(m, K) \subseteq Data(n, L) /\ K \subseteq L
  BY DataStays DEF Later
<1>2. CASE node.type \in {"symbol", "value", "special"} \/ (node.type = "foreign" /\ node.func \in ForeignNames)
  BY <1>2 DEF GoodNode
<1>3. CASE node \in Conses(m, K)
  BY <1>1, <1>3 DEF GoodNode, Conses
<1>4. CASE node.type = "lambda" /\ node.env \in EnvsOf(K) /\ node.vars \in Data(m, K) /\ node.expr \in Data(m, K)
  BY <1>1, <1>4, EnvsStay DEF GoodNode
<1>5. CASE node.type = "continuation" /\ GoodFrames(node.bt, m, K, E)
  BY <1>5, FramesStay DEF GoodNode
<1> QED
  BY <1>2, <1>3, <1>4, <1>5 DEF GoodNode

-----------------------------------------------------------------------------
(* Stores that go on stay good when the nodes that are new are good.       *)
LEMMA LaterIsGood ==
    ASSUME NEW m, NEW K, NEW E, NEW n, NEW L, NEW F, Later(m, K, E, n, L, F),
           \A r \in DOMAIN n : (r \in DOMAIN m /\ n[r] = m[r]) \/ GoodNode(n[r], n, L, F),
           \A k \in L \ K : IsCons(n, k) /\ IsSymbol(n, Car(n, k))
    PROVE  GoodStore(n, L, F)
<1>1. /\ IsStore(n) /\ L \subseteq DOMAIN n /\ K \subseteq DOMAIN m /\ GrowsTo(m, n, K)
      /\ \A r \in DOMAIN m : GoodNode(m[r], m, K, E)
      /\ \A k \in K : IsCons(m, k) /\ IsSymbol(m, Car(m, k))
  BY DEF Later, GoodStore
<1>2. /\ Len(m) \in Nat /\ DOMAIN m = 1..Len(m)
      /\ \A r \in 0..Len(m) : TypeOf(n, r) = TypeOf(m, r)
  <2>1. IsStore(m)
    BY DEF Later, GoodStore
  <2> QED
    BY <2>1, StoreLength, DataStays
<1>3. \A r \in DOMAIN n : GoodNode(n[r], n, L, F)
  BY <1>1, NodeStays
<1>4. ASSUME NEW k \in K PROVE IsCons(n, k) /\ IsSymbol(n, Car(n, k))
  <2>1. IsCons(m, k) /\ IsSymbol(m, Car(m, k)) /\ k \in DOMAIN m /\ k # Nil
    BY <1>1, <1>2 DEF Nil
  <2>2. m[k].type = "cons"
    BY <2>1 DEF IsCons, TypeOf
  <2>3. Car(n, k) = Car(m, k)
    BY <1>1, <2>1, <2>2 DEF GrowsTo, Car
  <2>4. Car(m, k) \in 0..Len(m)
    BY <1>1, <2>1, <2>2 DEF GoodNode, Conses, Data, Car
  <2>5. k \in 0..Len(m)
    BY <1>2, <2>1
  <2> QED
    BY <1>2, <2>1, <2>3, <2>4, <2>5 DEF IsCons, IsSymbol
<1> QED
  BY <1>1, <1>3, <1>4 DEF GoodStore

LEMMA AppendIsGood ==
    ASSUME NEW m, NEW K, NEW E, GoodStore(m, K, E),
           NEW node, GoodNode(node, m, K, E)
    PROVE  /\ Later(m, K, E, New(m, node), K, E) /\ GoodStore(New(m, node), K, E)
           /\ Newest(New(m, node)) \in Data(New(m, node), K)
<1> DEFINE n == New(m, node)
<1>1. IsStore(m) /\ K \subseteq DOMAIN m
  BY DEF GoodStore
<1>2. /\ IsStore(n) /\ Len(n) = Len(m) + 1 /\ n[Len(m) + 1] = node
      /\ \A r \in DOMAIN m : n[r] = m[r]
  BY <1>1, Appended
<1> HIDE DEF n
<1>3. Len(m) \in Nat /\ DOMAIN m = 1..Len(m) /\ DOMAIN n = 1..Len(n)
  BY <1>1, <1>2, StoreLength
<1>4. Later(m, K, E, n, K, E)
  BY <1>1, <1>2, <1>3 DEF Later, GrowsTo
<1>5. \A r \in DOMAIN n : (r \in DOMAIN m /\ n[r] = m[r]) \/ GoodNode(n[r], n, K, E)
  <2> TAKE r \in DOMAIN n
  <2>1. CASE r \in DOMAIN m
    BY <1>2, <2>1
  <2>2. CASE r \notin DOMAIN m
    <3>1. r = Len(m) + 1
      BY <1>2, <1>3, <2>2
    <3>2. GoodNode(node, n, K, E)
      BY <1>4, NodeStays
    <3> QED
      BY <1>2, <3>1, <3>2
  <2> QED
    BY <2>1, <2>2
<1>6. GoodStore(n, K, E)
  BY <1>4, <1>5, LaterIsGood
<1>7. Newest(n) \in Data(n, K)
  BY <1>1, <1>2, <1>3 DEF Newest, Data
<1> QED
  BY <1>4, <1>6, <1>7 DEF n

(* A new binding.                                                          *)
LEMMA BindingIsGood ==
    ASSUME NEW m, NEW K, NEW E, GoodStore(m, K, E),
           NEW name \in Data(m, K), IsSymbol(m, name), NEW value \in Data(m, K)
    PROVE  LET n == New(m, ConsNode(name, value))
               L == K \cup {Newest(n)}
           IN  Later(m, K, E, n, L, E) /\ GoodStore(n, L, E)
<1> DEFINE n == New(m, ConsNode(name, value))
<1> DEFINE L == K \cup {Newest(n)}
<1>1. IsStore(m) /\ K \subseteq DOMAIN m
  BY DEF GoodStore
<1>2. /\ IsStore(n) /\ Len(n) = Len(m) + 1 /\ n[Len(m) + 1] = ConsNode(name, value)
      /\ \A r \in DOMAIN m : n[r] = m[r]
  BY <1>1, Appended
<1> HIDE DEF n
<1>3. Len(m) \in Nat /\ DOMAIN m = 1..Len(m) /\ DOMAIN n = 1..Len(n)
  BY <1>1, <1>2, StoreLength
<1>4. L = K \cup {Len(m) + 1}
  BY <1>2 DEF Newest
<1>5. Later(m, K, E, n, L, E)
  BY <1>1, <1>2, <1>3, <1>4 DEF Later, GrowsTo
<1>6. name \in Data(n, L) /\ value \in Data(n, L)
  BY <1>5, DataStays
<1>7. GoodNode(ConsNode(name, value), n, L, E)
  BY <1>6 DEF GoodNode, ConsNode, Conses
<1> HIDE DEF L
<1>8. \A r \in DOMAIN n : (r \in DOMAIN m /\ n[r] = m[r]) \/ GoodNode(n[r], n, L, E)
  BY <1>2, <1>3, <1>7
<1>9. \A k \in L \ K : IsCons(n, k) /\ IsSymbol(n, Car(n, k))
  <2>1. TypeOf(n, name) = TypeOf(m, name)
    BY <1>5, DataStays DEF Data
  <2> QED
    BY <1>2, <1>3, <1>4, <2>1 DEF IsCons, IsSymbol, TypeOf, Car, Nil, ConsNode
<1>10. GoodStore(n, L, E)
  BY <1>5, <1>8, <1>9, LaterIsGood
<1> QED
  BY <1>5, <1>10 DEF n, L

(* Another value of a binding.                                             *)
LEMMA SettingIsGood ==
    ASSUME NEW m, NEW K, NEW E, GoodStore(m, K, E),
           NEW kv \in K, NEW value \in Data(m, K)
    PROVE  LET n == PatchCdr(m, kv, value)
           IN  Later(m, K, E, n, K, E) /\ GoodStore(n, K, E)
<1> DEFINE n == PatchCdr(m, kv, value)
<1>1. IsStore(m) /\ K \subseteq DOMAIN m /\ kv \in DOMAIN m /\ IsCons(m, kv)
  BY DEF GoodStore
<1>2. /\ IsStore(n) /\ Len(n) = Len(m) /\ DOMAIN n = DOMAIN m
      /\ n[kv] = [m[kv] EXCEPT !.cdr = value]
      /\ \A q \in DOMAIN m : q # kv => n[q] = m[q]
  BY <1>1, Patched
<1> HIDE DEF n
<1>3. Len(m) \in Nat /\ DOMAIN m = 1..Len(m)
  BY <1>1, StoreLength
<1>4. m[kv].type = "cons" /\ m[kv] \in Conses(m, K)
  BY <1>1, <1>3 DEF GoodStore, GoodNode, IsCons, TypeOf, Nil
<1>5. n[kv].type = "cons" /\ n[kv].car = m[kv].car /\ n[kv] \in Conses(m, K)
  BY <1>2, <1>4 DEF Conses
<1>6. GrowsTo(m, n, K)
  <2>1. ASSUME NEW r \in DOMAIN m, r # kv PROVE n[r] = m[r]
    BY <1>2, <1>3, <2>1
  <2>2. /\ n[kv].type = m[kv].type /\ m[kv].type = "cons" /\ n[kv].car = m[kv].car
        /\ kv \notin K => n[kv].cdr = m[kv].cdr \/ IsCons(n, n[kv].cdr)
    BY <1>4, <1>5
  <2>3. Len(m) <= Len(n)
    BY <1>2, <1>3
  <2> QED
    BY <2>1, <2>2, <2>3 DEF GrowsTo
<1>7. Later(m, K, E, n, K, E)
  BY <1>1, <1>2, <1>6 DEF Later
<1>8. GoodNode(n[kv], n, K, E)
  <2>1. GoodNode(n[kv], m, K, E)
    BY <1>5 DEF GoodNode
  <2> QED
    BY <1>7, <2>1, NodeStays
<1>9. \A r \in DOMAIN n : (r \in DOMAIN m /\ n[r] = m[r]) \/ GoodNode(n[r], n, K, E)
  BY <1>2, <1>8
<1>10. \A k \in K \ K : IsCons(n, k) /\ IsSymbol(n, Car(n, k))
  OBVIOUS
<1>11. GoodStore(n, K, E)
  BY <1>7, <1>9, <1>10, LaterIsGood
<1> QED
  BY <1>7, <1>11 DEF n

(* An argument list with one more element.                                 *)
LEMMA ExtendingIsGood ==
    ASSUME NEW m, NEW K, NEW E, GoodStore(m, K, E),
           NEW last \in Data(m, K), IsCons(m, last), NEW value \in Data(m, K)
    PROVE  LET n == PatchCdr(New(m, ConsNode(value, Nil)), last, Len(m) + 1)
           IN  /\ Later(m, K, E, n, K, E) /\ GoodStore(n, K, E)
               /\ Len(m) + 1 \in Data(n, K) /\ IsCons(n, Len(m) + 1)
<1> DEFINE a == New(m, ConsNode(value, Nil))
<1> DEFINE n == PatchCdr(a, last, Len(m) + 1)
<1>1. IsStore(m) /\ K \subseteq DOMAIN m /\ Len(m) \in Nat /\ DOMAIN m = 1..Len(m)
  BY StoreLength DEF GoodStore
<1>2. /\ IsStore(a) /\ Len(a) = Len(m) + 1 /\ a[Len(m) + 1] = ConsNode(value, Nil)
      /\ \A r \in DOMAIN m : a[r] = m[r]
  BY <1>1, Appended
<1> HIDE DEF a
<1>3. last \in DOMAIN m /\ m[last].type = "cons" /\ m[last] \in Conses(m, K) /\ DOMAIN a = 1..Len(a)
  <2>1. last \in DOMAIN m /\ last # Nil
    BY <1>1 DEF IsCons, TypeOf, Data, Nil
  <2> QED
    BY <1>1, <1>2, <2>1, StoreLength DEF GoodStore, GoodNode, IsCons, TypeOf
<1>4. last \in DOMAIN a
  BY <1>1, <1>2, <1>3
<1>5. /\ IsStore(n) /\ Len(n) = Len(m) + 1 /\ DOMAIN n = DOMAIN a
      /\ n[last] = [m[last] EXCEPT !.cdr = Len(m) + 1]
      /\ \A q \in DOMAIN a : q # last => n[q] = a[q]
  BY <1>2, <1>3, <1>4, Patched
<1> HIDE DEF n
<1>6. n[Len(m) + 1] = ConsNode(value, Nil) /\ \A q \in DOMAIN m : q # last => n[q] = m[q]
  BY <1>1, <1>2, <1>3, <1>5
<1>7. IsCons(n, Len(m) + 1)
  BY <1>1, <1>6 DEF IsCons, TypeOf, ConsNode, Nil
<1>8. n[last].type = "cons" /\ n[last].car = m[last].car /\ n[last].cdr = Len(m) + 1
  BY <1>3, <1>5 DEF Conses
<1>9. GrowsTo(m, n, K)
  <2>1. ASSUME NEW r \in DOMAIN m, r # last PROVE n[r] = m[r]
    BY <1>1, <1>5, <1>6, <2>1
  <2>2. /\ n[last].type = m[last].type /\ m[last].type = "cons" /\ n[last].car = m[last].car
        /\ last \notin K => n[last].cdr = m[last].cdr \/ IsCons(n, n[last].cdr)
    BY <1>3, <1>7, <1>8
  <2>3. Len(m) <= Len(n)
    BY <1>1, <1>5, <1>6
  <2> QED
    BY <2>1, <2>2, <2>3 DEF GrowsTo
<1>10. Later(m, K, E, n, K, E)
  BY <1>1, <1>2, <1>3, <1>5, <1>9 DEF Later
<1>11. Len(m) + 1 \in Data(n, K) /\ Nil \in Data(n, K)
  BY <1>1, <1>5 DEF Data, Nil
<1>12. GoodNode(n[Len(m) + 1], n, K, E)
  <2>1. value \in Data(n, K)
    BY <1>10, DataStays
  <2> QED
    BY <1>6, <1>11, <2>1 DEF GoodNode, Conses, ConsNode
<1>13. GoodNode(n[last], n, K, E)
  <2>1. m[last].car \in Data(n, K)
    BY <1>3, <1>10, DataStays DEF Conses
  <2>2. n[last] \in Conses(n, K)
    BY <1>3, <1>5, <1>11, <2>1 DEF Conses
  <2> QED
    BY <2>2 DEF GoodNode
<1>14. \A r \in DOMAIN n : (r \in DOMAIN m /\ n[r] = m[r]) \/ GoodNode(n[r], n, K, E)
  BY <1>1, <1>2, <1>3, <1>5, <1>6, <1>12, <1>13
<1>15. \A k \in K \ K : IsCons(n, k) /\ IsSymbol(n, Car(n, k))
  OBVIOUS
<1>16. GoodStore(n, K, E)
  BY <1>10, <1>14, <1>15, LaterIsGood
<1> QED
  BY <1>7, <1>10, <1>11, <1>16 DEF n, a

(* Several new nodes.                                                      *)
LEMMA JoinedIsLater ==
    ASSUME NEW m, NEW K, NEW E, GoodStore(m, K, E), NEW s, IsStore(s)
    PROVE  Later(m, K, E, m \o s, K, E)
<1> DEFINE n == m \o s
<1>1. IsStore(m) /\ K \subseteq DOMAIN m /\ Len(m) \in Nat /\ DOMAIN m = 1..Len(m)
  BY StoreLength DEF GoodStore
<1>2. /\ IsStore(n) /\ Len(n) = Len(m) + Len(s)
      /\ \A r \in DOMAIN m : n[r] = m[r]
  BY <1>1, Joined
<1> HIDE DEF n
<1>3. DOMAIN n = 1..Len(n) /\ Len(s) \in Nat
  BY <1>2, StoreLength
<1>4. Later(m, K, E, n, K, E)
  BY <1>1, <1>2, <1>3 DEF Later, GrowsTo
<1> QED
  BY <1>4 DEF n

LEMMA JoiningIsGood ==
    ASSUME NEW m, NEW K, NEW E, GoodStore(m, K, E), NEW s, IsStore(s),
           \A i \in DOMAIN s : GoodNode(s[i], m \o s, K, E)
    PROVE  Later(m, K, E, m \o s, K, E) /\ GoodStore(m \o s, K, E)
<1> DEFINE n == m \o s
<1>1. IsStore(m) /\ K \subseteq DOMAIN m /\ Len(m) \in Nat /\ DOMAIN m = 1..Len(m)
  BY StoreLength DEF GoodStore
<1>2. /\ IsStore(n) /\ Len(n) = Len(m) + Len(s)
      /\ \A r \in DOMAIN m : n[r] = m[r]
      /\ \A i \in DOMAIN s : n[Len(m) + i] = s[i]
  BY <1>1, Joined
<1>3. \A i \in DOMAIN s : GoodNode(s[i], n, K, E)
  OBVIOUS
<1> HIDE DEF n
<1>4. DOMAIN n = 1..Len(n) /\ Len(s) \in Nat /\ DOMAIN s = 1..Len(s)
  BY <1>2, StoreLength
<1>5. Later(m, K, E, n, K, E)
  BY JoinedIsLater DEF n
<1>6. \A r \in DOMAIN n : (r \in DOMAIN m /\ n[r] = m[r]) \/ GoodNode(n[r], n, K, E)
  <2> TAKE r \in DOMAIN n
  <2>1. CASE r \in DOMAIN m
    BY <1>2, <2>1
  <2>2. CASE r \notin DOMAIN m
    <3>1. r - Len(m) \in DOMAIN s /\ r = Len(m) + (r - Len(m))
      BY <1>1, <1>2, <1>4, <2>2
    <3> QED
      BY <1>2, <1>3, <3>1
  <2> QED
    BY <2>1, <2>2
<1>7. GoodStore(n, K, E)
  BY <1>5, <1>6, LaterIsGood
<1> QED
  BY <1>5, <1>7 DEF n

-----------------------------------------------------------------------------
(* Every set of naturals that is not empty has a least one: induction      *)
(* without a predicate.                                                    *)
LEMMA LeastNumber ==
    ASSUME NEW T, T \subseteq Nat, T # {}
    PROVE  \E x \in T : \A y \in T : x <= y
<1>1. PICK R : /\ IsWellFoundedOn(R, Nat)
               /\ \A x, y \in Nat : (<<x, y>> \in R) <=> (x < y)
  <2>1. \A x, y \in Nat : (<<x, y>> \in OpToRel(<, Nat)) <=> (x < y)
    BY DEF OpToRel
  <2> QED
    BY <2>1, NatLessThanWellFounded
<1>2. IsWellFoundedOn(R, Nat)
  BY <1>1
<1>3. PICK x \in T : \A y \in T : ~(<<y, x>> \in R)
  BY <1>2, WFMin, Zenon
<1>4. \A y \in T : ~(y < x)
  BY <1>1, <1>3
<1> QED
  BY <1>4

(* Looking a name up gives a binding that the environment holds, or none.  *)
Held(env) == UNION {ToSet(env[i]) : i \in DOMAIN env}

LEMMA BindingIsThere ==
    ASSUME NEW m, NEW K, NEW kvs \in Seq(K), NEW sym
    PROVE  Binding(m, kvs, sym) \in ToSet(kvs) \cup {Nil} /\ ToSet(kvs) \subseteq K
<1> DEFINE named == {i \in DOMAIN kvs : NameIn(m, kvs[i]) = m[sym].name}
<1> DEFINE i == CHOOSE x \in named : \A j \in named : x <= j
<1>1. DOMAIN kvs = 1..Len(kvs) /\ Len(kvs) \in Nat /\ \A x \in DOMAIN kvs : kvs[x] \in K
  OBVIOUS
<1>2. named \subseteq Nat
  BY <1>1
<1>3. Binding(m, kvs, sym) = IF named = {} THEN Nil ELSE kvs[i]
  BY DEF Binding
<1>4. ASSUME named # {} PROVE i \in DOMAIN kvs
  <2>1. named \subseteq DOMAIN kvs
    OBVIOUS
  <2> HIDE DEF named
  <2>2. i \in named
    BY <1>2, <1>4, LeastNumber
  <2> QED
    BY <2>1, <2>2
<1> HIDE DEF named, i
<1>5. named # {} => kvs[i] \in ToSet(kvs)
  BY <1>4 DEF ToSet
<1>6. ToSet(kvs) \subseteq K
  BY <1>1 DEF ToSet
<1> QED
  BY <1>3, <1>5, <1>6

LEMMA KeyvalIsThere ==
    ASSUME NEW m, NEW K, NEW env \in EnvsOf(K), NEW sym
    PROVE  /\ environ_keyval(m, env, sym) \in K \cup {Nil}
           /\ environ_keyval(m, env, sym) \in Held(env) \cup {Nil}
<1> DEFINE found == [i \in DOMAIN env |-> Binding(m, env[i], sym)]
<1> DEFINE having == {i \in DOMAIN env : found[i] # Nil}
<1> DEFINE i == CHOOSE x \in having : \A j \in having : x <= j
<1>1. DOMAIN env = 1..Len(env) /\ Len(env) \in Nat /\ \A x \in DOMAIN env : env[x] \in Seq(K)
  BY DEF EnvsOf
<1>2. having \subseteq Nat /\ having \subseteq DOMAIN env
  BY <1>1
<1>3. environ_keyval(m, env, sym) = IF having = {} THEN Nil ELSE found[i]
  BY DEF environ_keyval
<1>4. \A x \in DOMAIN env : found[x] \in ToSet(env[x]) \cup {Nil} /\ ToSet(env[x]) \subseteq K
  BY <1>1, BindingIsThere
<1> HIDE DEF found, having
<1>5. having # {} => i \in having
  BY <1>2, LeastNumber
<1> HIDE DEF i
<1>6. CASE having = {}
  BY <1>3, <1>6
<1>7. CASE having # {}
  <2>1. environ_keyval(m, env, sym) = found[i] /\ i \in DOMAIN env
    BY <1>2, <1>3, <1>5, <1>7
  <2>2. found[i] \in K \cup {Nil} /\ found[i] \in Held(env) \cup {Nil}
    BY <1>4, <2>1 DEF Held
  <2> QED
    BY <2>1, <2>2
<1> QED
  BY <1>6, <1>7

LEMMA KeyvalFrameIsThere ==
    ASSUME NEW m, NEW K, NEW env \in EnvsOf(K), NEW sym
    PROVE  /\ environ_keyval_frame(m, env, sym) \in K \cup {Nil}
           /\ environ_keyval_frame(m, env, sym) \in Held(env) \cup {Nil}
<1>1. CASE env = <<>>
  <2>1. environ_keyval_frame(m, env, sym) = Nil
    BY <1>1 DEF environ_keyval_frame
  <2> QED
    BY <2>1
<1>2. CASE env # <<>>
  <2>1. 1 \in DOMAIN env /\ Head(env) = env[1] /\ env[1] \in Seq(K)
    BY <1>2 DEF EnvsOf
  <2>2. Binding(m, env[1], sym) \in ToSet(env[1]) \cup {Nil} /\ ToSet(env[1]) \subseteq K
    BY <2>1, BindingIsThere
  <2>3. environ_keyval_frame(m, env, sym) = Binding(m, env[1], sym)
    BY <1>2, <2>1 DEF environ_keyval_frame
  <2>4. ToSet(env[1]) \subseteq Held(env)
    BY <2>1 DEF Held
  <2> QED
    BY <2>2, <2>3, <2>4
<1> QED
  BY <1>1, <1>2

(* What is done to an environment makes an environment.                    *)
LEMMA TailOfJoined ==
    ASSUME NEW S, NEW x \in S, NEW s \in Seq(S)
    PROVE  <<x>> \o s # <<>> /\ Tail(<<x>> \o s) = s
<1> DEFINE one == <<x>>
<1>1. one \in Seq(S) /\ Len(one) = 1 /\ Len(s) \in Nat
  OBVIOUS
<1> HIDE DEF one
<1> DEFINE all == one \o s
<1>2. /\ all \in Seq(S) /\ Len(all) = 1 + Len(s)
      /\ \A i \in 1..1 + Len(s) : all[i] = IF i <= 1 THEN one[i] ELSE s[i - 1]
  BY <1>1, ConcatProperties
<1> HIDE DEF all
<1>3. all # <<>>
  BY <1>1, <1>2
<1> DEFINE t == Tail(all)
<1>4. t \in Seq(S) /\ Len(t) = Len(all) - 1 /\ \A i \in 1..Len(t) : t[i] = all[i + 1]
  BY <1>2, <1>3, HeadTailProperties
<1> HIDE DEF t
<1>5. Len(t) = Len(s)
  BY <1>1, <1>2, <1>4
<1>6. ASSUME NEW i \in 1..Len(t) PROVE t[i] = s[i]
  <2>1. i + 1 \in 1..1 + Len(s) /\ ~(i + 1 <= 1) /\ (i + 1) - 1 = i
    BY <1>1, <1>5
  <2> QED
    BY <1>2, <1>4, <2>1
<1>7. t = s
  BY <1>4, <1>5, <1>6, SeqEqual
<1> QED
  BY <1>3, <1>7 DEF t, all, one

LEMMA EnvironsAreGood ==
    ASSUME NEW K, NEW e \in EnvsOf(K)
    PROVE  /\ environ_pushframe(e) \in EnvsOf(K) /\ Tail(environ_pushframe(e)) = e
           /\ environ_pushframe(e) # <<>>
           /\ environ_popframe(e) \in EnvsOf(K)
           /\ \A L : \A kv \in L : K \subseteq L => environ_add(e, kv) \in EnvsOf(L)
<1>1. e \in Seq(Seq(K)) /\ <<>> \in Seq(K)
  BY DEF EnvsOf
<1>2. environ_pushframe(e) = <<<<>>>> \o e
  BY DEF environ_pushframe
<1>3. <<<<>>>> \in Seq(Seq(K))
  BY <1>1
<1>4. environ_pushframe(e) \in EnvsOf(K) /\ Tail(environ_pushframe(e)) = e /\ environ_pushframe(e) # <<>>
  <2> DEFINE S == Seq(K)
  <2>1. e \in Seq(S) /\ <<>> \in S
    BY <1>1
  <2> HIDE DEF S
  <2>2. <<<<>>>> \o e # <<>> /\ Tail(<<<<>>>> \o e) = e
    BY <2>1, TailOfJoined
  <2>3. <<<<>>>> \in Seq(S)
    BY <2>1
  <2>4. <<<<>>>> \o e \in Seq(S)
    BY <2>1, <2>3
  <2> QED
    BY <1>2, <2>2, <2>4 DEF S, EnvsOf
<1>5. environ_popframe(e) \in EnvsOf(K)
  BY <1>1 DEF environ_popframe, EnvsOf
<1>6. ASSUME NEW L, NEW kv \in L, K \subseteq L PROVE environ_add(e, kv) \in EnvsOf(L)
  <2>1. e \in Seq(Seq(L))
    BY <1>6, EnvsStay DEF EnvsOf
  <2>2. <<kv>> \in Seq(L)
    BY <1>6
  <2>3. CASE e = <<>>
    BY <2>2, <2>3 DEF environ_add, EnvsOf
  <2>4. CASE e # <<>>
    <3>1. Head(e) \in Seq(L) /\ Tail(e) \in Seq(Seq(L))
      BY <2>1, <2>4
    <3>2. <<kv>> \o Head(e) \in Seq(L)
      BY <2>2, <3>1
    <3> DEFINE head == <<kv>> \o Head(e)
    <3> DEFINE S == Seq(L)
    <3>3. head \in S /\ Tail(e) \in Seq(S)
      BY <3>1, <3>2
    <3>4. environ_add(e, kv) = <<head>> \o Tail(e)
      BY <2>4 DEF environ_add
    <3> HIDE DEF head, S
    <3>5. <<head>> \in Seq(S)
      BY <3>3
    <3>6. <<head>> \o Tail(e) \in Seq(S)
      BY <3>3, <3>5
    <3> QED
      BY <3>4, <3>6 DEF S, EnvsOf
  <2> QED
    BY <2>3, <2>4
<1> QED
  BY <1>4, <1>5, <1>6

-----------------------------------------------------------------------------
(* A foreign function returns a store that is good, and data.              *)
Extends(m, n) == DOMAIN m \subseteq DOMAIN n /\ \A r \in DOMAIN m : n[r] = m[r]

LEMMA StoresExtend ==
    ASSUME NEW m, IsStore(m)
    PROVE  /\ \A node : Extends(m, New(m, node))
           /\ \A s : IsStore(s) => Extends(m, m \o s)
<1>1. Len(m) \in Nat /\ DOMAIN m = 1..Len(m)
  BY StoreLength
<1>2. ASSUME NEW node PROVE Extends(m, New(m, node))
  <2>1. IsStore(New(m, node)) /\ Len(New(m, node)) = Len(m) + 1 /\ \A r \in DOMAIN m : New(m, node)[r] = m[r]
    BY Appended
  <2>2. DOMAIN New(m, node) = 1..Len(New(m, node))
    BY <2>1, StoreLength
  <2> QED
    BY <1>1, <2>1, <2>2 DEF Extends
<1>3. ASSUME NEW s, IsStore(s) PROVE Extends(m, m \o s)
  <2>1. IsStore(m \o s) /\ Len(m \o s) = Len(m) + Len(s) /\ \A r \in DOMAIN m : (m \o s)[r] = m[r]
    BY <1>3, Joined
  <2>2. DOMAIN (m \o s) = 1..Len(m \o s) /\ Len(s) \in Nat
    BY <1>3, <2>1, StoreLength
  <2> QED
    BY <1>1, <2>1, <2>2 DEF Extends
<1> QED
  BY <1>2, <1>3

GoodOutcome(o, m, K, E) ==
    /\ Later(m, K, E, o.mem, K, E) /\ GoodStore(o.mem, K, E) /\ o.out \in Data(o.mem, K)
    /\ Extends(m, o.mem)

LEMMA SameIsLater ==
    ASSUME NEW m, NEW K, NEW E, NEW F, GoodStore(m, K, E), E \subseteq F
    PROVE  Later(m, K, E, m, K, F) /\ GoodStore(m, K, F)
<1>1. IsStore(m) /\ K \subseteq DOMAIN m /\ Len(m) \in Nat
  BY StoreLength DEF GoodStore
<1>2. Later(m, K, E, m, K, F)
  BY <1>1 DEF Later, GrowsTo
<1>3. \A r \in DOMAIN m : (r \in DOMAIN m /\ m[r] = m[r]) \/ GoodNode(m[r], m, K, F)
  OBVIOUS
<1>4. \A k \in K \ K : IsCons(m, k) /\ IsSymbol(m, Car(m, k))
  OBVIOUS
<1> QED
  BY <1>2, <1>3, <1>4, LaterIsGood

LEMMA SameOutcome ==
    ASSUME NEW m, NEW K, NEW E, GoodStore(m, K, E), NEW out \in Data(m, K), NEW st
    PROVE  GoodOutcome(Outcome(st, m, out), m, K, E)
<1>1. Later(m, K, E, m, K, E) /\ Extends(m, m)
  BY SameIsLater DEF Extends
<1> QED
  BY <1>1 DEF GoodOutcome, Outcome

LEMMA NewOutcome ==
    ASSUME NEW m, NEW K, NEW E, GoodStore(m, K, E), NEW node, GoodNode(node, m, K, E)
    PROVE  GoodOutcome(Outcome("ok", New(m, node), Newest(m) + 1), m, K, E)
<1>1. Newest(New(m, node)) = Newest(m) + 1
  BY Appended DEF GoodStore, Newest
<1>2. /\ Later(m, K, E, New(m, node), K, E) /\ GoodStore(New(m, node), K, E)
      /\ Newest(New(m, node)) \in Data(New(m, node), K)
  BY AppendIsGood
<1>3. Extends(m, New(m, node))
  BY StoresExtend DEF GoodStore
<1> QED
  BY <1>1, <1>2, <1>3 DEF GoodOutcome, Outcome

LEMMA NilIsData ==
    ASSUME NEW m, NEW K, NEW E, GoodStore(m, K, E)
    PROVE  Nil \in Data(m, K)
BY StoreLength DEF GoodStore, Data, Nil

LEMMA ConsOfData ==
    ASSUME NEW m, NEW K, NEW E, GoodStore(m, K, E), NEW r \in Data(m, K), IsList(m, r)
    PROVE  Car(m, r) \in Data(m, K) /\ Cdr(m, r) \in Data(m, K)
<1>1. CASE r = Nil
  BY <1>1, NilIsData DEF Car, Cdr
<1>2. CASE r # Nil
  <2>1. r \in DOMAIN m
    BY <1>2, StoreLength DEF GoodStore, Data, Nil
  <2>2. m[r].type \in {"nil", "cons"} /\ GoodNode(m[r], m, K, E)
    BY <1>2, <2>1 DEF GoodStore, IsList, TypeOf
  <2>3. m[r] \in Conses(m, K)
    BY <2>2 DEF GoodNode, Conses
  <2> QED
    BY <1>2, <2>3 DEF Conses, Car, Cdr
<1> QED
  BY <1>1, <1>2

LEMMA NilOrCons ==
    ASSUME NEW m, NEW K, NEW E, GoodStore(m, K, E), NEW r \in Data(m, K), IsList(m, r), r # Nil
    PROVE  IsCons(m, r)
<1>1. r \in DOMAIN m /\ TypeOf(m, r) = m[r].type
  BY StoreLength DEF GoodStore, Data, Nil, TypeOf
<1>2. GoodNode(m[r], m, K, E)
  BY <1>1 DEF GoodStore
<1>3. m[r].type # "nil"
  BY <1>2 DEF GoodNode, Conses
<1> QED
  BY <1>1, <1>3 DEF IsList, IsCons

LEMMA TruthOutcome ==
    ASSUME NEW m, NEW K, NEW E, GoodStore(m, K, E), NEW b
    PROVE  GoodOutcome(Truth(b, m), m, K, E)
<1>1. GoodNode(ValueNode(1), m, K, E)
  BY DEF GoodNode, ValueNode
<1> QED
  BY <1>1, NewOutcome, SameOutcome, NilIsData DEF Truth

(* The loop of makesym comes to data only.                                 *)
LEMMA AlongData ==
    ASSUME NEW m, NEW K, NEW E, GoodStore(m, K, E), NEW list \in Data(m, K)
    PROVE  /\ DOMAIN Along(m, list) = 0..2 * MaxSymLen - 2
           /\ \A i \in 0..2 * MaxSymLen - 2 : Along(m, list)[i] \in Data(m, K)
<1> DEFINE N == 2 * MaxSymLen - 2
<1> DEFINE rest == [r \in {Nil} \cup DOMAIN m |-> IF IsCons(m, r) THEN Cdr(m, r) ELSE r]
<1> DEFINE Path(n, g) == g = [i \in 0..n |-> IF i = 0 THEN list ELSE rest[g[i - 1]]]
<1> DEFINE at == CHOOSE g : Path(N, g)
<1>1. N \in Nat
  BY MaxSymLenAssumption
<1>2. \A n \in Nat : \E g : Path(n, g)
  <2> DEFINE T == {n \in Nat : ~ \E g : Path(n, g)}
  <2> SUFFICES ASSUME T # {} PROVE FALSE
    OBVIOUS
  <2> HIDE DEF Path, rest
  <2>1. PICK x \in T : \A y \in T : x <= y
    BY LeastNumber
  <2>2. x # 0
    <3>1. Path(0, [i \in 0..0 |-> list])
      BY DEF Path
    <3> QED
      BY <2>1, <3>1
  <2>3. PICK g : Path(x - 1, g)
    <3>1. x - 1 \in Nat /\ ~(x <= x - 1)
      BY <2>1, <2>2
    <3> QED
      BY <2>1, <3>1
  <2> DEFINE f == [i \in 0..x |-> IF i = 0 THEN list ELSE rest[g[i - 1]]]
  <2>4. \A i \in 0..x : i # 0 => f[i - 1] = g[i - 1]
    <3> SUFFICES ASSUME NEW i \in 0..x, i # 0 PROVE f[i - 1] = g[i - 1]
      OBVIOUS
    <3>1. i - 1 \in 0..x /\ i - 1 \in 0..(x - 1)
      BY <2>1
    <3> QED
      BY <2>3, <3>1 DEF Path
  <2>5. Path(x, f)
    BY <2>1, <2>4 DEF Path
  <2> QED
    BY <2>1, <2>5
<1>3. Path(N, at)
  BY <1>1, <1>2
<1>4. \A r \in Data(m, K) : rest[r] \in Data(m, K)
  <2> SUFFICES ASSUME NEW r \in Data(m, K) PROVE rest[r] \in Data(m, K)
    OBVIOUS
  <2>1. r \in {Nil} \cup DOMAIN m
    BY StoreLength DEF GoodStore, Data, Nil
  <2>2. IsCons(m, r) => Cdr(m, r) \in Data(m, K)
    BY ConsOfData DEF IsCons, IsList
  <2> QED
    BY <2>1, <2>2
<1>5. Along(m, list) = at
  BY DEF Along
<1> HIDE DEF at, rest
<1>6. DOMAIN at = 0..N /\ at[0] = list /\ \A i \in 1..N : at[i] = rest[at[i - 1]]
  BY <1>1, <1>3
<1>7. \A i \in 0..N : at[i] \in Data(m, K)
  <2> DEFINE T == {i \in 0..N : at[i] \notin Data(m, K)}
  <2> SUFFICES ASSUME T # {} PROVE FALSE
    OBVIOUS
  <2>1. PICK x \in T : \A y \in T : x <= y
    <3>1. T \subseteq Nat
      BY <1>1
    <3> HIDE DEF T
    <3> QED
      BY <3>1, LeastNumber
  <2>2. x \in 1..N
    BY <1>1, <1>6, <2>1
  <2>3. x - 1 \in 0..N /\ x - 1 \notin T
    BY <1>1, <2>1, <2>2
  <2>4. at[x - 1] \in Data(m, K)
    BY <2>3
  <2> QED
    BY <1>4, <1>6, <2>1, <2>2, <2>4
<1> QED
  BY <1>5, <1>6, <1>7

LEMMA MakeSymbolOutcome ==
    ASSUME NEW m, NEW K, NEW E, GoodStore(m, K, E), NEW list \in Data(m, K)
    PROVE  GoodOutcome(MakeSymbol(m, list), m, K, E)
<1> DEFINE at == Along(m, list)
<1> DEFINE read == {i \in DOMAIN at : i % 2 = 0 /\ IsCons(m, at[i])}
<1> DEFINE element(i) == Car(m, at[i])
<1> DEFINE code(i) == m[element(i)].val
<1> DEFINE wrong == {i \in read : TypeOf(m, element(i)) # "value" \/ code(i) > 255}
<1> DEFINE first == CHOOSE i \in wrong : \A j \in wrong : i <= j
<1>1. DOMAIN at = 0..2 * MaxSymLen - 2 /\ \A i \in DOMAIN at : at[i] \in Data(m, K)
  BY AlongData
<1>2. wrong \subseteq Nat /\ wrong \subseteq read
  BY <1>1
<1>3. \A i \in read : element(i) \in Data(m, K)
  <2> SUFFICES ASSUME NEW i \in read PROVE element(i) \in Data(m, K)
    OBVIOUS
  <2>1. at[i] \in Data(m, K) /\ IsCons(m, at[i])
    BY <1>1
  <2> HIDE DEF at
  <2>2. IsList(m, at[i])
    BY <2>1 DEF IsCons, IsList
  <2> QED
    BY <2>1, <2>2, ConsOfData
<1>4. wrong # {} => first \in wrong
  <2> HIDE DEF wrong
  <2> QED
    BY <1>2, LeastNumber
<1>5. \E st, name :
        MakeSymbol(m, list) =
          IF wrong # {} THEN Outcome(st, m, element(first))
          ELSE IF ~IsList(m, at[2 * MaxSymLen - 2]) THEN Aborted(m)
          ELSE Outcome("ok", New(m, SymbolNode(name)), Newest(m) + 1)
  <2> DEFINE name[i \in DOMAIN at] ==
            (IF i = 0 THEN "" ELSE name[i - 1]) \o (IF i \in read THEN Letter(code(i)) ELSE "")
  <2> DEFINE st == IF TypeOf(m, element(first)) = "value" THEN "value bounds" ELSE "expected value"
  <2>1. MakeSymbol(m, list) =
          IF wrong # {} THEN Outcome(st, m, element(first))
          ELSE IF ~IsList(m, at[2 * MaxSymLen - 2]) THEN Aborted(m)
          ELSE Outcome("ok", New(m, SymbolNode(name[2 * MaxSymLen - 2])), Newest(m) + 1)
    BY Zenon DEF MakeSymbol
  <2> HIDE DEF name, st, wrong, first
  <2> QED
    BY <2>1
<1> HIDE DEF wrong, first
<1>6. PICK st, name :
        MakeSymbol(m, list) =
          IF wrong # {} THEN Outcome(st, m, element(first))
          ELSE IF ~IsList(m, at[2 * MaxSymLen - 2]) THEN Aborted(m)
          ELSE Outcome("ok", New(m, SymbolNode(name)), Newest(m) + 1)
  BY <1>5
<1>7. wrong # {} => element(first) \in Data(m, K)
  BY <1>2, <1>3, <1>4
<1> HIDE DEF at, element
<1>8. GoodNode(SymbolNode(name), m, K, E)
  BY DEF GoodNode, SymbolNode
<1> QED
  BY <1>6, <1>7, <1>8, SameOutcome, NewOutcome, NilIsData DEF Aborted

LEMMA NameIsBounded ==
    ASSUME NEW name
    PROVE  NameLength(name) \in Nat
<1>1. IsFiniteSet(1..MaxSymLen)
  BY MaxSymLenAssumption, FS_Interval
<1>2. IsFiniteSet({i \in 1..MaxSymLen : i <= Len(name)})
  BY <1>1, FS_Subset
<1> QED
  BY <1>2, FS_CardinalityType DEF NameLength

LEMMA SplitSymbolOutcome ==
    ASSUME NEW m, NEW K, NEW E, GoodStore(m, K, E), NEW name
    PROVE  GoodOutcome(SplitSymbol(m, name), m, K, E)
<1> DEFINE n == NameLength(name)
<1> DEFINE value(k) == ValueNode(CodeOf(SubSeq(name, n + 1 - (k + 1) \div 2, n + 1 - (k + 1) \div 2)))
<1> DEFINE cons(k) == ConsNode(Newest(m) + k - 1, IF k = 2 THEN Nil ELSE Newest(m) + k - 2)
<1> DEFINE nodes == [k \in 1..2 * n |-> IF k % 2 = 1 THEN value(k) ELSE cons(k)]
<1>1. n \in Nat
  BY NameIsBounded
<1>2. SplitSymbol(m, name) = Outcome("ok", m \o nodes, IF n = 0 THEN Nil ELSE Newest(m) + 2 * n)
  BY DEF SplitSymbol
<1> HIDE DEF n
<1>3. \A k : value(k).type = "value"
  BY DEF ValueNode
<1> HIDE DEF value
<1>4. IsStore(nodes) /\ Len(nodes) = 2 * n /\ DOMAIN nodes = 1..2 * n
  <2> DEFINE S == {nodes[k] : k \in 1..2 * n}
  <2>1. nodes \in Seq(S)
    <3>1. 2 * n \in Nat /\ nodes \in [1..2 * n -> S]
      BY <1>1
    <3> HIDE DEF nodes, S
    <3> QED
      BY <3>1, SeqDef
  <2>2. Len(nodes) = 2 * n /\ DOMAIN nodes = 1..2 * n
    BY <1>1
  <2> HIDE DEF S, nodes
  <2> QED
    BY <2>1, <2>2, StoreIs
<1>5. /\ IsStore(m) /\ K \subseteq DOMAIN m /\ Len(m) \in Nat /\ DOMAIN m = 1..Len(m)
  BY StoreLength DEF GoodStore
<1>6. Len(m \o nodes) = Len(m) + 2 * n
  <2> HIDE DEF nodes
  <2> QED
    BY <1>4, <1>5, Joined
<1>7. \A i \in DOMAIN nodes : GoodNode(nodes[i], m \o nodes, K, E)
  <2> SUFFICES ASSUME NEW k \in 1..2 * n PROVE GoodNode(nodes[k], m \o nodes, K, E)
    BY <1>4
  <2>1. CASE k % 2 = 1
    BY <1>3, <2>1 DEF GoodNode
  <2>2. CASE k % 2 # 1
    <3>1. k >= 2 /\ nodes[k] = cons(k)
      BY <1>1, <2>2
    <3>2. k # 2 => k >= 4
      BY <1>1, <2>2, <3>1
    <3> HIDE DEF nodes
    <3>3. Newest(m) + k - 1 \in Data(m \o nodes, K)
      BY <1>1, <1>5, <1>6, <3>1 DEF Data, Newest
    <3>4. (IF k = 2 THEN Nil ELSE Newest(m) + k - 2) \in Data(m \o nodes, K)
      BY <1>1, <1>5, <1>6, <3>1, <3>2 DEF Data, Newest, Nil
    <3>5. nodes[k] \in Conses(m \o nodes, K)
      BY <3>1, <3>3, <3>4 DEF Conses, ConsNode
    <3> QED
      BY <3>5 DEF GoodNode
  <2> QED
    BY <2>1, <2>2
<1> HIDE DEF nodes
<1>8. Later(m, K, E, m \o nodes, K, E) /\ GoodStore(m \o nodes, K, E)
  BY <1>4, <1>7, JoiningIsGood
<1>9. (IF n = 0 THEN Nil ELSE Newest(m) + 2 * n) \in Data(m \o nodes, K)
  BY <1>1, <1>5, <1>6 DEF Data, Newest, Nil
<1>10. Extends(m, m \o nodes)
  BY <1>4, <1>5, StoresExtend
<1> QED
  BY <1>2, <1>8, <1>9, <1>10 DEF GoodOutcome, Outcome

LEMMA OfOneOutcome ==
    ASSUME NEW m, NEW K, NEW E, GoodStore(m, K, E), NEW a \in Data(m, K),
           NEW f \in {"nil?", "value?", "sym?", "cons?", "func?", "car", "cdr", "makesym", "splitsym"}
    PROVE  GoodOutcome(OfOne(f, m, a), m, K, E)
<1> DEFINE kind == TypeOf(m, a)
<1>1. CASE f \in {"nil?", "value?", "sym?", "cons?", "func?"}
  <2>1. PICK b : OfOne(f, m, a) = Truth(b, m)
    BY <1>1 DEF OfOne
  <2> QED
    BY <2>1, TruthOutcome
<1>2. CASE f \in {"car", "cdr", "makesym"} /\ kind # "cons"
  <2>0. TypeOf(m, a) # "cons"
    BY <1>2
  <2>1. OfOne(f, m, a) = Outcome("expected cons", m, a)
    <3>1. CASE f = "car"
      BY <2>0, <3>1 DEF OfOne
    <3>2. CASE f = "cdr"
      BY <2>0, <3>2 DEF OfOne
    <3>3. CASE f = "makesym"
      BY <2>0, <3>3 DEF OfOne
    <3> QED
      BY <1>2, <3>1, <3>2, <3>3
  <2> QED
    BY <2>1, SameOutcome
<1>3. CASE f = "splitsym" /\ kind # "symbol"
  <2>0. TypeOf(m, a) # "symbol" /\ f = "splitsym"
    BY <1>3
  <2>1. OfOne(f, m, a) = Outcome("expected symbol", m, a)
    BY <2>0 DEF OfOne
  <2> QED
    BY <2>1, SameOutcome
<1>4. CASE f \in {"car", "cdr"} /\ kind = "cons"
  <2>1. Car(m, a) \in Data(m, K) /\ Cdr(m, a) \in Data(m, K)
    BY <1>4, ConsOfData DEF IsList
  <2>2. \/ OfOne(f, m, a) = Outcome("ok", m, Car(m, a))
        \/ OfOne(f, m, a) = Outcome("ok", m, Cdr(m, a))
    BY <1>4 DEF OfOne
  <2> QED
    BY <2>1, <2>2, SameOutcome
<1>5. CASE f = "makesym" /\ kind = "cons"
  <2>1. OfOne(f, m, a) = MakeSymbol(m, a)
    BY <1>5 DEF OfOne
  <2> QED
    BY <2>1, MakeSymbolOutcome
<1>6. CASE f = "splitsym" /\ kind = "symbol"
  <2>1. OfOne(f, m, a) = SplitSymbol(m, m[a].name)
    BY <1>6 DEF OfOne
  <2> QED
    BY <2>1, SplitSymbolOutcome
<1> QED
  BY <1>1, <1>2, <1>3, <1>4, <1>5, <1>6

LEMMA OfTwoOutcome ==
    ASSUME NEW m, NEW K, NEW E, GoodStore(m, K, E), NEW a \in Data(m, K), NEW b \in Data(m, K), NEW f
    PROVE  GoodOutcome(OfTwo(f, m, a, b), m, K, E)
<1> DEFINE kind == IF f = "symeq?" THEN "symbol" ELSE "value"
<1> DEFINE wrong == IF TypeOf(m, a) # kind THEN a ELSE b
<1>1. CASE f = "cons"
  <2>1. OfTwo(f, m, a, b) = Outcome("ok", New(m, ConsNode(a, b)), Newest(m) + 1)
    BY <1>1 DEF OfTwo
  <2>2. GoodNode(ConsNode(a, b), m, K, E)
    BY DEF GoodNode, ConsNode, Conses
  <2> QED
    BY <2>1, <2>2, NewOutcome
<1>2. CASE f # "cons" /\ TypeOf(m, wrong) # kind
  <2>1. OfTwo(f, m, a, b) = Outcome("expected " \o kind, m, wrong)
    BY <1>2 DEF OfTwo
  <2> DEFINE st == "expected " \o kind
  <2>2. wrong \in Data(m, K) /\ OfTwo(f, m, a, b) = Outcome(st, m, wrong)
    BY <2>1
  <2> HIDE DEF wrong, st
  <2> QED
    BY <2>2, SameOutcome
<1>3. CASE f # "cons" /\ TypeOf(m, wrong) = kind
  <2> DEFINE rest ==
        CASE f = "symeq?" -> Truth(m[a].name # m[b].name, m)
          [] f \in Predicates -> Truth(Holds(f, m[a].val, m[b].val), m)
          [] f \in {"div", "rem"} /\ Traps(m[a].val, m[b].val) -> Aborted(m)
          [] OTHER -> Outcome("ok", New(m, ValueNode(Computed(f, m[a].val, m[b].val))), Newest(m) + 1)
  <2>1. OfTwo(f, m, a, b) = rest
    BY <1>3, Zenon DEF OfTwo
  <2>2. \/ rest = Truth(m[a].name # m[b].name, m)
        \/ rest = Truth(Holds(f, m[a].val, m[b].val), m)
        \/ rest = Aborted(m)
        \/ rest = Outcome("ok", New(m, ValueNode(Computed(f, m[a].val, m[b].val))), Newest(m) + 1)
    OBVIOUS
  <2> HIDE DEF rest
  <2>3. GoodOutcome(Truth(m[a].name # m[b].name, m), m, K, E)
    BY TruthOutcome
  <2>4. GoodOutcome(Truth(Holds(f, m[a].val, m[b].val), m), m, K, E)
    BY TruthOutcome
  <2>5. GoodOutcome(Aborted(m), m, K, E)
    BY SameOutcome, NilIsData DEF Aborted
  <2>6. GoodOutcome(Outcome("ok", New(m, ValueNode(Computed(f, m[a].val, m[b].val))), Newest(m) + 1), m, K, E)
    <3> DEFINE v == Computed(f, m[a].val, m[b].val)
    <3> HIDE DEF v
    <3>1. GoodNode(ValueNode(v), m, K, E)
      BY DEF GoodNode, ValueNode
    <3>2. GoodOutcome(Outcome("ok", New(m, ValueNode(v)), Newest(m) + 1), m, K, E)
      BY <3>1, NewOutcome
    <3> QED
      BY <3>2 DEF v
  <2> QED
    BY <2>1, <2>2, <2>3, <2>4, <2>5, <2>6
<1> QED
  BY <1>1, <1>2, <1>3

LEMMA CallForeignOutcome ==
    ASSUME NEW m, NEW K, NEW E, GoodStore(m, K, E), NEW args \in Data(m, K), NEW f \in ForeignNames
    PROVE  GoodOutcome(CallForeign(f, m, args), m, K, E)
<1>1. CASE ~HasArgs(m, args, Arity(f))
  BY <1>1, SameOutcome DEF CallForeign
<1>2. CASE HasArgs(m, args, Arity(f)) /\ ArgsLeft(m, args, Arity(f)) # Nil
  BY <1>2, SameOutcome DEF CallForeign
<1>3. CASE HasArgs(m, args, Arity(f)) /\ ArgsLeft(m, args, Arity(f)) = Nil
  <2>1. IsCons(m, args) /\ (Arity(f) = 2 => IsCons(m, Cdr(m, args)))
    BY <1>3 DEF HasArgs
  <2>2. IsList(m, args) /\ (Arity(f) = 2 => IsList(m, Cdr(m, args)))
    BY <2>1 DEF IsCons, IsList
  <2>3. Car(m, args) \in Data(m, K) /\ Cdr(m, args) \in Data(m, K)
    BY <2>2, ConsOfData
  <2>4. CASE Arity(f) = 1
    <3>1. f \in {"nil?", "value?", "sym?", "cons?", "func?", "car", "cdr", "makesym", "splitsym"}
      BY <2>4 DEF Arity, ForeignNames
    <3> QED
      BY <1>3, <2>3, <2>4, <3>1, OfOneOutcome DEF CallForeign
  <2>5. CASE Arity(f) # 1
    <3>1. Arity(f) = 2
      BY <2>5 DEF Arity
    <3>2. Car(m, Cdr(m, args)) \in Data(m, K)
      BY <2>2, <2>3, <3>1, ConsOfData
    <3> QED
      BY <1>3, <2>3, <3>1, <3>2, OfTwoOutcome DEF CallForeign
  <2> QED
    BY <2>4, <2>5
<1> QED
  BY <1>1, <1>2, <1>3

-----------------------------------------------------------------------------
(* The inductive invariant.                                                *)
Places == Labels \cup {"idle", "restart", "args", "call", "bind", "body", "finish",
                       "stopped", "aborted"}

PlaceIsGood ==
    /\ pc \in Places
    /\ pc \in Labels => locals.restart = pc /\ Resumes(locals, mem)
    /\ pc = "bind" => TypeOf(mem, locals.func) = "lambda"
    /\ status # "ok" => pc \in Labels \cup {"finish", "stopped"}

Binds(m, K) == [vars : Data(m, K), args : Data(m, K)]

Sound(K) ==
    /\ GoodStore(mem, K, Handles)
    /\ envs \in Seq(EnvsOf(K)) /\ Global \in Handles
    /\ GoodFrames(frames, mem, K, Handles)
    /\ GoodLocals(locals, mem, K, Handles)
    /\ result \in Data(mem, K)
    /\ bind \in Binds(mem, K)
    /\ todo \in Seq(Data(mem, K))
    /\ popped \subseteq Handles
    /\ PlaceIsGood

EvalInv == \E K : Sound(K)

LEMMA Placed ==
    ASSUME \/ pc' \in {"finish", "stopped"}
           \/ pc' \in {"idle", "restart", "args", "call", "body", "aborted"} /\ status' = "ok"
    PROVE  PlaceIsGood'
BY DEF PlaceIsGood, Places, Labels

(* What is known in every step.                                            *)
LEMMA Known ==
    ASSUME NEW K, Sound(K)
    PROVE  /\ Nil \in Data(mem, K)
           /\ EnvNow \in EnvsOf(K) /\ locals.env \in Handles
           /\ {locals.cursor, locals.na_last, locals.newargs, locals.func, locals.input} \subseteq Data(mem, K)
           /\ locals \in LocalsOn(mem, K, Handles)
           /\ IsList(mem, locals.newargs)
           /\ bind.vars \in Data(mem, K) /\ bind.args \in Data(mem, K)
           /\ pc \notin Labels \cup {"finish", "stopped"} => status = "ok"
           /\ \A r \in Data(mem, K) : IsList(mem, r) => car(r) \in Data(mem, K) /\ cdr(r) \in Data(mem, K)
<1>1. /\ GoodStore(mem, K, Handles) /\ GoodLocals(locals, mem, K, Handles) /\ envs \in Seq(EnvsOf(K))
      /\ bind \in Binds(mem, K) /\ PlaceIsGood
  BY DEF Sound
<1>2. Nil \in Data(mem, K)
  BY <1>1, NilIsData
<1>3. \A r \in Data(mem, K) : IsList(mem, r) => car(r) \in Data(mem, K) /\ cdr(r) \in Data(mem, K)
  BY <1>1, ConsOfData DEF car, cdr
<1>4. locals \in LocalsOn(mem, K, Handles) /\ IsList(mem, locals.newargs)
  BY <1>1 DEF GoodLocals
<1>5. /\ locals.env \in Handles
      /\ {locals.cursor, locals.na_last, locals.newargs, locals.func, locals.input} \subseteq Data(mem, K)
  BY <1>4 DEF LocalsOn
<1>6. EnvNow \in EnvsOf(K)
  BY <1>1, <1>5 DEF EnvNow, Handles
<1> QED
  BY <1>1, <1>2, <1>3, <1>4, <1>5, <1>6 DEF Binds, PlaceIsGood

(* A step that leaves the store and the environments alone.                *)
LEMMA Assembled ==
    ASSUME NEW K, Sound(K), UNCHANGED <<mem, envs>>,
           GoodFrames(frames', mem, K, Handles), GoodLocals(locals', mem, K, Handles),
           result' \in Data(mem, K), bind' \in Binds(mem, K), todo' \in Seq(Data(mem, K)),
           popped' \subseteq Handles, PlaceIsGood'
    PROVE  Sound(K)'
<1>1. Handles' = Handles /\ mem' = mem /\ envs' = envs
  BY DEF Handles
<1>2. GoodStore(mem, K, Handles) /\ envs \in Seq(EnvsOf(K)) /\ Global \in Handles
  BY DEF Sound
<1> QED
  BY <1>1, <1>2 DEF Sound

(* ... and leaves by way of finish, or changes locals only.                *)
LEMMA LeavesSound ==
    ASSUME NEW K, Sound(K), UNCHANGED <<mem, envs, frames, locals, bind, todo, popped>>,
           NEW st, NEW r \in Data(mem, K), Leave(st, r)
    PROVE  Sound(K)'
<1>1. PlaceIsGood' /\ result' \in Data(mem, K)
  BY Placed DEF Leave
<1>2. /\ GoodFrames(frames', mem, K, Handles) /\ GoodLocals(locals', mem, K, Handles)
      /\ bind' \in Binds(mem, K) /\ todo' \in Seq(Data(mem, K)) /\ popped' \subseteq Handles
  BY DEF Sound
<1> QED
  BY <1>1, <1>2, Assembled

LEMMA JumpsSound ==
    ASSUME NEW K, Sound(K), UNCHANGED <<mem, envs, frames, bind, todo, popped>>,
           result' \in Data(mem, K), status' = "ok",
           NEW l, GoodLocals(l, mem, K, Handles),
           NEW label \in {"restart", "args", "call", "body"}, Jump(l, label)
    PROVE  Sound(K)'
<1>1. PlaceIsGood' /\ GoodLocals(locals', mem, K, Handles)
  BY Placed DEF Jump
<1>2. /\ GoodFrames(frames', mem, K, Handles)
      /\ bind' \in Binds(mem, K) /\ todo' \in Seq(Data(mem, K)) /\ popped' \subseteq Handles
  BY DEF Sound
<1> QED
  BY <1>1, <1>2, Assembled

LEMMA FreshIsGood ==
    ASSUME NEW K, Sound(K), NEW env \in Handles, NEW input \in Data(mem, K)
    PROVE  GoodLocals(Fresh(env, input), mem, K, Handles)
<1>1. Nil \in Data(mem, K)
  BY Known
<1>2. Fresh(env, input) \in LocalsOn(mem, K, Handles)
  BY <1>1 DEF Fresh, LocalsOn
<1> QED
  BY <1>2 DEF GoodLocals, Fresh, IsList, TypeOf

LEMMA PushesSound ==
    ASSUME NEW K, Sound(K), UNCHANGED <<mem, envs, bind, todo, popped, result, status>>, status = "ok",
           NEW l, GoodLocals(l, mem, K, Handles), NEW label \in Labels,
           Resumes([l EXCEPT !.restart = label], mem),
           NEW input \in Data(mem, K), Push(l, label, input)
    PROVE  Sound(K)'
<1> DEFINE f == [l EXCEPT !.restart = label]
<1>1. l \in LocalsOn(mem, K, Handles) /\ l.env \in Handles
  BY DEF GoodLocals, LocalsOn
<1>2. f \in LocalsOn(mem, K, Handles) /\ f.newargs = l.newargs /\ f.na_last = l.na_last
  BY <1>1 DEF LocalsOn
<1>3. GoodLocals(f, mem, K, Handles) /\ Resumes(f, mem)
  BY <1>2 DEF GoodLocals
<1> HIDE DEF f
<1>4. frames' = Append(frames, f) /\ locals' = Fresh(l.env, input) /\ pc' = "restart"
  BY DEF Push, f
<1>5. frames \in Seq(LocalsOn(mem, K, Handles))
      /\ \A i \in DOMAIN frames : GoodLocals(frames[i], mem, K, Handles) /\ Resumes(frames[i], mem)
  BY DEF Sound, GoodFrames
<1>6. GoodFrames(frames', mem, K, Handles)
  <2>1. frames' \in Seq(LocalsOn(mem, K, Handles)) /\ DOMAIN frames' = DOMAIN frames \cup {Len(frames) + 1}
    BY <1>2, <1>4, <1>5
  <2>2. \A i \in DOMAIN frames' : frames'[i] = f \/ (i \in DOMAIN frames /\ frames'[i] = frames[i])
    BY <1>2, <1>4, <1>5
  <2>3. \A i \in DOMAIN frames' : GoodLocals(frames'[i], mem, K, Handles) /\ Resumes(frames'[i], mem)
    BY <1>3, <1>5, <2>2
  <2> QED
    BY <2>1, <2>3 DEF GoodFrames
<1>7. GoodLocals(locals', mem, K, Handles)
  BY <1>1, <1>4, FreshIsGood
<1>8. PlaceIsGood'
  BY <1>4, Placed
<1>9. result' \in Data(mem, K) /\ bind' \in Binds(mem, K) /\ todo' \in Seq(Data(mem, K)) /\ popped' \subseteq Handles
  BY DEF Sound
<1> QED
  BY <1>6, <1>7, <1>8, <1>9, Assembled

-----------------------------------------------------------------------------
(* Every action keeps it.  First those that leave store and environments.  *)
LEMMA NextFormSound ==
    ASSUME NEW K, Sound(K), NextForm
    PROVE  Sound(K)'
<1>1. /\ todo \in Seq(Data(mem, K)) /\ todo # <<>> /\ Global \in Handles
      /\ bind \in Binds(mem, K) /\ popped \subseteq Handles /\ Nil \in Data(mem, K)
  BY Known DEF Sound, NextForm
<1>2. Head(todo) \in Data(mem, K) /\ Tail(todo) \in Seq(Data(mem, K))
  BY <1>1
<1>3. GoodLocals(Fresh(Global, Head(todo)), mem, K, Handles)
  BY <1>1, <1>2, FreshIsGood
<1>4. GoodFrames(frames', mem, K, Handles)
  BY DEF NextForm, GoodFrames
<1>5. /\ locals' = Fresh(Global, Head(todo)) /\ result' = Nil /\ todo' = Tail(todo)
      /\ bind' = bind /\ popped' = popped /\ UNCHANGED <<mem, envs>>
      /\ pc' = "restart" /\ status' = "ok"
  BY DEF NextForm, Jump
<1>6. PlaceIsGood'
  BY <1>5, Placed
<1> QED
  BY <1>1, <1>2, <1>3, <1>4, <1>5, <1>6, Assembled

LEMMA RestartSound ==
    ASSUME NEW K, Sound(K), Restart
    PROVE  Sound(K)'
<1> DEFINE in == locals.input
<1>1. /\ in \in Data(mem, K) /\ EnvNow \in EnvsOf(K) /\ status = "ok" /\ GoodStore(mem, K, Handles)
      /\ \A r \in Data(mem, K) : IsList(mem, r) => car(r) \in Data(mem, K) /\ cdr(r) \in Data(mem, K)
      /\ UNCHANGED <<mem, envs, bind, todo, popped>>
  BY Known DEF Restart, Labels, driver, Sound
<1>2. CASE type(in) \notin {"symbol", "cons"}
  <2>1. Leave(status, in) /\ UNCHANGED <<locals, frames>>
    BY <1>2 DEF Restart
  <2> QED
    BY <1>1, <2>1, LeavesSound
<1>3. CASE type(in) = "symbol"
  <2> DEFINE kv == environ_keyval(mem, EnvNow, in)
  <2>1. kv \in K \cup {Nil}
    BY <1>1, KeyvalIsThere
  <2>2. ASSUME kv # Nil PROVE cdr(kv) \in Data(mem, K)
    <3>1. kv \in K /\ kv \in DOMAIN mem /\ IsCons(mem, kv)
      BY <1>1, <2>1, <2>2 DEF GoodStore
    <3>2. mem[kv] \in Conses(mem, K)
      BY <1>1, <2>2, <3>1 DEF GoodStore, GoodNode, IsCons, TypeOf
    <3> QED
      BY <2>2, <3>2 DEF Conses, cdr, Cdr
  <2> HIDE DEF kv
  <2>3. UNCHANGED <<locals, frames>> /\ Leave(IF kv = Nil THEN "unresolved symbol" ELSE status, IF kv = Nil THEN in ELSE cdr(kv))
    BY <1>3 DEF Restart, kv, Leave
  <2>4. (IF kv = Nil THEN in ELSE cdr(kv)) \in Data(mem, K)
    BY <1>1, <2>2
  <2> QED
    BY <1>1, <2>3, <2>4, LeavesSound
<1>4. CASE type(in) = "cons" /\ ~IsList(mem, cdr(in))
  <2>1. Leave("expected cons", cdr(in)) /\ UNCHANGED <<locals, frames>>
    BY <1>4 DEF Restart
  <2>2. cdr(in) \in Data(mem, K)
    BY <1>1, <1>4 DEF IsList, type
  <2> QED
    BY <1>1, <2>1, <2>2, LeavesSound
<1>5. CASE type(in) = "cons" /\ IsList(mem, cdr(in))
  <2>1. Push(locals, "post_func", car(in)) /\ UNCHANGED <<result, status>>
    BY <1>5 DEF Restart
  <2>2. car(in) \in Data(mem, K)
    BY <1>1, <1>5 DEF IsList, type
  <2>3. GoodLocals(locals, mem, K, Handles) /\ "post_func" \in Labels /\ locals \in LocalsOn(mem, K, Handles)
    BY Known DEF Sound, Labels
  <2>4. Resumes([locals EXCEPT !.restart = "post_func"], mem)
    BY <1>5, <2>3 DEF Resumes, Labels, IsCall, IsCons, type, cdr, LocalsOn
  <2> QED
    BY <1>1, <2>1, <2>2, <2>3, <2>4, PushesSound
<1> QED
  BY <1>2, <1>3, <1>4, <1>5 DEF Restart

LEMMA PostErrorSound ==
    ASSUME NEW K, Sound(K), PostError
    PROVE  Sound(K)'
<1>1. UNCHANGED <<mem, envs, frames, locals, bind, todo, popped>> /\ Leave(status, result)
  BY DEF PostError, driver
<1>2. result \in Data(mem, K)
  BY DEF Sound
<1> QED
  BY <1>1, <1>2, LeavesSound

(* At a label, the locals are what the frame was pushed with.              *)
LEMMA AtLabel ==
    ASSUME NEW K, Sound(K), pc \in Labels
    PROVE  /\ pc \in {"post_func", "post_if_test"} => IsCall(mem, locals.input)
           /\ pc = "post_def_set" => IsSymbol(mem, locals.cursor)
           /\ pc = "post_arg" => IsCons(mem, locals.cursor)
           /\ pc = "post_expr" => IsCons(mem, locals.cursor)
BY DEF Sound, PlaceIsGood, Resumes

LEMMA CallParts ==
    ASSUME NEW K, Sound(K), IsCall(mem, locals.input)
    PROVE  /\ IsList(mem, cdr(locals.input))
           /\ cdr(locals.input) \in Data(mem, K) /\ car(locals.input) \in Data(mem, K)
           /\ car(cdr(locals.input)) \in Data(mem, K) /\ cdr(cdr(locals.input)) \in Data(mem, K)
<1>1. IsList(mem, locals.input) /\ IsList(mem, cdr(locals.input)) /\ locals.input \in Data(mem, K)
  BY Known DEF IsCall, IsCons, IsList, cdr
<1> QED
  BY <1>1, Known

LEMMA PostFuncPlainSound ==
    ASSUME NEW K, Sound(K), PostFuncPlain
    PROVE  Sound(K)'
<1> DEFINE l == [locals EXCEPT !.func = result, !.na_last = Nil, !.newargs = Nil,
                               !.cursor = cdr(locals.input)]
<1>1. /\ pc = "post_func" /\ status' = "ok" /\ Jump(l, "args")
      /\ UNCHANGED <<mem, envs, frames, bind, todo, popped, result>>
  BY DEF PostFuncPlain, driver
<1>2. cdr(locals.input) \in Data(mem, K) /\ result \in Data(mem, K) /\ Nil \in Data(mem, K)
      /\ locals \in LocalsOn(mem, K, Handles)
  BY <1>1, AtLabel, CallParts, Known DEF Sound, Labels
<1>3. l \in LocalsOn(mem, K, Handles) /\ l.newargs = Nil /\ l.na_last = Nil
  BY <1>2 DEF LocalsOn
<1> HIDE DEF l
<1>4. GoodLocals(l, mem, K, Handles)
  BY <1>3 DEF GoodLocals, IsList, TypeOf
<1> QED
  BY <1>1, <1>2, <1>4, JumpsSound

LEMMA IfSound ==
    ASSUME NEW K, Sound(K), If
    PROVE  Sound(K)'
<1> DEFINE l == [locals EXCEPT !.func = result]
<1>1. /\ pc = "post_func" /\ status = "ok" /\ Push(l, "post_if_test", car(cdr(locals.input)))
      /\ UNCHANGED <<mem, envs, bind, todo, popped, result, status>>
  BY DEF If, IsSpecial, driver
<1>2. /\ IsCall(mem, locals.input) /\ car(cdr(locals.input)) \in Data(mem, K)
      /\ result \in Data(mem, K) /\ GoodLocals(locals, mem, K, Handles)
  BY <1>1, AtLabel, CallParts DEF Sound, Labels
<1>3. locals \in LocalsOn(mem, K, Handles)
  BY <1>2 DEF GoodLocals
<1>4. /\ l \in LocalsOn(mem, K, Handles) /\ l.newargs = locals.newargs /\ l.na_last = locals.na_last
      /\ [l EXCEPT !.restart = "post_if_test"].restart = "post_if_test"
      /\ [l EXCEPT !.restart = "post_if_test"].input = locals.input
  BY <1>2, <1>3 DEF LocalsOn
<1> HIDE DEF l
<1>5. GoodLocals(l, mem, K, Handles)
  BY <1>2, <1>4 DEF GoodLocals
<1>6. Resumes([l EXCEPT !.restart = "post_if_test"], mem) /\ "post_if_test" \in Labels
  BY <1>2, <1>4 DEF Resumes, Labels
<1> QED
  BY <1>1, <1>2, <1>5, <1>6, PushesSound

LEMMA PostIfTestSound ==
    ASSUME NEW K, Sound(K), PostIfTest
    PROVE  Sound(K)'
<1> DEFINE branches == cdr(cdr(locals.input))
<1> DEFINE chosen == IF result # Nil \/ type(branches) # "cons" THEN branches ELSE cdr(branches)
<1> DEFINE expr == IF "new_input" \in locals.flags THEN Nil ELSE car(chosen)
<1> DEFINE l == [locals EXCEPT !.input = expr, !.func = Nil,
                               !.flags = (@ \ {"new_input"}) \cup {"tailcall"}]
<1>1. /\ pc = "post_if_test" /\ status = "ok"
      /\ UNCHANGED <<mem, envs, frames, bind, todo, popped>>
  BY DEF PostIfTest, driver
<1>2. branches \in Data(mem, K) /\ Nil \in Data(mem, K)
      /\ GoodLocals(locals, mem, K, Handles)
      /\ \A r \in Data(mem, K) : IsList(mem, r) => car(r) \in Data(mem, K) /\ cdr(r) \in Data(mem, K)
  BY <1>1, AtLabel, CallParts, Known DEF Sound, Labels
<1>3. chosen \in Data(mem, K)
  BY <1>2 DEF IsList, type
<1>4. CASE type(chosen) # "cons"
  <2>1. Leave("expected cons", chosen) /\ UNCHANGED locals
    BY <1>4 DEF PostIfTest
  <2> QED
    BY <1>1, <1>3, <2>1, LeavesSound
<1>5. CASE type(chosen) = "cons"
  <2>1. Jump(l, "restart") /\ result' = Nil /\ status' = "ok"
    BY <1>1, <1>5 DEF PostIfTest
  <2> HIDE DEF branches, chosen
  <2>2. expr \in Data(mem, K)
    BY <1>2, <1>3, <1>5 DEF IsList, type
  <2> HIDE DEF expr
  <2>3. locals \in LocalsOn(mem, K, Handles)
    BY <1>2 DEF GoodLocals
  <2>4. l \in LocalsOn(mem, K, Handles) /\ l.newargs = locals.newargs /\ l.na_last = locals.na_last
    BY <1>2, <2>2, <2>3 DEF LocalsOn
  <2> HIDE DEF l
  <2>5. GoodLocals(l, mem, K, Handles)
    BY <1>2, <2>4 DEF GoodLocals
  <2> QED
    BY <1>1, <1>2, <2>1, <2>5, JumpsSound
<1> QED
  BY <1>4, <1>5

LEMMA QuoteSound ==
    ASSUME NEW K, Sound(K), Quote
    PROVE  Sound(K)'
<1> DEFINE args == cdr(locals.input)
<1>1. /\ pc = "post_func" /\ UNCHANGED <<mem, envs, frames, locals, bind, todo, popped>>
      /\ \/ Leave("too many arguments", cdr(args))
         \/ Leave(status, car(args))
  BY DEF Quote, IsSpecial, driver
<1>2. cdr(args) \in Data(mem, K) /\ car(args) \in Data(mem, K)
  BY <1>1, AtLabel, CallParts DEF Labels
<1> QED
  BY <1>1, <1>2, LeavesSound

LEMMA DefOrSetSound ==
    ASSUME NEW K, Sound(K), DefOrSet
    PROVE  Sound(K)'
<1> DEFINE name == car(cdr(locals.input))
<1> DEFINE value == cdr(cdr(locals.input))
<1> DEFINE l == [locals EXCEPT !.func = result, !.cursor = name]
<1>1. /\ pc = "post_func" /\ status = "ok" /\ type(result) = "special"
      /\ UNCHANGED <<mem, envs, bind, todo, popped>>
  BY DEF DefOrSet, IsSpecial
<1>2. /\ name \in Data(mem, K) /\ value \in Data(mem, K) /\ result \in Data(mem, K)
      /\ GoodLocals(locals, mem, K, Handles) /\ GoodFrames(frames, mem, K, Handles)
      /\ bind \in Binds(mem, K) /\ todo \in Seq(Data(mem, K)) /\ popped \subseteq Handles
  BY <1>1, AtLabel, CallParts DEF Sound, Labels
<1>3. CASE type(name) # "symbol"
  <2>1. Leave("expected symbol", name) /\ UNCHANGED <<frames, locals>>
    BY <1>3 DEF DefOrSet
  <2> QED
    BY <1>1, <1>2, <2>1, LeavesSound
<1>4. CASE type(name) = "symbol" /\ type(value) # "cons"
  <2>1. Return("expected cons", Nil) /\ result' = value /\ UNCHANGED <<frames, locals, status>>
    BY <1>4 DEF DefOrSet
  <2>2. pc' = "stopped"
    BY <2>1 DEF Return
  <2>3. PlaceIsGood'
    BY <2>2, Placed
  <2>4. /\ UNCHANGED <<mem, envs>> /\ GoodFrames(frames', mem, K, Handles) /\ GoodLocals(locals', mem, K, Handles)
        /\ result' \in Data(mem, K) /\ bind' \in Binds(mem, K) /\ todo' \in Seq(Data(mem, K)) /\ popped' \subseteq Handles
    <3> HIDE DEF name, value
    <3> QED
      BY <1>1, <1>2, <2>1
  <2> QED
    BY <2>3, <2>4, Assembled
<1>5. CASE type(name) = "symbol" /\ type(value) = "cons"
  <2>1. Push(l, "post_def_set", car(value)) /\ UNCHANGED <<result, status>>
    BY <1>5 DEF DefOrSet
  <2> HIDE DEF name, value
  <2>2. car(value) \in Data(mem, K)
    BY <1>2, <1>5, Known DEF IsList, type
  <2>3. locals \in LocalsOn(mem, K, Handles)
    BY <1>2 DEF GoodLocals
  <2>4. /\ l \in LocalsOn(mem, K, Handles) /\ l.newargs = locals.newargs /\ l.na_last = locals.na_last
        /\ [l EXCEPT !.restart = "post_def_set"].restart = "post_def_set"
        /\ [l EXCEPT !.restart = "post_def_set"].cursor = name
        /\ [l EXCEPT !.restart = "post_def_set"].func = result
    BY <1>2, <2>3 DEF LocalsOn
  <2> HIDE DEF l
  <2>5. GoodLocals(l, mem, K, Handles)
    BY <1>2, <2>4 DEF GoodLocals
  <2>6. Resumes([l EXCEPT !.restart = "post_def_set"], mem) /\ "post_def_set" \in Labels
    BY <1>1, <1>5, <2>4 DEF Resumes, Labels, IsSymbol, type
  <2> QED
    BY <1>1, <2>1, <2>2, <2>5, <2>6, PushesSound
<1> QED
  BY <1>3, <1>4, <1>5

LEMMA AbortSound ==
    ASSUME NEW K, Sound(K), Abort, UNCHANGED todo, status = "ok"
    PROVE  Sound(K)'
<1>1. pc' = "aborted" /\ UNCHANGED <<mem, envs, frames, locals, result, status, bind, popped>>
  BY DEF Abort
<1>2. PlaceIsGood'
  BY <1>1, Placed
<1>3. /\ UNCHANGED <<mem, envs>> /\ GoodFrames(frames', mem, K, Handles) /\ GoodLocals(locals', mem, K, Handles)
      /\ result' \in Data(mem, K) /\ bind' \in Binds(mem, K) /\ todo' \in Seq(Data(mem, K)) /\ popped' \subseteq Handles
  BY <1>1 DEF Sound
<1> QED
  BY <1>2, <1>3, Assembled

LEMMA ArgsSound ==
    ASSUME NEW K, Sound(K), Args
    PROVE  Sound(K)'
<1> DEFINE next == locals.cursor
<1>1. /\ pc = "args" /\ status = "ok" /\ next \in Data(mem, K) /\ todo' = todo
      /\ GoodLocals(locals, mem, K, Handles) /\ result \in Data(mem, K)
  BY Known DEF Args, driver, Labels, Sound
<1>2. CASE next = Nil
  <2>1. Jump(locals, "call") /\ UNCHANGED <<mem, envs, frames, bind, todo, popped, result, status>>
    BY <1>1, <1>2, Zenon DEF Args, type, TypeOf, IsList, driver
  <2> QED
    BY <1>1, <2>1, JumpsSound
<1>3. CASE type(next) = "cons"
  <2>1. Push(locals, "post_arg", car(next)) /\ UNCHANGED <<mem, envs, bind, todo, popped, result, status>>
    BY <1>1, <1>3 DEF Args, type, TypeOf, IsList
  <2>2. car(next) \in Data(mem, K) /\ locals \in LocalsOn(mem, K, Handles)
    BY <1>1, <1>3, Known DEF IsList, type
  <2>3. Resumes([locals EXCEPT !.restart = "post_arg"], mem) /\ "post_arg" \in Labels
    BY <1>3, <2>2 DEF Resumes, Labels, IsCons, type, LocalsOn
  <2> QED
    BY <1>1, <2>1, <2>2, <2>3, PushesSound
<1>4. CASE next # Nil /\ type(next) # "cons"
  <2>1. Abort
    BY <1>4 DEF Args
  <2> QED
    BY <1>1, <2>1, AbortSound
<1> QED
  BY <1>2, <1>3, <1>4

LEMMA CallEvalSound ==
    ASSUME NEW K, Sound(K), CallEval
    PROVE  Sound(K)'
<1> DEFINE l == [locals EXCEPT !.input = car(locals.newargs)]
<1>1. /\ Jump(l, "restart") /\ pc = "call"
      /\ UNCHANGED <<mem, envs, frames, bind, todo, popped, result, status>>
  BY DEF CallEval, Calls, driver
<1>2. /\ car(locals.newargs) \in Data(mem, K) /\ status = "ok" /\ GoodLocals(locals, mem, K, Handles)
      /\ locals \in LocalsOn(mem, K, Handles) /\ result \in Data(mem, K)
  BY <1>1, Known DEF Sound, Labels
<1>3. l \in LocalsOn(mem, K, Handles) /\ l.newargs = locals.newargs /\ l.na_last = locals.na_last
  BY <1>2 DEF LocalsOn
<1> HIDE DEF l
<1>4. GoodLocals(l, mem, K, Handles)
  BY <1>2, <1>3 DEF GoodLocals
<1> QED
  BY <1>1, <1>2, <1>4, JumpsSound

(* What a function is, by its type.                                        *)
LEMMA FuncNode ==
    ASSUME NEW K, Sound(K), type(locals.func) # "nil"
    PROVE  /\ type(locals.func) = mem[locals.func].type
           /\ GoodNode(mem[locals.func], mem, K, Handles)
<1>1. locals.func \in Data(mem, K) /\ GoodStore(mem, K, Handles) /\ locals.func # Nil
  BY Known DEF Sound, type, TypeOf
<1>2. locals.func \in DOMAIN mem
  BY <1>1, StoreLength DEF GoodStore, Data, Nil
<1> QED
  BY <1>1, <1>2 DEF type, TypeOf, GoodStore

LEMMA CallContinuationSound ==
    ASSUME NEW K, Sound(K), CallContinuation
    PROVE  Sound(K)'
<1>1. /\ frames' = mem[locals.func].bt /\ Leave(status, car(locals.newargs))
      /\ type(locals.func) = "continuation"
      /\ UNCHANGED <<mem, envs, locals, bind, todo, popped>>
  BY DEF CallContinuation, Calls, driver
<1>2. GoodFrames(frames', mem, K, Handles)
  <2>1. GoodNode(mem[locals.func], mem, K, Handles) /\ mem[locals.func].type = "continuation"
    BY <1>1, FuncNode
  <2> QED
    BY <1>1, <2>1 DEF GoodNode, Conses
<1>3. PlaceIsGood' /\ result' \in Data(mem, K)
  BY <1>1, Known, Placed DEF Leave
<1>4. /\ UNCHANGED <<mem, envs>> /\ GoodLocals(locals', mem, K, Handles)
      /\ bind' \in Binds(mem, K) /\ todo' \in Seq(Data(mem, K)) /\ popped' \subseteq Handles
  BY <1>1 DEF Sound
<1> QED
  BY <1>2, <1>3, <1>4, Assembled

LEMMA CallOtherSound ==
    ASSUME NEW K, Sound(K), CallOther
    PROVE  Sound(K)'
<1>1. Leave("invalid function call", locals.func) /\ UNCHANGED <<mem, envs, frames, locals, bind, todo, popped>>
  BY DEF CallOther, driver
<1>2. locals.func \in Data(mem, K)
  BY Known
<1> QED
  BY <1>1, <1>2, LeavesSound

LEMMA BodySound ==
    ASSUME NEW K, Sound(K), Body
    PROVE  Sound(K)'
<1> DEFINE next == locals.cursor
<1> DEFINE l == [locals EXCEPT !.input = car(next), !.na_last = Nil, !.newargs = Nil, !.func = Nil,
                               !.flags = (@ \ {"new_input"}) \cup {"tailcall"}]
<1>1. /\ pc = "body" /\ status = "ok" /\ next \in Data(mem, K) /\ todo' = todo
      /\ GoodLocals(locals, mem, K, Handles) /\ result \in Data(mem, K)
      /\ locals \in LocalsOn(mem, K, Handles) /\ Nil \in Data(mem, K)
  BY Known DEF Body, driver, Labels, Sound
<1>2. CASE type(next) # "cons"
  <2>1. Abort
    BY <1>2 DEF Body
  <2> QED
    BY <1>1, <2>1, AbortSound
<1>3. CASE type(next) = "cons" /\ cdr(next) = Nil
  <2>1. Jump(l, "restart") /\ UNCHANGED <<mem, envs, frames, bind, todo, popped, result, status>>
    BY <1>1, <1>3, Zenon DEF Body
  <2>2. car(next) \in Data(mem, K)
    BY <1>1, <1>3, Known DEF IsList, type
  <2>3. l \in LocalsOn(mem, K, Handles) /\ l.newargs = Nil /\ l.na_last = Nil
    BY <1>1, <2>2 DEF LocalsOn
  <2> HIDE DEF l
  <2>4. GoodLocals(l, mem, K, Handles)
    BY <2>3 DEF GoodLocals, IsList, TypeOf
  <2> QED
    BY <1>1, <2>1, <2>4, JumpsSound
<1>4. CASE type(next) = "cons" /\ cdr(next) # Nil
  <2>1. Push(locals, "post_expr", car(next)) /\ UNCHANGED <<mem, envs, bind, todo, popped, result, status>>
    BY <1>1, <1>4, Zenon DEF Body
  <2>2. car(next) \in Data(mem, K)
    BY <1>1, <1>4, Known DEF IsList, type
  <2>3. Resumes([locals EXCEPT !.restart = "post_expr"], mem) /\ "post_expr" \in Labels
    BY <1>1, <1>4 DEF Resumes, Labels, IsCons, type, cdr, LocalsOn
  <2> QED
    BY <1>1, <2>1, <2>2, <2>3, PushesSound
<1> QED
  BY <1>2, <1>3, <1>4

LEMMA PostExprSound ==
    ASSUME NEW K, Sound(K), PostExpr
    PROVE  Sound(K)'
<1> DEFINE l == [locals EXCEPT !.cursor = cdr(locals.cursor)]
<1>1. /\ pc = "post_expr" /\ status' = "ok" /\ result' = Nil
      /\ UNCHANGED <<mem, envs, frames, bind, todo, popped>>
      /\ Jump([locals EXCEPT !.cursor = cdr(@)], "body")
  BY DEF PostExpr, driver
<1>2. locals \in LocalsOn(mem, K, Handles) /\ Nil \in Data(mem, K) /\ locals.cursor \in Data(mem, K)
      /\ GoodLocals(locals, mem, K, Handles)
  BY Known DEF Sound
<1>3. cdr(locals.cursor) \in Data(mem, K)
  <2>1. IsList(mem, locals.cursor)
    BY <1>1, AtLabel DEF Labels, IsCons, IsList
  <2> QED
    BY <1>2, <2>1, Known
<1>4. Jump(l, "body")
  BY <1>1, <1>2 DEF LocalsOn
<1>5. l \in LocalsOn(mem, K, Handles) /\ l.newargs = locals.newargs /\ l.na_last = locals.na_last
  BY <1>2, <1>3 DEF LocalsOn
<1> HIDE DEF l
<1>6. GoodLocals(l, mem, K, Handles)
  BY <1>2, <1>5 DEF GoodLocals
<1> QED
  BY <1>1, <1>2, <1>4, <1>6, JumpsSound

-----------------------------------------------------------------------------
(* Then those that build nodes, or change environments.                    *)
LEMMA Rebased ==
    ASSUME NEW K, Sound(K), NEW n, NEW L, NEW F, Later(mem, K, Handles, n, L, F)
    PROVE  /\ GoodFrames(frames, n, L, F) /\ GoodLocals(locals, n, L, F)
           /\ Data(mem, K) \subseteq Data(n, L) /\ Global \in F
           /\ result \in Data(n, L) /\ bind \in Binds(n, L) /\ todo \in Seq(Data(n, L))
           /\ popped \subseteq F
           /\ \A r \in Data(mem, K) : TypeOf(n, r) = TypeOf(mem, r)
<1>1. /\ GoodFrames(frames, mem, K, Handles) /\ GoodLocals(locals, mem, K, Handles)
      /\ result \in Data(mem, K) /\ bind \in Binds(mem, K) /\ todo \in Seq(Data(mem, K))
      /\ popped \subseteq Handles /\ Global \in Handles
  BY DEF Sound
<1>2. Data(mem, K) \subseteq Data(n, L) /\ \A r \in Data(mem, K) : TypeOf(n, r) = TypeOf(mem, r)
  <2>1. \A r \in Data(mem, K) : r \in 0..Len(mem)
    BY DEF Data
  <2> QED
    BY <2>1, DataStays
<1>3. Handles \subseteq F
  BY DEF Later
<1>4. GoodFrames(frames, n, L, F) /\ GoodLocals(locals, n, L, F)
  BY <1>1, FramesStay, LocalsStay
<1>5. result \in Data(n, L) /\ bind \in Binds(n, L) /\ todo \in Seq(Data(n, L))
  BY <1>1, <1>2 DEF Binds
<1> QED
  BY <1>1, <1>2, <1>3, <1>4, <1>5

LEMMA AssembledLater ==
    ASSUME NEW K, Sound(K), NEW L, GoodStore(mem', L, Handles'), envs' \in Seq(EnvsOf(L)), Global \in Handles',
           GoodFrames(frames', mem', L, Handles'), GoodLocals(locals', mem', L, Handles'),
           result' \in Data(mem', L), bind' \in Binds(mem', L), todo' \in Seq(Data(mem', L)),
           popped' \subseteq Handles', PlaceIsGood'
    PROVE  Sound(L)'
BY DEF Sound

LEMMA LeavesLater ==
    ASSUME NEW K, Sound(K), NEW L, Handles' = Handles,
           Later(mem, K, Handles, mem', L, Handles), GoodStore(mem', L, Handles), envs' \in Seq(EnvsOf(L)),
           UNCHANGED <<frames, locals, bind, todo, popped>>,
           NEW st, NEW r \in Data(mem', L), Leave(st, r)
    PROVE  Sound(L)'
<1>1. PlaceIsGood' /\ result' \in Data(mem', L)
  BY Placed DEF Leave
<1>2. /\ GoodFrames(frames, mem', L, Handles) /\ GoodLocals(locals, mem', L, Handles)
      /\ bind \in Binds(mem', L) /\ todo \in Seq(Data(mem', L)) /\ popped \subseteq Handles /\ Global \in Handles
  BY Rebased
<1>3. /\ GoodFrames(frames', mem', L, Handles') /\ GoodLocals(locals', mem', L, Handles')
      /\ bind' \in Binds(mem', L) /\ todo' \in Seq(Data(mem', L)) /\ popped' \subseteq Handles'
      /\ Global \in Handles' /\ GoodStore(mem', L, Handles')
  BY <1>2
<1> QED
  BY <1>1, <1>3, AssembledLater

LEMMA MakeLambdaSound ==
    ASSUME NEW K, Sound(K), MakeLambda
    PROVE  Sound(K)'
<1> DEFINE args == cdr(locals.input)
<1> DEFINE node == LambdaNode(EnvNow, car(args), cdr(args))
<1>1. /\ pc = "post_func" /\ mem' = New(mem, node) /\ Leave(status, Newest(mem'))
      /\ UNCHANGED <<envs, frames, locals, bind, todo, popped>>
  BY DEF MakeLambda, IsSpecial, driver
<1>2. /\ car(args) \in Data(mem, K) /\ cdr(args) \in Data(mem, K) /\ EnvNow \in EnvsOf(K)
      /\ GoodStore(mem, K, Handles) /\ envs \in Seq(EnvsOf(K))
  BY <1>1, AtLabel, CallParts, Known DEF Labels, Sound
<1>3. GoodNode(node, mem, K, Handles)
  BY <1>2 DEF GoodNode, LambdaNode
<1> HIDE DEF node
<1>4. Later(mem, K, Handles, mem', K, Handles) /\ GoodStore(mem', K, Handles) /\ Newest(mem') \in Data(mem', K)
  BY <1>1, <1>2, <1>3, AppendIsGood
<1>5. Handles' = Handles /\ envs' \in Seq(EnvsOf(K))
  BY <1>1, <1>2 DEF Handles
<1> QED
  BY <1>1, <1>4, <1>5, LeavesLater

LEMMA CallDefinedSound ==
    ASSUME NEW K, Sound(K), CallDefined
    PROVE  Sound(K)'
<1>1. /\ UNCHANGED <<envs, frames, locals, bind, todo, popped>>
      /\ \/ mem' = New(mem, ValueNode(1)) /\ Leave(status, Newest(mem'))
         \/ mem' = mem /\ Leave(status, result)
  BY DEF CallDefined, driver
<1>2. GoodStore(mem, K, Handles) /\ envs \in Seq(EnvsOf(K)) /\ result \in Data(mem, K)
  BY DEF Sound
<1>3. CASE mem' = New(mem, ValueNode(1)) /\ Leave(status, Newest(mem'))
  <2>1. GoodNode(ValueNode(1), mem, K, Handles)
    BY DEF GoodNode, ValueNode
  <2>2. Later(mem, K, Handles, mem', K, Handles) /\ GoodStore(mem', K, Handles) /\ Newest(mem') \in Data(mem', K)
    BY <1>2, <1>3, <2>1, AppendIsGood
  <2>3. Handles' = Handles /\ envs' \in Seq(EnvsOf(K))
    BY <1>1, <1>2 DEF Handles
  <2> QED
    BY <1>1, <1>3, <2>2, <2>3, LeavesLater
<1>4. CASE mem' = mem /\ Leave(status, result)
  BY <1>1, <1>2, <1>4, LeavesSound
<1> QED
  BY <1>1, <1>3, <1>4

LEMMA CallForeignFuncSound ==
    ASSUME NEW K, Sound(K), CallForeignFunc
    PROVE  Sound(K)'
<1> DEFINE o == CallForeign(mem[locals.func].func, mem, locals.newargs)
<1>1. pc = "call" /\ type(locals.func) = "foreign" /\ todo' = todo
  BY DEF CallForeignFunc, Calls, driver
<1>2. /\ GoodStore(mem, K, Handles) /\ locals.newargs \in Data(mem, K) /\ status = "ok"
      /\ envs \in Seq(EnvsOf(K))
  BY <1>1, Known DEF Sound, Labels
<1>3. mem[locals.func].func \in ForeignNames
  <2>1. GoodNode(mem[locals.func], mem, K, Handles) /\ mem[locals.func].type = "foreign"
    BY <1>1, FuncNode
  <2> QED
    BY <2>1 DEF GoodNode, Conses
<1>4. GoodOutcome(o, mem, K, Handles)
  BY <1>2, <1>3, CallForeignOutcome
<1>5. \/ mem' = o.mem /\ Leave(o.status, o.out) /\ UNCHANGED <<envs, frames, locals, bind, popped>>
      \/ Abort
  BY DEF CallForeignFunc
<1> HIDE DEF o
<1>6. CASE Abort
  BY <1>1, <1>2, <1>6, AbortSound
<1>7. CASE mem' = o.mem /\ Leave(o.status, o.out) /\ UNCHANGED <<envs, frames, locals, bind, popped>>
  <2>1. Later(mem, K, Handles, mem', K, Handles) /\ GoodStore(mem', K, Handles) /\ o.out \in Data(mem', K)
    BY <1>4, <1>7 DEF GoodOutcome
  <2>2. Handles' = Handles /\ envs' \in Seq(EnvsOf(K))
    BY <1>2, <1>7 DEF Handles
  <2> QED
    BY <1>1, <1>7, <2>1, <2>2, LeavesLater
<1> QED
  BY <1>5, <1>6, <1>7

LEMMA CallCCSound ==
    ASSUME NEW K, Sound(K), CallCC
    PROVE  Sound(K)'
<1> DEFINE a == ContinuationNode(frames)
<1> DEFINE b == ConsNode(Newest(mem) + 1, Nil)
<1> DEFINE f == car(cdr(locals.input))
<1> DEFINE c == ConsNode(f, Newest(mem) + 2)
<1> DEFINE s == <<a, b, c>>
<1> DEFINE l == [locals EXCEPT !.input = Newest(mem'), !.func = Nil, !.flags = @ \cup {"new_input"}]
<1>1. /\ pc = "post_func" /\ status' = "ok" /\ mem' = mem \o s /\ Jump(l, "restart")
      /\ UNCHANGED <<envs, frames, bind, todo, popped, result>>
  BY DEF CallCC, IsSpecial, driver
<1>2. /\ GoodStore(mem, K, Handles) /\ envs \in Seq(EnvsOf(K)) /\ GoodFrames(frames, mem, K, Handles)
      /\ f \in Data(mem, K)
  BY <1>1, AtLabel, CallParts DEF Labels, Sound
<1>3. Len(mem) \in Nat /\ K \subseteq 1..Len(mem) /\ IsStore(mem)
  BY <1>2, StoreLength DEF GoodStore
<1>4. IsStore(s) /\ Len(s) = 3 /\ DOMAIN s = {1, 2, 3} /\ s[1] = a /\ s[2] = b /\ s[3] = c
  <2>1. s \in Seq({a, b, c})
    OBVIOUS
  <2> HIDE DEF a, b, c
  <2>2. Len(s) = 3 /\ DOMAIN s = {1, 2, 3} /\ s[1] = a /\ s[2] = b /\ s[3] = c
    OBVIOUS
  <2> QED
    BY <2>1, <2>2, StoreIs
<1> HIDE DEF s
<1>5. Len(mem \o s) = Len(mem) + 3
  <2>1. Len(mem \o s) = Len(mem) + Len(s)
    BY <1>3, <1>4, Joined
  <2> QED
    BY <1>4, <2>1
<1>6. /\ Newest(mem) + 1 \in Data(mem \o s, K) /\ Newest(mem) + 2 \in Data(mem \o s, K)
      /\ Newest(mem) + 3 \in Data(mem \o s, K) /\ Nil \in Data(mem \o s, K) /\ f \in Data(mem \o s, K)
  BY <1>2, <1>3, <1>5 DEF Data, Newest, Nil
<1>7. Later(mem, K, Handles, mem \o s, K, Handles)
  BY <1>2, <1>4, JoinedIsLater
<1>8. GoodNode(a, mem \o s, K, Handles)
  <2>1. GoodFrames(frames, mem \o s, K, Handles)
    BY <1>2, <1>7, FramesStay
  <2> QED
    BY <2>1 DEF GoodNode, ContinuationNode
<1> HIDE DEF a, f
<1>9. GoodNode(b, mem \o s, K, Handles) /\ GoodNode(c, mem \o s, K, Handles)
  <2>1. b \in Conses(mem \o s, K) /\ c \in Conses(mem \o s, K)
    BY <1>6 DEF Conses, ConsNode
  <2> QED
    BY <2>1 DEF GoodNode
<1> HIDE DEF b, c
<1>10. GoodStore(mem \o s, K, Handles)
  <2>1. \A i \in DOMAIN s : GoodNode(s[i], mem \o s, K, Handles)
    BY <1>4, <1>8, <1>9
  <2> QED
    BY <1>2, <1>4, <2>1, JoiningIsGood
<1>11. Handles' = Handles /\ envs' \in Seq(EnvsOf(K)) /\ Newest(mem') \in Data(mem', K) /\ Nil \in Data(mem', K)
  BY <1>1, <1>2, <1>5, <1>6 DEF Handles, Newest
<1>12. /\ GoodFrames(frames, mem', K, Handles) /\ GoodLocals(locals, mem', K, Handles) /\ result \in Data(mem', K)
       /\ bind \in Binds(mem', K) /\ todo \in Seq(Data(mem', K)) /\ popped \subseteq Handles /\ Global \in Handles
  BY <1>1, <1>7, Rebased
<1>13. GoodLocals(l, mem', K, Handles)
  <2>1. locals \in LocalsOn(mem', K, Handles)
    BY <1>12 DEF GoodLocals
  <2>2. l \in LocalsOn(mem', K, Handles) /\ l.newargs = locals.newargs /\ l.na_last = locals.na_last
    BY <1>11, <2>1 DEF LocalsOn
  <2> HIDE DEF l
  <2> QED
    BY <1>12, <2>2 DEF GoodLocals
<1> HIDE DEF l
<1>14. PlaceIsGood' /\ locals' = l
  BY <1>1, Placed DEF Jump
<1>15. /\ GoodFrames(frames', mem', K, Handles') /\ GoodLocals(locals', mem', K, Handles')
       /\ result' \in Data(mem', K) /\ bind' \in Binds(mem', K) /\ todo' \in Seq(Data(mem', K))
       /\ popped' \subseteq Handles' /\ Global \in Handles' /\ GoodStore(mem', K, Handles')
  BY <1>1, <1>10, <1>11, <1>12, <1>13, <1>14
<1> QED
  BY <1>11, <1>14, <1>15, AssembledLater

(* A name gets a value: a new binding in the newest frame, ...             *)
LEMMA NewBinding ==
    ASSUME NEW K, Sound(K), NEW name \in Data(mem, K), IsSymbol(mem, name), NEW value \in Data(mem, K),
           mem' = New(mem, ConsNode(name, value)),
           envs' = [envs EXCEPT ![locals.env] = environ_add(@, Newest(mem'))]
    PROVE  \E L : /\ Later(mem, K, Handles, mem', L, Handles) /\ GoodStore(mem', L, Handles)
                  /\ Handles' = Handles /\ envs' \in Seq(EnvsOf(L))
<1> DEFINE L == K \cup {Newest(mem')}
<1>1. GoodStore(mem, K, Handles) /\ envs \in Seq(EnvsOf(K)) /\ EnvNow \in EnvsOf(K) /\ locals.env \in Handles
  BY Known DEF Sound
<1>2. Later(mem, K, Handles, mem', L, Handles) /\ GoodStore(mem', L, Handles)
  <2> DEFINE n == New(mem, ConsNode(name, value))
  <2>1. Later(mem, K, Handles, n, K \cup {Newest(n)}, Handles) /\ GoodStore(n, K \cup {Newest(n)}, Handles)
    BY <1>1, BindingIsGood
  <2> QED
    BY <2>1
<1>3. K \subseteq L /\ Newest(mem') \in L
  OBVIOUS
<1> HIDE DEF L
<1> DEFINE e == environ_add(EnvNow, Newest(mem'))
<1>4. e \in EnvsOf(L)
  BY <1>1, <1>3, EnvironsAreGood
<1>5. envs \in Seq(EnvsOf(L))
  <2>1. \A i \in DOMAIN envs : envs[i] \in EnvsOf(L)
    BY <1>1, <1>3, EnvsStay
  <2> QED
    BY <1>1, <2>1
<1>6. envs' = [envs EXCEPT ![locals.env] = e]
  BY DEF EnvNow
<1> HIDE DEF e
<1>7. envs' \in Seq(EnvsOf(L)) /\ DOMAIN envs' = DOMAIN envs
  <2> DEFINE S == EnvsOf(L)
  <2> HIDE DEF S
  <2>1. envs \in Seq(S) /\ e \in S /\ locals.env \in DOMAIN envs
    BY <1>1, <1>4, <1>5 DEF S, Handles
  <2>2. [envs EXCEPT ![locals.env] = e] \in Seq(S) /\ DOMAIN [envs EXCEPT ![locals.env] = e] = DOMAIN envs
    BY <2>1
  <2> QED
    BY <1>6, <2>2 DEF S
<1> QED
  BY <1>2, <1>7 DEF Handles

(* ... or another value in its binding.                                    *)
LEMMA OldBinding ==
    ASSUME NEW K, Sound(K), NEW kv \in K, NEW value \in Data(mem, K),
           mem' = PatchCdr(mem, kv, value), envs' = envs
    PROVE  /\ Later(mem, K, Handles, mem', K, Handles) /\ GoodStore(mem', K, Handles)
           /\ Handles' = Handles /\ envs' \in Seq(EnvsOf(K))
<1>1. GoodStore(mem, K, Handles) /\ envs \in Seq(EnvsOf(K))
  BY DEF Sound
<1>2. Later(mem, K, Handles, mem', K, Handles) /\ GoodStore(mem', K, Handles)
  BY <1>1, SettingIsGood
<1> QED
  BY <1>1, <1>2 DEF Handles

LEMMA PostDefSetSound ==
    ASSUME NEW K, Sound(K), PostDefSet
    PROVE  \E L : Sound(L)'
<1> DEFINE name == locals.cursor
<1> DEFINE kv == environ_keyval(mem, EnvNow, name)
<1>1. /\ pc = "post_def_set" /\ status = "ok" /\ UNCHANGED <<frames, locals, bind, todo, popped>>
  BY DEF PostDefSet, driver
<1>2. /\ name \in Data(mem, K) /\ IsSymbol(mem, name) /\ result \in Data(mem, K) /\ EnvNow \in EnvsOf(K)
  BY <1>1, AtLabel, Known DEF Sound, Labels
<1>3. CASE /\ mem' = New(mem, ConsNode(name, result))
           /\ envs' = [envs EXCEPT ![locals.env] = environ_add(@, Newest(mem'))]
           /\ Leave(status, name)
  <2>1. PICK L : /\ Later(mem, K, Handles, mem', L, Handles) /\ GoodStore(mem', L, Handles)
                 /\ Handles' = Handles /\ envs' \in Seq(EnvsOf(L))
    BY <1>2, <1>3, NewBinding
  <2>2. name \in Data(mem', L)
    BY <1>2, <2>1, Rebased
  <2>3. Sound(L)'
    BY <1>1, <1>3, <2>1, <2>2, LeavesLater
  <2> QED
    BY <2>3
<1>4. CASE Leave("unresolved symbol", name) /\ UNCHANGED <<mem, envs>>
  <2>1. Sound(K)'
    BY <1>1, <1>2, <1>4, LeavesSound
  <2> QED
    BY <2>1
<1>5. CASE kv # Nil /\ mem' = PatchCdr(mem, kv, result) /\ Leave(status, name) /\ UNCHANGED envs
  <2>1. kv \in K
    BY <1>2, <1>5, KeyvalIsThere
  <2>2. /\ Later(mem, K, Handles, mem', K, Handles) /\ GoodStore(mem', K, Handles)
        /\ Handles' = Handles /\ envs' \in Seq(EnvsOf(K))
    BY <1>2, <1>5, <2>1, OldBinding
  <2>3. name \in Data(mem', K)
    BY <1>2, <2>2, Rebased
  <2>4. Sound(K)'
    BY <1>1, <1>5, <2>2, <2>3, LeavesLater
  <2> QED
    BY <2>4
<1> QED
  BY <1>3, <1>4, <1>5 DEF PostDefSet

LEMMA PostArgSound ==
    ASSUME NEW K, Sound(K), PostArg
    PROVE  Sound(K)'
<1> DEFINE elem == Newest(mem) + 1
<1> DEFINE mem2 == New(mem, ConsNode(result, Nil))
<1> DEFINE l == [locals EXCEPT !.newargs = IF locals.newargs = Nil THEN elem ELSE locals.newargs,
                               !.na_last = elem, !.cursor = cdr(locals.cursor)]
<1>1. /\ pc = "post_arg" /\ status' = "ok" /\ UNCHANGED <<envs, frames, bind, todo, popped, result>>
      /\ mem' = IF locals.newargs = Nil THEN mem2 ELSE PatchCdr(mem2, locals.na_last, elem)
      /\ Jump([locals EXCEPT !.newargs = IF @ = Nil THEN elem ELSE @, !.na_last = elem, !.cursor = cdr(@)], "args")
  BY DEF PostArg, driver
<1>2. /\ GoodStore(mem, K, Handles) /\ envs \in Seq(EnvsOf(K)) /\ result \in Data(mem, K) /\ Nil \in Data(mem, K)
      /\ locals \in LocalsOn(mem, K, Handles) /\ IsList(mem, locals.newargs) /\ IsList(mem, locals.na_last)
      /\ (locals.newargs = Nil) = (locals.na_last = Nil) /\ locals.na_last \in Data(mem, K)
      /\ locals.newargs \in Data(mem, K) /\ IsCons(mem, locals.cursor) /\ locals.cursor \in Data(mem, K)
  BY <1>1, AtLabel, Known DEF Sound, Labels, GoodLocals
<1>3. cdr(locals.cursor) \in Data(mem, K)
  BY <1>2, Known DEF IsCons, IsList
<1>4. locals' = l /\ pc' = "args"
  BY <1>1, <1>2 DEF Jump, LocalsOn
<1>5. /\ Later(mem, K, Handles, mem', K, Handles) /\ GoodStore(mem', K, Handles)
      /\ elem \in Data(mem', K) /\ IsCons(mem', elem)
  <2>1. CASE locals.newargs = Nil
    <3>1. GoodNode(ConsNode(result, Nil), mem, K, Handles)
      BY <1>2 DEF GoodNode, ConsNode, Conses
    <3>2. mem' = mem2
      BY <1>1, <2>1
    <3>3. /\ Later(mem, K, Handles, mem', K, Handles) /\ GoodStore(mem', K, Handles)
          /\ Newest(mem') \in Data(mem', K)
      BY <1>2, <3>1, <3>2, AppendIsGood
    <3>4. Len(mem2) = Len(mem) + 1 /\ mem2[Len(mem) + 1] = ConsNode(result, Nil) /\ Len(mem) \in Nat
      BY <1>2, Appended, StoreLength DEF GoodStore
    <3> QED
      BY <3>2, <3>3, <3>4 DEF Newest, IsCons, TypeOf, ConsNode, Nil
  <2>2. CASE locals.newargs # Nil
    <3>1. IsCons(mem, locals.na_last)
      BY <1>2, <2>2, NilOrCons
    <3> DEFINE last == locals.na_last
    <3>2. mem' = PatchCdr(New(mem, ConsNode(result, Nil)), last, Len(mem) + 1)
      BY <1>1, <2>2 DEF Newest
    <3>3. IsCons(mem, last) /\ last \in Data(mem, K)
      BY <1>2, <3>1
    <3> HIDE DEF last
    <3>4. /\ Later(mem, K, Handles, mem', K, Handles) /\ GoodStore(mem', K, Handles)
          /\ Len(mem) + 1 \in Data(mem', K) /\ IsCons(mem', Len(mem) + 1)
      BY <1>2, <3>2, <3>3, ExtendingIsGood
    <3> QED
      BY <3>4 DEF Newest
  <2> QED
    BY <2>1, <2>2
<1> HIDE DEF mem2, elem
<1>6. /\ GoodFrames(frames, mem', K, Handles) /\ GoodLocals(locals, mem', K, Handles) /\ result \in Data(mem', K)
      /\ bind \in Binds(mem', K) /\ todo \in Seq(Data(mem', K)) /\ popped \subseteq Handles /\ Global \in Handles
      /\ Data(mem, K) \subseteq Data(mem', K)
      /\ \A r \in Data(mem, K) : TypeOf(mem', r) = TypeOf(mem, r)
  BY <1>5, Rebased
<1>7. GoodLocals(l, mem', K, Handles)
  <2>1. locals \in LocalsOn(mem', K, Handles)
    BY <1>6 DEF GoodLocals
  <2>2. /\ l \in LocalsOn(mem', K, Handles) /\ l.na_last = elem
        /\ l.newargs = IF locals.newargs = Nil THEN elem ELSE locals.newargs
    BY <1>3, <1>5, <1>6, <2>1 DEF LocalsOn
  <2>3. IsList(mem', elem) /\ elem # Nil
    BY <1>5 DEF IsCons, IsList, TypeOf
  <2>4. IsList(mem', locals.newargs)
    BY <1>2, <1>6 DEF IsList
  <2> HIDE DEF l
  <2> QED
    BY <2>2, <2>3, <2>4 DEF GoodLocals
<1> HIDE DEF l
<1>8. Handles' = Handles /\ envs' \in Seq(EnvsOf(K))
  BY <1>1, <1>2 DEF Handles
<1>9. PlaceIsGood'
  BY <1>1, <1>4, Placed
<1>10. /\ GoodFrames(frames', mem', K, Handles') /\ GoodLocals(locals', mem', K, Handles')
       /\ result' \in Data(mem', K) /\ bind' \in Binds(mem', K) /\ todo' \in Seq(Data(mem', K))
       /\ popped' \subseteq Handles' /\ Global \in Handles' /\ GoodStore(mem', K, Handles')
  BY <1>1, <1>4, <1>5, <1>6, <1>7, <1>8
<1> QED
  BY <1>8, <1>9, <1>10, AssembledLater

LEMMA CallLambdaSound ==
    ASSUME NEW K, Sound(K), CallLambda
    PROVE  Sound(K)'
<1> DEFINE f == mem[locals.func]
<1>1. /\ pc = "call" /\ type(locals.func) = "lambda"
      /\ bind' = [vars |-> f.vars, args |-> locals.newargs]
      /\ UNCHANGED <<mem, frames, result, status, popped, todo>>
  BY DEF CallLambda, Calls, driver
<1>2. f.env \in EnvsOf(K) /\ f.vars \in Data(mem, K) /\ f.type = "lambda"
  <2>1. GoodNode(f, mem, K, Handles) /\ f.type = "lambda"
    BY <1>1, FuncNode
  <2> QED
    BY <2>1 DEF GoodNode, Conses
<1>3. bind' \in Binds(mem, K) /\ status = "ok" /\ envs \in Seq(EnvsOf(K)) /\ GoodStore(mem, K, Handles)
      /\ GoodLocals(locals, mem, K, Handles) /\ locals \in LocalsOn(mem, K, Handles)
      /\ GoodFrames(frames, mem, K, Handles) /\ result \in Data(mem, K) /\ todo \in Seq(Data(mem, K))
      /\ popped \subseteq Handles
  BY <1>1, <1>2, Known DEF Binds, Sound, Labels
<1>4. CASE Jump(locals, "bind") /\ UNCHANGED envs
  <2>1. pc' = "bind" /\ locals' = locals
    BY <1>4 DEF Jump
  <2>2. PlaceIsGood'
    BY <1>1, <1>3, <2>1 DEF PlaceIsGood, Places, Labels, type
  <2> QED
    BY <1>1, <1>3, <1>4, <2>1, <2>2, Assembled
<1>5. CASE /\ envs' = Append(envs, environ_pushframe(f.env))
           /\ Jump([locals EXCEPT !.env = Len(envs) + 1, !.flags = @ \cup {"frame_added"}], "bind")
  <2> DEFINE l == [locals EXCEPT !.env = Len(envs) + 1, !.flags = @ \cup {"frame_added"}]
  <2> DEFINE e == environ_pushframe(f.env)
  <2>1. e \in EnvsOf(K)
    BY <1>2, EnvironsAreGood
  <2>2. envs' = Append(envs, e) /\ locals' = l /\ pc' = "bind"
    BY <1>5 DEF Jump
  <2> HIDE DEF e
  <2>3. envs' \in Seq(EnvsOf(K)) /\ Handles \subseteq Handles' /\ Len(envs) + 1 \in Handles'
    BY <1>3, <2>1, <2>2 DEF Handles
  <2> DEFINE F == Handles'
  <2> HIDE DEF F
  <2>4. Later(mem, K, Handles, mem, K, F) /\ GoodStore(mem, K, F)
    BY <1>3, <2>3, SameIsLater DEF F
  <2>5. /\ GoodFrames(frames, mem, K, F) /\ GoodLocals(locals, mem, K, F) /\ result \in Data(mem, K)
        /\ todo \in Seq(Data(mem, K)) /\ popped \subseteq F /\ Global \in F
    BY <2>4, Rebased
  <2>6. GoodLocals(l, mem, K, F)
    <3>1. locals \in LocalsOn(mem, K, F) /\ Len(envs) + 1 \in F
      BY <2>3, <2>5 DEF GoodLocals, F
    <3>2. l \in LocalsOn(mem, K, F) /\ l.newargs = locals.newargs /\ l.na_last = locals.na_last
      BY <3>1 DEF LocalsOn
    <3> HIDE DEF l
    <3> QED
      BY <2>5, <3>2 DEF GoodLocals
  <2>7. l.func = locals.func
    BY <1>3 DEF LocalsOn
  <2> HIDE DEF l
  <2>8. PlaceIsGood'
    BY <1>1, <1>3, <2>2, <2>7 DEF PlaceIsGood, Places, Labels, type
  <2>9. /\ GoodStore(mem', K, Handles') /\ envs' \in Seq(EnvsOf(K)) /\ Global \in Handles'
        /\ GoodFrames(frames', mem', K, Handles') /\ GoodLocals(locals', mem', K, Handles')
        /\ result' \in Data(mem', K) /\ bind' \in Binds(mem', K) /\ todo' \in Seq(Data(mem', K))
        /\ popped' \subseteq Handles'
    BY <1>1, <1>3, <2>2, <2>3, <2>4, <2>5, <2>6 DEF F
  <2> QED
    BY <2>8, <2>9, AssembledLater
<1> QED
  BY <1>4, <1>5 DEF CallLambda

LEMMA SetInFrameIsGood ==
    ASSUME NEW K, Sound(K), NEW name \in Data(mem, K), IsSymbol(mem, name), NEW value \in Data(mem, K),
           SetInFrame(name, value)
    PROVE  \E L : /\ Later(mem, K, Handles, mem', L, Handles) /\ GoodStore(mem', L, Handles)
                  /\ Handles' = Handles /\ envs' \in Seq(EnvsOf(L))
<1> DEFINE kv == environ_keyval_frame(mem, EnvNow, name)
<1>1. EnvNow \in EnvsOf(K)
  BY Known
<1>2. CASE kv # Nil /\ mem' = PatchCdr(mem, kv, value) /\ UNCHANGED envs
  <2>1. kv \in K
    BY <1>1, <1>2, KeyvalFrameIsThere
  <2>2. /\ Later(mem, K, Handles, mem', K, Handles) /\ GoodStore(mem', K, Handles)
        /\ Handles' = Handles /\ envs' \in Seq(EnvsOf(K))
    BY <1>2, <2>1, OldBinding
  <2> QED
    BY <2>2
<1>3. CASE /\ mem' = New(mem, ConsNode(name, value))
           /\ envs' = [envs EXCEPT ![locals.env] = environ_add(@, Newest(mem'))]
  BY <1>3, NewBinding
<1> QED
  BY <1>2, <1>3 DEF SetInFrame

LEMMA LambdaBindSound ==
    ASSUME NEW K, Sound(K), LambdaBind
    PROVE  \E L : Sound(L)'
<1> DEFINE var == bind.vars
<1> DEFINE f == mem[locals.func]
<1> DEFINE body == [locals EXCEPT !.cursor = f.expr]
<1>1. /\ pc = "bind" /\ UNCHANGED <<frames, popped, todo>>
      /\ var \in Data(mem, K) /\ bind.args \in Data(mem, K) /\ status = "ok"
      /\ locals.func \in Data(mem, K)
  BY Known DEF LambdaBind, driver, Labels
<1>2. /\ GoodLocals(locals, mem, K, Handles) /\ locals \in LocalsOn(mem, K, Handles)
      /\ GoodStore(mem, K, Handles) /\ result \in Data(mem, K) /\ envs \in Seq(EnvsOf(K))
      /\ type(locals.func) = "lambda"
  BY <1>1, Known DEF Sound, PlaceIsGood, type
<1>3. f.expr \in Data(mem, K)
  <2>1. GoodNode(f, mem, K, Handles) /\ f.type = "lambda"
    BY <1>2, FuncNode
  <2> QED
    BY <2>1 DEF GoodNode, Conses
<1>4. GoodLocals(body, mem, K, Handles)
  <2>1. body \in LocalsOn(mem, K, Handles) /\ body.newargs = locals.newargs /\ body.na_last = locals.na_last
    BY <1>2, <1>3 DEF LocalsOn
  <2> HIDE DEF body
  <2> QED
    BY <1>2, <2>1 DEF GoodLocals
<1> HIDE DEF body
<1>5. CASE Leave(BindError, locals.func) /\ UNCHANGED <<mem, envs, locals, bind>>
  <2>1. Sound(K)'
    BY <1>1, <1>5, LeavesSound
  <2> QED
    BY <2>1
<1>6. CASE Jump(body, "body") /\ UNCHANGED <<mem, envs, result, status, bind>>
  <2>1. Sound(K)'
    BY <1>1, <1>2, <1>4, <1>6, JumpsSound
  <2> QED
    BY <2>1
<1>7. CASE type(var) = "symbol" /\ SetInFrame(var, bind.args) /\ Jump(body, "body") /\ UNCHANGED <<result, status, bind>>
  <2>1. PICK L : /\ Later(mem, K, Handles, mem', L, Handles) /\ GoodStore(mem', L, Handles)
                 /\ Handles' = Handles /\ envs' \in Seq(EnvsOf(L))
    BY <1>1, <1>7, SetInFrameIsGood DEF IsSymbol, type
  <2>2. /\ GoodFrames(frames, mem', L, Handles) /\ result \in Data(mem', L) /\ bind \in Binds(mem', L)
        /\ todo \in Seq(Data(mem', L)) /\ popped \subseteq Handles /\ Global \in Handles
    BY <2>1, Rebased
  <2>3. GoodLocals(body, mem', L, Handles)
    BY <1>4, <2>1, LocalsStay
  <2>4. locals' = body /\ pc' = "body" /\ status' = "ok"
    BY <1>1, <1>7 DEF Jump
  <2>5. PlaceIsGood'
    BY <2>4, Placed
  <2>6. /\ GoodFrames(frames', mem', L, Handles') /\ GoodLocals(locals', mem', L, Handles')
        /\ result' \in Data(mem', L) /\ bind' \in Binds(mem', L) /\ todo' \in Seq(Data(mem', L))
        /\ popped' \subseteq Handles' /\ Global \in Handles' /\ GoodStore(mem', L, Handles')
    BY <1>1, <1>7, <2>1, <2>2, <2>3, <2>4
  <2>7. Sound(L)'
    BY <2>1, <2>5, <2>6, AssembledLater
  <2> QED
    BY <2>7
<1>8. CASE /\ type(var) = "cons" /\ type(bind.args) = "cons" /\ IsSymbol(mem, car(var))
           /\ SetInFrame(car(var), car(bind.args))
           /\ bind' = [vars |-> cdr(var), args |-> cdr(bind.args)]
           /\ UNCHANGED <<locals, pc, result, status>>
  <2>1. /\ car(var) \in Data(mem, K) /\ cdr(var) \in Data(mem, K)
        /\ car(bind.args) \in Data(mem, K) /\ cdr(bind.args) \in Data(mem, K)
    BY <1>1, <1>8, Known DEF IsList, type
  <2>2. PICK L : /\ Later(mem, K, Handles, mem', L, Handles) /\ GoodStore(mem', L, Handles)
                 /\ Handles' = Handles /\ envs' \in Seq(EnvsOf(L))
    BY <1>8, <2>1, SetInFrameIsGood
  <2>3. /\ GoodFrames(frames, mem', L, Handles) /\ GoodLocals(locals, mem', L, Handles)
        /\ result \in Data(mem', L) /\ Data(mem, K) \subseteq Data(mem', L)
        /\ todo \in Seq(Data(mem', L)) /\ popped \subseteq Handles /\ Global \in Handles
        /\ TypeOf(mem', locals.func) = TypeOf(mem, locals.func)
    BY <1>1, <2>2, Rebased
  <2>4. bind' \in Binds(mem', L)
    BY <1>8, <2>1, <2>3 DEF Binds
  <2>5. PlaceIsGood'
    BY <1>1, <1>2, <1>8, <2>3 DEF PlaceIsGood, Places, Labels, type
  <2>6. /\ GoodFrames(frames', mem', L, Handles') /\ GoodLocals(locals', mem', L, Handles')
        /\ result' \in Data(mem', L) /\ todo' \in Seq(Data(mem', L))
        /\ popped' \subseteq Handles' /\ Global \in Handles' /\ GoodStore(mem', L, Handles')
    BY <1>1, <1>8, <2>2, <2>3
  <2>7. Sound(L)'
    BY <2>2, <2>4, <2>5, <2>6, AssembledLater
  <2> QED
    BY <2>7
<1>9. ASSUME BindError = "ok", type(var) = "cons"
      PROVE  type(bind.args) = "cons" /\ IsSymbol(mem, car(var))
  <2>1. var # Nil
    BY <1>9 DEF type, TypeOf
  <2> QED
    BY <1>9, <2>1 DEF BindError
<1>10. \/ Leave(BindError, locals.func) /\ UNCHANGED <<mem, envs, locals, bind>>
       \/ Jump(body, "body") /\ UNCHANGED <<mem, envs, result, status, bind>>
       \/ type(var) = "symbol" /\ SetInFrame(var, bind.args) /\ Jump(body, "body") /\ UNCHANGED <<result, status, bind>>
       \/ /\ BindError = "ok" /\ type(var) = "cons"
          /\ SetInFrame(car(var), car(bind.args))
          /\ bind' = [vars |-> cdr(var), args |-> cdr(bind.args)]
          /\ UNCHANGED <<locals, pc, result, status>>
  BY Zenon DEF LambdaBind, body
<1> QED
  BY <1>5, <1>6, <1>7, <1>8, <1>9, <1>10

LEMMA FinishSound ==
    ASSUME NEW K, Sound(K), Finish
    PROVE  Sound(K)'
<1>1. /\ GoodStore(mem, K, Handles) /\ envs \in Seq(EnvsOf(K)) /\ Global \in Handles
      /\ GoodFrames(frames, mem, K, Handles) /\ GoodLocals(locals, mem, K, Handles)
      /\ result \in Data(mem, K) /\ bind \in Binds(mem, K) /\ todo \in Seq(Data(mem, K))
      /\ popped \subseteq Handles /\ locals.env \in Handles /\ EnvNow \in EnvsOf(K)
  BY Known DEF Sound
<1>2. pc = "finish" /\ UNCHANGED <<todo, mem, result, status, bind>>
  BY DEF Finish
<1>3. envs' \in Seq(EnvsOf(K)) /\ Handles' = Handles /\ popped' \subseteq Handles
  <2>1. CASE UNCHANGED <<envs, popped>>
    BY <1>1, <2>1 DEF Handles
  <2>2. CASE envs' = [envs EXCEPT ![locals.env] = environ_popframe(@)] /\ popped' = popped \cup {locals.env}
    <3> DEFINE e == environ_popframe(EnvNow)
    <3> DEFINE S == EnvsOf(K)
    <3>1. e \in S /\ envs' = [envs EXCEPT ![locals.env] = e]
      BY <1>1, <2>2, EnvironsAreGood DEF EnvNow
    <3>2. envs \in Seq(S) /\ locals.env \in DOMAIN envs
      BY <1>1 DEF Handles
    <3> HIDE DEF e, S
    <3>3. envs' \in Seq(S) /\ DOMAIN envs' = DOMAIN envs
      BY <3>1, <3>2
    <3> QED
      BY <1>1, <2>2, <3>3 DEF Handles, S
  <2> QED
    BY <2>1, <2>2 DEF Finish
<1>4. GoodFrames(frames', mem, K, Handles) /\ GoodLocals(locals', mem, K, Handles) /\ PlaceIsGood'
  <2>1. CASE frames # <<>> /\ frames' = Front(frames) /\ Jump(Last(frames), Last(frames).restart)
    <3>1. frames \in Seq(LocalsOn(mem, K, Handles))
          /\ \A i \in DOMAIN frames : GoodLocals(frames[i], mem, K, Handles) /\ Resumes(frames[i], mem)
      BY <1>1 DEF GoodFrames
    <3>2. Len(frames) \in DOMAIN frames /\ Last(frames) = frames[Len(frames)]
      BY <2>1, <3>1 DEF Last
    <3>3. GoodLocals(locals', mem, K, Handles) /\ Resumes(locals', mem) /\ pc' = locals'.restart
      BY <2>1, <3>1, <3>2 DEF Jump
    <3>4. PlaceIsGood'
      BY <1>2, <3>3 DEF PlaceIsGood, Places, Labels, Resumes
    <3>5. /\ frames' \in Seq(LocalsOn(mem, K, Handles)) /\ DOMAIN frames' \subseteq DOMAIN frames
          /\ \A i \in DOMAIN frames' : frames'[i] = frames[i]
      BY <2>1, <3>1 DEF Front
    <3> QED
      BY <3>1, <3>3, <3>4, <3>5 DEF GoodFrames
  <2>2. CASE frames = <<>> /\ Return(status, result) /\ UNCHANGED <<frames, locals>>
    <3>1. pc' = "stopped" \/ (pc' = "idle" /\ status' = "ok")
      BY <1>2, <2>2 DEF Return
    <3>2. PlaceIsGood'
      BY <3>1, Placed
    <3> QED
      BY <1>1, <2>2, <3>2
  <2> QED
    BY <2>1, <2>2 DEF Finish
<1>5. /\ GoodStore(mem', K, Handles') /\ Global \in Handles'
      /\ GoodFrames(frames', mem', K, Handles') /\ GoodLocals(locals', mem', K, Handles')
      /\ result' \in Data(mem', K) /\ bind' \in Binds(mem', K) /\ todo' \in Seq(Data(mem', K))
      /\ popped' \subseteq Handles'
  BY <1>1, <1>2, <1>3, <1>4
<1> QED
  BY <1>3, <1>4, <1>5, AssembledLater

LEMMA StutterSound ==
    ASSUME NEW K, Sound(K), UNCHANGED vars
    PROVE  Sound(K)'
BY DEF Sound, vars, Handles, PlaceIsGood

-----------------------------------------------------------------------------
(* At the start, the bindings are those of the start environment.          *)
LEMMA InitSound ==
    ASSUME Init
    PROVE  EvalInv
<1> DEFINE K == ToSet(prog.globals)
<1> DEFINE E == {Global}
<1>1. /\ IsProgram(prog) /\ mem = prog.mem /\ envs = <<<<prog.globals>>>> /\ todo = prog.forms
      /\ frames = <<>> /\ locals = Fresh(Global, Nil) /\ result = Nil /\ status = "ok" /\ pc = "idle"
      /\ bind = [vars |-> Nil, args |-> Nil] /\ popped = {}
  BY ProgramsAssumption DEF Init
<1>2. /\ mem \in Seq(ToSet(mem)) /\ prog.globals \in Seq(DOMAIN mem) /\ prog.forms \in Seq(Data(mem, K))
      /\ \A r \in DOMAIN mem :
            \/ mem[r].type \in {"symbol", "value", "special"}
            \/ mem[r].type = "foreign" /\ mem[r].func \in ForeignNames
            \/ mem[r] \in Conses(mem, K)
      /\ \A r \in K : IsCons(mem, r) /\ IsSymbol(mem, Car(mem, r))
  BY <1>1 DEF IsProgram, Data, Conses
<1>3. K \subseteq DOMAIN mem /\ prog.globals \in Seq(K)
  <2>1. IsStore(prog.globals)
    BY <1>2, StoreIs
  <2>2. \A i \in DOMAIN prog.globals : prog.globals[i] \in DOMAIN mem
    BY <1>2
  <2> QED
    BY <2>1, <2>2 DEF IsStore, ToSet
<1> HIDE DEF K
<1>4. Handles = E /\ envs \in Seq(EnvsOf(K))
  <2>1. <<prog.globals>> \in EnvsOf(K)
    BY <1>3 DEF EnvsOf
  <2>2. \A e : <<e>> \in Seq({e}) /\ DOMAIN <<e>> = {1}
    OBVIOUS
  <2> DEFINE e == <<prog.globals>>
  <2> HIDE DEF e
  <2>3. e \in EnvsOf(K) /\ envs = <<e>>
    BY <1>1, <2>1 DEF e
  <2> QED
    BY <2>2, <2>3 DEF Handles, Global
<1>5. GoodStore(mem, K, E)
  <2>1. IsStore(mem)
    BY <1>2 DEF IsStore
  <2>2. \A r \in DOMAIN mem : GoodNode(mem[r], mem, K, E)
    BY <1>2 DEF GoodNode
  <2> QED
    BY <1>2, <1>3, <2>1, <2>2 DEF GoodStore
<1>6. Nil \in Data(mem, K)
  BY <1>5, NilIsData
<1>7. GoodLocals(locals, mem, K, E)
  <2>1. locals \in LocalsOn(mem, K, E)
    BY <1>1, <1>6 DEF LocalsOn, Fresh
  <2> QED
    BY <1>1, <2>1 DEF GoodLocals, Fresh, IsList, TypeOf
<1>8. GoodFrames(frames, mem, K, E)
  BY <1>1 DEF GoodFrames
<1>9. PlaceIsGood
  BY <1>1 DEF PlaceIsGood, Places, Labels
<1>10. bind \in Binds(mem, K) /\ result \in Data(mem, K) /\ todo \in Seq(Data(mem, K)) /\ popped \subseteq Handles
       /\ Global \in Handles
  BY <1>1, <1>2, <1>4, <1>6 DEF Binds
<1>11. Sound(K)
  BY <1>4, <1>5, <1>7, <1>8, <1>9, <1>10 DEF Sound
<1> QED
  BY <1>11 DEF EvalInv

LEMMA StepSound ==
    ASSUME EvalInv, [Next]_vars
    PROVE  EvalInv'
<1> PICK K : Sound(K)
  BY DEF EvalInv
<1> SUFFICES \E L : Sound(L)'
  BY DEF EvalInv
<1>1. CASE NextForm
  BY <1>1, NextFormSound
<1>2. CASE Restart
  BY <1>2, RestartSound
<1>3. CASE PostError
  BY <1>3, PostErrorSound
<1>4. CASE PostFuncPlain
  BY <1>4, PostFuncPlainSound
<1>5. CASE PostIfTest
  BY <1>5, PostIfTestSound
<1>6. CASE PostDefSet
  BY <1>6, PostDefSetSound
<1>7. CASE PostArg
  BY <1>7, PostArgSound
<1>8. CASE PostExpr
  BY <1>8, PostExprSound
<1>9. CASE If
  BY <1>9, IfSound
<1>10. CASE MakeLambda
  BY <1>10, MakeLambdaSound
<1>11. CASE Quote
  BY <1>11, QuoteSound
<1>12. CASE CallCC
  BY <1>12, CallCCSound
<1>13. CASE DefOrSet
  BY <1>13, DefOrSetSound
<1>14. CASE Args
  BY <1>14, ArgsSound
<1>15. CASE CallDefined
  BY <1>15, CallDefinedSound
<1>16. CASE CallEval
  BY <1>16, CallEvalSound
<1>17. CASE CallForeignFunc
  BY <1>17, CallForeignFuncSound
<1>18. CASE CallContinuation
  BY <1>18, CallContinuationSound
<1>19. CASE CallLambda
  BY <1>19, CallLambdaSound
<1>20. CASE CallOther
  BY <1>20, CallOtherSound
<1>21. CASE LambdaBind
  BY <1>21, LambdaBindSound
<1>22. CASE Body
  BY <1>22, BodySound
<1>23. CASE Finish
  BY <1>23, FinishSound
<1>24. CASE UNCHANGED vars
  BY <1>24, StutterSound
<1> QED
  BY <1>1, <1>2, <1>3, <1>4, <1>5, <1>6, <1>7, <1>8, <1>9, <1>10, <1>11, <1>12, <1>13, <1>14, <1>15,
     <1>16, <1>17, <1>18, <1>19, <1>20, <1>21, <1>22, <1>23, <1>24 DEF Next, Step, Idle

(* In every state each node, frame and local of eval is what its label     *)
(* takes for granted, and the conses that bind variables are kept apart    *)
(* from the data (eval.c:176-562).                                         *)
THEOREM EvalIsSound == Spec => []EvalInv
<1>1. Init => EvalInv
  BY InitSound
<1>2. EvalInv /\ [Next]_vars => EvalInv'
  BY StepSound
<1> QED
  BY <1>1, <1>2, PTL DEF Spec

(* The machine is what TypeOK says, in every state (eval.c:73-81).         *)
THEOREM TypesOfEval == Spec => []TypeOK
<1>1. EvalInv => TypeOK
  <2> SUFFICES ASSUME NEW K, Sound(K) PROVE TypeOK
    BY DEF EvalInv
  <2>1. /\ GoodStore(mem, K, Handles) /\ envs \in Seq(EnvsOf(K)) /\ popped \subseteq Handles
        /\ GoodFrames(frames, mem, K, Handles) /\ GoodLocals(locals, mem, K, Handles)
        /\ result \in Data(mem, K) /\ bind.vars \in Data(mem, K) /\ bind.args \in Data(mem, K)
        /\ pc \in Places
    BY Known DEF Sound, PlaceIsGood
  <2>2. Data(mem, K) \subseteq Refs
    BY DEF Data, Refs
  <2>3. \A l : GoodLocals(l, mem, K, Handles) => IsLocals(l)
    BY <2>2 DEF GoodLocals, LocalsOn, IsLocals
  <2>4. \A h \in Handles : IsEnv(envs[h])
    <3>1. K \subseteq DOMAIN mem
      BY <2>1 DEF GoodStore
    <3>2. \A h \in Handles : envs[h] \in Seq(Seq(K))
      BY <2>1 DEF Handles, EnvsOf
    <3> QED
      BY <3>1, <3>2 DEF IsEnv
  <2>5. \A i \in DOMAIN frames : IsLocals(frames[i])
    BY <2>1, <2>3 DEF GoodFrames
  <2> QED
    BY <2>1, <2>2, <2>3, <2>4, <2>5 DEF TypeOK, Places
<1> QED
  BY <1>1, EvalIsSound, PTL

(* A frame that is popped, or brought back by a continuation, has what its *)
(* label takes for granted (eval.c:244, 261, 354, 402, 497).               *)
THEOREM EveryFrameResumes == Spec => []FramesResume
<1>1. EvalInv => FramesResume
  <2> SUFFICES ASSUME NEW K, Sound(K) PROVE FramesResume
    BY DEF EvalInv
  <2>1. GoodStore(mem, K, Handles) /\ GoodFrames(frames, mem, K, Handles)
    BY DEF Sound
  <2>2. \A l : GoodLocals(l, mem, K, Handles) /\ Resumes(l, mem) => IsResumable(l)
    <3> SUFFICES ASSUME NEW l, GoodLocals(l, mem, K, Handles), Resumes(l, mem) PROVE IsResumable(l)
      OBVIOUS
    <3>1. IsList(mem, l.na_last) /\ (l.newargs = Nil) = (l.na_last = Nil)
      BY DEF GoodLocals
    <3> QED
      BY <3>1 DEF Resumes, IsResumable, IsCall, IsCons, IsSymbol, IsList, type, cdr
  <2>3. \A fs : GoodFrames(fs, mem, K, Handles) => \A i \in DOMAIN fs : IsResumable(fs[i])
    BY <2>2 DEF GoodFrames
  <2>4. ASSUME NEW r \in DOMAIN mem, type(r) = "continuation"
        PROVE  \A i \in DOMAIN mem[r].bt : IsResumable(mem[r].bt[i])
    <3>1. GoodNode(mem[r], mem, K, Handles) /\ mem[r].type = "continuation"
      BY <2>1, <2>4 DEF GoodStore, type, TypeOf
    <3>2. GoodFrames(mem[r].bt, mem, K, Handles)
      BY <3>1 DEF GoodNode, Conses
    <3> QED
      BY <2>3, <3>2
  <2> QED
    BY <2>1, <2>3, <2>4 DEF FramesResume
<1> QED
  BY <1>1, EvalIsSound, PTL

(* An error goes out frame by frame, and nothing else happens (the tests   *)
(* of status at eval.c:238, 257, 350, 391, 494).                           *)
THEOREM ErrorsStop == Spec => ErrorStops
<1>1. ASSUME EvalInv, Next, status # "ok"
      PROVE  /\ mem' = mem /\ Len(envs') = Len(envs) /\ Len(frames') <= Len(frames)
             /\ pc' \in Labels \cup {"finish", "stopped"}
             /\ status' = status /\ (pc' # "stopped" => result' = result)
  <2> PICK K : Sound(K)
    BY <1>1 DEF EvalInv
  <2>1. pc \in Labels \cup {"finish", "stopped"}
    BY <1>1 DEF Sound, PlaceIsGood
  <2>2. envs \in Seq(EnvsOf(K)) /\ frames \in Seq(LocalsOn(mem, K, Handles))
    BY DEF Sound, GoodFrames
  <2>3. CASE PostError
    BY <2>2, <2>3 DEF PostError, Leave, driver
  <2>4. CASE Finish
    <3>1. status' = status /\ result' = result /\ mem' = mem
      BY <2>4 DEF Finish
    <3>2. Len(envs') = Len(envs)
      BY <2>2, <2>4 DEF Finish
    <3>3. CASE frames # <<>> /\ frames' = Front(frames) /\ Jump(Last(frames), Last(frames).restart)
      <4>1. Len(frames') <= Len(frames)
        BY <2>2, <3>3 DEF Front
      <4>2. Last(frames).restart \in Labels
        BY <2>2, <3>3 DEF Sound, GoodFrames, Resumes, Last
      <4> QED
        BY <3>1, <3>2, <3>3, <4>1, <4>2 DEF Jump
    <3>4. CASE Return(status, result) /\ UNCHANGED <<frames, locals>>
      BY <1>1, <2>2, <3>1, <3>2, <3>4 DEF Return
    <3> QED
      BY <2>4, <3>3, <3>4 DEF Finish
  <2>5. CASE Idle
    BY <1>1, <2>1, <2>2, <2>5 DEF Idle, vars, Labels
  <2>6. ASSUME NextForm \/ Restart \/ Args \/ CallDefined \/ CallEval \/ CallForeignFunc \/ CallContinuation
               \/ CallLambda \/ CallOther \/ LambdaBind \/ Body
        PROVE  FALSE
    BY <2>1, <2>6 DEF Labels, NextForm, Restart, Args, CallDefined, CallEval, CallForeignFunc, CallContinuation,
                      CallLambda, CallOther, LambdaBind, Body, Calls
  <2>7. ASSUME PostFuncPlain \/ PostIfTest \/ PostDefSet \/ PostArg \/ PostExpr \/ If \/ MakeLambda \/ Quote
               \/ CallCC \/ DefOrSet
        PROVE  FALSE
    BY <1>1, <2>7 DEF PostFuncPlain, PostIfTest, PostDefSet, PostArg, PostExpr, If, MakeLambda, Quote,
                      CallCC, DefOrSet, IsSpecial
  <2> QED
    BY <1>1, <2>3, <2>4, <2>5, <2>6, <2>7 DEF Next, Step
<1>2. EvalInv /\ [Next]_vars =>
        [status # "ok" =>
            /\ mem' = mem /\ Len(envs') = Len(envs) /\ Len(frames') <= Len(frames)
            /\ pc' \in Labels \cup {"finish", "stopped"}
            /\ status' = status /\ (pc' # "stopped" => result' = result)]_vars
  BY <1>1
<1> QED
  BY <1>2, EvalIsSound, PTL DEF Spec, ErrorStops

(* How many steps an error has left: two for every frame that waits, one   *)
(* for the label that finds it and one for the return.                     *)
ToReturn ==
    CASE pc = "stopped" -> 0
      [] pc = "finish"  -> 2 * Len(frames) + 1
      [] pc \in Labels  -> 2 * Len(frames) + 2

(* An error is out after a bounded number of steps: every step of it       *)
(* brings the return of eval nearer, none starts over (a label with an     *)
(* error goes to finish, and finish takes a frame, eval.c:512-562).        *)
ErrorGoesOut == [][status # "ok" => ToReturn \in Nat /\ ToReturn' \in Nat /\ ToReturn' < ToReturn]_vars

LEMMA TwoAFrame ==
    ASSUME NEW n \in Nat
    PROVE  /\ 2 * n + 1 \in Nat /\ 2 * n + 2 \in Nat /\ 0 \in Nat
           /\ 2 * n + 1 < 2 * n + 2 /\ 0 < 2 * n + 1
           /\ n # 0 => 2 * (n - 1) + 2 < 2 * n + 1
OBVIOUS

THEOREM ErrorReturns == Spec => ErrorGoesOut
<1>1. ASSUME EvalInv, Next, status # "ok", vars' # vars
      PROVE  ToReturn \in Nat /\ ToReturn' \in Nat /\ ToReturn' < ToReturn
  <2> PICK K : Sound(K)
    BY <1>1 DEF EvalInv
  <2> DEFINE n == Len(frames)
  <2>1. pc \in Labels \cup {"finish", "stopped"}
    BY <1>1 DEF Sound, PlaceIsGood
  <2>2. frames \in Seq(LocalsOn(mem, K, Handles)) /\ n \in Nat
    BY DEF Sound, GoodFrames
  <2>3. CASE PostError
    <3>1. pc \in Labels /\ pc' = "finish" /\ Len(frames') = n
      BY <2>3 DEF PostError, Leave
    <3>2. ToReturn = 2 * n + 2
      BY <3>1 DEF ToReturn, Labels
    <3>3. ToReturn' = 2 * n + 1
      BY <3>1 DEF ToReturn, Labels
    <3> QED
      BY <2>2, <3>2, <3>3, TwoAFrame
  <2>4. CASE Finish
    <3>1. pc = "finish" /\ ToReturn = 2 * n + 1
      BY <2>4 DEF Finish, ToReturn, Labels
    <3>2. CASE frames # <<>> /\ frames' = Front(frames) /\ Jump(Last(frames), Last(frames).restart)
      <4>1. n # 0 /\ Len(frames') = n - 1
        <5>1. n # 0
          BY <2>2, <3>2
        <5>2. frames' = SubSeq(frames, 1, n - 1) /\ n - 1 \in 0..n
          BY <2>2, <3>2, <5>1 DEF Front
        <5> HIDE DEF n
        <5>3. Len(frames') = n - 1
          BY <2>2, <5>1, <5>2
        <5> QED
          BY <5>1, <5>3
      <4>2. pc' \in Labels
        BY <2>2, <3>2 DEF Sound, GoodFrames, Resumes, Last, Jump
      <4>3. ToReturn' = 2 * (n - 1) + 2
        BY <4>1, <4>2 DEF ToReturn, Labels
      <4>4. 2 * (n - 1) + 2 \in Nat
        BY <2>2, <4>1
      <4> QED
        BY <2>2, <3>1, <4>1, <4>3, <4>4, TwoAFrame
    <3>3. CASE Return(status, result)
      <4>1. ToReturn' = 0
        BY <1>1, <3>3 DEF Return, ToReturn, Labels
      <4> QED
        BY <2>2, <3>1, <4>1, TwoAFrame
    <3> QED
      BY <2>4, <3>2, <3>3 DEF Finish
  <2>5. ASSUME NextForm \/ Restart \/ Args \/ CallDefined \/ CallEval \/ CallForeignFunc \/ CallContinuation
               \/ CallLambda \/ CallOther \/ LambdaBind \/ Body
        PROVE  FALSE
    BY <2>1, <2>5 DEF Labels, NextForm, Restart, Args, CallDefined, CallEval, CallForeignFunc, CallContinuation,
                      CallLambda, CallOther, LambdaBind, Body, Calls
  <2>6. ASSUME PostFuncPlain \/ PostIfTest \/ PostDefSet \/ PostArg \/ PostExpr \/ If \/ MakeLambda \/ Quote
               \/ CallCC \/ DefOrSet
        PROVE  FALSE
    BY <1>1, <2>6 DEF PostFuncPlain, PostIfTest, PostDefSet, PostArg, PostExpr, If, MakeLambda, Quote,
                      CallCC, DefOrSet, IsSpecial
  <2> QED
    BY <1>1, <2>3, <2>4, <2>5, <2>6 DEF Next, Step, Idle
<1>2. EvalInv /\ [Next]_vars =>
        [status # "ok" => ToReturn \in Nat /\ ToReturn' \in Nat /\ ToReturn' < ToReturn]_vars
  BY <1>1
<1> QED
  BY <1>2, EvalIsSound, PTL DEF Spec, ErrorGoesOut
-----------------------------------------------------------------------------
(* What a step does to the store: it adds nodes, it gives a variable that  *)
(* the environment in force knows another value, or it adds an argument.   *)
StoreStep(K) ==
    \/ Extends(mem, mem')
    \/ \E kv \in K \cap Held(EnvNow) : \E v : mem' = PatchCdr(mem, kv, v)
    \/ PostArg

LEMMA SetInFrameSteps ==
    ASSUME NEW K, Sound(K), NEW name, NEW value, SetInFrame(name, value)
    PROVE  StoreStep(K)
<1>1. EnvNow \in EnvsOf(K) /\ IsStore(mem)
  BY Known DEF Sound, GoodStore
<1>2. CASE /\ environ_keyval_frame(mem, EnvNow, name) # Nil
           /\ mem' = PatchCdr(mem, environ_keyval_frame(mem, EnvNow, name), value)
  <2>1. environ_keyval_frame(mem, EnvNow, name) \in K \cap Held(EnvNow)
    BY <1>1, <1>2, KeyvalFrameIsThere
  <2> QED
    BY <1>2, <2>1 DEF StoreStep
<1>3. CASE mem' = New(mem, ConsNode(name, value))
  BY <1>1, <1>3, StoresExtend DEF StoreStep
<1> QED
  BY <1>2, <1>3 DEF SetInFrame

LEMMA StoreSteps ==
    ASSUME NEW K, Sound(K), [Next]_vars
    PROVE  StoreStep(K)
<1>1. IsStore(mem) /\ GoodStore(mem, K, Handles)
  BY DEF Sound, GoodStore
<1>2. CASE mem' = mem
  BY <1>2 DEF StoreStep, Extends
<1>3. CASE MakeLambda
  BY <1>1, <1>3, StoresExtend DEF MakeLambda, StoreStep
<1>4. CASE CallCC
  <2> DEFINE a == ContinuationNode(frames)
  <2> DEFINE b == ConsNode(Newest(mem) + 1, Nil)
  <2> DEFINE c == ConsNode(car(cdr(locals.input)), Newest(mem) + 2)
  <2>1. mem' = mem \o <<a, b, c>>
    BY <1>4 DEF CallCC
  <2> HIDE DEF a, b, c
  <2>2. <<a, b, c>> \in Seq({a, b, c})
    OBVIOUS
  <2>3. IsStore(<<a, b, c>>)
    BY <2>2, StoreIs
  <2> QED
    BY <1>1, <2>1, <2>3, StoresExtend DEF StoreStep
<1>5. CASE CallDefined
  BY <1>1, <1>2, <1>5, StoresExtend DEF CallDefined, StoreStep
<1>6. CASE CallForeignFunc
  <2> DEFINE o == CallForeign(mem[locals.func].func, mem, locals.newargs)
  <2>1. GoodNode(mem[locals.func], mem, K, Handles) /\ mem[locals.func].type = "foreign"
    BY <1>6, FuncNode DEF CallForeignFunc, Calls
  <2>2. mem[locals.func].func \in ForeignNames /\ locals.newargs \in Data(mem, K)
    BY <2>1, Known DEF GoodNode, Conses
  <2>3. GoodOutcome(o, mem, K, Handles)
    BY <1>1, <2>2, CallForeignOutcome
  <2>4. mem' = o.mem \/ mem' = mem
    BY <1>6 DEF CallForeignFunc, Abort
  <2> QED
    BY <1>2, <2>3, <2>4 DEF GoodOutcome, StoreStep
<1>7. CASE PostDefSet
  <2> DEFINE kv == environ_keyval(mem, EnvNow, locals.cursor)
  <2>1. EnvNow \in EnvsOf(K)
    BY Known
  <2>2. CASE mem' = New(mem, ConsNode(locals.cursor, result))
    BY <1>1, <2>2, StoresExtend DEF StoreStep
  <2>3. CASE kv # Nil /\ mem' = PatchCdr(mem, kv, result)
    <3>1. kv \in K \cap Held(EnvNow)
      BY <2>1, <2>3, KeyvalIsThere
    <3> QED
      BY <2>3, <3>1 DEF StoreStep
  <2> QED
    BY <1>2, <1>7, <2>2, <2>3 DEF PostDefSet
<1>8. CASE PostArg
  BY <1>8 DEF StoreStep
<1>9. CASE LambdaBind
  BY <1>2, <1>9, SetInFrameSteps DEF LambdaBind
<1>10. CASE NextForm \/ Restart \/ PostError \/ PostFuncPlain \/ If \/ PostIfTest \/ Quote \/ DefOrSet
            \/ CallEval \/ CallContinuation \/ CallLambda \/ CallOther \/ PostExpr \/ Finish \/ UNCHANGED vars
  BY <1>2, <1>10 DEF NextForm, Restart, PostError, PostFuncPlain, If, PostIfTest, Quote, DefOrSet, CallEval,
                     CallContinuation, CallLambda, CallOther, PostExpr, Finish, vars
<1>11. CASE Args \/ Body
  BY <1>2, <1>11 DEF Args, Body, Abort
<1> QED
  BY <1>3, <1>4, <1>5, <1>6, <1>7, <1>8, <1>9, <1>10, <1>11 DEF Next, Step, Idle

LEMMA ArgumentIsAdded ==
    ASSUME NEW K, Sound(K), PostArg
    PROVE  LET elem == Len(mem) + 1
               last == locals.na_last
           IN  /\ IsStore(mem') /\ Len(mem') = elem /\ mem'[elem] = ConsNode(result, Nil)
               /\ \A r \in DOMAIN mem : r # last => mem'[r] = mem[r]
               /\ last # Nil => last \in DOMAIN mem /\ mem'[last] = [mem[last] EXCEPT !.cdr = elem]
<1> DEFINE elem == Len(mem) + 1
<1> DEFINE last == locals.na_last
<1> DEFINE m == New(mem, ConsNode(result, Nil))
<1>1. /\ mem' = IF locals.newargs = Nil THEN m ELSE PatchCdr(m, last, elem)
      /\ (locals.newargs = Nil) = (last = Nil) /\ last \in Data(mem, K) /\ IsStore(mem)
  BY Known DEF PostArg, Sound, GoodLocals, GoodStore, Newest
<1>2. IsStore(m) /\ Len(m) = elem /\ m[elem] = ConsNode(result, Nil) /\ \A r \in DOMAIN mem : m[r] = mem[r]
  BY <1>1, Appended
<1>3. DOMAIN mem = 1..Len(mem) /\ Len(mem) \in Nat /\ DOMAIN m = 1..elem
  BY <1>1, <1>2, StoreLength
<1> HIDE DEF m
<1>4. CASE last = Nil
  BY <1>1, <1>2, <1>4
<1>5. CASE last # Nil
  <2>1. last \in DOMAIN mem /\ last \in DOMAIN m /\ last # elem /\ elem \in DOMAIN m
    BY <1>1, <1>3, <1>5 DEF Data, Nil
  <2>2. mem' = PatchCdr(m, last, elem)
    BY <1>1, <1>5
  <2>3. /\ IsStore(mem') /\ Len(mem') = Len(m) /\ mem'[last] = [m[last] EXCEPT !.cdr = elem]
        /\ \A q \in DOMAIN m : q # last => mem'[q] = m[q]
    BY <1>2, <2>1, <2>2, Patched
  <2> QED
    BY <1>2, <1>3, <2>1, <2>3
<1> QED
  BY <1>4, <1>5

(* Nodes stay, with their types; and of the conses only bindings and the   *)
(* last argument so far can change.                                        *)
LEMMA NodesStay ==
    ASSUME NEW K, Sound(K), [Next]_vars
    PROVE  /\ DOMAIN mem \subseteq DOMAIN mem'
           /\ \A r \in DOMAIN mem : TypeOf(mem', r) = TypeOf(mem, r)
           /\ \A r \in DOMAIN mem \ (K \cap Held(EnvNow)) :
                \/ mem'[r] = mem[r]
                \/ PostArg /\ r = locals.na_last /\ mem'[r] = [mem[r] EXCEPT !.cdr = Len(mem) + 1]
<1>1. GoodStore(mem, K, Handles) /\ IsStore(mem) /\ K \subseteq DOMAIN mem
  BY DEF Sound, GoodStore
<1>2. DOMAIN mem = 1..Len(mem) /\ Len(mem) \in Nat
  BY <1>1, StoreLength
<1>3. CASE Extends(mem, mem')
  BY <1>3 DEF Extends, TypeOf
<1>4. ASSUME NEW kv \in K \cap Held(EnvNow), NEW v, mem' = PatchCdr(mem, kv, v)
      PROVE  /\ DOMAIN mem \subseteq DOMAIN mem'
             /\ \A r \in DOMAIN mem : mem'[r].type = mem[r].type
             /\ \A r \in DOMAIN mem : r # kv => mem'[r] = mem[r]
  <2>1. kv \in DOMAIN mem
    BY <1>1
  <2>2. /\ DOMAIN mem' = DOMAIN mem /\ mem'[kv] = [mem[kv] EXCEPT !.cdr = v]
        /\ \A q \in DOMAIN mem : q # kv => mem'[q] = mem[q]
    BY <1>1, <1>4, <2>1, Patched
  <2>3. mem[kv].type = "cons" /\ GoodNode(mem[kv], mem, K, Handles)
    BY <1>1, <2>1 DEF GoodStore, IsCons, TypeOf, Nil
  <2>4. mem'[kv].type = mem[kv].type
    BY <2>2
  <2> QED
    BY <2>2, <2>4
<1>5. CASE PostArg
  <2>1. Len(mem') = Len(mem) + 1 /\ IsStore(mem')
    BY <1>5, ArgumentIsAdded
  <2>2. DOMAIN mem \subseteq DOMAIN mem'
    BY <1>2, <2>1, StoreLength
  <2>3. /\ \A r \in DOMAIN mem : r # locals.na_last => mem'[r] = mem[r]
        /\ locals.na_last # Nil => /\ locals.na_last \in DOMAIN mem
                                   /\ mem'[locals.na_last] = [mem[locals.na_last] EXCEPT !.cdr = Len(mem) + 1]
    BY <1>5, ArgumentIsAdded
  <2>4. \A r \in DOMAIN mem : r # Nil
    BY <1>2 DEF Nil
  <2>5. \A r \in DOMAIN mem :
          mem'[r] = mem[r] \/ (r = locals.na_last /\ mem'[r] = [mem[r] EXCEPT !.cdr = Len(mem) + 1])
    BY <2>3, <2>4
  <2>6. \A r \in DOMAIN mem : mem'[r].type = mem[r].type
    <3>1. IsList(mem, locals.na_last)
      BY DEF Sound, GoodLocals
    <3>2. ASSUME NEW r \in DOMAIN mem, r = locals.na_last
          PROVE  mem[r] \in Conses(mem, K)
      <4>1. r # Nil /\ IsList(mem, r)
        BY <2>4, <3>1, <3>2
      <4>2. GoodNode(mem[r], mem, K, Handles)
        BY <1>1 DEF GoodStore
      <4>3. mem[r].type \in {"nil", "cons"}
        BY <4>1 DEF IsList, TypeOf
      <4> QED
        BY <4>2, <4>3 DEF GoodNode, Conses
    <3> QED
      BY <2>5, <3>2 DEF Conses
  <2> QED
    BY <1>5, <2>2, <2>5, <2>6 DEF TypeOf
<1> QED
  BY <1>3, <1>4, <1>5, StoreSteps DEF StoreStep, TypeOf

-----------------------------------------------------------------------------
(* Lexical scope, for calls that are not tail calls.                       *)
(* Binding a name leaves the frames below the newest one alone.            *)
LEMMA AddingKeepsTail ==
    ASSUME NEW K, NEW e \in EnvsOf(K), e # <<>>, NEW kv
    PROVE  environ_add(e, kv) # <<>> /\ Tail(environ_add(e, kv)) = Tail(e)
<1>1. e \in Seq(Seq(K))
  BY DEF EnvsOf
<1> DEFINE head == <<kv>> \o Head(e)
<1> DEFINE S == Seq(K) \cup {head}
<1>2. environ_add(e, kv) = <<head>> \o Tail(e)
  BY DEF environ_add
<1>3. Tail(e) \in Seq(Seq(K))
  BY <1>1
<1>4. Seq(Seq(K)) \subseteq Seq(S)
  BY DEF S
<1>5. Tail(e) \in Seq(S) /\ head \in S
  BY <1>3, <1>4
<1> HIDE DEF head, S
<1> QED
  BY <1>2, <1>5, TailOfJoined

CallInScope == EnvNow # <<>> /\ Tail(EnvNow) = mem[locals.func].env
ScopeInv == pc = "bind" /\ "tailcall" \notin locals.flags => CallInScope

LEMMA CallStartsInScope ==
    ASSUME NEW K, Sound(K), CallLambda
    PROVE  ScopeInv'
<1> DEFINE f == mem[locals.func]
<1> DEFINE l == [locals EXCEPT !.env = Len(envs) + 1, !.flags = @ \cup {"frame_added"}]
<1>1. mem' = mem /\ type(locals.func) = "lambda"
  BY DEF CallLambda, Calls
<1>2. locals \in LocalsOn(mem, K, Handles) /\ envs \in Seq(EnvsOf(K))
  BY Known DEF Sound
<1>3. f.env \in EnvsOf(K)
  <2>1. GoodNode(f, mem, K, Handles) /\ f.type = "lambda"
    BY <1>1, FuncNode
  <2> QED
    BY <2>1 DEF GoodNode, Conses
<1>4. CASE "tailcall" \in locals.flags /\ Jump(locals, "bind")
  BY <1>4 DEF Jump, ScopeInv
<1>5. CASE envs' = Append(envs, environ_pushframe(f.env)) /\ Jump(l, "bind")
  <2>1. locals' = l /\ l.env = Len(envs) + 1 /\ l.func = locals.func
    BY <1>2, <1>5 DEF Jump, LocalsOn
  <2> HIDE DEF l
  <2> DEFINE e == environ_pushframe(f.env)
  <2>2. e # <<>> /\ Tail(e) = f.env
    BY <1>3, EnvironsAreGood
  <2>3. envs' = Append(envs, e)
    BY <1>5
  <2> HIDE DEF e
  <2>4. envs'[Len(envs) + 1] = e
    BY <1>2, <2>3
  <2>5. EnvNow' = e
    BY <2>1, <2>4 DEF EnvNow
  <2> QED
    BY <1>1, <2>1, <2>2, <2>5 DEF ScopeInv, CallInScope
<1> QED
  BY <1>4, <1>5 DEF CallLambda

LEMMA BindingKeepsScope ==
    ASSUME NEW K, Sound(K), CallInScope, NEW name, NEW value, SetInFrame(name, value), locals' = locals,
           type(locals.func) = "lambda", [Next]_vars
    PROVE  CallInScope'
<1>1. EnvNow \in EnvsOf(K) /\ locals.env \in DOMAIN envs /\ envs \in Seq(EnvsOf(K))
  BY Known DEF Sound, Handles
<1>2. mem'[locals.func] = mem[locals.func]
  <2>1. GoodStore(mem, K, Handles) /\ locals.func \in Data(mem, K) /\ locals.func # Nil
    BY Known DEF Sound, type, TypeOf
  <2>2. locals.func \in DOMAIN mem \ K
    BY <2>1, StoreLength DEF GoodStore, Data, Nil
  <2>3. GoodLocals(locals, mem, K, Handles) /\ mem[locals.func].type = "lambda"
    BY <2>1 DEF Sound, type, TypeOf
  <2>4. locals.func # locals.na_last
    BY <2>1, <2>3 DEF GoodLocals, IsList, TypeOf
  <2> QED
    BY <2>2, <2>4, NodesStay
<1>3. CASE UNCHANGED envs
  BY <1>2, <1>3 DEF CallInScope, EnvNow
<1>4. CASE envs' = [envs EXCEPT ![locals.env] = environ_add(@, Newest(mem'))]
  <2> DEFINE e == environ_add(EnvNow, Newest(mem'))
  <2>1. e # <<>> /\ Tail(e) = Tail(EnvNow)
    BY <1>1, AddingKeepsTail DEF CallInScope
  <2>2. envs' = [envs EXCEPT ![locals.env] = e]
    BY <1>4 DEF EnvNow
  <2> HIDE DEF e
  <2>3. EnvNow' = e
    BY <1>1, <2>2 DEF EnvNow
  <2> QED
    BY <1>2, <2>1, <2>3 DEF CallInScope
<1> QED
  BY <1>3, <1>4 DEF SetInFrame

LEMMA ScopeStep ==
    ASSUME NEW K, Sound(K), ScopeInv, [Next]_vars
    PROVE  ScopeInv'
<1>1. CASE CallLambda
  BY <1>1, CallStartsInScope
<1>2. CASE LambdaBind
  <2>1. pc = "bind" /\ type(locals.func) = "lambda"
    BY <1>2 DEF LambdaBind, Sound, PlaceIsGood, type
  <2>2. CASE pc' = "bind"
    <3>1. /\ locals' = locals
          /\ \E name, value : SetInFrame(name, value)
      BY <1>2, <2>2 DEF LambdaBind, Leave, Jump
    <3>2. "tailcall" \notin locals.flags => CallInScope
      BY <2>1 DEF ScopeInv
    <3> QED
      BY <2>1, <3>1, <3>2, BindingKeepsScope DEF ScopeInv
  <2> QED
    BY <2>2 DEF ScopeInv
<1>3. CASE UNCHANGED vars
  BY <1>3 DEF vars, ScopeInv, CallInScope, EnvNow
<1>4. CASE Finish
  <2>1. CASE frames # <<>> /\ Jump(Last(frames), Last(frames).restart)
    <3>1. Last(frames).restart \in Labels
      <4>1. frames \in Seq(LocalsOn(mem, K, Handles)) /\ \A i \in DOMAIN frames : Resumes(frames[i], mem)
        BY DEF Sound, GoodFrames
      <4>2. Len(frames) \in DOMAIN frames
        BY <2>1, <4>1
      <4> QED
        BY <4>1, <4>2 DEF Resumes, Last
    <3> QED
      BY <2>1, <3>1 DEF Jump, Labels, ScopeInv
  <2>2. CASE Return(status, result)
    BY <2>2 DEF Return, ScopeInv
  <2> QED
    BY <1>4, <2>1, <2>2 DEF Finish
<1>5. CASE NextForm \/ Restart \/ PostError \/ PostFuncPlain \/ If \/ PostIfTest \/ Quote \/ DefOrSet
           \/ CallEval \/ CallContinuation \/ CallOther \/ PostExpr \/ MakeLambda \/ CallCC
  BY <1>5 DEF NextForm, Restart, PostError, PostFuncPlain, If, PostIfTest, Quote, DefOrSet, CallEval,
              CallContinuation, CallOther, PostExpr, MakeLambda, CallCC, Jump, Leave, Push, Return, ScopeInv
<1>6. CASE PostDefSet \/ Args \/ PostArg \/ CallDefined \/ CallForeignFunc \/ Body
  BY <1>6 DEF PostDefSet, Args, PostArg, CallDefined, CallForeignFunc, Body, Jump, Leave, Push, Abort, ScopeInv
<1> QED
  BY <1>1, <1>2, <1>3, <1>4, <1>5, <1>6 DEF Next, Step, Idle

-----------------------------------------------------------------------------
(* Who gives up an environment at the end shares it with nobody below.     *)
EnvsApart ==
    /\ Global \notin popped
    /\ \A i \in 1..Depth : InCall(Link(i)) => Link(i).env # Global
    /\ \A i, j \in 1..Depth : i < j /\ InCall(Link(j)) => Link(i).env # Link(j).env

EnvsLive == Running => \A i \in 1..Depth : Link(i).env \notin popped

(* Two argument lists in the making do not end in the same cons.           *)
ListsApart ==
    /\ \A i \in 1..Depth : Link(i).na_last # Nil => cdr(Link(i).na_last) = Nil
    /\ \A i, j \in 1..Depth : i < j /\ Link(i).na_last # Nil => Link(i).na_last # Link(j).na_last

ChainInv == EnvsApart /\ EnvsLive /\ ListsApart

(* What a place in the chain is after a step: the locals that were there,  *)
(* or new ones, above the others, for a part of the newest expression.     *)
Follows(l, k) ==
    /\ l.env = k.env /\ (InCall(l) => InCall(k)) /\ (l.na_last = k.na_last \/ l.na_last = Nil)
StartsIn(l, k) == l.env = k.env /\ ~InCall(l) /\ l.na_last = Nil

Kept == frames' = frames /\ Follows(locals', locals)
Pushed ==
    \E f : frames' = Append(frames, f) /\ Follows(f, locals) /\ StartsIn(locals', locals)

ChainGoesOn ==
    \A i \in (1..Depth)' : \/ i \in 1..Depth /\ Follows(Link(i)', Link(i))
                           \/ i = Depth + 1 /\ StartsIn(Link(i)', Link(Depth))

EnvsGoOn ==
    \A i \in (1..Depth)' :
        \/ i \in 1..Depth /\ Link(i)'.env = Link(i).env /\ (InCall(Link(i)') => InCall(Link(i)))
        \/ i = Depth + 1 /\ Link(i)'.env = Link(Depth).env /\ ~InCall(Link(i)')

ListsGoOn ==
    \A i \in (1..Depth)' : Link(i)'.na_last # Nil => i \in 1..Depth /\ Link(i)'.na_last = Link(i).na_last

LEMMA LinksAre ==
    ASSUME NEW K, Sound(K)
    PROVE  /\ Depth \in Nat \ {0} /\ Link(Depth) = locals /\ Len(frames) \in Nat
           /\ \A i \in 1..Len(frames) : Link(i) = frames[i] /\ i \in 1..Depth
           /\ \A i \in 1..Depth : Link(i) \in LocalsOn(mem, K, Handles) /\ (i = Depth \/ i \in 1..Len(frames))
<1>1. frames \in Seq(LocalsOn(mem, K, Handles)) /\ locals \in LocalsOn(mem, K, Handles)
  BY Known DEF Sound, GoodFrames
<1>2. Len(frames) \in Nat /\ \A i \in 1..Len(frames) : frames[i] \in LocalsOn(mem, K, Handles)
  BY <1>1
<1> QED
  BY <1>1, <1>2 DEF Depth, Link

LEMMA KeptGoesOn ==
    ASSUME NEW K, Sound(K), Kept
    PROVE  ChainGoesOn
<1>1. Depth' = Depth
  BY DEF Kept, Depth
<1>2. ASSUME NEW i \in 1..Depth PROVE Follows(Link(i)', Link(i))
  <2>1. CASE i = Depth
    BY <1>1, <2>1 DEF Link, Kept
  <2>2. CASE i # Depth
    BY <1>1, <2>2 DEF Link, Kept, Follows
  <2> QED
    BY <2>1, <2>2
<1> QED
  BY <1>1, <1>2 DEF ChainGoesOn

(* A stack without its newest element.                                     *)
LEMMA FrontIs ==
    ASSUME NEW S, NEW s \in Seq(S), s # <<>>
    PROVE  /\ Len(s) \in Nat \ {0} /\ Last(s) = s[Len(s)]
           /\ Len(Front(s)) = Len(s) - 1 /\ \A i \in 1..Len(s) - 1 : Front(s)[i] = s[i]
<1>1. Len(s) \in Nat \ {0} /\ Last(s) = s[Len(s)]
  BY DEF Last
<1> DEFINE n == Len(s) - 1
<1>2. Front(s) = SubSeq(s, 1, n)
  BY DEF Front
<1>3. n \in Nat /\ \A i \in 1..n : s[i] \in S
  BY <1>1
<1>4. /\ Len(SubSeq(s, 1, n)) = IF 1 <= n THEN n - 1 + 1 ELSE 0
      /\ \A i \in 1..n - 1 + 1 : SubSeq(s, 1, n)[i] = s[1 + i - 1]
  BY <1>3, SubSeqProperties
<1> HIDE DEF n
<1>5. n - 1 + 1 = n /\ (1 <= n \/ n = 0) /\ \A i \in 1..n : 1 + i - 1 = i
  BY <1>3
<1>6. Len(SubSeq(s, 1, n)) = n /\ \A i \in 1..n : SubSeq(s, 1, n)[i] = s[i]
  BY <1>4, <1>5
<1> QED
  BY <1>1, <1>2, <1>6 DEF n

(* A stack with a new element on it.                                       *)
LEMMA AppendedIs ==
    ASSUME NEW S, NEW s \in Seq(S), NEW f
    PROVE  /\ Len(Append(s, f)) = Len(s) + 1 /\ Append(s, f)[Len(s) + 1] = f
           /\ \A i \in 1..Len(s) : Append(s, f)[i] = s[i]
<1> DEFINE T == S \cup {f}
<1>1. s \in Seq(T) /\ f \in T
  OBVIOUS
<1> HIDE DEF T
<1> QED
  BY <1>1

LEMMA PushedGoesOn ==
    ASSUME NEW K, Sound(K), Pushed
    PROVE  ChainGoesOn /\ Depth' = Depth + 1
<1> PICK f : frames' = Append(frames, f) /\ Follows(f, locals) /\ StartsIn(locals', locals)
  BY DEF Pushed
<1>1. frames \in Seq(LocalsOn(mem, K, Handles)) /\ Len(frames) \in Nat
  BY LinksAre DEF Sound, GoodFrames
<1>2. /\ Len(frames') = Len(frames) + 1 /\ frames'[Len(frames) + 1] = f
      /\ \A i \in 1..Len(frames) : frames'[i] = frames[i]
  BY <1>1, AppendedIs
<1>3. Depth' = Depth + 1 /\ Depth = Len(frames) + 1
  BY <1>2 DEF Depth
<1>4. ASSUME NEW i \in 1..Depth + 1
      PROVE  \/ i \in 1..Depth /\ Follows(Link(i)', Link(i))
             \/ i = Depth + 1 /\ StartsIn(Link(i)', Link(Depth))
  <2>1. CASE i = Depth + 1
    <3>1. Link(i)' = locals' /\ Link(Depth) = locals
      BY <1>3, <2>1 DEF Link
    <3> QED
      BY <2>1, <3>1
  <2>2. CASE i = Depth
    <3>1. Link(i)' = frames'[i] /\ Link(i) = locals
      BY <1>1, <1>3, <2>2 DEF Link
    <3>2. Link(i)' = f
      BY <1>2, <1>3, <2>2, <3>1
    <3> QED
      BY <1>1, <1>3, <2>2, <3>1, <3>2
  <2>3. CASE i \in 1..Len(frames)
    <3>1. Link(i)' = frames'[i] /\ Link(i) = frames[i]
      BY <1>1, <1>3, <2>3 DEF Link
    <3>2. Link(i)' = Link(i)
      BY <1>2, <2>3, <3>1
    <3> QED
      BY <1>1, <1>3, <2>3, <3>2 DEF Follows
  <2> QED
    BY <1>1, <1>3, <2>1, <2>2, <2>3
<1> QED
  BY <1>1, <1>3, <1>4 DEF ChainGoesOn

LEMMA PartsGoOn ==
    ASSUME ChainGoesOn
    PROVE  EnvsGoOn /\ ListsGoOn
BY DEF ChainGoesOn, EnvsGoOn, ListsGoOn, Follows, StartsIn

(* Then nothing comes together that was apart.                             *)
LEMMA StaysApart ==
    ASSUME NEW K, Sound(K), EnvsGoOn, Depth' \in Nat, Global \notin popped', EnvsApart
    PROVE  EnvsApart'
<1>1. Depth \in Nat \ {0}
  BY LinksAre
<1>2. ASSUME NEW i \in (1..Depth)', InCall(Link(i)')
      PROVE  i \in 1..Depth /\ Link(i)'.env = Link(i).env /\ InCall(Link(i))
  BY <1>2 DEF EnvsGoOn
<1>3. \A i \in (1..Depth)' : InCall(Link(i)') => Link(i)'.env # Global
  BY <1>2 DEF EnvsApart
<1>4. ASSUME NEW i \in (1..Depth)', NEW j \in (1..Depth)', i < j, InCall(Link(j)')
      PROVE  Link(i)'.env # Link(j)'.env
  <2>1. j \in 1..Depth /\ Link(j)'.env = Link(j).env /\ InCall(Link(j))
    BY <1>2, <1>4
  <2>2. i \in 1..Depth /\ i # Depth + 1
    BY <1>1, <1>4, <2>1
  <2>3. Link(i)'.env = Link(i).env
    BY <2>2 DEF EnvsGoOn
  <2> QED
    BY <1>4, <2>1, <2>2, <2>3 DEF EnvsApart
<1> QED
  BY <1>3, <1>4 DEF EnvsApart, InCall

LEMMA StaysLive ==
    ASSUME NEW K, Sound(K), EnvsGoOn, popped' = popped, EnvsLive, Running
    PROVE  EnvsLive'
<1>1. \A i \in 1..Depth : Link(i).env \notin popped
  BY DEF EnvsLive
<1>2. Depth \in 1..Depth
  BY LinksAre
<1> QED
  BY <1>1, <1>2 DEF EnvsLive, EnvsGoOn

LEMMA ListsStayApart ==
    ASSUME NEW K, Sound(K), ListsGoOn, ListsApart,
           \A r \in DOMAIN mem \ K : mem'[r] = mem[r]
    PROVE  ListsApart'
<1>1. Depth \in Nat \ {0} /\ \A i \in 1..Depth : Link(i) \in LocalsOn(mem, K, Handles)
  BY LinksAre
<1>2. ASSUME NEW i \in (1..Depth)', Link(i)'.na_last # Nil
      PROVE  i \in 1..Depth /\ Link(i)'.na_last = Link(i).na_last
  BY <1>2 DEF ListsGoOn
<1>3. ASSUME NEW i \in (1..Depth)', Link(i)'.na_last # Nil
      PROVE  Cdr(mem', Link(i)'.na_last) = Nil
  <2>1. i \in 1..Depth /\ Link(i)'.na_last = Link(i).na_last
    BY <1>2, <1>3
  <2>2. Link(i).na_last \in Data(mem, K) /\ Link(i).na_last # Nil
    BY <1>1, <1>3, <2>1 DEF LocalsOn
  <2>3. Link(i).na_last \in DOMAIN mem \ K
    BY <2>2, StoreLength DEF Sound, GoodStore, Data, Nil
  <2>4. Cdr(mem, Link(i).na_last) = Nil
    BY <2>1, <2>2 DEF ListsApart, cdr
  <2> QED
    BY <2>1, <2>2, <2>3, <2>4 DEF Cdr
<1>4. ASSUME NEW i \in (1..Depth)', NEW j \in (1..Depth)', i < j, Link(i)'.na_last # Nil
      PROVE  Link(i)'.na_last # Link(j)'.na_last
  <2>1. i \in 1..Depth /\ Link(i)'.na_last = Link(i).na_last
    BY <1>2, <1>4
  <2>2. CASE Link(j)'.na_last # Nil
    <3>1. j \in 1..Depth /\ Link(j)'.na_last = Link(j).na_last
      BY <1>2, <2>2
    <3> QED
      BY <1>4, <2>1, <3>1 DEF ListsApart
  <2> QED
    BY <1>4, <2>2
<1> QED
  BY <1>3, <1>4 DEF ListsApart, cdr

(* The steps that neither start nor end a call, nor add an argument.       *)
LEMMA StepsGoOn ==
    ASSUME NEW K, Sound(K), [Next]_vars, NoContinuation
    PROVE  \/ NextForm \/ CallLambda \/ PostArg \/ Finish
           \/ (Kept \/ Pushed) /\ popped' = popped /\ (Running' => Running)
<1>1. locals \in LocalsOn(mem, K, Handles)
  BY Known
<1>2. Follows(locals, locals)
  BY DEF Follows
<1>3. ASSUME locals' = locals, frames' = frames PROVE Kept
  BY <1>2, <1>3 DEF Kept
<1>4. ASSUME NEW l, Follows(l, locals), NEW label, NEW input, Push(l, label, input), l \in LocalsOn(mem, K, Handles)
      PROVE  Pushed
  <2> DEFINE f == [l EXCEPT !.restart = label]
  <2>1. frames' = Append(frames, f) /\ locals' = Fresh(l.env, input)
    BY <1>4 DEF Push
  <2>2. f.env = l.env /\ f.flags = l.flags /\ f.na_last = l.na_last
    BY <1>4 DEF LocalsOn
  <2> HIDE DEF f
  <2>3. Follows(f, locals)
    BY <1>4, <2>2 DEF Follows, InCall
  <2>4. StartsIn(locals', locals)
    BY <1>4, <2>1 DEF StartsIn, Follows, Fresh, InCall
  <2> QED
    BY <2>1, <2>3, <2>4 DEF Pushed
<1>5. ASSUME NEW label, NEW input, Push(locals, label, input) PROVE Pushed
  BY <1>1, <1>2, <1>4, <1>5
<1>6. CASE UNCHANGED vars
  BY <1>3, <1>6 DEF vars, Running
<1>7. CASE MakeLambda \/ Quote \/ CallDefined \/ CallOther \/ PostError \/ PostDefSet
  BY <1>3, <1>7 DEF MakeLambda, Quote, CallDefined, CallOther, PostError, PostDefSet, IsSpecial, Calls, Labels,
                    Leave, Running
<1>8. CASE CallForeignFunc
  BY <1>3, <1>8 DEF CallForeignFunc, Calls, Abort, Running
<1>9. CASE Restart
  BY <1>3, <1>5, <1>9 DEF Restart, Running
<1>10. CASE Args
  <2>1. Jump(locals, "call") /\ frames' = frames => Kept
    BY <1>3 DEF Jump
  <2> QED
    BY <1>3, <1>5, <1>10, <2>1 DEF Args, Abort, Running
<1>11. CASE LambdaBind
  <2>1. ASSUME Jump([locals EXCEPT !.cursor = mem[locals.func].expr], "body") PROVE Follows(locals', locals)
    BY <1>1, <2>1 DEF Jump, LocalsOn, Follows, InCall
  <2> QED
    BY <1>2, <1>11, <2>1 DEF LambdaBind, Kept, Running
<1>12. CASE Body
  <2> DEFINE l == [locals EXCEPT !.input = car(locals.cursor), !.na_last = Nil, !.newargs = Nil, !.func = Nil,
                                 !.flags = (@ \ {"new_input"}) \cup {"tailcall"}]
  <2>1. Follows(l, locals)
    BY <1>1 DEF LocalsOn, Follows, InCall
  <2>2. Jump(l, "restart") /\ frames' = frames => Kept
    BY <2>1 DEF Jump, Kept
  <2> HIDE DEF l
  <2>3. /\ pc = "body" /\ popped' = popped
        /\ \/ Abort
           \/ Jump(l, "restart") /\ frames' = frames
           \/ Push(locals, "post_expr", car(locals.cursor))
    BY <1>12 DEF Body, l, Abort
  <2> QED
    BY <1>3, <1>5, <2>2, <2>3 DEF Abort, Running
<1>13. CASE PostExpr
  BY <1>1, <1>13 DEF PostExpr, LocalsOn, Jump, Follows, InCall, Kept, Running
<1>14. CASE PostFuncPlain
  BY <1>1, <1>14 DEF PostFuncPlain, LocalsOn, Jump, Follows, InCall, Kept, Running
<1>15. CASE CallEval
  BY <1>1, <1>15 DEF CallEval, Calls, LocalsOn, Jump, Follows, InCall, Kept, Running
<1>16. CASE CallCC
  BY <1>1, <1>16 DEF CallCC, IsSpecial, LocalsOn, Jump, Follows, InCall, Kept, Running
<1>17. CASE PostIfTest
  <2>1. ASSUME NEW expr,
               Jump([locals EXCEPT !.input = expr, !.func = Nil,
                                   !.flags = (@ \ {"new_input"}) \cup {"tailcall"}], "restart")
        PROVE  Follows(locals', locals)
    BY <1>1, <2>1 DEF Jump, LocalsOn, Follows, InCall
  <2> QED
    BY <1>2, <1>17, <2>1 DEF PostIfTest, Kept, Running
<1>18. CASE If
  <2> DEFINE l == [locals EXCEPT !.func = result]
  <2>1. Push(l, "post_if_test", car(cdr(locals.input))) /\ pc = "post_func" /\ popped' = popped
    BY <1>18 DEF If, IsSpecial
  <2>2. l \in LocalsOn(mem, K, Handles) /\ Follows(l, locals)
    BY <1>1 DEF LocalsOn, Follows, InCall, Sound
  <2> QED
    BY <1>4, <2>1, <2>2 DEF Running
<1>19. CASE DefOrSet
  <2> DEFINE name == car(cdr(locals.input))
  <2> DEFINE l == [locals EXCEPT !.func = result, !.cursor = name]
  <2>1. /\ pc = "post_func" /\ popped' = popped
        /\ \/ frames' = frames /\ locals' = locals
           \/ Push(l, "post_def_set", car(cdr(cdr(locals.input))))
    BY <1>19 DEF DefOrSet, IsSpecial
  <2>2. name \in Data(mem, K)
    BY <2>1, AtLabel, CallParts, <1>19 DEF Labels, DefOrSet, IsSpecial
  <2>3. l \in LocalsOn(mem, K, Handles) /\ Follows(l, locals)
    BY <1>1, <2>2 DEF LocalsOn, Follows, InCall, Sound
  <2> QED
    BY <1>3, <1>4, <2>1, <2>3 DEF Running
<1>20. ~CallContinuation
  <2> SUFFICES ASSUME CallContinuation PROVE FALSE
    OBVIOUS
  <2>1. TypeOf(mem, locals.func) = "continuation" /\ locals.func # Nil /\ GoodStore(mem, K, Handles)
        /\ locals.func \in Data(mem, K)
    BY Known DEF CallContinuation, Calls, type, TypeOf, Sound
  <2>2. locals.func \in DOMAIN mem
    BY <2>1, StoreLength DEF GoodStore, Data, Nil
  <2> QED
    BY <2>1, <2>2 DEF NoContinuation, type
<1> QED
  BY <1>6, <1>7, <1>8, <1>9, <1>10, <1>11, <1>12, <1>13, <1>14, <1>15, <1>16, <1>17, <1>18, <1>19, <1>20
  DEF Next, Step, Idle

LEMMA NextFormApart ==
    ASSUME NEW K, Sound(K), NextForm, EnvsApart
    PROVE  ChainInv'
<1>1. Depth' = 1 /\ Link(1)' = Fresh(Global, Head(todo)) /\ popped' = popped
  BY DEF NextForm, Jump, Depth, Link
<1>2. ~InCall(Link(1)') /\ Link(1)'.env = Global /\ Link(1)'.na_last = Nil
  BY <1>1 DEF Fresh, InCall
<1>3. (1..Depth)' = {1}
  BY <1>1
<1>4. Global \notin popped'
  BY <1>1 DEF EnvsApart
<1>5. EnvsApart'
  BY <1>2, <1>3, <1>4 DEF EnvsApart, InCall
<1> QED
  BY <1>2, <1>3, <1>4, <1>5 DEF ChainInv, EnvsLive, ListsApart

(* A call has its environment for itself.                                  *)
LEMMA CallLambdaApart ==
    ASSUME NEW K, Sound(K), CallLambda, ChainInv
    PROVE  ChainInv'
<1> DEFINE l == [locals EXCEPT !.env = Len(envs) + 1, !.flags = @ \cup {"frame_added"}]
<1>1. /\ frames' = frames /\ mem' = mem /\ popped' = popped /\ Running /\ Running'
      /\ locals \in LocalsOn(mem, K, Handles)
  BY Known DEF CallLambda, Calls, Jump, Running
<1>2. /\ Depth \in Nat \ {0} /\ Depth' = Depth /\ Link(Depth)' = locals' /\ Link(Depth) = locals
      /\ \A i \in 1..Depth : i # Depth => Link(i)' = Link(i)
  BY <1>1, LinksAre DEF Depth, Link
<1>3. \A r \in DOMAIN mem \ K : mem'[r] = mem[r]
  BY <1>1
<1>4. CASE Jump(locals, "bind")
  <2>1. Kept
    BY <1>1, <1>4 DEF Jump, Kept, Follows
  <2>2. EnvsGoOn /\ ListsGoOn
    BY <2>1, KeptGoesOn, PartsGoOn
  <2> QED
    BY <1>1, <1>2, <1>3, <2>2, StaysApart, StaysLive, ListsStayApart DEF ChainInv, EnvsApart
<1>5. CASE Jump(l, "bind")
  <2>1. locals' = l /\ l.env = Len(envs) + 1 /\ l.na_last = locals.na_last
    BY <1>1, <1>5 DEF Jump, LocalsOn
  <2> HIDE DEF l
  <2>2. /\ \A i \in 1..Depth : Link(i).env \in Handles
        /\ popped \subseteq Handles /\ Global \in Handles
    BY LinksAre DEF LocalsOn, Sound
  <2>3. Len(envs) + 1 \notin Handles
    BY DEF Sound, Handles
  <2>4. /\ Link(Depth)'.env \notin Handles
        /\ \A i \in 1..Depth : i # Depth => Link(i)'.env \in Handles
    BY <1>2, <2>1, <2>2, <2>3
  <2>5. ASSUME NEW i \in 1..Depth, InCall(Link(i)') PROVE Link(i)'.env # Global
    BY <1>1, <1>2, <2>2, <2>4, <2>5 DEF ChainInv, EnvsApart
  <2>6. ASSUME NEW i \in 1..Depth, NEW j \in 1..Depth, i < j, InCall(Link(j)')
        PROVE  Link(i)'.env # Link(j)'.env
    <3>1. i # Depth
      BY <1>2, <2>6
    <3>2. CASE j = Depth
      BY <1>2, <2>4, <2>6, <3>1, <3>2
    <3>3. CASE j # Depth
      BY <1>2, <2>6, <3>1, <3>3 DEF ChainInv, EnvsApart
    <3> QED
      BY <3>2, <3>3
  <2>7. EnvsApart'
    BY <1>1, <1>2, <2>5, <2>6 DEF ChainInv, EnvsApart, InCall
  <2>8. EnvsLive'
    BY <1>1, <1>2, <2>2, <2>4 DEF ChainInv, EnvsLive
  <2>9. ListsGoOn
    BY <1>2, <2>1 DEF ListsGoOn
  <2> QED
    BY <1>3, <2>7, <2>8, <2>9, ListsStayApart DEF ChainInv
<1> QED
  BY <1>4, <1>5 DEF CallLambda

(* A new argument is the end of one list only, ...                         *)
LEMMA PostArgApart ==
    ASSUME NEW K, Sound(K), PostArg, ChainInv
    PROVE  ChainInv'
<1> DEFINE elem == Len(mem) + 1
<1> DEFINE last == locals.na_last
<1>1. /\ frames' = frames /\ popped' = popped /\ Running /\ locals \in LocalsOn(mem, K, Handles)
  BY Known DEF PostArg, Running
<1>2. locals'.env = locals.env /\ locals'.flags = locals.flags /\ locals'.na_last = elem
  BY <1>1 DEF PostArg, Jump, LocalsOn, Newest
<1>3. /\ Depth \in Nat \ {0} /\ Depth' = Depth /\ Link(Depth)' = locals' /\ Link(Depth) = locals
      /\ \A i \in 1..Depth : i # Depth => Link(i)' = Link(i)
      /\ \A i \in 1..Depth : Link(i) \in LocalsOn(mem, K, Handles)
  BY <1>1, LinksAre DEF Depth, Link
<1>4. EnvsGoOn
  BY <1>2, <1>3 DEF EnvsGoOn, InCall
<1>5. EnvsApart' /\ EnvsLive'
  BY <1>1, <1>3, <1>4, StaysApart, StaysLive DEF ChainInv, EnvsApart
<1>6. /\ IsStore(mem') /\ Len(mem') = elem /\ mem'[elem] = ConsNode(result, Nil)
      /\ \A r \in DOMAIN mem : r # last => mem'[r] = mem[r]
  BY ArgumentIsAdded
<1>7. DOMAIN mem = 1..Len(mem) /\ Len(mem) \in Nat
  BY StoreLength DEF Sound, GoodStore
<1>8. /\ elem # Nil /\ Cdr(mem', elem) = Nil
      /\ \A i \in 1..Depth : Link(i).na_last # elem /\ (Link(i).na_last = Nil \/ Link(i).na_last \in DOMAIN mem)
  <2>1. elem # Nil /\ elem \notin DOMAIN mem
    BY <1>7 DEF Nil
  <2>2. Cdr(mem', elem) = Nil
    BY <1>6, <2>1 DEF Cdr, ConsNode
  <2>3. \A i \in 1..Depth : Link(i).na_last \in Data(mem, K)
    BY <1>3 DEF LocalsOn
  <2>4. \A r \in Data(mem, K) : r = Nil \/ r \in DOMAIN mem
    BY <1>7 DEF Data, Nil
  <2> QED
    BY <2>1, <2>2, <2>3, <2>4
<1>9. ASSUME NEW i \in 1..Depth, Link(i)'.na_last # Nil PROVE Cdr(mem', Link(i)'.na_last) = Nil
  <2>1. CASE i = Depth
    BY <1>2, <1>3, <1>8, <2>1
  <2>2. CASE i # Depth
    <3>1. i < Depth /\ Link(i)'.na_last = Link(i).na_last
      BY <1>3, <2>2
    <3>2. Link(i).na_last # last /\ Cdr(mem, Link(i).na_last) = Nil
      BY <1>3, <1>9, <3>1 DEF ChainInv, ListsApart, cdr
    <3> QED
      BY <1>6, <1>8, <1>9, <3>1, <3>2 DEF Cdr
  <2> QED
    BY <2>1, <2>2
<1>10. ASSUME NEW i \in 1..Depth, NEW j \in 1..Depth, i < j, Link(i)'.na_last # Nil
       PROVE  Link(i)'.na_last # Link(j)'.na_last
  <2>1. i # Depth
    BY <1>3, <1>10
  <2>2. CASE j = Depth
    BY <1>2, <1>3, <1>8, <2>1, <2>2
  <2>3. CASE j # Depth
    BY <1>3, <1>10, <2>1, <2>3 DEF ChainInv, ListsApart
  <2> QED
    BY <2>2, <2>3
<1>11. ListsApart'
  BY <1>3, <1>9, <1>10 DEF ListsApart, cdr
<1> QED
  BY <1>5, <1>11 DEF ChainInv

(* ... and only the environment of the call that ends is given up.         *)
LEMMA FinishApart ==
    ASSUME NEW K, Sound(K), Finish, ChainInv
    PROVE  ChainInv'
<1>1. /\ Running /\ mem' = mem /\ Depth \in Nat \ {0} /\ Link(Depth) = locals
      /\ popped' = popped \/ (InCall(locals) /\ popped' = popped \cup {locals.env})
  BY LinksAre DEF Finish, Running, InCall
<1>2. Depth \in 1..Depth /\ Global \notin popped'
  BY <1>1 DEF ChainInv, EnvsApart
<1>3. \A r \in DOMAIN mem \ K : mem'[r] = mem[r]
  BY <1>1
<1>4. CASE frames # <<>> /\ frames' = Front(frames) /\ Jump(Last(frames), Last(frames).restart)
  <2>1. frames \in Seq(LocalsOn(mem, K, Handles))
    BY DEF Sound, GoodFrames
  <2>2. /\ Len(frames) \in Nat \ {0} /\ Len(frames') = Len(frames) - 1
        /\ \A i \in 1..Len(frames) - 1 : frames'[i] = frames[i]
        /\ locals' = frames[Len(frames)]
    BY <1>4, <2>1, FrontIs DEF Jump
  <2>3. Depth' = Len(frames) /\ Depth = Len(frames) + 1
    BY <2>2 DEF Depth
  <2>4. \A i \in (1..Depth)' : i \in 1..Depth /\ i < Depth /\ Link(i)' = Link(i)
    BY <2>2, <2>3 DEF Link
  <2>5. EnvsGoOn /\ ListsGoOn
    BY <2>4 DEF EnvsGoOn, ListsGoOn
  <2>6. \A i \in (1..Depth)' : Link(i)'.env \notin popped'
    BY <1>1, <1>2, <2>4 DEF ChainInv, EnvsApart, EnvsLive
  <2> QED
    BY <1>2, <1>3, <2>2, <2>3, <2>5, <2>6, StaysApart, ListsStayApart DEF ChainInv, EnvsLive
<1>5. CASE Return(status, result) /\ UNCHANGED <<frames, locals>>
  <2>1. ~Running'
    BY <1>5 DEF Return, Running
  <2>2. Kept /\ Depth' = Depth
    BY <1>5 DEF Kept, Follows, Depth
  <2>3. EnvsGoOn /\ ListsGoOn
    BY <2>2, KeptGoesOn, PartsGoOn
  <2> QED
    BY <1>1, <1>2, <1>3, <2>1, <2>2, <2>3, StaysApart, ListsStayApart DEF ChainInv, EnvsLive
<1> QED
  BY <1>4, <1>5 DEF Finish

LEMMA ChainStep ==
    ASSUME NEW K, Sound(K), [Next]_vars, NoContinuation, ChainInv
    PROVE  ChainInv'
<1>1. CASE NextForm
  BY <1>1, NextFormApart DEF ChainInv
<1>2. CASE CallLambda
  BY <1>2, CallLambdaApart
<1>3. CASE PostArg
  BY <1>3, PostArgApart
<1>4. CASE Finish
  BY <1>4, FinishApart
<1>5. CASE ~PostArg /\ (Kept \/ Pushed) /\ popped' = popped /\ (Running' => Running)
  <2>1. Depth \in Nat /\ EnvsGoOn /\ ListsGoOn /\ Depth' \in Nat
    <3>1. CASE Kept
      <4>1. Depth' = Depth
        BY <3>1 DEF Kept, Depth
      <4> QED
        BY <3>1, <4>1, LinksAre, KeptGoesOn, PartsGoOn
    <3>2. CASE Pushed
      BY <3>2, LinksAre, PushedGoesOn, PartsGoOn
    <3> QED
      BY <1>5, <3>1, <3>2
  <2>2. \A r \in DOMAIN mem \ K : mem'[r] = mem[r]
    BY <1>5, NodesStay
  <2>3. EnvsApart' /\ ListsApart'
    BY <1>5, <2>1, <2>2, StaysApart, ListsStayApart DEF ChainInv, EnvsApart
  <2>4. EnvsLive'
    BY <1>5, <2>1, StaysLive DEF ChainInv, EnvsLive
  <2> QED
    BY <2>3, <2>4 DEF ChainInv
<1> QED
  BY <1>1, <1>2, <1>3, <1>4, <1>5, StepsGoOn

LEMMA FirstIsApart ==
    ASSUME Init
    PROVE  ScopeInv /\ ChainInv
<1>1. /\ frames = <<>> /\ locals = Fresh(Global, Nil) /\ popped = {} /\ pc = "idle"
  BY DEF Init
<1>2. Depth = 1 /\ Link(1) = locals /\ ~InCall(locals) /\ locals.na_last = Nil
  BY <1>1 DEF Depth, Link, InCall, Fresh
<1> QED
  BY <1>1, <1>2 DEF ScopeInv, ChainInv, EnvsApart, EnvsLive, ListsApart, Running, InCall

LEMMA NoContinuationBefore ==
    ASSUME EvalInv, [Next]_vars, NoContinuation'
    PROVE  NoContinuation
<1> PICK K : Sound(K)
  BY DEF EvalInv
<1>1. DOMAIN mem \subseteq DOMAIN mem' /\ \A r \in DOMAIN mem : TypeOf(mem', r) = TypeOf(mem, r)
  BY NodesStay
<1> QED
  BY <1>1 DEF NoContinuation, type

(* What holds of calls in every state.  call/cc makes two places share an  *)
(* environment, and an argument list, when its continuation is entered.    *)
CallsInv == EvalInv /\ ScopeInv /\ (NoContinuation => ChainInv)

(* Calls under way have environments and argument lists of their own until *)
(* a continuation is made, and frames go onto the environment of the       *)
(* lambda unless the call is a tail call (eval.c:438-453, 512-520).        *)
THEOREM CallsAreApart == Spec => []CallsInv
<1>1. Init => CallsInv
  BY InitSound, FirstIsApart DEF CallsInv
<1>2. ASSUME CallsInv, [Next]_vars PROVE CallsInv'
  <2> PICK K : Sound(K)
    BY <1>2 DEF CallsInv, EvalInv
  <2>1. EvalInv'
    BY <1>2, StepSound DEF CallsInv
  <2>2. ScopeInv'
    BY <1>2, ScopeStep DEF CallsInv
  <2>3. ASSUME NoContinuation' PROVE ChainInv'
    <3>1. NoContinuation
      BY <1>2, <2>3, NoContinuationBefore DEF CallsInv
    <3> QED
      BY <1>2, <3>1, ChainStep DEF CallsInv
  <2> QED
    BY <2>1, <2>2, <2>3 DEF CallsInv
<1> QED
  BY <1>1, <1>2, PTL DEF Spec

(* A call that is not a tail call binds its arguments in a frame on the    *)
(* environment of its lambda (eval.c:439-453).                             *)
THEOREM CallsBindInScope == Spec => []("tailcall" \notin locals.flags => CallsKeepDefiningScope)
<1>1. CallsInv => ("tailcall" \notin locals.flags => CallsKeepDefiningScope)
  BY DEF CallsInv, ScopeInv, CallInScope, CallsKeepDefiningScope
<1> QED
  BY <1>1, CallsAreApart, PTL

(* As long as there is no continuation, nobody gives up the variables of   *)
(* an expression that still needs them (eval.c:515-520).                   *)
THEOREM VariablesStay == Spec => [](NoContinuation => PendingBodyHasItsVariables)
<1>1. CallsInv => (NoContinuation => PendingBodyHasItsVariables)
  <2> SUFFICES ASSUME NEW K, Sound(K), ChainInv PROVE PendingBodyHasItsVariables
    BY DEF CallsInv, EvalInv
  <2>1. Running => \A i \in 1..Depth : Link(i).env \notin popped
    BY DEF ChainInv, EnvsLive
  <2>2. /\ Depth \in 1..Depth /\ Link(Depth) = locals
        /\ \A i \in 1..Len(frames) : Link(i) = frames[i] /\ i \in 1..Depth
    BY LinksAre
  <2>3. DOMAIN frames = 1..Len(frames)
    BY DEF Sound, GoodFrames
  <2> QED
    BY <2>1, <2>2, <2>3 DEF PendingBodyHasItsVariables, Running
<1> QED
  BY <1>1, CallsAreApart, PTL

(* Setting a variable and evaluating arguments change no cons that a       *)
(* program holds, but for the open end of the list that is being built     *)
(* (eval.c:365, 402).                                                      *)
THEOREM DataStaysAsBuilt == Spec => ListsOnlyGrow
<1>1. ASSUME CallsInv, [Next]_vars, NoContinuation, NEW r \in DOMAIN mem \ BindingsNow, mem'[r] # mem[r]
      PROVE  cdr(r) = Nil /\ mem'[r] = [mem[r] EXCEPT !.cdr = mem'[r].cdr]
  <2> PICK K : Sound(K)
    BY <1>1 DEF CallsInv, EvalInv
  <2>1. r \notin K \cap Held(EnvNow)
    BY <1>1 DEF BindingsNow, Held
  <2>2. r = locals.na_last /\ mem'[r] = [mem[r] EXCEPT !.cdr = Len(mem) + 1]
    BY <1>1, <2>1, NodesStay
  <2>3. r # Nil /\ GoodStore(mem, K, Handles) /\ r \in Data(mem, K)
    BY <1>1, <2>2, StoreLength, Known DEF Sound, GoodStore, Nil
  <2>4. cdr(r) = Nil
    BY <1>1, <2>2, <2>3, LinksAre DEF CallsInv, ChainInv, ListsApart
  <2>5. mem[r] \in Conses(mem, K)
    <3>1. GoodNode(mem[r], mem, K, Handles)
      BY <1>1, <2>3 DEF GoodStore
    <3>2. IsCons(mem, r)
      BY <2>2, <2>3, NilOrCons DEF Sound, GoodLocals
    <3> QED
      BY <2>3, <3>1, <3>2 DEF GoodNode, IsCons, TypeOf
  <2>6. mem'[r].cdr = Len(mem) + 1
    BY <2>2, <2>5 DEF Conses
  <2> QED
    BY <2>2, <2>4, <2>6
<1>2. CallsInv /\ [Next]_vars =>
        [NoContinuation => \A r \in DOMAIN mem \ BindingsNow :
            mem'[r] # mem[r] => cdr(r) = Nil /\ mem'[r] = [mem[r] EXCEPT !.cdr = mem'[r].cdr]]_vars
  BY <1>1
<1> QED
  BY <1>2, CallsAreApart, PTL DEF Spec, ListsOnlyGrow
-----------------------------------------------------------------------------
(* A call that has an environment of its own evaluates the last expression *)
(* of its body as a tail call, which keeps it: so it makes no second one,  *)
(* and the first one is not forgotten.                                     *)
Early(l) == InCall(l) /\ "tailcall" \notin l.flags
InBody == {"bind", "body", "post_expr", "finish"}
BodiesEndInTailCalls ==
    /\ \A i \in 1..Len(frames) : Early(frames[i]) => frames[i].restart = "post_expr"
    /\ Running /\ Early(locals) => pc \in InBody

NoneForgotten ==
    /\ Running => \A h \in Scopes : h \in popped \/ \E i \in 1..Depth : InCall(Link(i)) /\ Link(i).env = h
    /\ Returned => Scopes \subseteq popped

ReturnInv == BodiesEndInTailCalls /\ NoneForgotten

(* Most steps leave the calls as they are, or start a part of one.         *)
Stays ==
    /\ frames' = frames /\ locals'.env = locals.env /\ (InCall(locals') <=> InCall(locals))
    /\ Running' /\ Early(locals') => Early(locals) /\ (pc \in InBody => pc' \in InBody)
Enters ==
    /\ Running' /\ ~InCall(locals')
    /\ \E f : /\ frames' = Append(frames, f) /\ f.env = locals.env /\ (InCall(f) <=> InCall(locals))
              /\ Early(f) => Early(locals) /\ (pc \in InBody => f.restart = "post_expr")

LEMMA CallsStay ==
    ASSUME NEW K, Sound(K), [Next]_vars, NoContinuation
    PROVE  \/ NextForm \/ CallLambda \/ Finish \/ UNCHANGED vars
           \/ (Stays \/ Enters) /\ popped' = popped /\ Scopes' = Scopes /\ Running /\ ~Returned'
<1>1. locals \in LocalsOn(mem, K, Handles)
  BY Known
<1>2. ASSUME locals' = locals, frames' = frames, pc \in InBody => pc' \in InBody \/ ~Running' PROVE Stays
  BY <1>2 DEF Stays, Early, InCall
<1>3. ASSUME NEW l, l.env = locals.env, l.flags = locals.flags, l \in LocalsOn(mem, K, Handles),
             NEW label, NEW input, Push(l, label, input), pc \in InBody => label = "post_expr"
      PROVE  Enters
  <2> DEFINE f == [l EXCEPT !.restart = label]
  <2>1. frames' = Append(frames, f) /\ locals' = Fresh(l.env, input) /\ pc' = "restart"
    BY <1>3 DEF Push
  <2>2. f.env = l.env /\ f.flags = l.flags /\ f.restart = label
    BY <1>3 DEF LocalsOn
  <2> HIDE DEF f
  <2>3. f.env = locals.env /\ (InCall(f) <=> InCall(locals)) /\ (Early(f) <=> Early(locals))
    BY <1>3, <2>2 DEF InCall, Early
  <2>4. Running' /\ ~InCall(locals')
    BY <2>1 DEF Running, InCall, Fresh
  <2> QED
    BY <1>3, <2>1, <2>2, <2>3, <2>4 DEF Enters
<1>4. ASSUME NEW label, NEW input, Push(locals, label, input), pc \in InBody => label = "post_expr" PROVE Enters
  BY <1>1, <1>3, <1>4
<1>5. ASSUME NEW label, NEW input, NEW l, Push(l, label, input) PROVE Running' /\ ~Returned'
  BY <1>5 DEF Push, Running, Returned
<1>6. CASE MakeLambda \/ Quote \/ CallDefined \/ CallOther
  <2>1. /\ pc' = "finish" /\ popped' = popped /\ locals' = locals /\ frames' = frames /\ envs' = envs
        /\ pc \in {"post_func", "call"}
    BY <1>6 DEF MakeLambda, Quote, CallDefined, CallOther, IsSpecial, Calls, Leave
  <2> QED
    BY <1>2, <2>1 DEF InBody, Running, Returned, Scopes, Handles
<1>7. CASE PostError
  <2>1. /\ pc' = "finish" /\ popped' = popped /\ locals' = locals /\ frames' = frames /\ envs' = envs
        /\ pc \in Labels
    BY <1>7 DEF PostError, Leave
  <2> QED
    BY <1>2, <2>1 DEF InBody, Running, Returned, Scopes, Handles, Labels
<1>8. CASE PostDefSet
  <2>1. /\ pc' = "finish" /\ popped' = popped /\ locals' = locals /\ frames' = frames /\ pc = "post_def_set"
        /\ DOMAIN envs' = DOMAIN envs
    BY <1>8 DEF PostDefSet, Leave
  <2> QED
    BY <1>2, <2>1 DEF InBody, Running, Returned, Scopes, Handles
<1>9. CASE CallForeignFunc
  <2>1. /\ pc' \in {"finish", "aborted"} /\ popped' = popped /\ locals' = locals /\ frames' = frames
        /\ pc = "call" /\ envs' = envs
    BY <1>9 DEF CallForeignFunc, Calls, Abort, Leave
  <2> QED
    BY <1>2, <2>1 DEF InBody, Running, Returned, Scopes, Handles
<1>10. CASE Restart
  <2>1. pc = "restart" /\ popped' = popped /\ envs' = envs
    BY <1>10 DEF Restart
  <2>2. \/ locals' = locals /\ frames' = frames /\ pc' = "finish"
        \/ Push(locals, "post_func", car(locals.input))
    BY <1>10 DEF Restart, Leave
  <2> QED
    BY <1>2, <1>4, <1>5, <2>1, <2>2 DEF InBody, Running, Returned, Scopes, Handles
<1>11. CASE Args
  <2>1. pc = "args" /\ popped' = popped /\ envs' = envs
    BY <1>11 DEF Args, Abort
  <2>2. \/ locals' = locals /\ frames' = frames /\ pc' \in {"call", "aborted"}
        \/ Push(locals, "post_arg", car(locals.cursor))
    BY <1>11 DEF Args, Jump, Abort
  <2> QED
    BY <1>2, <1>4, <1>5, <2>1, <2>2 DEF InBody, Running, Returned, Scopes, Handles
<1>12. CASE LambdaBind
  <2> DEFINE l == [locals EXCEPT !.cursor = mem[locals.func].expr]
  <2>1. pc = "bind" /\ popped' = popped /\ frames' = frames /\ DOMAIN envs' = DOMAIN envs
    BY <1>12 DEF LambdaBind, SetInFrame
  <2>2. \/ locals' = locals /\ pc' \in {"bind", "finish"}
        \/ locals' = l /\ pc' = "body"
    BY <1>12 DEF LambdaBind, Jump, Leave
  <2>3. l.env = locals.env /\ l.flags = locals.flags
    BY <1>1 DEF LocalsOn
  <2> HIDE DEF l
  <2>4. Stays
    BY <2>1, <2>2, <2>3 DEF Stays, Early, InCall, InBody
  <2> QED
    BY <2>1, <2>2, <2>4 DEF Running, Returned, Scopes, Handles
<1>13. CASE Body
  <2> DEFINE l == [locals EXCEPT !.input = car(locals.cursor), !.na_last = Nil, !.newargs = Nil, !.func = Nil,
                                 !.flags = (@ \ {"new_input"}) \cup {"tailcall"}]
  <2>1. l.env = locals.env /\ l.flags = (locals.flags \ {"new_input"}) \cup {"tailcall"}
    BY <1>1 DEF LocalsOn
  <2>2. /\ pc = "body" /\ popped' = popped /\ envs' = envs
        /\ \/ Abort
           \/ Jump(l, "restart") /\ frames' = frames
           \/ Push(locals, "post_expr", car(locals.cursor))
    BY <1>13 DEF Body, l, Abort
  <2> HIDE DEF l
  <2>3. CASE Jump(l, "restart") /\ frames' = frames
    <3>1. Stays
      BY <2>1, <2>3 DEF Stays, Early, InCall, Jump
    <3> QED
      BY <2>2, <2>3, <3>1 DEF Jump, Running, Returned, Scopes, Handles
  <2>4. CASE Abort
    BY <1>2, <2>2, <2>4 DEF Abort, Running, Returned, Scopes, Handles
  <2>5. CASE Push(locals, "post_expr", car(locals.cursor))
    BY <1>4, <1>5, <2>2, <2>5 DEF Running, Scopes, Handles
  <2> QED
    BY <2>2, <2>3, <2>4, <2>5
<1>14. CASE PostExpr \/ PostFuncPlain \/ CallEval \/ CallCC \/ PostArg
  <2>1. locals'.env = locals.env /\ locals'.flags \in {locals.flags, locals.flags \cup {"new_input"}}
    BY <1>1, <1>14 DEF PostExpr, PostFuncPlain, CallEval, CallCC, PostArg, LocalsOn, Jump
  <2>2. /\ frames' = frames /\ popped' = popped /\ envs' = envs
        /\ \/ pc = "post_expr" /\ pc' = "body"
           \/ pc \in {"post_func", "call", "post_arg"} /\ pc' \in {"args", "restart"}
    BY <1>14 DEF PostExpr, PostFuncPlain, CallEval, CallCC, PostArg, Jump, IsSpecial, Calls
  <2>3. Stays
    BY <2>1, <2>2 DEF Stays, Early, InCall, InBody
  <2> QED
    BY <2>2, <2>3 DEF Running, Returned, Scopes, Handles
<1>15. CASE PostIfTest
  <2>1. /\ frames' = frames /\ popped' = popped /\ envs' = envs /\ pc = "post_if_test"
        /\ \/ locals' = locals /\ pc' = "finish"
           \/ /\ pc' = "restart" /\ locals'.env = locals.env
              /\ locals'.flags = (locals.flags \ {"new_input"}) \cup {"tailcall"}
    BY <1>1, <1>15 DEF PostIfTest, LocalsOn, Jump, Leave
  <2>2. Stays
    BY <2>1 DEF Stays, Early, InCall, InBody
  <2> QED
    BY <2>1, <2>2 DEF Running, Returned, Scopes, Handles
<1>16. CASE If
  <2> DEFINE l == [locals EXCEPT !.func = result]
  <2>1. Push(l, "post_if_test", car(cdr(locals.input))) /\ pc = "post_func" /\ popped' = popped /\ envs' = envs
    BY <1>16 DEF If, IsSpecial
  <2>2. l \in LocalsOn(mem, K, Handles) /\ l.env = locals.env /\ l.flags = locals.flags
    BY <1>1 DEF LocalsOn, Sound
  <2> HIDE DEF l
  <2>3. pc \notin InBody
    BY <2>1 DEF InBody
  <2>4. Enters
    BY <1>3, <2>1, <2>2, <2>3
  <2> QED
    BY <1>5, <2>1, <2>4 DEF Running, Scopes, Handles
<1>17. CASE DefOrSet
  <2> DEFINE name == car(cdr(locals.input))
  <2> DEFINE l == [locals EXCEPT !.func = result, !.cursor = name]
  <2>1. /\ pc = "post_func" /\ popped' = popped /\ envs' = envs
        /\ \/ frames' = frames /\ locals' = locals /\ pc' = "finish"
           \/ frames' = frames /\ locals' = locals /\ pc' = "stopped" /\ status' = "ok"
           \/ Push(l, "post_def_set", car(cdr(cdr(locals.input))))
    BY <1>17 DEF DefOrSet, IsSpecial, Leave, Return
  <2>2. name \in Data(mem, K)
    BY <2>1, AtLabel, CallParts, <1>17 DEF Labels, DefOrSet, IsSpecial
  <2>3. l \in LocalsOn(mem, K, Handles) /\ l.env = locals.env /\ l.flags = locals.flags
    BY <1>1, <2>2 DEF LocalsOn, Sound
  <2> HIDE DEF l, name
  <2>4. pc \notin InBody
    BY <2>1 DEF InBody
  <2>5. CASE Push(l, "post_def_set", car(cdr(cdr(locals.input))))
    <3>1. Enters
      BY <1>3, <2>3, <2>4, <2>5
    <3> QED
      BY <1>5, <2>1, <2>5, <3>1 DEF Running, Scopes, Handles
  <2> QED
    BY <1>2, <2>1, <2>4, <2>5 DEF Running, Returned, Scopes, Handles
<1>18. ~CallContinuation
  <2> SUFFICES ASSUME CallContinuation PROVE FALSE
    OBVIOUS
  <2>1. TypeOf(mem, locals.func) = "continuation" /\ locals.func # Nil /\ GoodStore(mem, K, Handles)
        /\ locals.func \in Data(mem, K)
    BY Known DEF CallContinuation, Calls, type, TypeOf, Sound
  <2>2. locals.func \in DOMAIN mem
    BY <2>1, StoreLength DEF GoodStore, Data, Nil
  <2> QED
    BY <2>1, <2>2 DEF NoContinuation, type
<1> QED
  BY <1>6, <1>7, <1>8, <1>9, <1>10, <1>11, <1>12, <1>13, <1>14, <1>15, <1>16, <1>17, <1>18
  DEF Next, Step, Idle

LEMMA FirstReturns ==
    ASSUME Init
    PROVE  ReturnInv
<1>1. /\ frames = <<>> /\ locals = Fresh(Global, Nil) /\ pc = "idle" /\ Handles = {Global}
  BY DEF Init, Handles, Global
<1> QED
  BY <1>1 DEF ReturnInv, BodiesEndInTailCalls, NoneForgotten, Running, Scopes

(* A new expression starts where every environment is given up.            *)
LEMMA NextFormReturns ==
    ASSUME NextForm, ReturnInv
    PROVE  ReturnInv'
<1>1. /\ Returned /\ frames' = <<>> /\ locals' = Fresh(Global, Head(todo)) /\ pc' = "restart"
      /\ Scopes' = Scopes /\ popped' = popped
  BY DEF NextForm, Returned, Jump, Scopes, Handles
<1>2. ~InCall(locals') /\ ~Returned'
  BY <1>1 DEF InCall, Fresh, Returned
<1> QED
  BY <1>1, <1>2 DEF ReturnInv, BodiesEndInTailCalls, NoneForgotten, Early

LEMMA CallLambdaReturns ==
    ASSUME NEW K, Sound(K), CallLambda, ReturnInv
    PROVE  ReturnInv'
<1> DEFINE l == [locals EXCEPT !.env = Len(envs) + 1, !.flags = @ \cup {"frame_added"}]
<1>1. /\ frames' = frames /\ popped' = popped /\ pc = "call" /\ pc' = "bind"
      /\ locals \in LocalsOn(mem, K, Handles)
  BY Known DEF CallLambda, Calls, Jump
<1>2. /\ Depth \in Nat \ {0} /\ Depth' = Depth /\ Link(Depth)' = locals' /\ Link(Depth) = locals
      /\ \A i \in 1..Depth : i # Depth => Link(i)' = Link(i)
  BY <1>1, LinksAre DEF Depth, Link
<1>3. Running /\ Running' /\ ~Returned' /\ pc \notin InBody /\ pc' \in InBody
  BY <1>1 DEF Running, Returned, InBody
<1>4. BodiesEndInTailCalls'
  BY <1>1, <1>3 DEF ReturnInv, BodiesEndInTailCalls, Early, InCall
<1>5. \A h \in Scopes : h \in popped \/ \E i \in 1..Depth : InCall(Link(i)) /\ Link(i).env = h
  BY <1>3 DEF ReturnInv, NoneForgotten
<1>6. CASE locals' = locals /\ envs' = envs
  <2>1. \A i \in 1..Depth : Link(i)' = Link(i)
    BY <1>2, <1>6
  <2>2. Scopes' = Scopes
    BY <1>6 DEF Scopes, Handles
  <2>3. \A h \in Scopes' : h \in popped' \/ \E i \in (1..Depth)' : InCall(Link(i)') /\ Link(i)'.env = h
    BY <1>1, <1>2, <1>5, <2>1, <2>2
  <2> QED
    BY <1>3, <1>4, <2>3 DEF ReturnInv, NoneForgotten, InCall
<1>7. CASE "tailcall" \notin locals.flags /\ locals' = l /\ Handles' = Handles \cup {Len(envs) + 1}
  <2>1. l.env = Len(envs) + 1 /\ InCall(l)
    BY <1>1 DEF LocalsOn, InCall
  <2> HIDE DEF l
  <2>2. ~InCall(locals)
    BY <1>3, <1>7 DEF ReturnInv, BodiesEndInTailCalls, Early
  <2>3. ASSUME NEW h \in Scopes'
        PROVE  h \in popped' \/ \E i \in (1..Depth)' : InCall(Link(i)') /\ Link(i)'.env = h
    <3>1. CASE h = Len(envs) + 1
      BY <1>2, <1>7, <2>1, <3>1
    <3>2. CASE h \in Scopes
      <4>1. CASE h \in popped
        BY <1>1, <4>1
      <4>2. ASSUME NEW i \in 1..Depth, InCall(Link(i)), Link(i).env = h
            PROVE  i \in (1..Depth)' /\ InCall(Link(i)') /\ Link(i)'.env = h
        BY <1>2, <2>2, <4>2
      <4> QED
        BY <1>5, <3>2, <4>1, <4>2
    <3> QED
      BY <1>7, <3>1, <3>2 DEF Scopes
  <2> QED
    BY <1>3, <1>4, <2>3 DEF ReturnInv, NoneForgotten, InCall
<1>8. Handles = 1..Len(envs) /\ Len(envs) \in Nat
  BY DEF Sound, Handles
<1>9. envs' = Append(envs, environ_pushframe(mem[locals.func].env)) => Handles' = Handles \cup {Len(envs) + 1}
  <2>1. ASSUME NEW e, envs' = Append(envs, e) PROVE Handles' = Handles \cup {Len(envs) + 1}
    <3>1. DOMAIN Append(envs, e) = 1..Len(envs) + 1
      BY DEF Sound
    <3> QED
      BY <1>8, <2>1, <3>1 DEF Handles
  <2> QED
    BY <2>1
<1> QED
  BY <1>6, <1>7, <1>9 DEF CallLambda, Jump

(* The newest call gives up its environment; those below are still there.  *)
LEMMA FinishReturns ==
    ASSUME NEW K, Sound(K), Finish, ReturnInv
    PROVE  ReturnInv'
<1>1. /\ Running /\ Depth \in Nat \ {0} /\ Link(Depth) = locals
      /\ popped' = IF InCall(locals) THEN popped \cup {locals.env} ELSE popped
      /\ Scopes' = Scopes
  <2>1. DOMAIN envs' = DOMAIN envs
    BY DEF Finish
  <2> QED
    BY <2>1, LinksAre DEF Finish, Running, InCall, Scopes, Handles
<1>2. \A h \in Scopes : h \in popped' \/ \E i \in 1..Depth : i # Depth /\ InCall(Link(i)) /\ Link(i).env = h
  BY <1>1 DEF ReturnInv, NoneForgotten
<1>3. CASE frames # <<>> /\ frames' = Front(frames) /\ Jump(Last(frames), Last(frames).restart)
  <2>1. frames \in Seq(LocalsOn(mem, K, Handles)) /\ \A i \in DOMAIN frames : Resumes(frames[i], mem)
    BY DEF Sound, GoodFrames
  <2>2. /\ Len(frames) \in Nat \ {0} /\ Len(frames') = Len(frames) - 1
        /\ \A i \in 1..Len(frames) - 1 : frames'[i] = frames[i]
        /\ locals' = frames[Len(frames)] /\ pc' = locals'.restart
    BY <1>3, <2>1, FrontIs DEF Jump, Last
  <2>3. Depth' = Len(frames) /\ Depth = Len(frames) + 1
    BY <2>2 DEF Depth
  <2>4. \A i \in 1..Depth : i # Depth => i \in (1..Depth)' /\ Link(i)' = Link(i)
    BY <2>2, <2>3 DEF Link
  <2>5. pc' \in Labels
    BY <2>1, <2>2 DEF Resumes
  <2>6. ~Returned'
    BY <2>5 DEF Returned, Labels
  <2>7. BodiesEndInTailCalls'
    <3>1. \A i \in 1..Len(frames) : Early(frames[i]) => frames[i].restart = "post_expr"
      BY DEF ReturnInv, BodiesEndInTailCalls
    <3>2. \A i \in 1..Len(frames') : Early(frames'[i]) => frames'[i].restart = "post_expr"
      BY <2>2, <3>1
    <3>3. Early(locals') => pc' = "post_expr"
      BY <2>2, <3>1
    <3> QED
      BY <3>2, <3>3 DEF BodiesEndInTailCalls, InBody, Early, InCall
  <2>8. \A h \in Scopes' : h \in popped' \/ \E i \in (1..Depth)' : InCall(Link(i)') /\ Link(i)'.env = h
    BY <1>1, <1>2, <2>4
  <2> QED
    BY <2>6, <2>7, <2>8 DEF ReturnInv, NoneForgotten, InCall
<1>4. CASE frames = <<>> /\ Return(status, result) /\ UNCHANGED <<frames, locals>>
  <2>1. ~Running' /\ Len(frames) = 0
    BY <1>4 DEF Return, Running
  <2>2. Scopes' \subseteq popped'
    BY <1>1, <1>2, <2>1 DEF Depth
  <2> QED
    BY <1>4, <2>1, <2>2 DEF ReturnInv, NoneForgotten, BodiesEndInTailCalls
<1> QED
  BY <1>3, <1>4 DEF Finish

LEMMA OtherStepReturns ==
    ASSUME NEW K, Sound(K), ReturnInv,
           Stays \/ Enters, popped' = popped, Scopes' = Scopes, Running, ~Returned'
    PROVE  ReturnInv'
<1>1. /\ Depth \in Nat \ {0} /\ Link(Depth) = locals /\ Len(frames) \in Nat
      /\ \A i \in 1..Len(frames) : Link(i) = frames[i] /\ i \in 1..Depth
  BY LinksAre
<1>2. \A h \in Scopes : h \in popped \/ \E i \in 1..Depth : InCall(Link(i)) /\ Link(i).env = h
  BY DEF ReturnInv, NoneForgotten
<1>3. /\ \A i \in 1..Len(frames) : Early(frames[i]) => frames[i].restart = "post_expr"
      /\ Early(locals) => pc \in InBody
  BY DEF ReturnInv, BodiesEndInTailCalls
<1>4. SUFFICES /\ BodiesEndInTailCalls'
               /\ \A i \in 1..Depth : /\ i \in (1..Depth)' /\ Link(i)'.env = Link(i).env
                                      /\ InCall(Link(i)) => InCall(Link(i)')
  BY <1>2, <1>4 DEF ReturnInv, NoneForgotten, InCall
<1>5. CASE Stays
  <2>1. Depth' = Depth /\ Link(Depth)' = locals' /\ \A i \in 1..Depth : i # Depth => Link(i)' = Link(i)
    BY <1>1, <1>5 DEF Stays, Depth, Link
  <2>2. \A i \in 1..Depth : /\ i \in (1..Depth)' /\ Link(i)'.env = Link(i).env
                            /\ InCall(Link(i)) => InCall(Link(i)')
    BY <1>1, <1>5, <2>1 DEF Stays
  <2>3. BodiesEndInTailCalls'
    BY <1>3, <1>5 DEF Stays, BodiesEndInTailCalls, Early, InCall
  <2> QED
    BY <2>2, <2>3
<1>6. CASE Enters
  <2> PICK f : /\ frames' = Append(frames, f) /\ f.env = locals.env /\ (InCall(f) <=> InCall(locals))
               /\ Early(f) => Early(locals) /\ (pc \in InBody => f.restart = "post_expr")
    BY <1>6 DEF Enters
  <2>1. frames \in Seq(LocalsOn(mem, K, Handles))
    BY DEF Sound, GoodFrames
  <2>2. /\ Len(frames') = Len(frames) + 1 /\ frames'[Len(frames) + 1] = f
        /\ \A i \in 1..Len(frames) : frames'[i] = frames[i]
    BY <2>1, AppendedIs
  <2>3. Depth' = Depth + 1 /\ Depth = Len(frames) + 1
    BY <1>1, <2>2 DEF Depth
  <2>4. ASSUME NEW i \in 1..Depth
        PROVE  /\ i \in (1..Depth)' /\ Link(i)'.env = Link(i).env
               /\ InCall(Link(i)) => InCall(Link(i)')
    <3>1. i \in Nat /\ i \in (1..Depth)' /\ i # Depth' /\ Link(i)' = frames'[i]
      BY <1>1, <2>3 DEF Link
    <3>2. CASE i = Depth
      <4>1. Link(i)' = f
        BY <2>2, <2>3, <3>1, <3>2
      <4> QED
        BY <1>1, <3>1, <3>2, <4>1
    <3>3. CASE i \in 1..Len(frames)
      <4>1. Link(i)' = Link(i)
        BY <1>1, <2>2, <3>1, <3>3
      <4> QED
        BY <3>1, <4>1
    <3> QED
      BY <1>1, <2>3, <3>2, <3>3
  <2>5. \A i \in 1..Depth : /\ i \in (1..Depth)' /\ Link(i)'.env = Link(i).env
                            /\ InCall(Link(i)) => InCall(Link(i)')
    BY <2>4
  <2>6. \A i \in 1..Len(frames') : Early(frames'[i]) => frames'[i].restart = "post_expr"
    <3>1. Early(f) => f.restart = "post_expr"
      BY <1>3
    <3>2. \A i \in 1..Len(frames') : i = Len(frames) + 1 \/ i \in 1..Len(frames)
      BY <1>1, <2>2
    <3> QED
      BY <1>3, <2>2, <3>1, <3>2
  <2>7. BodiesEndInTailCalls'
    BY <1>6, <2>6 DEF Enters, BodiesEndInTailCalls, Early, InCall
  <2> QED
    BY <2>5, <2>7
<1> QED
  BY <1>5, <1>6

LEMMA ReturnStep ==
    ASSUME NEW K, Sound(K), [Next]_vars, NoContinuation, ReturnInv
    PROVE  ReturnInv'
<1>1. CASE NextForm
  BY <1>1, NextFormReturns
<1>2. CASE CallLambda
  BY <1>2, CallLambdaReturns
<1>3. CASE Finish
  BY <1>3, FinishReturns
<1>4. CASE UNCHANGED vars
  BY <1>4 DEF vars, ReturnInv, BodiesEndInTailCalls, NoneForgotten, Running, Returned, Scopes, Handles,
              Depth, Link, Early, InCall
<1>5. CASE (Stays \/ Enters) /\ popped' = popped /\ Scopes' = Scopes /\ Running /\ ~Returned'
  BY <1>5, OtherStepReturns
<1> QED
  BY <1>1, <1>2, <1>3, <1>4, <1>5, CallsStay

LEMMA ReturnGivesUp == (NoContinuation => ReturnInv) /\ CallsInv => ScopesAreGivenUp
<1> SUFFICES ASSUME NEW K, Sound(K), ReturnInv, ChainInv, NoContinuation
             PROVE  /\ Running => Scopes = popped \cup InUse /\ popped \cap InUse = {}
                    /\ Returned => Scopes = popped
  BY DEF ScopesAreGivenUp, CallsInv, EvalInv
<1>1. popped \subseteq Scopes
  BY DEF ChainInv, EnvsApart, Scopes, Sound
<1>2. InUse \subseteq Scopes
  BY LinksAre DEF ChainInv, EnvsApart, Scopes, InUse, LocalsOn
<1>3. Running => Scopes \subseteq popped \cup InUse /\ popped \cap InUse = {}
  BY DEF ReturnInv, NoneForgotten, ChainInv, EnvsLive, InUse
<1>4. Returned => Scopes \subseteq popped
  BY DEF ReturnInv, NoneForgotten
<1> QED
  BY <1>1, <1>2, <1>3, <1>4

(* Calls give up the environments they have made, each of them once, also  *)
(* when an error goes out (eval.c:438-453, 512-520).                       *)
THEOREM ScopesReturn == Spec => []ScopesAreGivenUp
<1>1. Init => (NoContinuation => ReturnInv)
  BY FirstReturns
<1>2. ASSUME EvalInv, NoContinuation => ReturnInv, [Next]_vars, NoContinuation' PROVE ReturnInv'
  <2> PICK K : Sound(K)
    BY <1>2 DEF EvalInv
  <2>1. NoContinuation
    BY <1>2, NoContinuationBefore
  <2> QED
    BY <1>2, <2>1, ReturnStep
<1>3. CallsInv /\ (NoContinuation => ReturnInv) /\ [Next]_vars => (NoContinuation => ReturnInv)'
  BY <1>2 DEF CallsInv
<1> QED
  BY <1>1, <1>3, CallsAreApart, ReturnGivesUp, PTL DEF Spec
=============================================================================
