------------------------------- MODULE Loading -------------------------------
(***************************************************************************)
(* The program paren: main evaluates (_read-eval <file>), and _read-eval   *)
(* maps a file, reads its forms and evaluates them, which may call         *)
(* _read-eval again.  What the module follows through all that is what has *)
(* to be given back: descriptors, mappings and locks, and the handle of    *)
(* the environment, which main locks and every _read-eval works in.        *)
(*                                                                         *)
(* What a form does is Eval.tla's business; here it ends, fails, or calls  *)
(* _read-eval, in the environment of its file or, in a lambda, in one of   *)
(* the lambda's own ("closure").                                           *)
(***************************************************************************)
EXTENDS Integers, Sequences, FiniteSets

CONSTANTS
    Fd,          \* the descriptors that the system can give
    MaxDepth     \* of files that load files

ASSUME LoadingAssumption == Fd \subseteq Nat /\ MaxDepth \in Nat \ {0}

VARIABLES
    incremental, \* is NODE_GC_ITERATE compiled in?
    phase,       \* where main is
    stack,       \* the activations of readevalfn, the innermost last
    descriptors, \* open file descriptors
    mappings,    \* the descriptors whose file is mapped
    locks,       \* how many temporary handles are locked
    env,         \* env_handle of main: locked, counted, freed
    status,      \* what main has seen: "OK" or "error"
    failed,      \* history: was some file or library not loaded completely?
    abandoned,   \* history: did eval leave by its early return (eval.c:339)?
    strays,      \* roots that a failed parse has left behind: are there any?
    warned       \* did PAREN_LEAK_CHECK find anything?

files == <<stack, descriptors, mappings>>
ends == <<status, failed, abandoned, strays, warned>>
vars == <<incremental, phase, files, locks, env, ends>>

NoFd == -1      \* filemap_info_t.fd after open has failed
Unset == -2     \* filemap_info_t before map_file

Activation == [env : {"main", "closure"}, pc : {"path", "read", "eval", "cleanup"},
               fd : Fd \cup {NoFd, Unset}, handles : BOOLEAN, stat : {"OK", "error"}]
Environment == [made : BOOLEAN, locked : BOOLEAN, refcount : Nat, freed : BOOLEAN]
Called(in) == [env |-> in, pc |-> "path", fd |-> Unset, handles |-> FALSE, stat |-> "OK"]

Depth == Len(stack)
Top == stack[Depth]
At(pc) == phase = "eval" /\ stack # <<>> /\ Top.pc = pc
NewTop(a) == [stack EXCEPT ![Depth] = a]

(* eval keeps the environment it works in in a handle of its own.          *)
LinkedBy(in, n) == IF in = "main" THEN [env EXCEPT !.refcount = @ + n] ELSE env

Init ==
    /\ incremental \in BOOLEAN
    /\ phase = "start"
    /\ stack = <<>> /\ descriptors = {} /\ mappings = {}
    /\ locks = 0
    /\ env = [made |-> FALSE, locked |-> FALSE, refcount |-> 0, freed |-> FALSE]
    /\ status = "OK" /\ failed = FALSE /\ abandoned = FALSE
    /\ strays = FALSE /\ warned = FALSE

-----------------------------------------------------------------------------
(* main up to its eval.                                                    *)
NoArguments ==
    /\ phase = "start"
    /\ phase' = "cleanup"
    /\ UNCHANGED <<incremental, files, locks, env, ends>>

Bootstrap_Unlinked ==                                    \* mutant: eval does not hold the environment
    /\ phase = "start"
    /\ phase' = "eval"
    /\ env' = [env EXCEPT !.made = TRUE, !.locked = TRUE]
    /\ locks' = locks + 2
    /\ stack' = <<Called("main")>>
    /\ UNCHANGED <<incremental, descriptors, mappings, ends>>
Bootstrap ==
    /\ phase = "start"
    /\ phase' = "eval"
    /\ env' = [env EXCEPT !.made = TRUE, !.locked = TRUE, !.refcount = @ + 1]
    /\ locks' = locks + 2
    /\ stack' = <<Called("main")>>
    /\ UNCHANGED <<incremental, descriptors, mappings, ends>>

-----------------------------------------------------------------------------
(* readevalfn up to its loop.                                              *)
Fails(a) ==
    /\ stack' = NewTop([a EXCEPT !.pc = "cleanup", !.stat = "error"])
    /\ failed' = TRUE
    /\ UNCHANGED <<incremental, phase, status, warned>>

(* The path is not a list of bytes: map_file is not called.                *)
BadPath ==
    /\ At("path")
    /\ Fails(Top)
    /\ UNCHANGED <<descriptors, mappings, locks, env, abandoned, strays>>

OpenFails ==
    /\ At("path")
    /\ Fails([Top EXCEPT !.fd = NoFd])
    /\ UNCHANGED <<descriptors, mappings, locks, env, abandoned, strays>>

(* fstat fails, or mmap: an empty file cannot be mapped.                   *)
MapFails ==
    /\ At("path")
    /\ \E fd \in Fd \ descriptors :
         /\ descriptors' = descriptors \cup {fd}
         /\ Fails([Top EXCEPT !.fd = fd])
    /\ UNCHANGED <<mappings, locks, env, abandoned, strays>>

MapFile ==
    /\ At("path")
    /\ \E fd \in Fd \ descriptors :
         /\ descriptors' = descriptors \cup {fd} /\ mappings' = mappings \cup {fd}
         /\ stack' = NewTop([Top EXCEPT !.pc = "read", !.fd = fd, !.handles = TRUE])
    /\ locks' = locks + 2
    /\ UNCHANGED <<incremental, phase, env, ends>>

-----------------------------------------------------------------------------
(* The loop: parse, eval.                                                  *)
ParseForm ==
    /\ At("read")
    /\ stack' = NewTop([Top EXCEPT !.pc = "eval"])
    /\ env' = LinkedBy(Top.env, 1)
    /\ UNCHANGED <<incremental, phase, descriptors, mappings, locks, ends>>

(* The parser reports an error.  Without NODE_GC_ITERATE that may leave the *)
(* elements that come before the error rooted, as in (a: parse_list gives  *)
(* up what it parsed last, not what it holds, and there are errors that    *)
(* leave nothing, as in ).  With it, an error gets here from a text like   *)
(* (a . b c only, and the list that is read by then is given up.           *)
ParseError ==
    /\ At("read")
    /\ Fails(Top)
    /\ \E left \in BOOLEAN : (left => ~incremental) /\ strays' = (strays \/ left)
    /\ UNCHANGED <<descriptors, mappings, locks, env, abandoned>>

(* The others never do: node_droproot is given NULL, of which it takes the *)
(* memory state for NODE_GC_ITERATE.                                       *)
ParseCrash ==
    /\ At("read") /\ incremental
    /\ phase' = "crashed"
    /\ failed' = TRUE
    /\ UNCHANGED <<incremental, files, locks, env, status, abandoned, strays, warned>>

ParseEnd ==
    /\ At("read")
    /\ stack' = NewTop([Top EXCEPT !.pc = "cleanup"])
    /\ UNCHANGED <<incremental, phase, descriptors, mappings, locks, env, ends>>

EvalDone ==
    /\ At("eval")
    /\ stack' = NewTop([Top EXCEPT !.pc = "read"])
    /\ env' = LinkedBy(Top.env, -1)
    /\ UNCHANGED <<incremental, phase, descriptors, mappings, locks, ends>>

(* _load-lib is one of the calls that may fail.                            *)
EvalError ==
    /\ At("eval")
    /\ Fails(Top)
    /\ env' = LinkedBy(Top.env, -1)
    /\ UNCHANGED <<descriptors, mappings, locks, abandoned, strays>>

(* def! or set! without a value: the eight locals of this eval, one of     *)
(* which links the environment, its frames and its result stay locked.     *)
EvalReturnsEarly ==
    /\ At("eval") /\ ~abandoned
    /\ Fails(Top)
    /\ locks' = locks + 10
    /\ abandoned' = TRUE
    /\ UNCHANGED <<descriptors, mappings, env, strays>>

ReadEval ==
    /\ At("eval") /\ Depth < MaxDepth
    /\ \E in \in {Top.env, "closure"} : stack' = Append(stack, Called(in))
    /\ UNCHANGED <<incremental, phase, descriptors, mappings, locks, env, ends>>

-----------------------------------------------------------------------------
(* The end of readevalfn.  node_droproot unlocks whatever is on the roots  *)
(* list, and env_handle is there only if it is locked.                     *)
unmap_file_Mapping(info) == descriptors' = descriptors /\ mappings' = mappings \ {info}   \* mutant
unmap_file(info) == descriptors' = descriptors \ {info} /\ mappings' = mappings \ {info}

Dropped_NotEnv(a) == env                                 \* mutant: without line 159
Dropped(a) == IF a.env = "main" THEN [env EXCEPT !.locked = FALSE] ELSE env

HandlesDropped_One(a) == IF a.handles THEN 1 ELSE 0      \* mutant: eval_out_hdl is forgotten
HandlesDropped(a) == IF a.handles THEN 2 ELSE 0

(* Every form that was evaluating when the call failed fails with it: eval *)
(* looks at the status after every call.                                   *)
ReturnTo_Ignoring(caller, stat) == caller                \* mutant: the status is lost
ReturnTo(caller, stat) ==
    IF stat = "OK" THEN caller ELSE [caller EXCEPT !.pc = "cleanup", !.stat = "error"]

(* Without handles there are NULL pointers to drop: node_droproot takes    *)
(* the memory state of its argument for NODE_GC_ITERATE.                   *)
DropsNull == At("cleanup") /\ ~Top.handles /\ incremental /\ phase' = "crashed"
             /\ UNCHANGED <<incremental, files, locks, env, ends>>

(* In a build without it, the info that was never filled is unmapped.      *)
UnmapsUnset == At("cleanup") /\ Top.fd = Unset /\ ~incremental /\ phase' = "undefined"
               /\ UNCHANGED <<incremental, files, locks, env, ends>>

Cleanup ==
    /\ At("cleanup")
    /\ Top.handles \/ (~incremental /\ Top.fd # Unset)
    /\ unmap_file(Top.fd)
    /\ locks' = locks - HandlesDropped(Top)
    /\ IF Depth > 1
       THEN LET caller == stack[Depth - 1]
                returned == ReturnTo(caller, Top.stat)
                dropped == Dropped(Top)
            IN  /\ stack' = [SubSeq(stack, 1, Depth - 1) EXCEPT ![Depth - 1] = returned]
                /\ env' = IF returned.pc = "cleanup" /\ caller.env = "main"
                          THEN [dropped EXCEPT !.refcount = @ - 1] ELSE dropped
                /\ UNCHANGED <<phase, status>>
       ELSE /\ stack' = <<>>
            /\ env' = Dropped(Top)
            /\ phase' = "returned"
            /\ status' = Top.stat
    /\ UNCHANGED <<incremental, failed, abandoned, strays, warned>>

-----------------------------------------------------------------------------
(* main after its eval: the locals of eval go, then main's two handles.    *)
EvalReturns ==
    /\ phase = "returned"
    /\ phase' = "cleanup"
    /\ env' = [env EXCEPT !.refcount = @ - 1]
    /\ locks' = locks - 2
    /\ UNCHANGED <<incremental, files, ends>>

Garbage == env.made /\ ~env.locked /\ env.refcount = 0

(* The collector gets round to the environment.                            *)
Collect ==
    /\ incremental /\ phase \in {"eval", "returned", "cleanup"}
    /\ Garbage /\ ~env.freed
    /\ env' = [env EXCEPT !.freed = TRUE]
    /\ UNCHANGED <<incremental, phase, files, locks, ends>>

(* PAREN_FINALENV: environ_print asserts that it is given a handle.        *)
PrintEnv ==
    /\ phase = "cleanup" /\ ~env.made
    /\ phase' = "crashed"
    /\ UNCHANGED <<incremental, files, locks, env, ends>>

(* PAREN_LEAK_CHECK: two full cycles free what no root reaches, and then   *)
(* what is allocated is compared with what is free.                        *)
LeakCheck ==
    /\ phase = "cleanup"
    /\ env' = [env EXCEPT !.freed = @ \/ Garbage]
    /\ warned' = (locks > 0 \/ strays \/ (env.made /\ ~env'.freed))
    /\ phase' = "checked"
    /\ UNCHANGED <<incremental, files, locks, status, failed, abandoned, strays>>

(* memory_state_reset, and the exit.                                       *)
Exit ==
    /\ phase \in {"cleanup", "checked"}
    /\ phase' = "exited"
    /\ env' = [env EXCEPT !.freed = TRUE]
    /\ UNCHANGED <<incremental, files, locks, ends>>

Over == phase \in {"exited", "crashed", "undefined"} /\ UNCHANGED vars

Main == NoArguments \/ Bootstrap \/ EvalReturns \/ PrintEnv \/ LeakCheck \/ Exit
Opening == BadPath \/ OpenFails \/ MapFails \/ MapFile
Reading == ParseForm \/ ParseError \/ ParseCrash \/ ParseEnd
Evaluating == EvalDone \/ EvalError \/ EvalReturnsEarly \/ ReadEval
Ending == Cleanup \/ DropsNull \/ UnmapsUnset

Next == Main \/ Opening \/ Reading \/ Evaluating \/ Ending \/ Collect \/ Over

(* One thread, which goes on as long as it can.                            *)
Spec == Init /\ [][Next]_vars /\ WF_vars(Next)

-----------------------------------------------------------------------------
TypeOK ==
    /\ phase \in {"start", "eval", "returned", "cleanup", "checked", "exited", "crashed", "undefined"}
    /\ stack \in Seq(Activation) /\ Depth <= MaxDepth
    /\ descriptors \subseteq Fd /\ mappings \subseteq Fd
    /\ locks \in Nat
    /\ env \in Environment
    /\ status \in {"OK", "error"}
    /\ incremental \in BOOLEAN /\ failed \in BOOLEAN
    /\ abandoned \in BOOLEAN /\ strays \in BOOLEAN /\ warned \in BOOLEAN

(* However deep files load files and wherever one of them fails, each has  *)
(* its own descriptor and mapping while it is read, and none of them when  *)
(* it is done (map_file.c:51-59 on every path out of readevalfn).          *)
FilesFollowCalls ==
    /\ TypeOK
    /\ descriptors = {stack[i].fd : i \in 1..Depth} \ {NoFd, Unset}
    /\ mappings = {stack[i].fd : i \in {j \in 1..Depth : stack[j].handles}}
    /\ \A i, j \in 1..Depth : stack[i].fd = stack[j].fd /\ i # j => stack[i].fd = Unset

(* The handles that are locked are those of the calls under way, except    *)
(* for the ten that an early return of eval leaves.                        *)
LocksFollowCalls ==
    locks = 2 * Cardinality({i \in 1..Depth : stack[i].handles})
            + (IF phase \in {"eval", "returned", "crashed", "undefined"} /\ env.made THEN 2 ELSE 0)
            + (IF abandoned THEN 10 ELSE 0)

(* No failure is lost on the way out of nested files: the program's status *)
(* is that of success only if everything was loaded to its end.            *)
ErrorsReachMain == phase = "exited" => (failed <=> status = "error")

(* A failure, however deep, ends the program: nothing more is read or      *)
(* evaluated on the way out, which could go on for ever.                   *)
FailureEndsProgram == failed ~> phase \in {"exited", "crashed", "undefined"}

(* The environment is there as long as anything is evaluated in it, though *)
(* the first file that ends takes the lock of main away: main's eval still *)
(* links it.                                                               *)
EnvironmentStaysAlive == stack # <<>> => ~env.freed

(* PAREN_LEAK_CHECK finds what failures have left and nothing else: it     *)
(* warns if eval left by its early return or a failed parse left a root,   *)
(* and of no other failure, at any depth, nor of a success.  That it does  *)
(* not find the environment rests on the lock that readevalfn drops, which *)
(* it never took.                                                          *)
LeakCheckFindsLeaks == phase = "checked" => (warned <=> abandoned \/ strays)

(* "this memory should never be freed" (memory.h:91-92): main locks the    *)
(* environment and never unlocks it, so it may still print it at the end.  *)
LockedIsNeverFreed == phase \in {"eval", "returned", "cleanup"} => ~env.freed
=============================================================================
