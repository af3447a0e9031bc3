# A verification project for paren

paren is an interpreter for a small Lisp, written in C: a tokenizer and a
parser, a stackless evaluator with continuations, and an incremental memory
manager that combines reference counts with a trace. This directory holds its
TLA+ specifications, the TLC configurations that check them on small instances,
and TLAPS proofs of theorems that hold for every instance.

Line numbers are those of the repository's root directory.

## 1. The system

The layers, from the README of the repository: interpreter, evaluator and
parser/tokenizer, node, garbage collection, and below it the list library.

| Component | State | Operations | Talks to |
|---|---|---|---|
| `memory` | per cell: its list, reference count, locked and live flags; the lists roots (cut by a sentinel), boundary, free_pending, free, white, black; which colour is "reachable"; count of clean cycles; counters | request, gc_lock/unlock, advise_new_link/stale_link, gc_iterate, gc_cycle, reset | calls back into node for the links of a cell and its initialisation; asks the allocator |
| `dlist` | prev, next, owner of every list node | init, insert, remove, move | used by memory and freemem_cache |
| `node` | type and data of a cell | one constructor and accessors per type, lockroot, droproot, patch, handle_update | memory; almost every call ends with one collector iteration |
| `frame`, `environ` | lists of frames (lists of values) behind a handle | push, pop, add, iterate; lookup by name | node |
| `eval` | eight saved locals behind locked handles, the frame list, the result handle, the status, the label it is at | eval, lambda_bind | frame, environ, node, foreign functions |
| `token` | one character of lookahead, in_string, the token | token_chomp | stream |
| `parse` | the C stack of parse_sexpr and parse_list | parse | token, node |
| `stream`, `bufstream`, `fdstream` | offset in a buffer or a file descriptor | getch, putch, putstr | |
| `libc_custom` | none | number parsing and formatting, string copies | |
| allocators | `freemem_cache`: list of freed blocks | request, return, reset | dlist, malloc |
| builtins | none | foreign functions on lists, symbols and 64-bit values | node |
| loading | a mapped file, the libraries opened | _load-lib, _read-eval | parse, eval |
| debug output, `sio`, `testutil`, the programs | none of interest | printing, main functions | all |

Nothing in paren is a thread, but the collector is interleaved with everything:
`NODE_GC_ITERATE` (node.c:100-112) runs one iteration of it at the end of almost
every accessor. The rest of the difficulty is in long sequences of legal calls:
tail calls and continuations that re-enter frames, locks that do not nest, a
lookahead character that outlives the token it ended.

What makes each part correct:

* memory: no memory the program can get at is freed; garbage, cycles included,
  is freed in the end; no assertion fails; counts are exact.
* dlist: the lists are circular, and a node is on the list its owner names.
* allocators: a block is given to one client at a time, and it is long enough.
* eval: a program means what lexical scope says; tail calls take no space;
  frames, environments and roots balance; an error ends the evaluation.
* token, parse: every input yields its tokens and ends; an expression printed
  and read again is itself; errors are reported, and give up what was built.
* node: what is printed of readable data reads as the same data.
* builtins: results are those of two's complement arithmetic.
* loading: descriptors, mappings and locks are given back on every way out of a
  file, and a failure comes out at the end of the program.

The hazards this code is exposed to are listed, line by line, in `PROJECT.json`.

Which module is about which part:

| Part | Modules | Proofs |
|---|---|---|
| memory, on sets of cells | `HeapGraph`, `ManagedHeap` (abstract), `Memory`, `MCMemory` | `HeapGraph_proofs`, `Memory_proofs` |
| memory, on its lists | `MemoryLists`, `MCMemoryLists` | `MemoryLists_proofs` |
| dlist | `Dlist` | `Dlist_proofs` |
| allocators | `Allocator` (abstract), `FreememCache`, `MCFreememCache` | `FreememCache_proofs` |
| node, environ, builtins | `Node`, `Environ`, `Builtins`, `Arithmetic`, `Printer` | |
| frame, eval | `Eval`, `Interpreter` and `LexicalScope` (abstract), `Programs`, `MCEval` | `Eval_proofs` |
| token, parse, libc_custom | `LibC`, `Token`, `Parse`, `Interpreter` and `Grammar` (abstract), `MCReader` | `Parse_proofs` |
| loading, main of paren | `Loading`, `MCLoading` | `Loading_proofs` |

An operator whose name is another's with a suffix (`FreeCell_Targets`) is that
operator with a plausible bug in it. No specification uses it; it is there to
see that the properties notice.

## 2. The memory manager

### On sets of cells

`HeapGraph` is the client's heap: a function from slots of cells to cells or
NULL, and reachability in it. `ManagedHeap` is what memory.h promises: cells are
handed out, linked, locked and unlocked, and taken back only when the client
cannot get at them. `Memory` is memory.c.

| Memory | code |
|---|---|
| `owner[c]` | the list that the header of the cell is on |
| `"roots_unproc"`, `"roots_proc"` | roots_list before and after root_sentinel |
| `reachable_listref` | white_list or black_list |
| `refcount`, `locked`, `clean_cycles` | the fields of the same names |
| `link` | car/cdr, env/vars/expr, handle: what `links_cb` (node.c:45) shows of a node |
| `MemoryRequest` | memory_request (and the constructors that call it) |
| `PatchLink` | node_cons_patch_car/cdr, node_handle_update: advise new, store, advise stale |
| `GcLock`, `GcUnlock` | memory_gc_lock, memory_gc_unlock |
| `IterateFreePending`, `IterateBoundary`, `IterateRoot`, `IterateUnproc`, `IterateReset`, `IterateSkip` | the branches of memory_gc_iterate, in their order |

An action is one call from the client or one iteration: the C code is atomic
between them. Where the code takes the first cell of a list the action takes any
cell of it, so the results hold for every list order. The client obeys the
rules of memory.h: it uses what it has locked, what it was just given, and what
these reach (`Usable`). Conditions that the code asserts are conjuncts named
`Assert...`, and `AssertionsHold` says that they are always true.

`AssertReuse` says whether the assertion that is commented out at memory.c:317
is enabled. Without it (the build of the Makefile) a swept cell may be handed
out again while another swept cell still links to it, and `memory_reuse_live`
shows what comes of that; what `memory_lists` checks, and the theorems below
that do not assume it, hold all the same. With it the memory manager keeps every
promise.

### On lists

`MemoryLists` does it as memory.c does: one call after another on the doubly
linked lists of `Dlist`, taking the first cell of a list and putting cells back
at its end. `ms` is the memory state with the headers of its cells, and a
function of the code is an operator from one `ms` to the next; an assert that
fails leaves its line in `ms.fault` and ends the program. Here is what the first
module abstracts: the order of the lists, the sentinel in the roots list,
`total_alloc` and `total_free`, the finalizers of blobs, malloc that gives
nothing (`OutOfMemory`), and `memory_state_reset` (`StateReset`).

The loops of the reset (memory.c:233-267) empty one list after another until it
is empty; here each list gets as many turns as it can have nodes (`Turns`), and a
turn on an empty list does nothing (`FreeFront`, `ReturnFront`).

`WorksOnSets` is the refinement: with `seen`, a function of `ms` that tells on
which part of which list each cell is, every step is one of `Memory` or changes
nothing there. So what is proved of `Memory` for any order of the lists holds of
the order that the code has. The steps that end the program are left out, by an
assert or by the reset, which the first module does not have.

### The runs

| Run | Instance | What it shows |
|---|---|---|
| `memory_core` | 3 cells, 2 slots, at most 3 links at a time, symmetric, line 317 enabled | every bookkeeping property, no failing assertion, the life cycle of README:119-130, refinement of `ManagedHeap`, and that every iteration leaves the collector less to do |
| `memory_lists` | 2 cells, 2 slots, line 317 a comment, fairness | the lists refine the sets; lists, counters, finalizers and the reset are right; pending memory is freed, the collector comes to rest, garbage is freed |
| `memory_reuse_live` | 3 cells, 1 slot, line 317 a comment | *violation*: a cell in use with count zero |
| `memory_idle_garbage` | 3 cells, 1 slot, line 317 enabled | *violation*: the collector idles with garbage left |

Bounds. Three cells give chains, cycles of up to three cells, shared targets and
a root outside a cycle; two slots give double links, as the car and the cdr of
one cons, which must give back two counts. Three links at a time (`FewLinks`) are
enough for each of these. Two cells on the lists give lists of none, one and two
cells with the sentinel before, between and behind them. Counts are bounded by
the links, `clean_cycles` by 2; every client that obeys memory.h is explored.

Fairness. `CollectorRuns` is weak fairness of `Iterate` with its ENABLED written
out, and asks nothing of the client. The code runs one iteration in every
accessor, so that a program that keeps running keeps the collector running, and
a program that needs the memory back runs memory_gc_cycle (paren.c:148).
`PendingIsFreed` holds however busy the client is, because new pending cells
queue behind the old ones. `ComesToRest` and `FreesGarbage` are about a client
that has become quiet; `FreesGarbage` asks that a link or a lock went away after
the last full cycle (`clean_cycles = 0`), and `memory_idle_garbage` shows why it
must.

### The proofs

`Memory_proofs` is for every finite set of cells and slots.
`RefExact`, that a count is the number of links held by live cells, is not
inductive alone: freeing a swept cell is right only if nothing live but other
unreached cells link to it. `Bookkeeping` conjoins it with five other parts:

1. `TypeOK`;
2. `LockedAreRoots`: what is locked is on the roots list;
3. `TriColour`: a processed cell does not link an unprocessed one;
4. `UnlinkedIsDying`: a cell with count zero is a root or on its way out;
5. `SweepInv`: links to freed memory come only from unreached or pending
   cells, and while such links exist, nothing reached links unreached memory
   (which is what makes it sound that the sweep is interrupted by the client).

1-3 are inductive by themselves in both builds (`TypeCorrect`, `LockedCorrect`,
`TracingCorrect`, and with them `PendingCorrect`); the rest needs line 317
(`BookkeepingCorrect` and `RefExactCorrect` assume `AssertReuse`). From the
invariant follow `AccessibleCorrect`, `SweepCorrect`, `AssertionsCorrect`, the
life cycle (`LifeCycleCorrect`: that no cell takes a way the README does not draw
rests on a counted cell being allocated and a locked one being a root) and
`PromiseCorrect`, the step simulation of `ManagedHeap`. The lemmas on counting (a
link added, a link removed, all links of one cell removed) rest on the library's
theorems on cardinality. `HeapGraph_proofs` proves reachability from its
definition as the least closed set, so no induction is needed.

`MemoryLists_proofs` is for every finite set of cells and slots, in both builds,
and leans on the theorems of `Dlist_proofs`. Its invariant is `ListsInv`. Between
two calls the memory state is `Running`: the lists are whole, the sentinel is on
the roots, a cell is flagged live just when it is on a list other than the free
one, the two counters are the numbers of cells on a list and on the free list,
and a finalizer has run once for what is not live any more and never for what is.
After an assert that failed the lists are still whole, and the assert is none of
`Impossible`, those of dlist.c and of the leak check; after the reset nothing is
on a list (`Returned`). From it follow `ListsStayWhole`, `CountersCount`,
`FinalizersRunOnce` and `ResetLeavesNothing`.

The invariant says little of each call, because most of the work is to say what
a call does: for each function of memory.c there is an operator (`AfterFreeStep`,
`AfterTraceStep`, `AfterStaleLink`, `AfterReset`...) with everything that it
leaves and changes, and a lemma that the code does just that. A loop over the
links of a cell, or over a list, is a fold; that the folds have values at all, and
that what holds of the first state and goes from each to the next holds of the
last (`FoldExists`, `LastOfRow`), is proved once, from a least counterexample.
The reset ends because each turn leaves fewer nodes on its list.

`ListsImplementSets` is the refinement, step by step. `View(ms, seen)` relates
the two states: each cell is on the list its place says, and the sentinel cuts
the roots in two closed parts, the unprocessed ones before it and the others
behind. The fold over `links_cb` gives back as many counts to a cell as links are
gone (`LinksAre`, with a bijection between slots and links), which is what
`Memory` says with a cardinality. It needs one thing more, that memory which was
never allocated is not linked, locked or counted (`Untouched`), since `Memory`
counts for all cells, and the code only for those it is told of. `WorksInv` adds
these to `ListsInv`.

With line 317 enabled, the theorems on `Memory` are then carried to the lists.
`ListsKeepBooks` says that `Bookkeeping`, the inductive invariant of `Memory`,
holds of the lists between any two calls, and `ListsKeepPromise` that the lists
implement `ManagedHeap` until the program ends; `ListsKeepAccessible` is what the
client sees of it. `ListsAssertionsHold` goes the other way: each assert of
memory.c is a condition of `AssertionsHold`, so that with the books in order
none of them fails. Only 317 itself can end the program, which is what it was
commented out for, and line 330, when there is no memory. Without 317 the run
`memory_reuse_live` shows the assert of line 465 fail.

Liveness is out of the prover's reach, but what it rests on is not.
`CollectorCorrect` proves `CollectorAdvances`: every iteration that does anything
lowers `Work`, a number that is bounded by the size of the heap
(`WorkFits`). `ToTrace` counts the moves that are left in a cycle, at most three
for each cell; a cell that is freed and a cycle that ends are worth one cycle and
more, because a cell that goes may call for the rest of this one and two clean
ones. That holds whatever the client linked and unlinked before, in both builds;
only the client's calls raise `Work` again. The mutant that lets a trace take back
what it has reached already keeps every cell safe and goes round for ever.
`ListsCollectorAdvances` carries it to the lists.

Only model-checked: that the collector is called again and again, which makes
this liveness (`ComesToRest`, `FreesGarbage`), the queue behind `PendingIsFreed`,
and the violations.

### Lists and blocks

`Dlist` is dlist.c: `h` holds the three members of every list node, an operation
is a function of `h`, and the asserts it starts with are an operator of their
own. `WellLinked` says that the two directions agree, that neighbours have the
same owner, and that no node is lost, which is said with sets that are closed
under `next`, so that no proof needs induction along a list. `Dlist_proofs`
proves for any lists and nodes that empty lists are whole, that an insertion
where the asserts allow it and a removal keep them so (`InitIsWhole`,
`InsertKeepsWhole`, `RemoveKeepsWhole`), and that dlnode_move, which nobody
calls, is a removal and an insertion if the node is not moved next to itself
(`MoveIsRemoveAndInsert`). `WalkMeetsEachOnce` is about the loops of dlist.h: the
walk from the header meets each node of the list once and then the header again.
This is a statement about a recursive function, and the prover does no induction
on data; but a number is there to have a least counterexample, which the
well-ordering of Nat gives.

`FreememCache` is freemem_cache.c on such a list: a block that is returned goes
to the front, a request takes the first one that is long enough, and malloc is
asked if there is none. `GivesFittingBlocks` is the refinement of `Allocator`,
what the users of allocator_def.h count on.

| Run | Instance | What it shows |
|---|---|---|
| `freemem_cache` | 4 blocks, lengths 1 to 3, symmetric | the list stays whole when a first fit takes its middle; every block is in one place and counted; clients get blocks of their own that are long enough |

Four blocks are enough for one between two others on the list while a client has
a fourth. The reset frees the address of a list node, which lies inside its
block, so that the program has no defined meaning from there unless the list is
empty (phase `undefined`); nothing is claimed about it.

`FreememCache_proofs` proves the three properties of the run for any finite set
of blocks. `CacheInv` keeps the blocks that malloc gave as those on the list and
those with clients, none of them both, with the list whole and, while the cache
is open, the count that of the blocks; from it follow `ListStaysWhole`,
`BlocksStayAccountedFor` and the refinement, `CacheImplementsAllocator`. That a
first fit finds a block that is long enough, and on the list, is
`WalkMeetsEachOnce`.

## 3. The evaluator

### The modules

- `Node`, `Environ`, `Builtins` are the data: a store of nodes (node.c), the
  environments made of them (environ.c, frame.c) and the foreign functions that
  look at or build nodes (builtins.c). They are operators, without state.
- `Eval` is `eval()`. The function does not recurse: it pushes its eight locals
  on a list of frames, jumps to `restart` for the inner expression, and goes on
  at the label that the popped frame holds. `pc` is that label; each action is
  the code between two labels, or one turn of the loops over arguments,
  parameters and body. `locals` is the array of the same name, `frames` is
  `frame_hdl`, `result` is `result_handle`. An environment is shared through a
  handle, and handles are what a call replaces, so `envs` maps handles to
  environments and `locals.env` is a handle. `NextForm` and `Return` are the
  loop of `readevalfn` (builtin_load.c) over expressions that are parsed already.
- `Interpreter` is the abstract side, for the reader too: outcomes appear in
  order until the first error, and the text comes to its end.
- `LexicalScope` says what the outcomes are for programs without `call/cc`, by
  recursion over the expression: no frames, labels, flags or tail calls, and
  every call gets a frame on the environment its lambda was made in. It shares
  with `Eval` only the operators of `Node`, `Environ` and `Builtins`.
- `Programs` writes programs as terms, loads them into the store with the start
  environment, and shows results as terms. `MCEval` has the programs.

`KeepsMeaning` is the refinement: the outcomes that `Eval` has given, shown as
terms, behave as `Interpreter` with the outcomes the program should have.

Three things are abstracted. Memory that is no longer linked stays in the store
(`Memory` is about that). Values have `ValueBits` bits where the code has 64.
The name of a symbol is compared as a whole, and only lower-case letters are
spelled by makesym and splitsym.

`Arithmetic` is the mathop functions. What C leaves open is what the build for
x86-64 does: sums, differences and products wrap around, a shift looks at the
low bits of its count, and a division without a result stops the program (a
trap, `Aborted`). Nothing in it depends on the width but the numbers, so a width
of 12 has the same corners as 64: the least and the greatest value, -1, 0, 1,
the bit of the sign, shifts by 0, 1, the width less one.

### The runs

| Run | Programs | What it shows |
|---|---|---|
| `eval_programs` | 2,264: that define, set, shadow and read variables in and around a call of a lambda whose body is any one or two of 12 expressions; with an error of one of 25 kinds in up to nine places; that end a call with another one of a lambda with any of 32 bodies, after `set!`, in `if` or by `eval`; a `call/cc` in all 100 contexts of depth two, left early or entered again later, with two values; every arithmetic function on all pairs of seven corner values; names and their characters; those of testcases/ that differ in control, loops of tail calls among them | see below |
| `eval_documented` | seven, each of which violates the property alone | *violation*: forms have other values than README promises. A tail call has the scope of its caller (README:21), also in a branch of `if` outside any call, where it overwrites the variables around it; `defined?`, `cons?`, `makesym`, `symeq?` and `addc?` answer otherwise than they are described (README:39, 46, 50, 53, 59) |
| `eval_continuation_loop` | one | *violation*: a continuation entered twice finds its variables gone |

What `eval_programs` shows:

- `KeepsMeaning`: each expression has the outcome it should, in order, and every
  program comes to its end. What it should be is `LexicalScope` for programs
  without continuations; for `call/cc`, the plain expression with the value in
  the place of the hole; for arithmetic, definitions by congruence, by search
  for the quotient and by sets of bits (`Represented`, `Divided`, `OfBits` in
  `MCEval`); for the rest the `.expect` files.
- `ErrorStops`: after an error nothing happens but the frames going.
- `FramesResume`: what a frame holds fits the label it will go on at, in every
  frame that a continuation keeps too.
- `CallsKeepDefiningScope`, `PendingBodyHasItsVariables`: a call stands on its
  lambda's environment, and no pending expression loses its variables.
- `ScopesAreGivenUp`: each environment that a call has made belongs to one call
  under way or is given up, and all are when eval returns, with an error too.
- `ListsOnlyGrow`: no list changes that the program holds.
- `TailCallsAreFlat`: no more than six frames, whatever a program loops over;
  six is how deep the texts nest.

Each program is deterministic, so a run is as many behaviours as programs; the
interest is in which programs. The contexts are closed under composition to
depth two because each label saves and restores the locals of one expression:
what can be lost is lost between a label and the one around it.

Outside some limits the code does something else than its documents say, and
`eval_programs` stays inside of them: its programs call no lambda from another
place in tail position, put no `call/cc` in a call whose parameters are used
later, and use the five functions only where README and the code agree, so that
`KeepsMeaning` never takes the code's word for what README contradicts. The
violation runs are outside. `eval_documented` states what README says
(`AnswersAsDocumented`), `eval_continuation_loop` what notes:134 does. `CallsKeepDefiningScope`,
`ListsOnlyGrow` and `ScopesAreGivenUp` are not claimed once there is a
continuation: `call/cc` calls its argument in tail position, and entering a
continuation that was captured among arguments patches the argument list of the
first pass, which a lambda with a rest parameter may have kept.

What README does not lead one to expect is in the model:

- a tail call binds its arguments in its caller's frame (eval.c:442);
- `defined?` of a name that is not defined gives its argument (eval.c:414);
- `cons?` tests for symbols (builtins.c:63), `symeq?` is inverted
  (builtins.c:227), `addc?`, which eval_test.c calls `addc`, tells whether both
  arguments have the high bit (builtins.c:319);
- `makesym` takes every second element of its list (builtins.c:144, 158).

Two more that no document speaks of are among the programs of `eval_programs`:

- `def!` and `set!` without a value return without releasing their ten handles
  (eval.c:339);
- a lambda without expressions, or a call with a dotted argument list, fails an
  assertion (eval.c:501, node.c:223).

Not in the model: the byte behind the buffer that `makesym` ends a name of full
length with, and the result of a foreign function that gives none, for which
eval takes what its local `temp` last held (eval.c:430).

Fairness: `WF_vars(Step)`, one thread that goes on as long as it can. It is used
only for "every program comes to its end".

### The proofs

`Eval_proofs` is for every list of programs that are programs: a store of nodes
whose members are of the right kinds, with an environment and forms in it
(`ProgramsAssumption`; `IsProgram` says what `parse` and the start environment
give). It asks nothing of what a program does, so that calls of anything with any
arguments, errors and continuations that are entered at any time are all in it.

`EvalInv` is that there is a set `K` of conses with `Sound(K)`. `K` are the conses
that bind a name to a value. They are known to environments and to nothing else,
and so all data, that is, the expressions, argument lists, values and locals,
stay outside `K`. Without this nothing could be said after `set!`: it patches
the cdr of a cons (eval.c:366), and if an expression or an argument list could
hold that cons, it would not be a list any more. With it, what can change in the
data is only the nil at the end of an argument list that is being built. `Sound`
says that each node holds what its type has (a lambda an environment, a
parameter list and a body; a continuation, frames that can be resumed); that each
frame holds what the label it goes on at needs, stronger than `FramesResume` by
that a call has a list of arguments; and what each place takes for granted. The
proof has a lemma for each action. From it follow `TypesOfEval`,
`EveryFrameResumes` and `ErrorsStop`. `ErrorReturns` adds that an error is out
after at most two steps for every frame that waits, one to find it and one to
return: each step brings the return nearer (`ToReturn`), none evaluates again.

`CallsInv` adds what is about calls. Until there is a continuation
(`NoContinuation`), the locals of eval and its frames form a chain (`ChainInv`) in
which each call has an environment handle of its own, none of them has been
popped, and each argument list that is being built ends in a cons of its own. This
cannot be had without the condition: a continuation brings back handles and lists
that others have by then (see `eval_continuation_loop`). From it follow
`VariablesStay` (`PendingBodyHasItsVariables`) and `DataStaysAsBuilt`
(`ListsOnlyGrow`). `CallsBindInScope` is
`CallsKeepDefiningScope` for calls that are not tail calls, with continuations or
without; of tail calls it is false, which is one of the things that `eval_documented` shows.

`ScopesReturn` (`ScopesAreGivenUp`) is the other half of `VariablesStay`: what is
not given up too early is not forgotten either. It needs to know where a call can
stand that has an environment of its own and makes another (`BodiesEndInTailCalls`):
nowhere, because what is evaluated in its locals, the last expression of a body
or a branch of it, is a tail call, and the other expressions of a body have
locals above it. So the flag of eval.c:291 and 478 does more than to save space.

The proofs exposed two mistakes of the model that no program of the run could
have shown: a CASE whose arms overlapped, where TLC takes the first and the logic
any of them, and a wrong result of splitsym for a symbol without characters. Both
are as in the code now.

Only model-checked: `KeepsMeaning`, because `LexicalScope` is recursive over data,
and `TailCallsAreFlat`, whose bound is that of the texts.

## 4. The reader

### The modules

- `LibC` has the characters and `strtoll_custom`.
- `Token` is token.c. `chomp` is the place in `token_chomp`; each action is one
  branch, or one turn of a loop, and reads at most one character. `off`,
  `nextch`, `in_string`, `type` are the fields of tok_state_t; `sym` and `lit`
  are its union.
- `Parse` is parse.c on top of `Token`, in the loop of parse_test.c and
  readevalfn, which read a text to its end or its first error. `stack` is the C
  stack: an activation of `parse_sexpr` or `parse_list` with the place it goes
  on at and the local it keeps there (`child`). `back` is what the last call
  returned. A step of the parser runs only while the tokenizer does not.
- `Grammar` says what a text means without any of this: its tokens by recursion
  on the text, and the expressions with a fold over the tokens that keeps a
  stack of open lists. It shares with `Parse` the names of characters and
  `CharToNum`.
- `MCReader` has the texts, and states `ReadsAsWritten`: what the reader has
  returned so far, shown as terms, behaves as `Interpreter` with the meaning that
  `Grammar` gives the text. So every expression is found, in order, a text
  that is no expression gives an error there and nothing after it, and reading
  comes to an end.

| Parse | code |
|---|---|
| `SexprEnd`, `SexprAtom`, `SexprOpen`, `SexprUnexpected` | the outer switch of parse_sexpr |
| `SexprEmpty`, `SexprOpenError`, `SexprList` | its switch after the parenthesis |
| `SexprClose`, `SexprCloseError` | its switch after parse_list |
| `ListEnd`, `ListDot`, `ListElement` | the outer switch of parse_list |
| `ListDotError`, `ListTail` | its switch after the dot |
| `ListRest`, `ListCons`, `ListRestError` | after the element, and after the rest |
| `ParseCall`, `ParseReturn` | parse, node_handle_update, and the loop |

Nodes are a sequence as in the evaluator; `roots` are those nobody links yet. A
constructor makes a root, a link takes that away (`MemoryRequest`, `Shaded` in
`Memory`). What the parser holds in `child` or is just handed must be a root at
every step, since every constructor and every accessor lets the collector take
one (`HeldIsRooted`); and until an error it must not leave a root behind, which
would never be collected (`NoStrayRoots`). A result is rooted until the handle
of the caller takes it. `gc_iterates` is FALSE in the
build with NODE_NO_INCREMENTAL_GC, where `node_droproot(NULL)` does nothing.

`Printer` is node_print_pretty_stream, with which parse_test.c prints what it has
read, and fmt_s64. `PrintsReadable` relates the two directions: what was read,
printed, has by `Grammar` the same meaning again. It leaves out a negative
number, of which only the sign is printed (its digits come from a remainder that
is negative in C, libc_custom.c:146), and a name as long as its node has room
for, which has no end there (node.c:302).

### The runs

| Run | Texts | What it shows |
|---|---|---|
| `reader_texts` | all of up to six of `( ) . a`, and of five between parentheses; lines of up to four of space, newline, `#`, `"`, `(`, `a`; strings of up to four characters or escapes, closed or not; lines of up to four of `+ - 0 1 8 a x`; 13,053 texts, each with and without incremental collection, the symbol buffer three characters long | `ReadsAsWritten`, `PrintsReadable`, `HeldIsRooted`, `NoStrayRoots`, the buffer is not overrun, and every step gets nearer to the end |
| `reader_unclosed` | `(a` | *violation*: the error is not reported, the program ends |

A crash counts as an error in `reader_texts`, because it is there that one is
due; `reader_unclosed` is about the difference. Six characters are enough for
three lists inside each other, an element after a list, a dot with too much or
too little around it, and an expression after another; with a buffer of three, a
line of four has a name that does not fit. Reading is deterministic, so that the
run has as many behaviours as texts and builds.

Left out of the texts, because the code does not do there what its documents
say, are: a comment, or a name as long as the buffer or longer, that the text
ends with (token.c:141, 183: the tokenizer goes on for ever); a quote mark
(token.c:170: an endless row of literals 0); a sign, or `0x`, that stands alone
(it is read as 0, so that `+` and `-` of README:60-61 cannot be called by these
names). The actions of `Token` do all this. Characters are 7-bit, since char
is signed on some machines and not on others; numbers are far from the limits of
64 bits.

Fairness: `WF_vars(Step)`, one thread that goes on as long as it can; used for
the end of the text only.

### The proofs

`Parse_proofs` is for every text and every size of the buffer. `ParseInv`
is inductive. `HeldIsRooted` alone is not: that a local keeps its root when
another local's root is given up needs that no two hold the same node
(`HeldOnce`); which local there is at which place needs that the activations
below the top wait in a call (`CallsNest`) and that there is a result exactly
when one is waited for (`ResultIsAwaited`); and that a list never consumes the
end of the text as if it were a value needs that parse_sexpr is called in a
list only where an expression starts (`EndIsOutside`). The proof has a lemma for
each way the stack changes (return with nothing, return with a new node, go on,
call), one step for each action that cites one of them, and lemmas on the
sequence operations they use.

`ReaderIsTyped` is `TypeOK` of the reader, with it that the tokenizer never
writes behind its buffer. It assumes that a text is a sequence of numbers
(`InputsAssumption`). The types of the tokenizer are inductive as they stand, but
for one thing: that `strtoll_custom` gives a number and stops inside the text is
shown of the recursive function in `LibC` with a least counterexample.

`ReaderAdvances` is `ReadingAdvances`: the reader gets on. `Left` is a number for
what is left to do, at first twenty times the length of the text and eleven. A
character that is read (`Ahead`) outweighs the token it starts (`Stage`), and a
token that is taken outweighs what the calls of the parser can do before they
need another (`Calls`). Every step that changes anything leaves less, which
bounds the depth of the recursion too. It rests on `ReadInv`: in a string there
is a character to look at, an atom starts with a character of its own, and an
element of a list is read by parse_sexpr. A quote mark outside a string is the
one place that makes steps and gets nowhere (`AtQuote`), and a comment and an
overlong name at the end of the text are the only ones where a step changes
nothing (`CutOff`, in the lemma `StepAdvances`). So the endless loops that are
left out of the texts are all there are.

Only model-checked: `ReadsAsWritten` and `PrintsReadable`, which compare with
definitions that are recursive over the text, and that the reader comes to its
end, which is in `ReadsAsWritten` and needs fairness besides.

## 5. Loading

`Loading` is main of paren.c and readevalfn of builtin_load.c: main evaluates
`(_read-eval <file>)`, which maps a file, reads its forms and evaluates them, and
those may call `_read-eval` again. `stack` is the activations of readevalfn that
are on the C stack, with the place each is at; `descriptors`, `mappings` and
`locks` are what has to be given back; `env` is the handle of the environment,
with the lock main has on it and the links that the locals of eval have to it.
What a form does is `Eval`'s business: here it ends, fails, leaves eval by its
early return, or calls `_read-eval`, in the environment of its file or in one of
a lambda. Loading a library is one of the calls that may fail.

What a parse error does depends on the build. parse_list never releases the
elements it has when the rest of the list fails, and calls node_droproot(NULL)
(parse.c:82). In the default build that crashes (`ParseCrash`, node.c:152), so
that almost every error inside a list ends the program there; a text like
`(a . b c` is the exception, and leaves nothing. In the build with
NODE_NO_INCREMENTAL_GC every error is reported, and the elements before it stay
on the list of roots for good, as `a` of the text `(a` does, or it leaves
nothing, as `)` does. `strays` remembers that some are left.

| Loading | code |
|---|---|
| `NoArguments`, `Bootstrap`, `EvalReturns`, `PrintEnv`, `LeakCheck`, `Exit` | paren.c, before and after its eval |
| `BadPath`, `OpenFails`, `MapFails`, `MapFile` | builtin_load.c up to the loop, map_file.c |
| `ParseForm`, `ParseError`, `ParseCrash`, `ParseEnd`, `EvalDone`, `EvalError`, `EvalReturnsEarly`, `ReadEval` | the loop |
| `Cleanup`, `DropsNull`, `UnmapsUnset` | the cleanup label; the latter two are how the program ends there if it never got its handles |
| `Collect` | the collector getting round to the environment |

`incremental` is a variable that stays as it is: both builds are in each run.

| Run | Instance | What it shows |
|---|---|---|
| `loading` | four files deep, three descriptors | descriptors and mappings are those of the files under way, each its own; so are the locks; a failure, however deep, comes out as the program's status and nothing more is read or evaluated; the environment lives as long as something is evaluated in it; the leak check warns exactly if eval returned early or a failed parse left a root |
| `loading_lock` | the same | *violation*: the environment that main has locked is freed while main holds it |

Four deep with three descriptors lets a call have two callers above and one
below it, and makes the last one fail for want of a descriptor. An early return
happens once (`abandoned`), since each adds the same ten locks.

A crash is an end too: `FailureEndsProgram` is content with it, and
`ErrorsReachMain` speaks only of a program that exits, so neither says that a
failure is reported. In the default build most parse errors are not, which
`reader_unclosed` shows, and neither is a file that cannot be opened (`DropsNull`).

That two full cycles free all that no root reaches (`LeakCheck`) is how main uses
them; it is not derived from `Memory` here. Both cycles are run in full, because
main has just unlocked its handles, which sets the count of clean cycles back
(memory.c:409).

Fairness: `WF_vars(Next)`, one thread that goes on as long as it can, for
`FailureEndsProgram` only: a program that never fails may load for ever.

`Loading_proofs` proves the five invariants for any set of descriptors and any
depth (`FilesCorrect`, `LocksCorrect`, `ErrorsCorrect`, `EnvironmentCorrect`,
`LeakCheckCorrect`), from `LoadingInv` (`LoadingCorrect`). `LocksFollowCalls` is
part of it as an equation; the others need more than themselves. That an unmapped
descriptor is not one that somebody else has needs that activations below the top
are evaluating and have handles (`CallsNest`, `FilesHeld`); that the environment
is not garbage needs the number of activations whose eval links it, one more than
these while main is in its eval (`EnvIsLinked`); that no status is lost needs that
a failure is, at every moment, the status of the activation on top or of main
(`ErrorsRise`). Counts of activations are cardinalities of sets of positions, with
lemmas for a call, a return and a change of the top, and one step of the proof for
each action.

`FailureCorrect` is about `FailureUnwinds`, the part of `FailureEndsProgram` that
is within the prover's reach: once something has failed, every step that changes
anything unwinds, and lowers `ToUnwind`, which no nesting of files makes larger
than five more than the depth. So after a failure no file is opened, no form read
and none evaluated, whatever was under way. That the program then takes these
steps is fairness, and model-checked.

## 6. The plan

Done, each with its abstract side where it has one, and proved where it says so:
`Memory` against `ManagedHeap` (proved), `MemoryLists` against `Memory` (proved),
`Eval` (invariants proved) against `LexicalScope` through `Interpreter`, `Token`
and `Parse` (invariants proved) against `Grammar`, `Printer` against the reader,
`Dlist` (proved), `FreememCache` against `Allocator` (proved), `Loading` (proved).

Where a component must come to an end, the number that every step of it lowers is
proved: `CollectorCorrect` and `ListsCollectorAdvances` for a collector that is
left alone, `ReaderAdvances` for a text, `ErrorReturns` for an error in eval,
`FailureCorrect` for a failure of the program. What they need besides, that the
steps are taken, is the fairness of the runs.

Theorems worth proving next: that `Arithmetic` stays within its width, and its
results are those of the reference definitions where these are not recursive;
that the frames of eval are at most those of the calls that are no tail calls,
whatever is called.

## 7. Not modelled, and why

- Debug output and tracing (dbgtrace, the verbose and recursive printing of nodes,
  environ_print, memory_gc_print_state): it only writes. The tracing is compiled
  in, but no class of it is enabled unless a program asks for that.
- The functions of the extension library (sio.c) and what else a library brings:
  input and output of the operating system. dlopen is a call that may fail.
- Read and write errors of a descriptor (fdstream): no caller looks at them.
- The line and character counters of the tokenizer, which only messages use.
- The builds with NO_GC_FREELIST and NODE_INCREMENTAL_FULL_GC: the first gives
  freed cells back to the allocator at once, the second runs two cycles where
  the others run one iteration; the Makefile chooses neither.
- Blobs as data: what matters of them, that their finalizer runs once, is in
  `MemoryLists`.
- The main functions of the tests beyond their loops.
