# A verification of TP-Forth

TP-Forth compiles lines of Forth to arrays of "smart tokens" and runs them on a
small virtual machine; words can be spawned as POSIX threads that talk through
queues. This directory holds TLA+ modules that model its core, TLC
configurations that check them, and machine-checked proofs. File names below
without a directory are in `src/` of the repository; every definition is mapped
to its lines in `PROJECT.json`.

    tlc -config MCTpQueuePair.cfg MCTpQueue        # a run
    tlapm TpQueueProofs.tla                        # proofs; so with every other *Proofs.tla

## 1. The system

| Part | State | Operations |
|---|---|---|
| REPL (`tpforth.c`) | the task, the line buffer | run `startup.fs` in a task of its own, then parse and run each line |
| Parser (`parser.c`) | parser state, string buffer, strtok's position | token loop, comments, strings, `:` name, VARIABLE / CREATE name |
| Compiler (`parser.c`, `compiler.c`) | `current_PROG`, `current_IF`, `current_DO`, `current_BEGIN`, `program_stack`, `Ct_stack` | IF ELSE THEN DO LOOP BEGIN AGAIN UNTIL EXIT `:` `;` |
| Word resolution (`smtok.c`), builtin index (`builtins.c`), dictionary (`dictionary.c`) | sorted index, entries in order of definition | word to token: I, number, string, `'`, EXEC, SPAWN, variable, builtin, colon word |
| Programs (`program.c`) | malloc'ed, NULL-closed arrays of tokens, never freed | create, append |
| Runtime (`runtime.c`) | `pcp`, `program`, `r_stack`, `prog_stack`, the C call stack | one handler per kind of token |
| Loop stacks (`task.h`, `builtins.c`) | `loop_upper`, `loop_lower`, `ld` and their tops | unchecked push, pop, top of stack |
| Data stack and builtins (`builtins.c`) | `d_stack`, `d_top` | stack, arithmetic, comparison, output words |
| Queues (`tp_queue.c`) | buffer and `full` flag per queue, registry of 128 | QCREATE, Q, `Q>`, `<Q` |
| Tasks (`ef_spawn`) | one `struct ftask` per thread, `tid[128]`, `idx_tid` | SPAWN |
| Variables (`variable.c`) | one table for all tasks | VARIABLE, `!` `@` `!!` `@@`, ALLOT |
| Network queues (`n_queue.c`) | two UDP sockets and a buffer per queue | NQCREATE, `NQ>`, `<NQ`, NQDESTROY |

How they interact: the REPL calls the parser with a new MAIN program, the parser
appends tokens to it or to the colon word being defined, and `run_task` executes
it. The dictionary, the open control structures, `program_stack` and the main
task's stacks outlive the line. A colon word is executed by a nested
`program_exec_loop`, so the C stack takes part in control flow. Spawned threads
share all globals and meet in the queues, without locks.

Where it is hard:

* **Interleaving.** `full` and the buffer are plain memory; `<Q` returns a pointer
  into the buffer after releasing it; the registry, the variable table, `idx_tid`
  and the buffer of `L>S` are shared without a lock.
* **State that outlives its line.** A THEN or LOOP may complete a structure that an
  earlier line left open, a `;` may resume an earlier MAIN or take what lies below
  `program_stack`, an entry may stay on the return stack.
* **Aliasing.** No stack checks an index. `loop_lower[-1]` is `lu_top`, and BEGIN
  outside a DO relies on it.
* **Two uses of one stack.** Loops and calls share `r_stack`; the nested loop ends by
  comparing addresses of arrays that malloc placed.
* **Copies that look like stacks.** `ct_push` and `ct_pop` work on a copy of the
  compile-time stack.

`PROJECT.json` lists each hazard at its line, with the properties that cover it.

What makes each part correct: a queue delivers each message once, whole and in
order, and no one waits for ever; a compiled line does what its words mean, jumps
land inside their program, calls return behind the call, and the stacks are at the
prompt what they were; closed programs never change; whatever a line does, the
saved programs match the calls in progress; a name that has been compiled keeps what
it stood for, whatever is declared later; comments and strings do not swallow what
follows them; a word that is looked up is found, performed as promised and touches
nothing beneath its operands; and a task finds in the shared tables what was put
there before.

## 2. The modules

| Module | Models |
|---|---|
| `Mailbox` | the promise of a queue: a slot filled and emptied, nothing lost or repeated |
| `TpQueue` | `q_put` and `q_get`, one shared access per action; refines `Mailbox` |
| `TpQueueProofs` | theorems about `TpQueue` |
| `SharedTables` | what tasks share without a lock besides the queues: the registry, `tid`, the buffer of `L>S`, the table of variables |
| `SharedTablesProofs` | theorems about `SharedTables` |
| `Program` | the heap of programs and strings, and their addresses |
| `Variables` | the table of variables, and what `!` `!!` ALLOT do to an entry |
| `Compiler` | strtok and comments, the parser's states, control words, `:` `;`, strings, VARIABLE, CREATE, word resolution, the dictionary |
| `TaskMemory` | the loop stacks as the ints of `struct ftask` |
| `Runtime` | a handler of the jump table per action, and the nested execution loops |
| `Forth` | the program: lines parsed and run in turn; the properties |
| `ForthProofs` | theorems about `Forth`: its types, and the programs saved by calls |
| `ForthCodeProofs` | names, closed programs and the jumps of conditionals |
| `ForthLineProofs` | balanced lines compile |
| `ForthSessionProofs` | what holds of sessions of orderly lines |
| `ForthRunProofs` | what holds of sessions of well-formed lines, as they are compiled and as they run |
| `Meaning` | what a session means, by recursion on its structure (for TLC only) |
| `BuiltinIndex` | the sorted index of builtin words and the search in it |
| `BuiltinsProofs` | theorems about `BuiltinIndex` and `Builtins`: the search, the types, and that `Builtins` implements `ForthStack` |
| `ForthStack` | the promise of the stack words: numbers on a stack, no array and no search |
| `Builtins` | those words from their names to the cells of `d_stack`; refines `ForthStack` |
| `MCTpQueue`, `MCSharedTables`, `MCForth`, `MCBuiltins` | small instances: tasks; vocabulary and sessions; the table of words |

`Forth` extends `Compiler` and `Runtime`, which extend `Program` and `Variables`;
`Builtins` extends `BuiltinIndex`. The queues, the shared tables and the interpreter
are separate models: the interpreter reaches a queue only through a builtin that
reads or writes its data stack.

**TpQueue.** `SeeEmpty` is the poll of `q_put` that finds 0 (a poll that finds 1
changes nothing), `CopyCell` one character of strcpy, `SetFull` the assignment of 1;
`SeeFull`, `ClearFull` and `ReadCell` are the poll, the release and the later
reading through the returned pointer. `held`, `sent` and `taken` are history
variables. A message is a word of `Width` cells that all carry the same mark, so a
mixture can be told from a message. Accesses are taken in program order: that is
what the Debug build (`-O0`) does on x86, where stores are not reordered. On a
weaker machine or under a compiler that moves the store of `full` before an inlined
strcpy the results do not apply.

**SharedTables.** An action is one load or store of something shared: QCREATE is
`QCreate` (load `n_queues`), `BumpQueues`, `FillEntry`; Q is `QFind` and one
`LookAtEntry` per entry; SPAWN is `Spawn`, `StoreIndex`, `CheckIndex`, `StartThread`,
`LoadAgain`, `StoreAgain`; `LongToS` and `Send` are L>S and the Q> behind it; a
VARIABLE is `Declare`, `Realloc`, `AssignTable`, a variable's name in a word
`Variable`, `VariableGet`, and `UseVariable` the word that uses what it pushed. The
code guards none of this, so no property of these tables holds outright. `raced`
records on which of them two tasks have been at work at once, each in the few steps
in which it relies on being alone; the properties say what holds as long as that has
not happened. The conditions are narrow on purpose: a Q may run beside a QCREATE, an
L>S beside a <Q, a VARIABLE beside a task that already has its variable's address.

**Program, Compiler.** A source is a sequence of words with `NL` for newlines. `line`
is what strtok has still to hand out, from the current word on; `checks` are the
comment marks that parse() has still to look for in that word. parse() walks to the
end of a comment over NULs and newlines alike, so: a `\` on the last word of a line
whose newline strtok has already overwritten walks on to the next one; a comment
that ends the source leaves `tok` NULL (`crashed`); one without its end walks out of
the buffer (`stray`); a second comment right behind the first is not looked at, reaches
`parse_word`, and from then on words are skipped (`parse_mark`, `skip_word`) until the
next comment resets the state; and a comment after `:`, VARIABLE or inside a string
resets the state there too. CREATE's name goes to `parse_variable_name`, as
`pftable` has it. A token is its kind and its `val`. A heap position stands for
a `program_p`, and every array has a base address because `runtime.c:310` compares
addresses. `Placements` says whether malloc puts a new array above or below the
others; realloc is taken to leave an array at its place. A pointer to a token is a
pair, `Null`, or `Wild`: what `ct_pop` returns, the word below its copy of the stack
in `cts_pop`'s frame. `WildReads` is what reading through `Wild` does: in the Debug
build the word points into the code and the read is harmless, elsewhere it may
fault; writing through it faults. The control words' actions are the `*_create`
functions with the token they append. `program_add` is every other word. Two tests of
the parser look at a word's first character only (parser.c:201 and :393): the
vocabulary has no word that begins with `"` or `\` but these two themselves.

`program_stack` is the entries that `:` has pushed, and `program_Stack_top` the index as
the code keeps it. A surplus `;` takes the index below zero and finds NULL
(`NoProgram`; in the Debug build some 29 words below the array are, the end of the
buffer of L>S, `NullsBelow`): no word that needs a token can then be compiled
(`null_PROG`), but if the `;` was the line's last word MAIN runs, and the next line
starts a new one. The comment at parser.c:253 says that such a `;` "will crash the
system"; it does not do so by itself. A definition begun from there on pushes at that
index, and what it left below is what the array's own memory may hold. The entry behind
the 32nd is `program_Stack_top` itself, so the push that writes it leaves half of a
pointer for an index, and the next `:` or `;` crashes.

**Variables** is a table of records, since nothing frees a variable; `l` is the scalar
and the size an index is checked against, the one member of `varval_t` for both.

**TaskMemory, Runtime.** `loops` maps the ints from `loop_upper[0]` to `ld_top` (and
the upper half of `r_top`, cell -1) to values; each access is computed from the
tops as the C code does, and one outside the row sets `Stray`. An action is one call
of `program_exec_loop`'s callback. `frames` is the C stack: one frame per active
loop, one for the call EXEC makes. `Return` is the code behind a nested loop:
`program = prog_pop()`, `pcp = r_pop() + 1`. A handler that would reach beside the
data or return stack ends the run as "stray" (`Overrun`), a fetch of the closing
NULL as "crashed", a fetch outside every array as "stray" (`Fetch`): the model makes
no claim about what comes after. `prog_stack` has its bound too (`PStack`, 128 in
task.h): a recursion that takes its own entries off the return stack, as `: w BEGIN TRUE
UNTIL TRUE UNTIL w ;` does, gets there. A loop that ends with a top below zero makes its
pop complain and wait for a key; an x ends the process ("exited"). The same goes for a builtin that follows what is no
variable or string, or an index beyond an array's block (`Dereferences`): addresses of
variables and strings lie in areas of their own. SEXEC (`d_string_exec`) is a frame
that saved nothing: when its word ends, pcp goes on from where the word ended, and the
address comparison of the caller's loop decides what happens then. A program of no tokens
has NULL for its array (`NullArray`), and a loop over it leaves pcp there (`Left`), which
only SEXEC lets anybody see. The tops that `ftask_create` does not set start at
0, as on a fresh heap. Integers are unbounded, which is sound for sessions whose
values stay small; word width belongs to `Builtins`.

**Forth.** `parse` reads a line: a script has a set of lines for each place, and any line
may come that fits one of `Scripts` with the lines before it, so a run covers all
combinations within a script (`NextLines`). `Compile` takes a word, `Start` is `run_task`,
`Run` a step of the machine. `session` records the lines for `Meaning`.

**Meaning** gives the reference: no tokens, jumps, stacks of loops or program
counter, only recursion on the structure of the words. It is what TP-Forth means,
not ANS Forth: 0 is true, DO includes its limit and runs at least once, I in a
called word is the caller's index, BEGIN counts in the index of the DO around it and
so starts that loop over, the first definition of a name stays, a variable hides a
word of its name in what is compiled later, and a word that SEXEC runs ends the word
that runs it. In one point it follows the documents instead: `-` subtracts.

**BuiltinIndex, Builtins, ForthStack.** `Rank` stands for strcmp, and
`IndexAssumption` for what builtin_add, index_names and qsort make of the table. A
step is an iteration of `builtin_lookup`. `Builtins` looks a word up and performs it:
`code` is the table of handlers, `d_push`, `d_pop` and `d_pick` the accesses to the
array, and `Wrap` C's long, up to `LONG_MAX` (signed overflow is undefined in C; the
Debug build wraps). d_pick takes an int: PICK's operand is narrowed to what `INT_MAX`
allows (`AsInt`), so that 2^32 PICK is 0 PICK, and `ForthStack` promises no more. A
lone `-` is a number to smtok_compile_word (`isNumber`) and never looked up. The constant is the greatest number, not the width, because powers
are out of the provers' reach. That the table holds words the model knows is an
assumption (`BuiltinsAssumption`, over `StackWords`). A handler that reads or writes beside the cells in use ends as
"beyond", a division without a result as "dead". `ForthStack` says the same without
array, search or wrap-around: what a word takes, what it leaves, that a flag is some
number that IF takes as it should, that a sum is right up to what a long holds, that
quotient and remainder belong together. The refinement maps the cells below `d_top`
to the stack; that a word leaves everything beneath its operands alone, and that
`builtin_lookup` sends each name to its own code, is part of it. In TP-Forth words
are looked up when a line is compiled and performed when it is run; one after the
other is all that either of them can tell.

Definitions marked "fault" are plausible bugs in the code next to which they stand.
They are used by no behaviour; `PROJECT.json` names for each property the one that
breaks it, to show that the property can fail.

## 3. The runs

| Run | Instance | Result |
|---|---|---|
| `queue_pair` | 1 sender, 1 receiver, 3 cells, 5 messages, 6 gets, fair | the queue is a mailbox; all is delivered |
| `queue_crowd` | 2 senders, 2 receivers, 2 cells, 2 messages each, spawned at any moment | nothing overwritten, mixed or lost while one sender runs; nothing taken from an empty queue while one receiver runs |
| `forth_structured` | startup.fs and two lines, 10, 11 and 44 alternatives, fair | compiled as meant; programs well made and disciplined; stacks exact; every call returns to its caller; every line ends |
| `forth_language` | two scripts: startup.fs and three lines of BEGIN, ELSE and EXIT (the control sessions); startup.fs of several lines with comments, strings, VARIABLE, CREATE, ALLOT and SEXEC, and two lines of the REPL (the reader's) | read, compiled and executed as meant, as far as the code supports these words; disciplined; every call returns to its caller; what has been compiled keeps its meaning |
| `shared_tables` | the main task and two that it or each other spawn, 2 entries per table, 6 words between them | what was created is found, spawns stay in the table, numbers arrive, no freed table is read, unless two tasks were in the same window |
| `builtins` | 23 words, 2 that are none, 3 cells, LONG_MAX = 2, INT_MAX = 1, fair | the search ends and misses the last name only; every word that can be found keeps its promise |
| `forth_loose` | startup.fs and two lines of loose fragments, comments, strings, SEXEC, surplus `;`, open definitions and a bottomless recursion among them, small stacks, both heap layouts, faulting wild reads | types, saved programs and jumps hold; balanced lines survive what came before, unless `program_stack` is full |
| `queue_pointer` | 1 sender, 1 receiver | violated: the word after `<Q` may read the next message |
| `forth_counted` | `1 0 DO I . LOOP` | violated: the body runs at the limit |
| `forth_else` | `FALSE IF 1 . ELSE 2 . THEN` | violated: the IF has no jump to the ELSE |
| `forth_nested` | `TRUE IF TRUE IF 1 . THEN THEN` | violated: the compiler crashes |
| `forth_minus` | `2 1 - .` | violated: `-` is the number 0 |

`Balanced`, in `forth_loose`, is a line whose structures are opened and closed in
order, none in one of its kind, no conditional reaching into or out of a definition,
and no control word as a name; a looser reading is refuted by `: IF THEN` and by
`IF : w ELSE THEN ;`. `BalancedLineCompiles` says that such a line ends the process in no
way while it is compiled, unless the index of `program_stack` has been written over. `Orderly` says of a line the part of this that is about
conditionals; every line of `forth_structured` and of the control sessions is orderly.
`WellFormed` adds the rest: loops close what they open and only that, a conditional
reaches neither into a loop nor out of one, a definition begins and ends outside loops,
EXIT stands outside loops, and `>r` and SEXEC are not used. Every line of
`forth_structured` is well formed (TLC evaluates that as an assumption of `MCForth`).
`ProgramsWellMade` says the same of the compiled programs, token by token.
`Disciplined` is what well-formed programs must still do right as they run, since the
machine looks at none of it: what `'` defers is a word, EXEC finds the address of a
word, an IF that has an ELSE finds a true flag (parser.c:76 left it without a jump),
and programs and loops fit into memory (`WithinMemory`: 15 loops and not 16, because
of builtins.c:99).

Types and saved programs are checked in `forth_loose`, which reaches more states than
the orderly sessions, and proved for every script.

The five violations are disagreements of the code with its own comments and
documents, quoted in `PROJECT.json`. One more: BUGS:9 says nested word calls do not
work; in `forth_structured` they do.

**Bounds.** Two tasks of each kind are the smallest crowd in which two senders or
two receivers meet; two cells are enough for a mixture and a third adds a middle.
Five messages let the sender lap the receiver; the sixth get finds nothing, as the
receiver of queue.fs does. A session has the line that defines a word, one that
calls or redefines it, and one that calls both: state carried from line to line
needs two. Loops run once or twice, which reaches entry, repetition and end; nests
go three deep, over a call. L = 8, RStack = 8, DStack = 32 and ProgStack = 2 exceed
what well-formed sessions use (`NothingStrays` and `Disciplined` would tell);
`forth_structured` has L = RStack = 7, the entries its deepest session uses, and
`forth_loose` has them as small as 3, 3, 3 and 2, with PStack = 4 and NullsBelow = 2, so
that every limit and alias is met: a surplus `;` that passes and one that leaves the
NULLs, a definition begun below zero, and one after the index has been written over.
L and RStack are one number, as in task.h, where both are 16. `MaxCount`
stops a BEGIN loop that never ends; `Stride` exceeds every program. `ElemSizes` is
what malloc may leave in the size that ALLOT multiplies by, and `MinBlock` the longs
that glibc hands out at least: arrays of up to two elements are then safe to index,
their size included, which is what `forth_language` uses. In `shared_tables` two
entries per table are filled and exceeded within six words, two spawns and one more
go once round `tid`, and three tasks are two in a window and one that watches. Three
cells hold every word's operands and its overflow, and the longs from -3 to 2 have a
least one without a negative, products that wrap, and numbers that no int from -2 to 1
holds, one of which it turns into a place on the stack; the index of 23 words is searched to a
depth of five, on every path. In `builtins` `r>` is in the table as the last name
only.

Deadlock is not checked: scripts end, a receiver may rightly wait for ever, and a
crashed process stops. `LineEnds` and `AllDelivered` say what must not stop.

**Fairness.** A spawned task is a pthread that the operating system goes on
scheduling, and usleep returns: weak fairness of each task's next access, not of
`Spawn`, which nobody is obliged to do. A poll is weakly fair only: the code has no
wake-up, and a flag that does not stay up may be missed. The interpreter is one
thread that waits for nothing but the next line: weak fairness of `Compile`, `Start`
and `Run`, none of `parse`. The search of `builtin_lookup` is a loop of that same
thread: weak fairness of its next iteration, not of the next word.

## 4. The proofs

`TpQueueProofs` proves, for any sets of tasks, any width and any numbers of
messages, under `QueueAssumption` (disjoint sets, positive bounds, the
uninitialised mark is no message):

* `TypeCorrect`, by `TypeInv`: `TypeOK` is not inductive, since a copy one cell too
  far would leave `Text`; it needs `loop` and `cell` to be within bounds wherever
  they are used next.
* `NothingOverwritten`, `NothingTorn`, `NothingLost`, by `SenderInv`. It adds what
  a lone sender knows: which prefix of the buffer is already its message, that the
  flag is down from its poll to its own full = 1, and that the last message sent is
  the buffer or has been taken.
* `NothingTakenTwice`, by `ReceiverInv`: only the receiver lowers the flag, so from
  its poll to its full = 0 the flag stays up.
* `QueueIsMailbox`: with one sender and one receiver every step maps to a step of
  `Mailbox` or to a stutter. `SetFull` is a Put because `SenderInv` has the flag
  down, `ClearFull` a Take because `ReceiverInv` has it up, and `CopyCell` is
  invisible because the slot is empty meanwhile.
* `DeliversExactlyOnceInOrder`: `MailInv` says `sent = taken \o slot`.

The halves are separate: no theorem but the last two needs both ends to be alone.

`SharedTablesProofs` proves, for any tasks, names, numbers and table sizes, under
`SharedAssumption` (at least one entry per table):

* `TypesHold`, by `TypeInv`: an operand is a name, a number or a task according to
  the word it belongs to.
* The others share `Recorded` (the overlaps of the present pc are in `raced`), which
  every step keeps because it either leaves pc alone or records what it makes
  (`StepRecords`). A table that is not in `raced` therefore has one task at most in
  its window, in every state so far. `SpawnsIdle` says that the task a SPAWN is about
  to start is idle and started by no other.
* `CreatedQueuesAreFound`, by `RegistryInv`: the entries in use are those below
  `n_queues` but for the one being filled, and for every search that must succeed the
  queue lies at or behind the entry it looks at. Entries before it are in use, so the
  NULL of the one being filled is not met.
* `SpawnsStayWithinTable`, by `IndexInv`: at rest the index may be one beyond the last
  entry, after the first increment two, after the check none.
* `ConvertedNumbersArrive`, by `NumbersInv`: while a task holds the result of L>S the
  buffer is its number.
* `TableReadsAreLive`, by `TableInv`: outside VARIABLE's last step the global points to
  the current block, and so does what a task has loaded.

`ForthProofs` proves, for every vocabulary, script, stack depth and heap layout:

* `Inductive`, by `TypeInv`: `TypeOK` is not inductive. A DICT token must hold a
  program, or the call would run nothing; THEN writes through `current_IF`, which must
  therefore point to an IF or ELSE and never to a DICT; `prog_stack` and `frames` must
  hold programs. There is one lemma per action (`NextTypes` combines them), under it
  what the token handlers share: `GotoStep`, `CallStep`, `PopPushStep`, `LoopStep`.
* `TypesHold`: `TypeOK`.
* `SavedOncePerCall`: `ProgramsSaved`, up to the 129th call in progress, where the model
  stops; with the types: the frame that `Return` takes
  away tells whether a program is popped, and the pop needs one to be there.

`ForthCodeProofs` proves what the compiler leaves behind:

* `NamesAreUnique` and `MeaningsStay`: VARIABLE never makes a second entry of a name, so
  `variable_lookup` has one answer, and with it `NamesKeepTheirMeaning`.
* `OnlyOpenIfChanges`: of a program that is neither current nor interrupted by ":", only
  the token that `current_IF` points to can ever change. `ClosedProgramsStay` as it
  stands does not hold of every session: a THEN may complete an IF that an earlier line
  left open. `ClosedStay` proves it for every behaviour in which no THEN meets such
  an IF (`IfIsOpen`).
* `ConditionalsLand`: `JumpsLand`, for every behaviour in which definitions are begun
  outside conditionals (`DefinesOutsideIf`). Otherwise it fails: in `TRUE IF 1 : v TRUE
  IF ; THEN` the THEN completes v's IF and leaves the line's own without its jump. The
  invariant (`JumpInv`) says that `current_IF` is the last bracket of its program and
  keeps its own offset, and that an open end of the current program is `current_IF`.

`ForthLineProofs` proves `BalancedLinesCompile` without a hypothesis: a balanced line is
compiled without a fault whatever earlier lines left behind, a surplus `;` included, unless
their open definitions have written `program_Stack_top` over; the 33rd of them does, and
nothing is promised from there on. `LineInv` counts what the
part of the line that has been read opens: the IF it has open can be completed and is
not alone in its program (an ELSE at offset 0 is taken for an IF), its DO and BEGIN are
entered, and there is a program to compile into, or, within a definition, one to go back
to. The lemmas about strtok say that
what is left of a line is one of its ends, so that the counts are those of `Balanced`.

`ForthSessionProofs` discharges the two hypotheses above for `OrderlySession`, a script
all of whose lines are orderly: `OrderlySessionsLand` and `OrderlySessionsStay`. By
`OrderInv` the current program ends open only while the line has an IF open, that IF is
in the current program, and the programs on `program_stack` are older than the current
one and do not end open. Loops, missing or surplus ":" and ";", and an IF left open at
the end of a line are allowed; comments and strings are not, since a comment may swallow
half a conditional.

`ForthRunProofs` goes on to the machine. Each of its theorems has a hypothesis about
the lines that are typed:

* `WellFormedProgramsAreWellMade`: in a `WellFormedSession`, a script all of whose lines
  are well formed, `ProgramsWellMade` holds whenever a line runs. `ShapeInv` says that the
  part of the current program that this line has compiled is as deep in loops, after every
  token, as the line was after the word (`Follows`), although definitions come in between.
* `WellFormedProgramsStay` and `WellFormedProgramsReturn`: in such a session, as long as
  `Disciplined` holds, pcp stays in its program (`StaysInProgram`) and every call returns
  behind itself (`ReturnsToCaller`). The invariant (`RunInv`) looks at the return stack
  with pcp behind it as one trail of addresses. Each call in progress owns a stretch of
  it: the loops it has open, the first at depth 1, the second at depth 2, and so on, and
  last the place where it stands itself, as deep as it has loops open: pcp, or the DICT
  or EXEC token that made the next call. So the entry that LOOP, AGAIN or UNTIL takes is
  its own opening word's, since it stands at that depth; the end of a program is at depth
  0, so a call that ends there, or at an EXIT, has nothing of its own above the
  address it returns to; and a jump keeps its depth. `JumpsLand` (from
  `OrderlySessionsLand`) keeps jumps in the array, and arrays do not overlap (`Apart`),
  so the comparison of addresses in runtime.c:310 tells what it is meant to tell.
* `PlainSessionsAreDisciplined`: without ELSE, `'` and EXEC (`PlainSession`),
  `Disciplined` follows from `WithinMemory`, which is no more than that memory suffices.
  With them it depends on the numbers a line leaves on the data stack, which `EXEC`
  takes for addresses; there it is an invariant of `forth_structured` and
  `forth_language`.
* `CountedLoopsStayInStep`, `CountedReturnStackIsExact`, `CountedLinesRestore`: without
  BEGIN, AGAIN and UNTIL (`CountedSession`; BEGIN outside a DO counts in `lu_top`, and
  the loop stacks are then out of step, as `forth_language` runs them) and as long as
  `Disciplined` holds, `LoopStacksInStep`, `ReturnStackExact` and `PromptRestores`.
  `TopsInv` says that the three tops are one number, and that the trail has one entry
  for every loop and one for every call. That this number is below L is what keeps the
  write to `ld[lu_top]` off `ld_top`.

`BuiltinsProofs` proves, for every index, depth, `LONG_MAX` and `INT_MAX`:

* `LookupIsRight`, by `Between`: if the word is in the index, and not last, it lies in
  `lo <= i < hi`; the middle is below `hi`, so `hi` itself is never looked at. The last
  name satisfies `i = hi` from the start and is lost.
* `LookupEnds`: with more than one entry between them the middle is above `lo` too, so
  either bound moves; the test for the last two is what makes this true.
* `StackTypesHold`, `LookupDecidesHere`: `TypeOK`, and the first of these again for the
  search between two words that are performed.
* `PromiseKept`: `KeepsItsPromise`, every step is one of `ForthStack` or a stutter. The
  invariant (`BuiltinsInv`) adds to the types that a word is asked for only while one
  is looked up or performed, and that the one found bears that name.
  A lemma per kind of word says what its accesses to the array mean for the stack
  (`Shows`, `Pops`, `Pushes`, `PickShows`); `WrapFacts` and `QuotientFacts` are the
  arithmetic. A number that `AsInt` narrows has one remainder, which is the index that
  `ForthStack` chooses (`IndexRight`).

Only model-checked: `AllDelivered`, `LineEnds` and `LookupReturns` (liveness);
`CompiledAsMeant`, whose reference is recursive; and `NothingStrays`, which no
well-formedness of lines implies: a well-formed line may still take from an empty data
stack, or store to a number. That the theorems of `ForthRunProofs` need `Disciplined`
for sessions with ELSE, `'` or EXEC has the same reason, what is on the data stack; and
what BEGIN leaves in `lu_top` and in the index of a DO around it is model-checked in
`forth_language` only.

## 5. What is not modelled, and what is left to do

Left to do: a typing of the data stack (which cells are addresses of words), from which
`NothingStrays` and `Disciplined` would follow for more sessions; `EXIT` within BEGIN,
which `forth_language` runs and `WellFormed` leaves out; orderly and well-formed lines
with comments and strings in them.

Not modelled:

* `n_queue.c`. `NQ>` and `<NQ` are a system call each, on a socket per queue; nothing
  above them numbers, confirms or repeats a message, so there is no promise of the
  program to state. NQCREATE calls strtok, whose one position the parser depends on:
  run in a spawned task it disturbs the line being parsed. The parser's model has
  strtok to itself.
* What an access beside a stack does to its neighbours, but for the loop stacks: the
  33rd entry of `d_stack` is `d_top`, the 17th of `r_stack` is `r_top`, the 129th of
  `prog_stack` is `prog_top`. The models stop there; `KeepsItsPromise`,
  `ReturnStackExact` and `ProgramsSaved` say what holds up to there, and no theorem says
  anything of what comes after.
* The tops that `ftask_create` leaves as malloc found them, and the one-token program
  of a spawned task. ALLOT's cells are 0 here and unset in the code; the sessions write a
  cell before they read it.
* Where an array lies before its first token: here a program has its place from
  `program_create` on, in the code malloc gives it one with the first token, so arrays
  may lie in another order than their programs were made in. `forth_loose` takes both
  layouts of the model, the proofs any.
* CELLS+ and V. pass the address of a variable, which is what its name pushes, to
  `variable_get`, which takes an index: both fail or read at random.
* A line longer than the 254 characters that `fgets` takes: it is parsed in two, a word
  in two with it. A startup.fs that fills its last disk block exactly lacks a NUL.
* `tstr()` reads behind its table for AGAIN and UNTIL, and names are copied into one
  byte less than they need; both without effect in the Debug build.
* STEP and the dumps (printing), `logg.c`, KEY, EMIT and MS (input, output and waiting),
  `q_destroy`, `q_reg_remove`, `program_delete`, `smtok_delete`, `ftask_delete`,
  `var_delete`, `var_store_long`, `var_store_addr` and `variable_does` (called by no
  word), `ef_error` and `ef_last_code` (no token leads to them), the sample programs.
