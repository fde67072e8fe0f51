# Models and proofs for the ICS labs

The repository holds the lab work of a computer-systems course. Each lab is a
program of its own, mostly sequential C; two of them are not: the shell shares
its job list with asynchronous signal handlers, and the proxy serves every
connection in a thread of its own. This directory holds TLA+ models of those
programs, TLC configurations that check them on small instances, and proofs for
TLAPS of what holds for every size.

Paths below are relative to the repository. `PROJECT.json` lists, for every
definition, the source lines it models, and for every property a faulty variant
of one definition (`Of_WhatIsWrong`, next to the original) that breaks it.

## Inventory

| Component | State it keeps | Operations | Interacts with | What is hard | What makes it correct |
|---|---|---|---|---|---|
| **lab4** `tsh.c`, tiny shell | job list, `nextjid`, signal mask, the kernel's processes and pending signals | `eval`, `addjob`, `do_bgfg`, `waitfg`; handlers of SIGCHLD, SIGINT, SIGTSTP | kernel (`fork`, `waitpid`, `kill`), children | a handler can run between any two steps, handlers nest, SIGCHLDs coalesce | no child is lost, the list agrees with the kernel, one foreground job, signals reach it and no other, `waitfg` returns |
| **lab8** `csim.c`, cache simulator | lines (valid, tag, stamp), counters | `load`, `store`, 'M' lines | trace file | long sequences; order of scans and stamps | it is an LRU cache; counters add up |
| **lab9** `mm.c`, `memlib.c`, allocator | heap words: headers, footers, links, break | `mm_init`, `mm_malloc`, `mm_free`, `mm_realloc` | `mdriver.c` writes payloads between the calls | pointer structures that have to agree after any sequence of calls | blocks tile the heap, lists hold exactly the free blocks, payloads are disjoint and intact |
| **lab9** `mdriver.c`, trace driver | payload ranges, verdict | `eval_mm_valid`, `add_range` | allocator | a check that accepts too much | a trace judged valid has disjoint payloads |
| **lab10** `proxy.c` and the wrappers of `csapp.c` | descriptors, threads, `log_mutex`, sizes to log | `main`, `thread_routine`, `sendRequest`, `sendResponse`, `open_clientfd` | clients, servers, kernel descriptor table | threads share one descriptor space; each of many error paths must close exactly what is open; peers break off | no leak, no use of a foreign descriptor, every connection ends, the logged size is right |
| **lab7** `pipe-full.hcl`, `psim.c`, `isa.c` | pipeline registers, register file, memory | five stages, stalls, bubbles, forwarding | instruction set as reference | hazards between instructions in flight | it executes the instruction set |
| **lab7** `seq-full.hcl`, `ssim.c` | registers, memory | one instruction per cycle | as above | control signals | as above |
| **lab5** `y64sim.c` | registers, flags, memory | `nexti` | object file | flags at the edges of a word, failed accesses | it executes the instruction set |
| **lab6** `y64asm.c` | symbols, relocations, lines, output file | `assemble`, `relocate`, `binfile` | source text; lab 5 simulator | forward references, `.pos` going back, lines that are not understood | the file holds what the lines say, and wrong programs are refused |
| **lab8** `trans.c`, `driver.py` | two matrices, eight temporaries | `transpose_submit` | `test-trans.c` runs it through the cache simulator, `driver.py` turns misses into points | rims of tiles, parts of B used as a buffer, conflict misses | B is the transpose of A, with few misses |
| **lab10** `grade.py` | script position, connections, verdict | the tests of parts 1 and 2, restarts of proxy, client and server | terminal dialogues with the three programs | the script runs ahead of the programs it talks to | correct proxies pass, the faults a test is for are found, every test ends |
| lab4 test programs, `sdriver.pl` | - | exit, stop, kill themselves | shell | - | peers of the shell's model |
| lab7 `yas`, `yis`, `hcl2c`, benchmarks; lab9 timing; `get-pip.py`; lab1 bit puzzles; lab2, tutorials | - | - | - | - | not modelled (last section) |

## Modules

| Module | What it is |
|---|---|
| `JobTable` | the job array of `tsh.c` and its routines, as operators |
| `Tsh` | the shell, its handlers, and the kernel around it |
| `MCTsh` | TLC: symmetry |
| `TshProofs` | lemmas on the routines of the job list; invariance proofs of the shell, as it is and when SIGCHLD comes in time (`TimelySpec`) |
| `LruSets` | abstract: a set-associative least-recently-used cache, without lines or stamps |
| `Csim` | the cache simulator; `IsLru` says that it implements `LruSets` |
| `CsimPair` | two simulators of different associativity on one trace |
| `CsimProofs` | invariance, the refinement proof `Csim` => `LruSets`, and the pair of `CsimPair` |
| `Allocator` | abstract: what an allocator promises its client |
| `Malloc` | `mm.c` and `memlib.c` as operators on words of memory |
| `MallocDriver` | the allocator under `eval_mm_valid`; `IsAllocator` says that it implements `Allocator` |
| `MCMalloc` | TLC: symmetry, view |
| `MallocProofs` | lemmas on every routine of `mm.c`; invariance of the heap, the refinement proof `MallocDriver` => `Allocator` |
| `Proxy` | the proxy: `main`, its threads, the kernel's descriptors |
| `ProxyProofs` | invariance proofs of the proxy's descriptors and of its log |
| `Y86` | words, flags, conditions, registers, memory and instructions of labs 5 and 7 |
| `Isa` | abstract: the instruction set, as `step_state()` of `isa.c` executes it; `ButForRsp` is a step of it with the exemption |
| `Seq` | the sequential processor; `IsIsaButForRsp` says that it implements `Isa`, with one exemption |
| `Pipe` | the pipelined processor; `PipeIsIsaButForRsp` says the same of it |
| `Y64sim` | the simulator of lab 5; `Deviates` lists where it leaves `Isa` |
| `Processors`, `MCProcessors` | the three in lock step on one program; TLC: the programs |
| `SeqProofs` | lemmas on words, flags and conditions; the refinement proof `Seq` => `Isa`, and where `Y64sim` departs from it |
| `PipeProofs` | the refinement proof `Pipe` => `Isa`, and the three machines in lock step |
| `Y64asm`, `MCY64asm` | the assembler of lab 6; TLC: the statements |
| `Y64asmProofs` | invariance proofs of the assembler's tables and of its file |
| `Transpose`, `MCTranspose` | `transpose_submit()` through `Csim`; TLC: the sizes |
| `TransposeProofs` | the result of `transpose_submit()` and its bounds, for every size |
| `Grader` | the tests of `grade.py` with five kinds of proxy |
| `MCLab10` | TLC: proxy and grading script side by side, view |

### The shell: `JobTable`, `Tsh`

`jobs` is the array of `MAXJOBS` slots, `pc` the place of `main` in its
read/eval loop, `cur` its locals. `ctx` names the code that executes: `"main"`
or the signal whose handler runs; `handler[s].under` says what handler `s`
interrupted, so that handlers nest as the kernel nests them. A handler blocks
only its own signal (`Signal()` gives an empty `sa_mask`), and `eval`'s mask on
SIGCHLD stays in force under the handlers of the two keys.

A step is at most one access to the job list or to the kernel. `addjob` is
therefore three steps (`AddPid`, `AddState`, `AddJid`), `do_bgfg` is three
(`BgfgLookup`, `BgfgSetState`, `BgfgCont`), the key handlers are two
(`HandlerFgpid`, `HandlerKill`). `deletejob` is one step because the code blocks
all signals around it (tsh.c:423-427). A scan of the array is one step too, and
so is the wrap of `nextjid`.

The kernel is in the model as far as the shell can see it: a child is forked,
enters its process group, loads its program, and exits, is killed, stops or
continues whenever it likes; signals sent to it are kept in `sigs` until it acts
on them; a pending SIGCHLD stands for any number of events; `waitpid` reports
zombies and stops in any order. Signals that reach a child before `execve` meet
the shell's handlers in the child's copy and are lost. Left out: jobs of more
than one process, reuse of pids, `jobs` and commands with bad arguments
(they change nothing). The model stops when the shell exits, fails in
`unix_error`, or follows the NULL pointer at tsh.c:432 (`"crashed"`).

### The cache simulator: `Csim`, `CsimPair`, `LruSets`

`lines[k][i]` is line `i` of set `k`; `Hit`, `Fill` and `Evict` are the three
ways through `load()`. An 'M' line is two actions with the store half kept in
`pending`. `S` and `B` are given directly instead of as powers of two, and any
addresses may occur in any order. `useLog` is an `int` and `load()` is not
modelled beyond `INT_MAX`, where incrementing it is undefined.

`LruSets` knows of a set only the resident blocks and the order of their last
use. The refinement mapping reads the blocks off the valid lines and the order
off the stamps.

### The allocator: `Malloc`, `MallocDriver`, `Allocator`

`heap.mem[a]` is the 4-byte word at offset `a`; headers, footers, list heads
and links are words in it, and every routine is an operator from memory to
memory that reads and writes the words the C macros read and write. A routine
that goes wrong thus corrupts what it would corrupt in C, payloads included:
the driver fills each payload with its block number, and `PayloadsIntact` and
`Preserved` look at those words.

`MallocDriver` has one action per kind of request; each is the call, the checks
of `add_range()` and the fill. `Allocator` is what the client relies on:
aligned, disjoint blocks inside the heap, and refusal only of empty requests or
when the heap cannot grow by what the request needs. Sizes are naturals; the
truncation of sizes of 2 GB by `mem_sbrk`'s `int` is outside the model. Payload
sizes are multiples of a word.

Loops over lists and blocks (`FirstFit`, `Walk`, `Chain`) are functions of the number
of steps, up to as many as there is room for blocks (`MAX_HEAP \div (2 * DSIZE)`).
That no loop of the program takes more is proved (`Walked`, `FirstFitFinds`,
`ChainEnds`), so the bound cuts nothing off.

### The proxy: `Proxy`

`file[fd]` is what the kernel's descriptor `fd` stands for, so a use of a
descriptor that was closed and handed out again is visible. `accept` and
`socket` take the lowest free descriptor. `pc[c]` follows the thread of
connection `c` through `thread_routine` and the functions it calls, one step per
read, write or descriptor operation. Each read may end early and each write may
fail, at every point. Data are counted: a line is `LINE_BYTES` bytes long (1 if
cut off), bodies count byte by byte. `accept` without a free descriptor and a
failed `pthread_create` end the process, as their wrappers do; in a thread only
`Close` and `P`/`V` could. `MAX_BODY`, `MAX_LINES` and `MAX_ADDRS` bound
`Content-Length`, the lines of a header and the addresses of a server.

Left out: `parse_uri` (resolution may fail or succeed whatever was asked for),
the text and time of the log entry, the limits of the line buffers, and negative
values of `Content-Length`.

### The processors: `Y86`, `Isa`, `Seq`, `Pipe`, `Y64sim`, `Processors`

`Isa` has one action per instruction of `step_state()`. `Seq` and `Pipe` keep
the names of the signals of the HCL files: each signal is an operator on the
state, and one cycle (`SimStep`, `Cycle`) evaluates them and updates state and
pipeline registers in the order of `sim_step()` and `sim_step_pipe()`. `Pipe`
has the lab's own parts, `iaddq` and the prediction of jumps with the flag in
`valB`.

The refinement mapping of `Pipe` shows the machine as the programmer sees it:
the instruction in execute is the next one to be done, those in memory and
write-back have been done (`SeenReg`, `SeenMem`), and the pc is that of the
oldest instruction that is not a bubble. A cycle in which execute holds a real
instruction that is not cancelled is a step of `Isa`; any other is a stutter.
Wrong forwarding, a late flag or an instruction that should have been cancelled
is therefore a cycle that is no step.

There is one thing in which neither processor does what `isa.c` does. When the word
of a push, call or pop has no place in memory, `step_state()` has moved `%rsp` already
(isa.c:837-844, 873-881, 897-905), and the processors stop with `%rsp` where it was.
`Isa` moves it, as the code does; `StackFails` says when the case arises, and the
properties are named for the exemption, `SeqIsIsaButForRsp` and `PipeIsIsaButForRsp`.
`ButForRsp` is no weaker anywhere else: it asks for the step of `Isa` at all other
instructions, and at these that `%rsp`, and nothing besides, is not as `Isa` has it
(`StackFails <=> ~Next`). For such a program the comparison that `ssim -t` and
`psim -t` make (ssim.c:247-282, psim.c:234-269) finds different registers and prints
"ISA Check Fails". The programs for which y86-code/README:19 promises "ISA Check
Succeeds" keep their stack in memory.

`Y64sim` differs from `Isa` on purpose and by mistake (narrow `int` in
`compute_cc`, memory accesses whose failure is ignored, no `iaddq`).
`DeviatesThereOnly` says exactly where: `Deviates <=> ~IsIsa!Next` at each step. A
`pushq` that fails is no deviation: both have moved `%rsp` by then.

Abstractions, shared by all: words have `2 * HALF` values; memory and addresses
count words, and instructions sit in cells apart from the data, so programs
that jump into an instruction or rewrite themselves are not covered. `psim`'s
instruction limit and the bytes it fetches beyond an instruction are left out.

### The assembler: `Y64asm`

A line is a label or none and a kind of statement; how text becomes tokens is
left out. `ParseLine` is `parse_line()` with `add_symbol`, `add_reloc` and the
new `vmaddr`; `Relocate` handles one entry of `reltab`; `WriteLine` one line in
`binfile()`. The bytes of an instruction before its value are told apart by their
line only, a byte has `BYTE` values. `.pos` and `.align` take any number, negative
ones too, and `Quotient` divides as C does; `StatementAssumption` leaves out
`.align 0`, which divides by zero. `AssembledOrRefused` compares the file with
`ByteAt`, a reading of the lines without tables: where each line is, and what a
label stands for. Two things of the code are part of the reference rather than of
the property, as no text contradicts them: a line with a label in front of text
that is not understood is accepted (`NotUnderstood`), and a `.pos` that goes back
to bytes already written, or in front of address 0, does not move the file back (`Forward`). `strncpy`
without a terminator in `parse_line()` is no hazard in this build: nothing is
freed before the end, so `malloc` returns memory that was never used and is zero.

### The transposes: `Transpose`

`transpose_submit()` is loops over constants, so for each size it makes one fixed
sequence of accesses (`Program`), built tile by tile from operators for its loops.
`Load` and `Store` make the next one, on the matrices and on an instance of `Csim`
with the geometry of the evaluation (32 sets, one line, 32 bytes); the matrices
are at the addresses `tracegen.c` gives them. The trace `test-trans.c` cuts out
has five accesses more, which `OtherAccesses` adds to the misses. `Accepted` are the
sizes that `test-trans.c` takes.

The postcondition is that of `is_transpose()` and `validate()`: every element.
`Transposed` says it between two tiles, where each element of B is right already or
among those that tiles to come store (`ToCome`, empty in the end). One size does not
meet it, which is finding 4; `TransposedBut61x168` names that size and the columns.

### The grading script: `Grader`

A test is a sequence of steps (`Script`), each one call of a helper of
`grade.py`; one action per kind of step. The client, the server and the proxy act
concurrently with the script, as they are processes of their own that take
commands from a terminal. A time-out happens only when nothing else can
(`Quiet`): three seconds are long. The proxy is outside this component and is one
of five kinds (`Serves`, `BreakOff`, `Crash`), the servers are modelled from how
the script uses them. Messages are a few units long; the units are the cut points
the tests use.

## Runs

| Run | Instance | What it shows |
|---|---|---|
| `tsh_safety` | 2 children, 1 slot, ctrl-c; 152 k states | no SIGCHLD is lost however handlers nest; a job leaves the list only after its process was reaped; a key never reaches a background job, not even through a handler that read `fgpid` long ago; every zombie is reaped in the end |
| `tsh_timely` | 2 children, 2 slots, ctrl-z; SIGCHLD does not happen to arrive between a fork or lookup and its update; 76 k states | apart from those windows the list agrees with the kernel: no process has two slots, no ghost jobs, one foreground job, stops recorded and only stops, `waitfg` returns |
| `tsh_waitfg_hangs` | violation of `WaitfgReturns` | `eval` unblocks SIGCHLD before `addjob`; a child reaped in between is listed afterwards and `waitfg` waits for ever |
| `csim` | 3 and 4 lines per set, 2 sets, up to 6 accesses, 7 addresses; 72 k states | tags unique, counters account for everything, the store of an 'M' line hits, the simulator implements `LruSets`, and more lines never hold less (LRU inclusion) |
| `malloc` | 3 blocks, payloads of 8, 20 and 40 bytes and empty requests; 34 k states | tiling, lists, links, coalescing, no leak, and payloads after any trace; the abstract `Allocator`; first fit misses no free block |
| `malloc_shrink` | violation of `ListsHoldFreeBlocks` | `mm_realloc` that shrinks a block before a free one merges the free block without unlinking it |
| `processors` | 21 952 programs, words of 4 bits, 2 registers; 228 k states | both processors implement the instruction set but for the `%rsp` of a push, call or pop that fails, which the programs reach; the pipeline never hangs, `y64sim` deviates at the listed steps only |
| `processors_stray_flag` | violation of `PipeIsIsaButForRsp` | a store, an instruction that is no `OPq` and a jump that is not taken: execution goes on at the jump's target |
| `y64asm` | 3 lines, 20 statements, 2 labels; 498 k states | exactly the wrong programs are refused, all others get the right bytes, and all of them |
| `transpose` | 32x32, 64x64, 61x67, 61x168, 3x5; 30 k states | the result is the transpose, but for the columns of B from 67 on at 61x168; no access leaves its matrix, 289, 1229 and 1999 misses at most for limits of 300, 1300 and 2000 |
| `transpose_61x168` | violation of `Transposed` | columns 67 to 167 of B are written by no tile |
| `lab10` | proxy: 2 connections, 3 descriptors; script: 9 tests, 5 kinds of proxy; 223 k states | the open descriptors are exactly those some thread is going to use, only `main` ends the process, full responses are logged with their size, every connection ends; correct proxies fail for two races of the script only, the faults that parts 1.7, 2 and the look at the log are for are always found, every test ends |

### Bounds, and why they are enough

*Shell.* With two children there are a job that is being added and one that ends,
two SIGCHLDs to coalesce, two candidates for the foreground. One slot makes the
table overflow with two children; two slots give `nextjid` its wrap and
`deletejob` a table that is not empty afterwards. Each run has one key, for the
cost of the runs under fairness: ctrl-c, whose handler nests with that of SIGCHLD,
and ctrl-z, whose jobs stop and are continued. All that `tsh_safety` says but for
`EveryZombieReaped`, and `OneSlotPerProcess`, is proved for all sizes and both
keys.

*Cache.* Six of the seven addresses are different blocks, five of which compete
for the three and four lines of set 0 and one of which is in set 1; two addresses are the same
block. Six accesses fill the larger set and evict from it. All but `Inclusion` is
proved for every geometry and trace.

*Allocator.* Memory is 152 bytes, the four lists keep the shape of `mm.c` (two
linear ones, one per power of two, one for the rest); `INITCHUNKSIZE`,
`CHUNKSIZE`, `REALLOCCHUNKSIZE` and `BIGSIZE` shrink with the sizes asked for. There is room for three blocks, their
splits, and one or two extensions. Remainders of exactly the smallest block,
of less and of more all occur. Traces have any length. `VIEW` drops the words inside free blocks beyond
the links and the unused ends of allocated ones: they are written before they
are read, so states that differ in them only have the same future. Block numbers
are interchangeable (`SYMMETRY`). Every property of the run is proved for all sizes.

*Proxy.* Two connections need up to four descriptors and have three, so that
`socket` and `accept` both run out, and a descriptor that one thread closes is
handed out to the other. Two addresses make `open_clientfd` try again. A body of one byte and one header line
go through every branch of the loops; the loops keep no state but counters.
`VIEW` drops a request that has been sent and descriptor variables of closed
descriptors, which the code does not read again.

*Processors.* The three free instructions of a program are at distances one to
three from each other, which is as far as forwarding and stalls reach; the fixed
ones ahead of them set registers that they then read at once, and the one behind
tells whether it was jumped over. The 28 instructions are of every kind, with
jumps on four conditions, addresses inside and outside memory, targets in front and behind, so that programs loop. Words of 4
bits reach both overflows; `INT_HALF` is half a word as `int` is half a `long`.

*Assembler.* Three lines are a definition, a use in front or behind, and something
between that moves the address: a gap, an alignment, a step back, also in front of 0. Addresses
go past `BYTE`, so values have more than one byte that is not zero. The property is
proved for all programs.

*Transposes.* The sizes are the real ones, and the general case has one more. The
program is straight-line code, so that `Transposed` fails before the first access: the
missing stores are nowhere in the sequence. The theorem covers all sizes.

*Grading script.* Lags, cut points and payloads are two each, so that one meets what
the one before has left. Part 1.7 runs one round: its tests follow each other without
a new proxy in it already, and part 1.6 goes through two exchanges. All positions of
a cut are tried. `VIEW` drops from a connection that is over, and that no client, no
server and no backlog refers to, all but what the log is asked for.

`lab10` checks proxy and script in one run, which starts either with `proxy.c` and no
test, or with a test and one of the five kinds of proxy (`LabInit`); the two parts share
no variable and no step, so their states add up. `proxy.c` itself under the script would
be a product too large to search.

Some pass runs leave something out on purpose. `malloc` runs under `SteadySpec`,
without requests that shrink a block in front of a free one, because
`malloc_shrink` shows what those do. `processors` runs under `SteadyAll`: no
instruction is `Misled`, that is, no jump carries a prediction flag that fetch
did not mean (`StrayFlag`, `processors_stray_flag`), and no address without a
base register, as in `mrmovq 8,%rax`, gets its base forwarded from an instruction that
writes none (`StrayBase`). `tsh_timely` shows that what goes wrong in those windows is all
that goes wrong.

### Fairness

*Shell* (`Fairness` in `Tsh`): the processor runs the shell, pending signals are
delivered, a child gets through its `setpgid` and `execve`, and a child that was
sent a signal acts on it. It is strong where a handler can interrupt the step,
since nobody types faster than the shell executes instructions; under weak
fairness alone, one key after the other could hold up `main` for ever. The user
and the programs owe nothing: no command need be entered, no program need end.

*Proxy* (`Fairness` in `Proxy`): `main` starts the thread it has accepted a connection for,
and every thread that can run does. A read or write is a step, so this includes
that a peer sends or goes away in the end. `log_mutex` needs no strong fairness:
each thread takes it once. Nobody need connect.

*Processors* (`SteadyAll`): `sim_run_pipe()` calls one cycle after the other.
*Grading script*: the script and the programs keep running; whichever of them
can do something, one of them does.

The other runs have no fairness. Deadlock checking is off everywhere because all
of these systems may come to rest: the shell exits, the trace ends, all
connections have been served.

## Proofs

All proofs are for arbitrary values of the constants, under the named
assumptions of the modules only (`MAXJOBS` is positive, 0 is no pid, the keys
are keys; the cache has at least one set, one line and one byte per block; the
allocator has a last list behind the linear ones, its heap holds the words of
`mm_init` and grows by more than the tags of a block; payloads are whole words; the
proxy's descriptors are numbers, and a server has at least one address; words
are at least two bits wide, programs and memory fit in the address range,
programs are sequences of assembled instructions; a byte has at least two values,
and a statement of the assembler has bytes, and a label as operand, only if it is of
a kind that has them).

**Shell** (`TshProofs`). The inductive invariant `IInv` is type correctness and

- `SlotChosen`: between lookup and update, `cur.slot` is a slot;
- `Frames`: each handler is at a label of its own code, and what `deletejob` is
  called with was reaped;
- `Nested`: the active handlers form a chain from `ctx` down to `main`, so that
  a handler returns to something active, and exactly once;
- `Known`: listed processes were forked, and the one about to be added is not
  on the list;
- `OneSlotPerProcess`, `Targets` (a process that a key handler is about to
  signal is not a background job), `NoLostChild`.

None of the last three is inductive alone. `Targets`, for instance, needs that
`main` is suspended while a key handler runs (`KeyHandlerSuspendsMain`, from
`Nested`), because it is `main` alone that moves jobs to the background.
Theorems: `TypeCorrect`, `NoChildIsLost`, `ProcessHasOneSlot`,
`OnlyReapedLeave`, `BackgroundIsSpared`, and `LiveChildrenListed`: a live child drops
out of the shell's sight by one step only, the `addjob` that finds every slot taken
(tsh.c:541-543). It needs nothing about the number of processes, and the instance of
`tsh_safety` has more of them than slots.

**Shell, in time** (`TshProofs`). `TimelySpec` is the shell without a SIGCHLD
between a fork or lookup and the update of the list that belongs to it; the run
`tsh_waitfg_hangs` shows why the rest cannot hold without that. The invariant
`Timely` was checked by TLC on the instance of `tsh_timely`, with both keys, before it
was proved on top of `IInv`:

- `Undisturbed`: no SIGCHLD handler runs on top of an update;
- `FreeIsClear`, `Updating`: free slots are clear, and the slot being updated
  lists a process;
- `ForegroundIsCurrent`: an FG job is the one of the present command, which `main` has
  not finished waiting for. It is this that `waitfg` maintains;
- `ReapedIsGone`: a reaped process is neither listed nor about to be, but for the
  one in the handler's hands;
- `StopsAreReal`, `StopsAreKnown`: a job is listed as stopped only if its process is,
  and a stop that is not listed is on its way (unreported, in the handler's hands, or
  about to be undone by the SIGCONT of `do_bgfg`).

Theorems: `TimelyInvariance`, `NoGhosts`, `ForegroundIsOne`, `ListedStopsAreReal`,
`StopsGetListed`.

**Cache** (`CsimProofs`). `IInv` adds `FreshStamps` (the stamps of valid lines
are past values of the counter and no two of a set are alike) and
`PendingIsResident`. All ways through `load()` end in `Stamp`, whose effect on blocks, order and
invariants is proved once (`StampEffect`, `StampInvariant`, `StampKeeps`,
`StampCount`); `Hit`, `Fill` and `Evict` differ in which block it overwrites. From
there, every step is a step of `LruSets` (`NextStep`). Theorems: `BlocksAreUnique`,
`CountersAddUp`, `StoreHits`, `ImplementsLru`.

The pair of caches is proved in the same module, from lemmas about one set as an
array of lines over any index set, which serve for both copies. The invariant
(`PairInv`, checked by TLC on the instance of the run before) relates the sets of the
two caches by `Paired`: the larger one has every block of the smaller one with the
same stamp (`Covers`), and if it has another one, the smaller set is full of younger
ones (`OlderBeyond`). The second part is what makes it inductive: when both evict, the
larger one gives up a block the smaller one has only if that one gives it up too. That
the larger set has room while the smaller one is not full is a pigeonhole argument
(`LargerHasRoom`). Theorem: `MoreLinesHoldMore`.

**Allocator** (`MallocProofs`). All that the run `malloc` checks is proved, under
`SteadySpec`, for every size of heap, chunk and request and any number of lists.

- What words of memory mean is said by a description of the heap that is not a
  variable: `sz` gives every block its size, `U` is the set of blocks in use, `F` that of
  listed blocks. `Shape` says that the blocks of `sz` tile the heap, `Marked` that their
  tags agree with `sz` and `U`, `Linked` that the list heads and links of `F` form one
  doubly linked list for each size class. A rank that falls along each list rules out
  cycles without counting. The three make up `Heap`.
- `Good` is `Heap` with all free blocks listed and no two of them adjacent. Between the
  calls of one routine it does not hold: `mm_free` marks a block before it is
  listed, `coalesce` has neighbours off their lists. Therefore `F` is a parameter, and
  each routine has a lemma from the `Heap` it is called with to the one it leaves:
  `Removed`, `Inserted`, `Coalesced`, `Extended`, `Placed`, `Malloced`, `Freed`, `Shrunk`,
  `GrownInPlace`, `TopExtended`, `Moved`, `Reallocated`, `Initialized`. Each says besides
  which blocks keep their place, size and content (`Keeps`). What splitting, merging
  and growing share, replacing the blocks between two addresses by others, is proved
  once (`ShapeRecut`, `HeapRecut`).
- The invariant `IInv` is that some description is `Good` and `Accounts` for the
  client's blocks: those in use are the prologue and the blocks the client holds, each
  large enough and with its payload intact. As part of it, the driver's verdict is
  never "bad range" or "data lost".
- What the program finds by following words is tied to the description by one lemma
  about walks: a walk whose steps are all different, or always go up, ends within as
  many steps as there is room for blocks (`NoLongWalk`). From it follow what a walk over
  the headers sees (`Walked`), what each list holds (`ChainEnds`, `ChainCovers`), and that
  the search looks at all of a list (`FirstFitWalks`, `FirstFitMissesNone`). That first
  fit may skip the lists before `ListIndex(asize)` needs that a larger block is never on an
  earlier list (`LaterList`, from the shifts of `get_list_index`).

Theorems: `Invariance`, `HeapTiled`, `ListsAreFree`, `FreeBlocksAreListed`,
`NothingIsWasted`, `PayloadsStayIntact`, `GrowthIsNeeded` and `KeepsPromise`, the
refinement of `Allocator`. The last one assumes that the heap has room for the
first chunk: `mm_init` fails otherwise, and the client has no allocator.

**Proxy** (`ProxyProofs`). `IInv` is type correctness and

- `Held`: what a thread is going to use is open and stands for its own
  connection (`ClientHeld`, `ServerHeld`), and an open descriptor is going to be
  used by the thread it was opened for (`NothingLeaks`). An open file names its
  connection, so no two threads can hold one descriptor; closing one therefore
  disturbs nobody else (`ServerClosed`, `ClientClosed`), and since it is open
  `Close()` does not call `exit()`;
- `AcceptedWaits`: the connection between `accept` and `pthread_create` is the
  one `main` has at hand;
- `Counting` and `OneInLog`: how much of a body has been read at each label, and
  that one thread at most is between `P` and `V`; types depend on both.

- `Sizes` says of each label of `sendResponse()` how what was received and what was
  counted differ there, as `sendResponse()` adds body and header up in different places.
  It rests on `Counting` only, not the other way round, and is proved as a second
  invariant.

Theorems: `TypeCorrect`, `DescriptorsAreSafe`, `ThreadsSpareTheProcess`, `LogIsRight`.

**Sequential processor** (`SeqProofs`). `OverflowIsExact` and
`ConditionsCompare` are about the arithmetic itself: the overflow flag is set
exactly when the true result is no word, and after `subq` each condition is the
signed comparison of its name. `SeqIsIsa` says that `Seq` implements `Isa`, but for
the `%rsp` of a push, call or pop that fails, for every program and word width: the inductive invariant is type correctness;
the step is one lemma per instruction, which evaluates the control signals of
`seq-full.hcl` for it and compares the result with the action of `Isa`.

**Simulator of lab 5** (`SeqProofs`). `Y64DiffersThereOnly` states `DeviatesThereOnly` for
every program, memory and width of words and of `int`, with type correctness as its
invariant: for each instruction, the simulator's action is compared with the only
action `Isa` has there (`OneAction`), and fails to be one exactly if the clause of
`Deviates` for it holds (`DeviatesAt`). So the list is complete, and nothing on it is
harmless. `FlagsAgree` is the comparison of the two versions of `compute_cc()`.

**Pipelined processor** (`PipeProofs`). `PipeIsIsa` says the same of `Pipe`, under `SteadySpec`, which leaves out the two
ways the lab's own additions mislead it (`Misled`: the flag of the run
`processors_stray_flag`, and an address without a base register). The invariant
`IInv` was checked by TLC on the programs of the run before it was proved:

- `TypeInv`: what D and E hold is what fetch, and decode, make of `prog` at their pc,
  or a bubble;
- `NothingBehind`: behind a return or a mispredicted jump that is not resolved yet
  there are bubbles;
- `OnPath`: D was fetched from where E's instruction was predicted to go, and F from
  where D's was;
- `Operands`: the operands in E are the registers as the programmer sees them
  (`SeenReg`), that is, with what M and W are going to write. This is the correctness
  of forwarding and of the load/use stall in one formula.

Each cycle is split by what the pipeline control does (run on, stall, cancel, wait for
a return), and each case shows that the invariant is kept and that the instruction
in E, if there is one that is not cancelled, is one action of `Isa`.

**In lock step** (end of `PipeProofs`). The run `processors` checks the three machines in
one specification, `SteadyAll`, where the other two move when the pipeline executes an
instruction. Its behaviours are behaviours of each machine on its own, for which
`SeqProofs` is instantiated with the variables of `Processors`; so `SeqInLockStep`,
`Y64InLockStep` and `PipeInLockStep` state the run's properties for its specification, the
first two also for runs in which the pipeline is misled.

**Assembler** (`Y64asmProofs`). The invariant `AsmInv` says what the tables of both
passes mean; TLC checked it on the instance of the run before it was proved:

- `Laid`: every line begins where the one before it ends, or where its `.pos` or
  `.align` puts it, and `vmaddr` is behind the last one;
- `Coded`: the bytes of a line encode its statement with some value;
- `Named`: while the program is not refused, the symbols are the labels of the lines so
  far, each at the address its line begins at, and no two lines have the same one;
- `Filled`: an operand has its value, or `reltab` still has an entry for it;
- `Filed`: if the program never goes back (`Ordered`), the file ends at `old_vmaddr`,
  and holds the bytes of the lines gone through at their addresses and zeros elsewhere;
- `Refused`: a program has failed only for an error that is in its text.

The property itself reads addresses off the text by a recursion over the lines.
`BeginIsAddress` shows that this recursion and `Begin`, where the list of lines says that a
line begins, agree: otherwise there would be a first line at which they do not
(`NatLeast`). That every byte of the file is the one the program puts there then
follows from `RelocatedEncoded` (what `relocate` fills in is what the encoding with the
right value holds) and `WriteStep`. Theorems: `AssemblerInvariant`,
`AssemblesOrRefuses`.

**Transposes** (`TransposeProofs`). The theorems hold for every size up to 256 x 256, the
static arrays of `tracegen.c`, and in their proofs the accesses are not run:

- `Sound` says of a tile, as a sequence of accesses, that it is right: every access is in
  its matrix; every store finds in its temporary the element that belongs there, loaded
  since by nothing else (`Fetches`); every load from B finds what an earlier store has
  left there, not yet written over (`Leaves`); and what only waits in B is written over
  before the tile ends.
- Every tile that the code has is sound: those that load up to eight elements and store
  them (`CopiesSound`), for any number of rows and columns, and the one in quarters
  (`QuartersSound`), which is where B serves as a buffer.
- The tiles of a size reach every element (`Submitted`): by division where the tiles
  divide the matrix, and by the loops over the rims where they do not. For 61 x 168 they
  reach columns 0 to 66 of B (`Done`).

The inductive invariant `Inv` is `Progress`: between two tiles everything in B is right,
and what the tiles done have stored is in it; within a tile, the temporaries and B hold
what the accesses so far have left there (`Carried`). `LoadCarries`, `StoreCarries` and
`TileCarries` are its three steps. An element that some tile stores is therefore right if
that tile is done, and among `ToCome` if not. Theorems: `TransposeInvariant`,
`EveryAccessInBounds`, `AlwaysTransposedBut61x168`, and `TransposeInTheEnd`, which is
`is_transpose()` for all other sizes. The recursion in `FlattenSeq`, by which the tiles are lined up, is
resolved by `Flattened`: there is a position at which each part begins, or there would be
a least number of parts without. The misses are not part of this: `FullMarks` is about
three sizes and one geometry of the cache.

`NatLeast`, that a nonempty set of natural numbers has a least element, stands in
place of an induction wherever one of these proofs needs it.

**Only model-checked.** Everything under fairness (`WaitfgReturns`,
`EveryZombieReaped`, `ConnectionsEnd`, `KeepsExecuting`, `TestEnds`), which is out
of the prover's reach; `FullMarks`, three numbers that a cache has to count; and the
grading script, whose tests are nine particular sequences of steps, run against a fixed
list of proxies.

## Findings

1. `tsh.c:205`: SIGCHLD is unblocked before `addjob` (`tsh_waitfg_hangs`).
2. `mm.c:317`: a free block is merged without leaving its list (`malloc_shrink`).
3. `pipe-full.hcl:251`: a jump is marked as predicted not to be taken by a test that
   is wider than the one that predicts it (`processors_stray_flag`).
4. `trans.c:183`: the case for 61 x 168 has the loops over the rim of the case for 67
   rows, and writes 67 of the 168 columns of B (`transpose_61x168`).

Seen while modelling, in words only:

- `tsh.c:363`: `do_bgfg` writes through a pointer that the handler may have
  cleared; the slot with pid 0 then hides the real foreground job from `fgpid`.
- `tsh.c:453`: if the foreground child has not reached `setpgid`, or was reaped after
  `fgpid`, `kill` fails and `unix_error` ends the shell.
- `mdriver.c:382`: `add_range` looks at the two ends of a new payload only, and
  accepts one that encloses an older one; without the shrinks of finding 2 it never meets one (`Invariance`).
- `proxy.c:216`: the size logged for a response that was cut short is not the
  number of bytes received.
- `pipe-full.hcl:250`: an address without a base register, as in `mrmovq 8, %rax`,
  gets as its base the value of an instruction ahead that writes no register.
- `y64asm.c:561`: text that is not understood is accepted in silence behind a label;
  line 962: `.pos` that goes back does not move the file back.
- `isa.c:837`: `step_state()` moves `%rsp` before a push, call or pop fails, and the
  processors do not.
- `grade.py:176`: part 1.4, "server/client crash", replaces the proxy before it closes
  the peers and looks whether it is alive before anything breaks, so that a proxy that
  exits then is found by part 1.7 only. `grade.py:799`: the log of a proxy that has
  exited is read for ever.
- `grade.py`: two races can fail a correct proxy (`Stale`, `Overtaken`).

## Plan

Done: shell, cache simulator, allocator, proxy, instruction set, both processors,
lab 5 simulator, assembler, transposes, grading script, and the proofs of all their
safety properties but those of the script and `FullMarks`. What is left is **lab1** `bits.c`: the
puzzles on narrow words against their specification.

## Not modelled

`lab7` translators and benchmarks, the output of the `lab8` harness, `lab9` timing and
the older copy in `ICS-lab9`, `get-pip.py`: generated or other people's code, or
formatting. `grade3.py` and `driver3.py` are the Python 3 versions of `grade.py` and
`driver.py`. `lab1` is straight-line arithmetic on words, `lab2`, `online` and the tutorials
are exercises without state of their own. Of the modelled programs the parsing and
printing of text is left out throughout, as said above for each.
