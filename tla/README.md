# Verification of the systems repository

The repository is a collection of small, independent C programs. They share no
code and no state, so each program is a component here, with modules of its
own. This directory holds TLA+ models of the programs, TLC configurations that
check them on small instances, and TLAPS proofs of the results that hold for
every instance.

Contents: [Inventory](#inventory) · [Modules and code](#modules-and-code) ·
[Runs](#runs) · [Fairness](#fairness) · [Proofs](#proofs) ·
[What the work showed](#what-the-work-showed) ·
[Abstractions](#abstractions) · [Not modelled](#not-modelled) · [Plan](#plan)

## Inventory

| component | state it keeps | operations | what is hard | what makes it correct |
|---|---|---|---|---|
| `baby_malloc/bby_malloc.c` | the list of block headers inside a static pool, `isInitialized` | `bby_malloc`, `bby_free` | long sequences of splits and merges; rounding at the largest `size_t`; fragmentation | live allocations are disjoint and as large as asked; no byte is lost; first fit |
| `steal/threaded_steal.c` | job queue, `job_index` under a mutex, open files and their offsets, files in a directory | `main` builds the queue, spawns 8 workers and joins them; each worker claims a job and copies a file in blocks | interleaving of workers; two jobs with one destination; a job whose destination is a source; failure of one job or of `pthread_create` | each job is copied once and whole; nothing else changes; the report comes last |
| `steal/steal.c` | the same without queue and threads | one argument after the other | overwriting; errors in the middle of the batch | the last copy to a destination stands |
| `key-value-store/spkvs.c` | `store.txt` and `temp.txt`, the command loop's buffers | PUT, GET, DELETE, UPDATE, LIST | the end of the process between the steps of DELETE; two shells on one store; lines that hold `=` or are longer than the reader's buffer | a dictionary that survives the process; unique keys |
| `toy-shell/tiny-shell.c` | children, pipe ends, the words of the line | parsing, redirection, `fork`/`exec`/`wait`, two-stage pipelines | which child a `wait` reaps; who holds a pipe's write end; `fork` failing half way | waits balance forks; pipelines end; files are connected as typed |
| `TCP-chat-server/server.c` | a thread, a buffer and a socket per client | accept loop, echo loop | a client that leaves during a send; a thread that cannot be created; full buffers | each client hears what it said; sockets are closed |
| `TCP-chat-server/client.c` | its buffer and socket | prompt, send, receive | echoes cut by the stream; end of the input; an empty string, of which nothing is sent; loss of the server | an echo the client is owed comes |
| `json-parser/jparse.c` | DFA state, two character buffers, key stack, `in_array`, `array_index` | one transition per character; a pair is printed when its value ends | nesting against a stack of 10 rows; one array flag for every level; a character that is read twice | each value is printed once, under the names that lead to it (all of them, but for the elements of an array below the root's members, whose keys the code cuts short); the text is read to its end |
| `ELF-loader/elfload.c` | the file's position, the table of headers, the loaded segments | header checks, segment loading, address translation | every call may fail, and each failure has its own cleanup; ends of segments that wrap | memory holds what the headers ask for; an address translates into its segment; what is allocated is freed |
| `mlfq-implementation/mlfq.c` | process table, three array queues | `add_process`, `enqueue`, `dequeue`, `is_empty` | positions that are only reused when a queue has run empty; the scheduler is not written | a queue gives back in order what it took |
| `dynamic-array/vector.c` | array, size, capacity | `initialize_vector`, `push_back`, `delete_vector` | growth; doubling a capacity of 0; a failed `realloc` | the elements are what was pushed |
| `custom-printf/sysout.c` | none | `sysout` with `%c`, `%s`, `%d`; `print_int` | 0, `INT_MIN`; a `%` at the end | what is written is the format with its arguments put in |
| `hexdump-II/hexditch.c` | a row buffer, the offset | dump of a file, row by row | the last, short row; read errors; signed bytes | what is shown is the file |
| `slumber/slumber.c` | remaining time | `nanosleep` restarted after an interrupt | interrupts at any time | it sleeps as long as asked |
| `signal-logger/logger.c` | the process's signal dispositions | a handler for every signal | signals that coalesce; handlers that interrupt each other, even inside `printf` | a signal that is sent is logged |
| `LRUcache`, `FileHandling`, `stack-growth`, `SIMD-addition` | none | a stub and demonstrations | – | – |

The components that interact are the chat server with its clients (sockets),
the workers of `threaded_steal.c` with `main` and with each other (queue,
mutex, files), the shell with its children (pipe, process table), and several
runs of `spkvs.c` through the files they leave.

`PROJECT.json` lists the same components with what is modelled of each, and
under `hazards` every place where the code can go wrong in a way a test would
hardly reach, with the properties that watch it. Where no property does, the
hazard's note says why.

## Modules and code

An abstract specification says what a component promises; the detailed module
has the source's operations as actions and is shown to implement it.

    Heap         <-implements-  BabyMalloc      <- MCBabyMalloc,    BabyMalloc_proofs
    CopyBatch    <-implements-  ThreadedSteal   <- MCThreadedSteal, ThreadedSteal_proofs
    CopyBatch    <-implements-  Steal           <- MCSteal,         Steal_proofs
                                (both EXTEND CopyFiles, the shared copy loop)
    KVMap        <-implements-  KVStore         <- MCKVStore,       KVStore_proofs
                                ToyShell        <- MCToyShell,      ToyShell_proofs
    EchoService  <-implements-  Chat = ChatServer + ChatClient over Sockets
                                                <- MCChat,          Chat_proofs
                                JsonParser over JsonText
                                                <- MCJsonParser,    JsonParser_proofs
                                Programs = ElfLoader, DynamicArray, ProcessQueues, Sysout,
                                           Hexditch, SignalLogger, Slumber
                                                <- MCPrograms,      Programs_proofs

Definitions whose comment says "Faulty variant" are not part of a model. They
are operators a plausible mistake would have produced, kept beside the
definition they would replace. `PROJECT.json` pairs each property with one of
them: the property is violated once the variant takes the definition's place.

### `BabyMalloc`: `baby_malloc/bby_malloc.c`

`hdr` is the list of `block_meta` headers by their offset in `memory_pool`,
with the fields `size`, `free` and `next`. `Malloc` is the entry of
`bby_malloc` up to the loop of `internal_allocation` (first-use
initialisation, rounding); `Skip`, `NotFound`, `TakeWhole` and `TakeSplit` are
one turn of the loop each, with the two exits and the split.
`FreeAlone`/`FreeMerging` are `bby_free` without and with the merge. `live` is
the client's view: the pointers it holds and what it asked for. The client
frees only what it holds, in any order, and asks for any size in `Requests`.
`size_t` has `WORD` values and wraps.

### `CopyFiles`, `ThreadedSteal`, `Steal`: `steal/`

`CopyFiles` has the files, each copier's descriptors, offset and buffer, and
the calls of the copy loop (`open` of source and destination with `O_TRUNC`,
`read`, `write` that may be short, `close`). `ThreadedSteal` begins when `main`
has built the queue: `Spawn`, `SpawnFails`, `Join`, `Report` are `main`; `Lock`,
`Fetch`/`Stop`, `Advance` are the critical section of `worker`, the read and the
increment of `job_index` being separate steps; the rest is `copy_files`, one
step per call. `Steal` is the sequential program. `status` records how
the copy of each job ended; `"partial"` is a copy that a read error cut short,
which both programs treat like a completed one.

### `KVStore`: `key-value-store/spkvs.c`

Each handler is cut where a crash or another shell can come between its calls:
`fopen`, reading, the flush in `fclose`, `remove`, `rename`. Files are inodes
under the names `store` and `temp`. `UPDATE` is `DELETE` followed by `PUT`, as
in the code, whatever the first returned. A word is the sequence of its parts
between `=` signs, so `strtok(line, "=")` and the line that is written are exact.
`Cut` tells how the 512-character `fgets` of GET cuts a long line that PUT and
DELETE read whole. The flush in `fclose` (`PutCloses`, `DelCloses`) writes
everything or, when the disk is full, any beginning of it, down to a character
in the middle of a word (`Cuts`); `ragged` are the files whose last line has no
newline, to which the next line is joined (`Joined`). `answer` is what `main`
prints after a GET, found or not: the key that was asked for, and the value
buffer, which after a miss still holds an earlier value (`ShowsStale`). The
command `exit` is `Exits`. `acked` and `disturbed` are history: the pairs whose
PUT has ended, and what has interfered (a kill, a full disk, words with `=`).
In `KVMap` a `Miss` shows the old value under the new key too, as the code does.

### `ToyShell`: `toy-shell/tiny-shell.c`

`Type` is `main` with `parse_input`; `Execute` and `Wait` are
`execute_command`; `PipeOpens` … `PipeWaits2` are `pipe_out`, one step per
system call. A child runs the code between `fork` and `execvp` in one step
(`ChildExecutes`, `LeftExecutes`, `RightExecutes`: redirection, pipe ends,
`exec`), for nobody sees what lies between. After it runs a program of which the model keeps
how much it reads and writes (`Reads`, `Writes`, `Ends`). `Held` counts the
processes that have an end of the pipe open, from which the end of the input
and SIGPIPE follow.

### `Sockets`, `ChatServer`, `ChatClient`, `Chat`: `TCP-chat-server/`

`Sockets` is the part of TCP the two programs use (external code): the backlog,
a byte stream in each direction which `recv` may cut anywhere, and what the
server's kernel knows of a client that left. `ChatServer` has `main`
(`Accept`, `Create`) and `handle_client`; `ChatClient` the loop of the client
with the end of its input, after which it sends its buffer again. `Chat`
composes them. `memset` and `strlen` are kept by what they do: the zeros end
what was received, but for a buffer that is full. The client's buffer is not
initialised, and what is typed may begin with a NUL: `line` may be empty, and
then nothing is sent and the client listens all the same.

### `JsonText`, `JsonParser`: `json-parser/jparse.c`

`JsonText` is the input: it writes a JSON text one name, value or bracket at a
time, as the parser reads, so that all texts within the bounds occur. It keeps
`written`, the path and contents of the last value, which is what the pair
printed for it is compared with. `odd` collects the things in a text the parser
has no answer for: an empty container, a container that is an element of an
array, a value that is not shown as it is written (a string with an escaped
quote, a number that is too large or too long).

`JsonParser` is `main`'s loop: one action for each transition of the switch,
guarded by the state and the class of the character (`Reads`), and `Ignore`
for the characters a state passes over. `Prints` is the `printf` at the end of
a value with the step of `array_index`; `Key` is the key it prints: the top row
and the index in an array, all rows and the name elsewhere. `EndNumber` leaves
the character in the text, as the `i--` in the code does.
`key_stack` is a sequence, `key_depth` its length. `UNDEFINED` is the state
after an array was used outside its bounds: a push on a full stack, a key read
from an empty one, a character too many for `key_buffer` or `val_buffer`
(`Within`), a key that does not fit `full_key` (`KeyBytes`). A value from `Number` is
what is shown of a number: itself, as far as `atoi` and `strtof` with `%.2f` give
it back (`IntMax`, `FloatExact`), and `Inexact` beyond, which makes the text an odd
one. `owed` counts the values that are written and not printed.

`KeysNameValues` expects fully qualified keys, as `json-parser/README.md:13`
promises them, but where the code does not print them: `Unqualified` says for
which paths, and `KeyShown` what is printed instead.

### `ElfLoader`: `ELF-loader/elfload.c`

`main`, one step per call that can fail, each with its error return (`Fail`
names the blocks that return frees). A file is described by its length, its
header's fields and its program headers; a byte is its position, so `memory` of a
segment shows which byte of the file went where, which are `Zero`, and which are
`Junk` left by `malloc`. Addresses have `Words` values and wrap; offsets and
sizes are the same words read as signed (`Negative`). An `lseek` to a negative
offset fails, and as nobody looks the `read` takes its bytes where the file stood
(`Seek`); a `read` of a negative size fails.
`vaddr_to_host` is the function of that name.

### The small programs

`DynamicArray`, `ProcessQueues`, `Sysout`, `Hexditch`, `SignalLogger` and
`Slumber` have one action per function or call, named as in the source.
`pushed`, `waiting`, `meant`, `rest`, `sent` and `elapsed` are history: what
the callers gave, sent or waited, which the properties compare with what the
program has made of it. `vector.c` and `mlfq.c` have no caller that uses them
fully, so any sequence of calls is allowed. `process_list` has no bounds check: in
`ProcessQueues` one `add_process` too many is a step too (`Defined` is false
then), and what the program does after it is not modelled. In `SignalLogger` the handlers form
a stack, as `sa_mask` is empty; a signal that is pending already is not counted
again, unless it is a real-time signal. `printf` and `fflush` are entered and
left in separate steps; a handler that calls one of them after it has interrupted
one makes the state `undefined`. `Hexditch` reads on after a read that an error
cut short, as the loop does, and `Hex` gives the digits of the 32-bit word that
`%02x` is handed. `Sysout` takes each conversion with
every argument; its ints have `MaxInt` as the largest value.

`Programs` puts these modules and `ElfLoader` beside each other with INSTANCE. They share nothing:
`program` chooses the one that runs, and a behaviour is a run of that one.

## Runs

| run | states | what it asks | bounds |
|---|---|---|---|
| `malloc` | 51,540 | `PoolTiled`, `UsedIsHeld`, `FirstFit`, `ScanEnds`, `ImplementsHeap` | pool of 128 bytes, header of 24 as in the x86-64 build, requests 0, 12, 40, 104, 8-bit `size_t` |
| `threaded_steal` | 64,094 | `JobsClaimedOnce`, `CopiesFaithful`, `OnlyTargetsChange`, `Terminates`, `ImplementsBatch` | 2 workers, 4 jobs, files of 1–2 blocks; `open`, `read`, `write`, `pthread_create` fail at any time |
| `threaded_steal_same_name` | violation | `TargetsWhole`: every destination holds one source | 2 workers, 2 jobs of one basename, no failures |
| `steal` | 1,171 | `LastCopyStands`, `ImplementsBatch` | 4 arguments, two of one name, one destination unwritable |
| `kv` | 704,882 | `UniqueKeys`, `OnlyTruncationDestroys`, `GetFindsTokens`, `ImplementsMap` | 1 shell, 8 commands, store of 2 lines when a line is typed; kills at any step; the disk fills up once, at any character |
| `kv_lost_by_kill` | violation | `Durable`: what was put stays until it is deleted | 1 shell, kills |
| `shell` | 52,794 | `WaitsBalance`, `PipelineWaitedFor`, `StdioAsTyped`, `PromptReturns` | 8 command lines, 3 children, a pipe of 1; `fork`, `pipe`, `freopen` fail; Ctrl-C |
| `shell_redirect` | violation | `OutputRedirected`: the output goes to the file after `>` | the same lines without failures |
| `chat` | 176,150 | `SocketsOwned`, `ImplementsEcho`, `EchoArrives`, `DisconnectHandled` | 2 clients saying 4 and 1 bytes, buffers of 3, backlog of 1; clients are killed, `pthread_create` fails |
| `chat_sigpipe` | violation | `ServerSurvives`: no client that leaves ends the server | the same without failing `pthread_create` |
| `json` | 737,682 | `KeysNameValues`, `ReadsToEnd` | texts of 3 levels, 2 members or elements each, 2 names, 4 values, at most 1 oddity; `key_stack` of 2 rows, buffers of 5, `full_key` of 8 |
| `programs` | 210,242 | `ImageLoaded`, `Released`, `VectorHolds`, `QueuesAreFifo`, `SysoutPrints`, `DumpShowsFile`, `SignalsLogged`, `SleepsItOut` | see below |

The passing runs of the larger modules, but for `steal`, also check the module's
`TypeOK`; in `steal` and `programs` every invariant reads all of the state it
is about and a value of the wrong kind would show in it. The run `json` takes
one to two minutes with two workers, each of the others at most about one.

Why the bounds are enough:

* `malloc`: five empty blocks fill the pool, so lists of one to five blocks
  occur in every arrangement of used and free ones. The requests give every
  kind of fit: exact; with a rest that holds a block; with a rest of less than
  a header, which goes with the block; and refused. The proofs below remove
  the bounds.
* `threaded_steal`: two workers are what a race on the queue or between two
  destinations needs. Four jobs let each worker take a second one after any
  outcome of the first. The proofs remove the bounds.
* `kv`: a store of two lines has a first and a second pair, so a deletion leaves
  one, none or both. The keys `a` and `ab` are the case that a cut write
  turns one key into the other. One shell may be killed and restarted any
  number of times. No command outlives its prompt, so longer inputs repeat
  these states.
* `shell`: three children are a pipeline and one that is still around from an
  earlier line; a fourth is refused by the full process table. A pipe of
  capacity 1 blocks a writer that has more to say, and `yes` never stops.
  `MaxTokens` is 6, so that one of the lines is cut by it.
* `chat`: the talkative client can fill its buffer and the server's, its
  message can be cut in two or more pieces, and a thread can still have two
  sends to do for a client that left; the other client sees whether that
  matters to it. A backlog of 1 makes a connection wait for an accept. Lines of 0
  to 2 bytes are typed, and a buffer begins empty or with a byte of junk.
* `json`: with two rows and three levels the stack is filled exactly by a plain
  text, and overrun after an empty container has left a row behind; the code's
  ten rows only move that point. Two items make a first and a second one, so a
  value follows a value, an array, and a closed object at every level. A third
  level is where the key of an array's element is cut. The plain names and
  values fit the buffers of 5 with their zero, and three names `full_key`; what
  is misread after an oddity may overrun them. One oddity per text
  shows what each does by itself; `KeysNameValues` claims nothing after it, and
  `ReadsToEnd` holds with it.
* `programs`: a table of up to three program headers, of all kinds and in
  orders that overlap, over files that end inside the header, the table and a segment, in
  an address space of 16, where 8 to 15 are negative as an offset, 15 is the size
  that equals a failed `read`, and 14 is an address near the end; nine pushes, which grow a vector of 4 twice; queues of
  3 places on two levels; all formats of up to 4 characters and all ints from
  -128 to 127; files of up to 4 bytes, of both sides of 128 and of the printable
  ones, and rows of 2; one process more than the table holds; 4 signals of four kinds, 4 of
  them sent; 2 seconds of 2 ticks and 3 interrupts.

`CHECK_DEADLOCK FALSE` stands only where the system may stop: the shell after
`exit`, the chat when everybody has left or the server is gone, the parser at
the end of its file, and the small programs, which end.

## Fairness

* `BabyMalloc`: the loop of `internal_allocation` goes on once entered. The
  client owes nothing.
* `ThreadedSteal`: `main` and every worker are scheduled again and again (weak
  fairness each). The mutex needs no more: a worker that stays at `Lock` while
  the others finish the queue gets it when they have stopped, since none comes
  back to it. Nothing is assumed of reads and writes but that they return.
* `ToyShell`: the shell and each child run. Nobody has to type. A program that
  reads a terminal or a file reaches its end; one that writes for ever to a
  pipe ends only by SIGPIPE, one that writes for ever to the terminal not at all
  (no line of the run starts one).
* `Chat`: `main`, each thread and each client run; nobody has to type. That a
  client whose connection never gets a thread waits for ever is not a matter
  of fairness, nor that one waits that has sent the empty string and has heard
  everything: `EchoArrives` speaks of clients that have a thread and are owed an
  echo (`Owed`).
* `JsonParser`: the loop over the characters goes on. Nobody has to write more
  text.
* `Steal`, `KVStore` and `Programs` state no fairness: only safety is asked of
  them.

## Proofs

`tlapm` checks every proof, with Z3, Zenon and LS4 as backends. The results hold
for all values of the constants that satisfy the modules' assumptions.

### `BabyMalloc_proofs`

Assumption (`SizesAssumption`): pool, header and word sizes are multiples of 8,
a header fits the pool, the pool's size fits a `size_t`, and requests are
values of `size_t`.

`IInv` strengthens the invariants the run checks:

* `NotYetInitialized`: before the first call nothing is allocated;
* `PoolTiled`: the list partitions the pool. This alone is not preserved: a
  split must know that
* `LastNotEmpty`: the last block has a payload, or a pointer could
  address the byte behind the pool, and that
* `Rounded`: offsets and sizes are multiples of 8;
* `UsedIsHeld`: a block is marked used exactly if the client holds it, which is
  what makes `bby_free`'s arithmetic meet a header;
* `PassedDoNotFit`: the loop invariant; `curr` is on the list and no block
  before it fits.

`MallocIInv`, `SkipIInv`, `NotFoundIInv`, `TakeWholeIInv`, `TakeSplitIInv`,
`FreeAloneIInv` and `FreeMergingIInv` show that each action preserves it. From
it follow `TypeCorrect`, `PoolAlwaysTiled`, `UsedAlwaysHeld`,
`PayloadsAlwaysAligned` and the action property `FirstFitHolds`.
`HeapImplemented` needs one more premise, `NoWrap`: no request is among the
seven largest values of `size_t`. It is necessary: rounding up wraps for
them, and `bby_malloc` of `SIZE_MAX` would succeed with an empty block. Under it a block is as large as its request (`RequestFits`), so what the
client holds are disjoint ranges, and every step of `BabyMalloc` is a step of
`Heap` or a stutter.

`WalkAlwaysAdvances` is what `ScanEnds` rests on: `Ahead`, the bytes from
`curr` to the end of the pool, falls by a header at least in each turn that does
not end the loop. That is `PoolTiled` again: the list cannot be a circle.

### `ThreadedSteal_proofs`

Assumptions: `CopyAssumption` (`Argv` is a sequence, files are sequences of
blocks, no path is the name used for "no file") and `ThreadsAssumption` (the
workers are numbered from 1 and there is at least one).

`IInv` has three parts: `ControlInv`, about the queue, the mutex and `main`;
`CopyInv`, about the files and descriptors; and `OwnFiles`, which ties the two:
a worker that may write has no file open for writing but its own job's target.
`ControlInv` contains `JobsClaimedOnce`; to preserve that it needs
`QueueHeld` (between the look at `job_index` and its increment the worker holds
the mutex and has read the current index) and, for the report, `Stopping` (a
worker that stopped saw the queue drained, and `main` has joined only stopped
ones).

* `TypeCorrect`, `JobsAreClaimedOnce`: parts of `IInv`.
* `OnlyTargetsAreChanged`: by `OwnFiles`.
* `BatchImplemented`: the workers refine `CopyBatch`. When the last worker is
  joined, `Stopping` says that the queue is drained and `JobsClaimedOnce` that
  nobody has a job, so all have ended.
* `EndAlwaysNears`, if no destination is a source: each step takes a job, or
  leaves one worker less to do (`Left`, a natural number) and the others as much, or
  is one of `main`'s last. The premise is needed: two jobs that read what the other
  one writes can go on as long as their files grow.
* `NobodyWaitsInVain`: until `main` returns, `main` or a worker can go on. The
  mutex is free or its holder is inside its critical section
  (`HolderReleases`), and a worker that `main` has created is at work or stopped
  (`SpawnedWork`). Both together are the safety half of `Terminates`.
* `CopiesAreFaithful`, under `TargetsApart` (no two jobs share a destination and
  none is a source): its invariant `FaithInv` says that each destination under
  way is the copied prefix of its source (`OwnCopy`), that sources do not change
  (`SourcesStay`), and that a finished copy stays. What becomes
  of two jobs with one destination is the subject of the run
  `threaded_steal_same_name`.

### `Steal_proofs`

Assumptions: `CopyAssumption`, and `OneCopier` (the program has no threads).

* `JobsInOrder`: the jobs before `i` have ended, those after it are pending,
  and `success` counts the ones that were reported as copied (`ControlInv`).
* `BatchImplemented`: from it, every step is one of `CopyBatch` or a stutter.
* `LastCopyAlwaysStands`, under `SourcesApart` (no destination is a source; two
  destinations may well be one). Its invariant `CopyInv` follows the copy under
  way (`OwnCopy`: the destination is the part of the source that has been
  read) and claims of each job that ended that its copy `Stands` unless a later
  one opened the same destination. The premise is needed: the destination is
  truncated before the source is read, so a file copied onto itself is lost.

### `Chat_proofs`

Assumptions: `SocketsAssumption` (buffers have a byte at least) and
`NobodyAssumption` (the name for "no client" is none).

`IInv` adds to the types `Buffers` (a thread holds bytes exactly from a `recv` to
the `send` after it) and `ConnectedOnce`: a client is in one place only, the
backlog, `main`'s hands, or a thread, and is in the backlog at most once.
`SocketsOwned` is not preserved without it, for an accept could meet a client
that has a thread. `TypeCorrect` and `SocketsAlwaysOwned` are its parts.

`EchoImplemented` rests on `Conversing`: what a client has said is what it has
heard, then what is on its way back, then what its thread holds, then what is on
its way to the server. Each step moves bytes over one of these borders and so
leaves the whole as it is, wherever the stream is cut.

Two theorems are what `EchoArrives` and `DisconnectHandled` rest on:

* `NobodyEverWaitsForTheOther`: as long as the server lives, a client that
  listens for an echo it is owed has bytes to read, or its thread can go on, or its connection still waits for its
  thread (or could not be given one); the thread of a client that is gone can
  go on. `Owed` says that bytes are on their way to or from the thread, or that
  the client has not heard all it said; that the second comes to the first, by
  `Conversing`, is the heart of the proof. It also needs that a socket is open in
  the kernel exactly while its client uses it (`PeersKnown`) and that no
  connection is lost between `accept` and `pthread_create` (`NotForgotten`). A
  client that is owed nothing and listens, after the empty string, does wait
  for ever.
* `ThreadsAlwaysNear`: each step of a thread lowers `ToDo`, what it has to
  receive, to send and to close, unless it ends the server, and only its own client's `send` raises it.

### `ToyShell_proofs`

Assumptions: `LimitsAssumption` (a line has room for a word, a pipe for a byte),
`TypedAssumption` (a command line is a sequence of words, and no word is one of the
names the model uses for a stream that is not a file), `ProgramsAssumption`
(what a program may read and write). Nothing
is assumed of the number of children, of pipes or of the lines themselves.

`IInv` adds `TwoSided` (`pipe_out` runs on a line with a `|`), `Plumbed` (the two
commands of a pipeline are the children `pids` names, each only at the stages
where it can still run, and nobody else has an end of the pipe) and `Balanced`,
which says for each stage of `execute_command` and `pipe_out` how many children
there are: as many as before the line, and those it made and has not waited for.
At the prompt `Balanced` is `WaitsBalance` and `Plumbed` gives
`PipelineWaitedFor`: `WaitsAlwaysBalance` and `PipelineAlwaysWaitedFor`.
`StdioAsTyped` is inductive by itself, with the lemmas about `Redirected` and
`Reopened` (`StdioAlwaysAsTyped`).

`NobodyEverStuck` is what `PromptReturns` rests on: when the shell waits, a child
it waits for has ended, or there is none, or one it waits for can go on, or one at the
other end of that one's pipe. `Plumbed` says who holds the ends of the pipe;
`EndsInUse` adds that a running program holds only an end it is connected to,
so that a reader of the pipe is never its own last writer. What remains is that the
program at the other end is either blocked on something that can happen or
gone, in which case the reader sees the end and the writer gets SIGPIPE.

The proof of `StdioAsTyped` failed at first for a line such as `ls > < f`, which
no run typed: there the `<` comes later and still is the word that hides the
`>`. `InputFirst` now counts a `<` directly behind the `>` as well, which is what
the code does.

### `KVStore_proofs`

Assumptions: `ShellsAssumption` (finitely many shells) and `CommandsAssumption`
(a key that `strtok` returns is not empty).

`TypesInvariant` and `TypeCorrect` hold for any number of shells: names and streams
are what `fopen`, `remove` and `rename` leave, and `store.txt` and `temp.txt` are
never one file (`Control`); and until a full disk has cut a write, each line of
each file is a key and a value (`Contents`). The other results are about one shell
(`Shells = {s}`), since two that run at once do lose each other's changes. They,
too, speak of the files until a full disk has cut a write: of what is left of a
line, `a` of `aa=x` say, neither that its key is new nor that it has a value is
true, and `UniqueKeys` fails at once without that condition. `Steady`
is what that one shell may rely on at each of its calls: its streams are the
files with the names, `temp.txt` holds what `Kept` keeps of `store.txt` when the
remove comes, and what was acknowledged does not have the key that is being
deleted. `Apart` says that the keys of each file differ.

* `AloneInvariant`: `Types`, `Steady`, `Apart` and `Clean` together, through kills
  at any step, until a full disk cuts a write.
* `KeysStayUnique`: from `Apart`.
* `OnlyTruncationLoses`: the action property `OnlyTruncationDestroys`. `remove`
  takes no acknowledged pair, for `Steady` says that `temp.txt` has them all.
* `MapImplemented`: every step of the shell is one of `KVMap` or a stutter. A
  PUT is done when its line is flushed, a DELETE when `store.txt` is removed. A
  GET is a `Show` where the dictionary has the key (`GetMoves`) and a `Miss`,
  which shows the value of the GET before, where it has not (`MissMoves`). It
  needs one more invariant, `Clean`: until something interferes, each line of
  both files is a key and a value and fits GET's buffer (`Pairs`), and GET still
  reads the inode that is named `store.txt`. Of such lines, no two with one key
  (`Entries`), `DictOf` is the dictionary; GET stops in one place only, so the
  value it shows is the one the dictionary has.
* `GetAlwaysFindsTokens`: the pointers that GET gives to `strcmp` and `strncpy`
  are never NULL where all words are plain, again by `Clean`.

`Kept` is written with `Those`, which lists the elements at a set of positions:
`NthCounts` and `ThoseAre` show that nothing else is in the list and that the
order stays. (`SelectSeq` is defined by recursion.)

### `Programs_proofs`

Assumptions: `ElfAssumption` (fields of a header are words, that is, numbers
below `Words`), `QueuesAssumption`, `DumpAssumption` (a file is a sequence of
bytes, a row is not empty), `SleepAssumption`, and `IntAssumption`: an int has 32 bits
at most, as the comment in `sysout.c` says. `Alone` reduces each program's proof
to its own actions. The invariants:

* ELF loader, `ElfInv`: `Image` says that the segments so far are the LOAD
  headers so far, in their order, each with the bytes its header asks for
  (`Faithful`); `Heap` which blocks are allocated at each step. `Released`
  (`AlwaysReleased`) follows
  from `Heap`; `ImageLoaded` (`ImageAlwaysLoaded`) from `Image` with `FirstHit` and `HitsHold`, which say
  what `vaddr_to_host` finds where ends may wrap.
* `VectorHolds`, `QueuesAreFifo`, `DumpShowsFile`, `SignalsLogged` and
  `SleepsItOut`, each with what the program has promised at the steps in
  between: the vector's block is as large as its capacity, a queue's places are
  those between front and rear, as long as the table is not overrun; the rows
  shown join without a gap and have each byte's digits, which `HexShows` compares
  with the word that `%02x` prints; the handlers
  on the stack still owe their lines, as long as none has interrupted another in
  `printf` or `fflush`; what was slept and what remains are the whole.
  The theorems are `VectorAlwaysHolds`, `QueuesAlwaysFifo`,
  `DumpAlwaysShowsFile`, `SignalsAlwaysLogged` and `AlwaysSleepsItOut`.
* `SysoutAlwaysPrints`: `SysoutPrints` is preserved because a `%d` writes the
  decimal of its argument. The loop of `print_int` takes its digits from the
  right, and the model defines that by recursion (`Digits`); the decimal is read
  from the highest place. `DigitsAre` shows that `Digits` satisfies
  its own equation, and `DigitsShown` that the two give the same characters. Both take
  the least number for which they would fail (`WFMin`) and compare it with its
  quotient by ten. The bound of 32 bits means ten places at most.

### `JsonParser_proofs`

Assumptions: `TextAssumption` (no name is empty; a plain string is its contents
in quotes, with no quote inside; a plain number is digits and points with an
optional sign; a literal is one of the three) and `SizesAssumption`.

`SizesAssumption` includes that a row and an index in brackets have room in
`full_key`, as 256 and 512 characters do. `TypesInvariant` holds for any text.
About plain texts, those with none of
`Oddities`, the invariant is `Plain` with `BuffersFit` (`PlainInvariant`): the containers are `Nested` as plain texts
nest them, and the parser is in one of seventeen phases. A phase says what is
left of the name, value or bracket that is being read and what the buffers, the
key stack, the array flag and the index hold there; `Due` that the last value is
not printed yet and would be printed with its path, `Settled` that nothing is
owed. There is a phase more than one expects for numbers: the end of a number is
seen with the character after it, so a comma and the next element can be in the
text while the number is still due, and then two values are owed
(`NextElement`).

* `EveryCharacterKnown`, for any text, from the types: as long as the parser is
  in no error state, some transition takes the next character.
* `TextAlwaysShortens`, for any text: each transition lowers `Unread`, in which a character after
  a number counts twice, for `i--` makes the loop read it again. These two are
  what `ReadsToEnd` rests on.
* `ParseStays`: every character moves the parser to the next phase. What makes
  it work is `ReadUpTo`: of two ways to split what is written, what has been read
  and what is left, or the token and what follows it, the first quote tells that
  they are the same.
* `GrowStays`: every name, value or bracket that is written starts a phase.
* `PlainTextsAreShown`: `KeysNameValues`, under the premises of `PlainInvariant`:
  no text has more than one level beyond the rows of `key_stack` (the root takes
  no row); each name, string and number fits its buffer with the terminating zero
  (`TokensFit`); as many names as there are levels fit `full_key` (`NamesFit`). Each
  premise is needed, since the code checks none of the four arrays: without it a
  text reaches `UNDEFINED`. What is shown is the fully qualified key, but for the
  elements of arrays below the root's members, whose keys are the array's name
  and the index (`KeyShown`); and numbers that `int` and `float` can give back.
* `TypesAndBuffers`: `TypeOK` under the same premises. What it shows beyond them is
  that no token adds to what an earlier one left in the buffer. `KeyHasRoom` counts
  the bytes of a key: all lie in a rectangle of levels and characters.

### What is only model-checked

Every safety property of the passing runs has a theorem. The liveness properties
(`ScanEnds`, `Terminates`, `PromptReturns`, `EchoArrives`,
`DisconnectHandled`, `ReadsToEnd`) stay with TLC, since the proof system can
reason neither about ENABLED nor about fairness. What they rest on is
proved for all constants, as far as it is safety:

| liveness property | nobody is blocked | every step gets nearer |
|---|---|---|
| `ScanEnds` | (no other process) | `WalkAlwaysAdvances` |
| `Terminates` | `NobodyWaitsInVain` | `EndAlwaysNears` |
| `PromptReturns` | `NobodyEverStuck` | – (a program may write for ever) |
| `EchoArrives`, `DisconnectHandled` | `NobodyEverWaitsForTheOther` | `ThreadsAlwaysNear` |
| `ReadsToEnd` | `EveryCharacterKnown` | `TextAlwaysShortens` |

The step that is left to TLC is the one from there to "eventually".

## What the work showed

Findings, each the subject of a run (`PROJECT.json`, `findings`):

* Two sources of one name are mixed by the threaded copier.
* DELETE and UPDATE lose the store if the process ends between `remove` and
  `rename`; the data is then in `temp.txt`, and the next DELETE empties that.
* In `sort < a > b` the output redirection is dropped.
* The second send to a client that left ends the chat server.

Behaviour met on the way, which the models keep and no run is about:

* `baby_malloc`: `bby_malloc` accepts the seven largest sizes and hands out an
  empty block, since rounding wraps. `bby_free` merges with the next block
  only, so adjacent free blocks remain until the first of them is freed again
  (`baby_malloc/README.md:12`: "Combine adjacent free blocks").
* `steal`: `job_count` is not compared with `MAX_JOBS`; a source that cannot be
  opened leaves the destination's descriptor open.
* `spkvs`: a GET of an absent key prints that key with the value of the GET before
  it, or with whatever the buffer held at the start, where
  `key-value-store/README.md:9` has "Retrieve the value associated with a key"; a full
  disk leaves the beginning of a line, which `fclose` reports to nobody and which is
  a second line for another key, or joins the next one; LIST before the
  first PUT passes NULL to `fgets`; a value that holds `=` is cut at it; a line
  that fills GET's buffer exactly leaves GET a piece without a token; two shells
  on one store lose each other's changes; at the end of its input it prompts for ever.
* Shell: `wait(NULL)` may take a background child in place of the foreground
  one; Ctrl-C ends background programs too; background children that ended
  stay in the process table.
* Chat: at the end of its input the client sends its buffer again and again; if
  the buffer is the empty string, since the input ended at once over a buffer
  that begins with zero or a line begins with NUL, it sends nothing and listens for ever; if
  `pthread_create` fails the socket stays open; a `recv` that fills a buffer
  makes `strlen` read behind it.
* `jparse`: the key of an array element is the array's own name and the index,
  without the names around it (`tags[0]` for the element of `{"user": {"tags":
  ["x"]}}`), where `json-parser/README.md:13` says "Constructs fully qualified keys".
  Integers that exceed an `int` and fractions that exceed a `float` or two places are
  not shown as they are written. After an empty container, or an array inside an array, names and
  values are taken for each other. Escapes are not decoded, and an escaped quote ends the
  string. The buffers of 256 characters, `full_key` of 512 and the stack of ten rows
  are not guarded, and the result of `fopen` is not looked at.
* `elfload`: a file that ends inside a segment is loaded with whatever `malloc`
  left there; a header with `filesz` larger than `memsz` is read past its block;
  a segment that ends with the address space translates no address; the
  segments loaded before a failure are not freed; the test address "just
  outside" is inside when the next segment adjoins. Class and byte order are
  printed and not checked. An offset from 2^63 on is negative for `lseek`, which
  fails unnoticed, so the bytes are read from elsewhere; an interpreter of 2^64-1
  bytes is taken as read when the `read` has failed.
* `vector`: the first push after `delete_vector` writes to a block of no size.
* `mlfq`: a queue refuses when its last place is taken, though there may be
  room at the front; `add_process` does not compare its count with
  `MAX_PROCESSES`, and the 101st process is written behind the table.
* `sysout`: `INT_MIN` is printed with characters that are no digits; a `%` at the
  end passes over the end of the format.
* `hexditch`: bytes from 128 on are shown with eight digits, where
  `hexdump-II/README.md:5-9` describes a dump of bytes in hex; a read error that
  gives no byte ends the dump like the end of the file.
* `logger`: `printf` and `fflush` are not reentrant, and a signal that comes inside
  one of them, which an empty `sa_mask` allows, runs a handler that calls them
  again: its line and the other one may be lost or mixed.
* `slumber`: after a full sleep it returns the seconds it was last asked for,
  not 0.

## Abstractions

* Copiers: a file is a sequence of blocks of `BUF_SIZE` bytes; a short write
  leaves a damaged block or none. The checks of the command line and of the
  directory before the queue is built, the progress bar, `MAX_JOBS` and the limit on descriptors are left out.
* Key-value store: lines instead of bytes; `fopen` succeeds unless the file is
  missing; `HELP` and malformed commands, which change nothing, and the end of
  the input are left out. The flush of a small file is one step, which on a full
  disk writes any beginning of the text; the disk fills up once.
* Shell: programs are what they read and write; the end of the input is left
  out.
* Chat: the checks before the loops, failing `malloc` and failing `accept`
  (which is tried again) are left out. A client connects once.
* JSON: a character is a string of length one; a number is compared by its value
  in hundredths, as `%.2f` shows it, up to the bounds within which the code shows it
  exactly; the rounding beyond them is not computed. White space, exponents and texts that are not
  JSON are left out.
* ELF: of a header only what the loader looks at; what is printed is left out
  but for the five translations.
* Small programs: `Sysout`'s writes succeed; a `printf` and an `fflush` in a signal
  handler are entered and left, with no step between, and when one interrupts
  another the model stops; so it does when `mlfq.c` has overrun its table;
  `Slumber` counts time in ticks.

## Not modelled

* `LRUcache/lrucache.c` is a stub: `get` has no body and there is no `put`.
* `mlfq.c`'s scheduler: `simulate_mlfq` and `check_arrivals` are declared but
  not written, and `run_process` breaks off. The file does not compile; its
  queues are modelled.
* `FileHandling`, `stack-growth` and `SIMD-addition` are demonstrations: they
  keep no state and have no condition that depends on an input.
* Command lines, help texts, colours, prompts and progress bars.

## Plan

Done, in this order: `BabyMalloc` with its proofs, `CopyFiles` with both copiers
and the proofs about the threaded one, `KVStore`, `ToyShell`, `Chat`,
`JsonParser`, `ElfLoader` and the small programs.

Proved since: every safety property of the runs (of the store with one
shell), the refinements of all abstract specifications, and the safety half of
every liveness property.

Open: what a store that two shells use at once still guarantees, and what the
parser prints of texts with containers inside arrays.
