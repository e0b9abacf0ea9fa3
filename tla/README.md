# A verification project for cpuminer

cpuminer's `minerd` asks a bitcoin server for work (`getwork` over JSON-RPC),
searches the 2^32 nonces of a block header for one whose double SHA-256 ends in
zeros, and sends what it finds back. This directory holds TLA+ models of the
parts where that can go wrong, TLC runs that check them on small instances, and
proofs, checked by TLAPS, of what holds for every instance.

Line numbers refer to `src/` of this repository. "Checked" means by TLC for the
constants of a run, "proved" means by TLAPS for all values of the constants.

## 1. The system

### Components, state, operations

| Component | Code | State | Operations | What makes it correct |
|---|---|---|---|---|
| main and start-up | `cpu-miner.c` 924-1019 | `thr_info[]`, `work_restart[]`, thread ids | create queue and thread of work I/O, long poll, each miner; join work I/O | nobody uses a queue before it exists; the process ends when work I/O does |
| work I/O thread | `cpu-miner.c` 302-475 | its queue, the command in hand, the count of failures, a curl handle | pop a command; get work and push it to the asker; submit a solution; retry, pause, give up; free the command | commands are executed once, in order, and answered; none is dropped while the thread lives |
| miner threads | `cpu-miner.c` 491-667 | their queue, `work`, `max_nonce` | ask, wait, scan, adjust `max_nonce`, submit | a miner waits only for what will come; a solution is never lost; stale work is left |
| long-poll thread | `cpu-miner.c` 669-748 | its queue, the URL, consecutive failures | wait for the path, poll, raise every restart flag, give up after 11 failures | one path; a flag for every miner at every new block |
| thread queues | `util.c` 441-552 | list, `frozen`, mutex, condition variable | `tq_new`, `tq_push`, `tq_pop` (with or without deadline), `tq_freeze`, `tq_thaw`, `tq_free` | an atomic FIFO that can be frozen; no lost wakeup |
| linked list | `elist.h` | `next`, `prev` | `list_add_tail`, `list_del`, iteration | the links always form one ring |
| JSON-RPC transport | `util.c` 98-322 | the handle's options, upload and reply buffers, the header seen; `have_longpoll`, `opt_scantime` | one call: set options, transfer with three callbacks, activate long polling, decode, reset | each call is independent of the one before; request and reply are whole; the path is handed over once |
| nonce scanners | `sha256_*.c` | nonce, `hashes_done`, `work_restart[i].restart` | lower the flag, hash a batch, test, stop | what is returned solves; the range is covered once; the loop ends |
| scan-time control | `cpu-miner.c` 633-656 | `max_nonce`, `opt_scantime` | measure, adjust, cap | scans take about `opt_scantime` seconds |
| target test | `util.c` 396-439 | none | compare hash and target, log; returns true in any case (its FIXME) | the comparison is that of two 256-bit numbers |
| work decoding, codecs | `cpu-miner.c` 249-300, `util.c` 324-394, `miner.h` 121-143 | none | `hex2bin`, `bin2hex`, `work_decode`, swaps, `timeval_subtract` | inverse of each other; refuse what is not a piece of work; exact differences |
| options, configuration | `cpu-miner.c` 217-238, 750-943 | the `opt_*` globals | parse the command line, then the file; check the credentials | the documented bounds; the file prevails; a thread at least |
| JSON values | `jansson/value.c`, `jansson.h` | values with reference counts | create, share, edit, copy, compare, drop | a value lives exactly as long as somebody refers to it |
| hashtable | `jansson/hashtable.c` | a list of pairs, buckets that point into it | `hashtable_set`, `_get`, `_del`, `_clear`, `_close`, iterator | a map, through collisions and rehashes |
| JSON text | `jansson/load.c`, `dump.c`, `utf.c`, `strbuffer.c` | lexer, buffers, the marks of a dump | `json_loads`, `json_dumps` | exactly JSON is read; what is written is read back |
| logging | `util.c` 59-98 | `time_lock` | `applog` | |
| SHA-256 transforms | `sha256_*.c`, `x86_64/*.asm` | none | the compression function | standard test vectors |
| build | `configure.ac`, `Makefile.am` | | selects scanners and jansson | |

### How they interact

- **Queues.** Miner to work I/O (`struct workio_cmd`), work I/O to each miner
  (`struct work`), work I/O to long poll (the path). They are the only channels
  with a lock.
- **Shared flags.** `work_restart[i].restart` is raised by the long-poll thread
  and lowered by miner `i` when a scan begins. `have_longpoll` and
  `opt_scantime` are written by work I/O, `opt_scantime` is read by the miners.
  None is locked.
- **Callbacks.** libcurl calls `upload_data_cb`, `resp_hdr_cb` and `all_data_cb`
  on buffers on the stack of `json_rpc_call`.
- **Thread ends.** A thread that ends freezes its own queue, so that pushes to
  it fail. It does not empty it and does not wake anybody but a popper. `main()`
  joins work I/O only, and its return ends the process.

### What is hard

Interleavings at the queues' mutexes and of the flags; `tq_pop`, which waits
once and returns NULL on any wakeup without an entry; failing calls with retries
while other miners' commands wait behind them; memory that cannot be allocated;
a restart between the server's answer and the start of the scan; nonces and
limits at 2^32; a feedback loop over whole seconds; options of a curl handle
that outlive the call that set them; allocations that fail between the two
steps of an update of a JSON value; a table that is rehashed under an iterator,
or cannot be and is used all the same.
`PROJECT.json` lists every hazard at its
line with the properties that cover it.

## 2. Modules

| Module | Models | Checked by | Proofs |
|---|---|---|---|
| `GetworkClient` | what the threads promise the getwork server and the miners (abstract) | through `Minerd` | |
| `Minerd` | all threads, their queues and flags; implements `GetworkClient` | `MCMinerd` | `MinerdProofs` |
| `FrozenFifo` | what a thread queue promises (abstract) | through `ThreadQueue` | |
| `ThreadQueue` | `tq_*` with mutex and condition variable; implements `FrozenFifo` | `MCThreadQueue` | `ThreadQueueProofs` |
| `JsonRpc` | `json_rpc_call` and its callbacks | `MCJsonRpc` | `JsonRpcProofs` |
| `ScanHash` | the nonce loops of the six scanners | `MCScanHash` | `ScanProofs` |
| `ScanTime` | the control of `max_nonce` | `MCScanTime` | `ScanProofs` |
| `EList` | `elist.h`, as operators on a heap of pointers | through `Lists`, `Hashtable` | `EListProofs` |
| `Lists` | a client of `elist.h`: some lists in one heap | through `Library` | `HelperProofs` |
| `KeyMap` | what a hashtable promises (abstract) | through `Hashtable` | |
| `Hashtable` | `hashtable.c` on an `EList` heap; implements `KeyMap` | `MCHashtable` | `HashtableProofs` |
| `JsonValue` | `value.c`: values, reference counts, and a client of them | through `Library` | |
| `JsonText` | parser and writer on tokens; extends `JsonValue` | through `Library` | |
| `JsonLex` | the lexer, the string writer and UTF-8, on bytes | through `Texts` | `TextProofs` |
| `Texts` | `Helpers` whose input is a string to write and read back, a text with escapes or a number, and reference definitions | through `Library` | `TextProofs` |
| `Codecs` | `hex2bin` to `timeval_subtract` | through `Helpers` | `HelperProofs` |
| `Options` | command line, configuration file, credentials | through `Helpers` | `HelperProofs` |
| `Helpers` | a growing input, handed to `Codecs` or `Options`, and reference definitions | through `Library` | `HelperProofs` |
| `Library` | composes `JsonText` (with `JsonValue`), `Lists` and `Texts` (with `Helpers`) | `MCLibrary` | |

Definitions with a suffix after an underscore (`GetFailed_Dropped`) are mutants:
a definition as a plausible bug would make it, used only to see that a property
notices. They are not part of any next-state relation.

### Minerd and GetworkClient

The threads are `0 .. N-1` (miners), `N` (work I/O) and `N+1` (long poll), as in
`thr_info`. `pc[t]` says where thread `t` is, `wq`, `mq[m]`, `lpq` are the
queues' contents, `frozen[t]` their flags, `wc`, `failures`, `answer` the locals
of work I/O, `work[m]` and `batch[m]` those of a miner, `restart[m]` the restart
flags. A piece of work is the number of the block it builds on.

A queue operation is one step. That is what `ThreadQueue` justifies: it
implements `FrozenFifo`, whose calls take effect at one instant. One action
stands for what a thread does between two points where another thread can see it
or be seen:

- `StartWorkio`, `StartLongpoll`, `StartMiner`, `JoinWorkio`: `main()`.
- `WorkioInit`, `WorkioPop`, `GetReply`, `GetFailed`, `PushAnswer`,
  `SubmitReply`, `SubmitFailed`, `PauseEnd`, `WorkioOut`: work I/O. `CallFailed`
  is the retry rule of both kinds of call, `LpActivation` what a reply does to
  long polling.
- `GetWork`, `PopWork`, `ScanStart`, `ScanOn`, `ScanFound`, `ScanEnd`,
  `SubmitWork`, `MinerOut`: a miner.
- `LpPop`, `LpConnect`, `LpReply`, `LpFailed`, `LpRestart` (one store),
  `LpOut`: long poll.
- `WorkioSpurious`, `PopSpurious`, `LpSpurious`: `tq_pop` returns NULL.
- `NewBlock`: the bitcoin network (external).

Faults are a constant: allocations ("oom"), spurious wakeups, failed RPC calls,
`curl_easy_init`, and `tq_new` or `pthread_create`. `asked` and `unsent` are
history variables: no guard reads them. A scan of several batches that sees its
flag is `ScanEnd`; which loop sees it when is the matter of `ScanHash`.

`GetworkClient` knows neither threads nor queues. It says what a miner does (asks,
takes the answer, leaves or solves the work, hands the solution in, quits), what
the server does (answers a request with the block of that moment, settles a
solution, finds a new block) and that what was sent is forgotten only when the
client closes: a request is answered once however often its call fails, and only
after the miner's last solution was settled. `Conversation` at the end of `Minerd`
is that specification under a mapping: a miner's `place` comes from its `pc`, a
request or a solution is on its way (`requests`, `handed`) while it is queued or
executed and work I/O goes on, an answer (`offer`) from the reply until it is
popped. Retries, restarts, long polling and start-up are stutters, except that
the step with which work I/O gives up closes the client.

### ThreadQueue and FrozenFifo

`FrozenFifo` has a call, an effect and a return for each operation. `ThreadQueue`
adds the mutex (`owner`), the position in the call (`pc`) and the wait set
(`pc[t] = "wait"`). `pthread_cond_signal` wakes one sleeper if there is one. A
woken thread has to get the mutex back, and others may come first. The
refinement mapping is the identity on the shared names: an operation takes
effect while its thread holds the mutex. `tq_pop` returning NULL with an entry
in the list is allowed by the abstract queue only after a deadline.

### JsonRpc

One action per callback of libcurl and per stage of the call. A handle is the
set of options that matter, each with the number of the call whose stack it
points to. `Call` sets them and leaves the header callback alone when it does
not look for the header, exactly as the code does, so a handle that was not
reset would keep a dead pointer. The external part is what libcurl documents:
chunks of any size, headers of several responses after redirects, a body cut
short, an empty body with or without an empty chunk, failure at any time.
The long-poll thread may end, and freeze its queue, at any
moment (`FreezeQueue`): a path that comes later is refused and lost.
`heap` and `lost` count what is allocated, freed and leaked. JSON text is
abstracted to "whole and valid", "whole but refused" and "garbage".

### ScanHash and ScanTime

`ScanHash` has one action per kind of loop: the scalar one of `scanhash_c`,
`scanhash_cryptopp`, `scanhash_asm32` and `scanhash_via`; the 32 lanes of
`ScanHash_4WaySSE2`; the four lanes of `scanhash_sse2_64`. They differ in when
the nonce advances, what is counted and how "nothing" is returned. The set of
solutions is chosen in the initial state. `ScanTime` keeps `max_nonce` over many
scans, with the integer division, rounding and cap of the code; `rate` stands
for speed, load and clock and may change until it is `steady`. What a scan hashes
and what it counts differ from scanner to scanner: `Scanners` has the size of a
batch and how much of it goes uncounted when it holds a solution. `FullScan` ends
at the first batch that reaches the limit, `ShortScan` earlier; `WrappedScan` is
the 4way scan that has stepped over its limit and 2^32, up to `MaxWraps` times, and
ends by a solution or a restart with a count from the last wrap on.

### EList, Hashtable and KeyMap

A heap is two functions, `next` and `prev`. `Holds(h, head, s)` says that the
ring of `head` is the sequence `s`, in both directions. `ThreadQueue` keeps its
entries in a sequence; that `INIT_LIST_HEAD`, `list_add_tail` and `list_del` of
the first entry are the empty sequence, `Append` and `Tail` is what
`EListProofs` proves.

`Hashtable` has that heap, the buckets' first and last pair, and memory for
pairs (`Place` says where `malloc` puts the pair of a key, which makes runs
smaller and decides nothing, as a pair's address has no meaning). A bucket's
pairs are neighbours in the list. A failed rehash leaves a table whose buckets
are gone and whose number of buckets has moved on (`status = "broken"`). The list
is whole, so the iterator, an update through it and close still work; set, get,
del, clear and `hashtable_iter_at` go through the null pointer, as a set of a full
table of the largest size reads past `primes`: `Lost`, after which nothing is
said. `KeyMap` knows a map, the key of the iterator, and which keys it has passed;
its `state` has the same four values, and `Full` is the sets of keys that leave no
room for another.
The refinement mapping reads the map off the allocated pairs (`keyMap`; that
these are the pairs of the list is part of what is proved), the iterator's key
off its pair (`position`), and the keys passed off the way from the list's head
to the iterator (`passed`).

### JsonValue, JsonText, JsonLex

A function of jansson is an operator that takes a memory and returns one, with
the result of the call. `m.fail` is the number of the allocation that fails, 0
for none, and counts down. The client may hold any references and call anything
that its references allow. `lost` counts a reference nobody holds any more: the
one that `json_object_set_new` neither stores nor drops without memory for the
key (`value.c` 128). The key that is lost when `hashtable_set` fails (134) is no
value and not counted. A client that lost a reference stops.

An object has its members in the order they were added and `order`, the number of
its hashtable's rehashes: `hashtable_set` here rehashes as in `Hashtable`, and if
that fails `order` is 0 and the object broken (`Broken`). A call that looks for a
key in it sets `crashed`, with which the client and what the properties say
end. `json_object_copy` and `json_object_deep_copy` do so themselves: they go on
after a set that failed (`value.c` 315, 340). Of `json_equal` and the sorted dump,
which look for keys too, the properties speak where no object is broken.

`JsonText` works on tokens, with the allocations of both directions and the
mark a dump leaves on a value while it writes it. `JsonLex` reads and writes
single tokens byte by byte. Growing buffers (`strbuffer.c`) are sequences.

### Codecs, Options, Helpers

Pure functions. A byte has two digits to a small base, a word two bytes, a
second three microseconds; nothing in these functions depends on the size, and
the theorems are for every size. In `Options`, a command line is a sequence of
options with arguments, as `getopt_long` finds them, and a file a record of
members. `Helpers` has one variable for the input and one that says whose input
it is (`kind`); a step appends a symbol, and an invariant compares the function
with a reference definition. A loop of the code is a recursive function, never a
RECURSIVE operator, so that what it computes can be proved.

### Lists and Library

`Lists` is a client of `elist.h`. `heap` has the pointers, `held` what each list
should hold; an action is one call, under what the comments of `elist.h` ask of
the caller. `list_splice` leaves the emptied head pointing into the other list
and wants it initialised before it is used again, which `Splice` does.

`Library` runs the clients and the inputs side by side, one at a time: `kind` is
the name of a client of `JsonValue`, "lists" for that of `elist.h`, and else
the kind of input. `Bound` names the clients of `JsonValue` and what each keeps
within. `Library` adds the kind that needs a grammar to compare with, JSON.

## 3. Runs

| Run | Instance | Shows |
|---|---|---|
| `minerd_safety` | 2 miners, 1 retry, long poll, all faults, 2 blocks | refines `GetworkClient`; request order, fresh work, path handed over once |
| `minerd_live` | 2 miners, failing calls and curl handles, long poll, 2 blocks, scans of up to 2 batches | `WaitEnds`, `SolutionSent`, `WorkioDeathEnds`, `StaleWorkLeaves`; no orphaned wait, no lost solution; the path handed over once and then polled |
| `minerd_outage` | 2 miners, no limit on retries, long poll, 2 blocks | an outage of any length is survived |
| `tq_safety` | 2 producers, 2 consumers, freeze and thaw, deadline, spurious wakeups, no memory, 2 entries | refines `FrozenFifo`; no lost wakeup |
| `tq_live` | 2 producers, 1 consumer, a freezer | NULL means frozen; nobody is forgotten |
| `jsonrpc` | 3 calls, 2 units each way, 2 header lines per call, 2 paths, the queue frozen at any moment | section 2, JsonRpc |
| `scan` | 32 nonces, 8 lanes, all limits, up to 2 solutions in a batch, a restart at any time | results, coverage and counts, restarts, termination, and what 4way does near 2^32 |
| `scan_4way_wrap` | the largest limit the code allows | violated: a 4way scan that never ends |
| `scantime` | 8-bit nonces, 4 rates, 2 scan times, batches of 1, 4 and 16, 2 wraps | cap, target, convergence |
| `scantime_stuck` | 2 rates | violated: a small limit stays small |
| `hashtable` | 4 keys that collide, 3 then 4 buckets, 2 values, an iterator, failing allocations | refines `KeyMap` |
| `library` | see below | the sequential code against its references |

`SolutionTracked` and `SolutionSent` are about delivery at least once: when the
reply to a submission is lost, the solution is sent again, and the server may
see it twice.

Bounds, and why they are enough. Two miners make every pair of commands from
different miners meet in the queue; what one miner's commands do to another's
does not change with a third, and the proofs drop the bound. Two blocks give one
block change, which is what stale and fresh mean. One retry distinguishes the
first, the last and the failed attempt. `MaxBatch = 1`, in `minerd_live`, gives a
scan a batch that goes on and one that stops; elsewhere a scan is one batch.
`minerd_live` has both ends of work I/O, with its queue frozen after failed calls
and left open without a curl handle, to which miners then still push. In `ThreadQueue` two entries and two sleepers are
what a lost wakeup takes. In `JsonRpc` the second call meets what the first left
and the third what a reset in between left; two units let every chunk boundary
fall. In `ScanHash` five-bit nonces keep the proportions: 8 lanes, a limit of
W - 6 as 0xfffffffa is 2^32 - 6, and a last batch that begins below the limit.

In `scantime` a batch of 16 of 256 nonces holds the cap of 250, as the last batch
of 32 holds 0xfffffffa.

In `hashtable` three keys fill a table of three buckets and make the next set
rehash it, while the hashes put three keys into one bucket, so that a pair with
neighbours on both sides is deleted; two values tell an old from a new one.
Four keys fill the larger table, of four buckets, and the next set has no room.

`library` explores twelve kinds of input. Two clients of `JsonValue`, with two
references each besides `json_true()`: "nested" has three values (containers and two
strings), two slots, one key and an array table of one instead of eight, so that the
second entry makes it grow; "members" has two values (objects and an integer) and
three keys, at most one of its slots holding other than `json_true()`, where the
first member fills an object and the second rehashes it. The allocation that fails is one of the first two of a
call or the sixth: that is the rehash in a copy of three members (the object, its
buckets, key and pair, the next key, the rehash), after which the copy's third set
crashes. Then come texts of up to
six tokens (an object within an object, an array of two); strings of up to four
bytes over the first and last byte of each row of the UTF-8 table; four pieces
of escaped text, among them both halves of a surrogate pair and truncated
escapes; numbers of up to five characters, with `IntMax` 99; hexadecimal strings
of up to four characters, with the sign, space and stray letters that `sscanf`
takes; the four fields of a piece of work, each good, absent, not a string, too
long or too short; hashes and targets of two words of two bytes; two times with
microseconds in and out of order; command lines of up to three options over the
boundary of each range and six files; every sequence of calls, of any length, on
two lists that share three entries.

`CHECK_DEADLOCK FALSE` is given only where the system may stop for good:
spurious wakeups and failed allocations may leave `main()` waiting for work I/O,
which waits for nobody; a table or a value whose missing memory was used is at its
end; and an input of full length does not grow.

### Fairness

`Minerd!FairSpec`: weak fairness of each thread, because the operating system
schedules every runnable thread; the threads are independent, so an action of
one does not disable another's for good. Spurious wakeups and new blocks have
none: nothing promises them. A failing call may fail every time it is tried.
`OutageSpec` adds strong fairness of the two replies: the server is not out of
reach for ever. `ThreadQueue!FairSpec`: weak fairness of each thread inside a
call, strong fairness of taking the mutex, as others may hold it in between but
not always win. `JsonRpc!FairSpec`: the thread runs, and libcurl keeps to
CURLOPT_TIMEOUT; the server owes nothing. `ScanHash!FairSpec`: the miner runs;
no restart need come. `ScanTime!TimeFairSpec`: a scan now and then runs to its end.

### What the violated runs found

- **`scan_4way_wrap`** (`sha256_4way.c` 120, 142). The nonce is a multiple of 32.
  For a `max_nonce` above 0xffffffe0 no multiple of 32 reaches it, the nonce
  wraps to 0 and the scan runs until a solution or a restart. `--scantime` is
  documented as an upper bound (`cpu-miner.c` 188-190). It needs a hash rate
  times scan time above 2^32 in one adjustment.
- **`scantime_stuck`** (`cpu-miner.c` 650). The limit is adjusted only if a scan
  took more than half a second. One scan that seems very long (a clock that is
  set, a suspended machine) makes the limit so small that later scans are
  shorter than that, and it never grows again; the miner then asks for work many
  times a second. The comment (647) says the adjustment meets the target time.

Other disagreements are plain from the text and have no run:

- `NEWS` 87 says that the program exits when all threads have exited; `main()`
  (`cpu-miner.c` 1014) waits for work I/O alone, and a process whose miners have
  all ended for want of memory goes on.
- The help (`cpu-miner.c` 180-182) calls `--retries -1` "never", while the code
  (393) retries for ever; `minerd_outage` checks what the code does.
- The string given to `getopt_long` (913) lacks R, u and p, which the table
  (217-238) and `parse_arg` have for retry-pause, user and pass: only their long
  forms work. The default for `--threads` in the help is 1, in the code the
  number of processors.
- `example-cfg.json` says that any long option may be given in the file; the
  loop of `parse_config` passes over "config".
- With the 4way scanner a solution at nonce 0xffffffff is taken for none
  (`cpu-miner.c` 611). It takes a `max_nonce` above 0xffffffc0; `SolutionFound` says
  that this is the only nonce dropped, and `scan` reaches it.

Behaviour of jansson that the models have, or stay clear of, and no property is
about: `json_object_update` uses the other object after it may have dropped it
(`value.c` 178), so the client of `JsonValue` holds a reference of its own;
`json_array_remove` moves one entry too many, from past the end of a full table
(550), into a place nobody reads; `json_string_set` does not look at the type
(685); copies leave out what there is no memory for (298, 323, 616), or crash if it was
memory for a rehash; a dump does
not notice that a key could not be written (`dump.c` 344, 381); a byte at the
end of a text that begins no character is taken for the end (`load.c` 166); a
real is judged by an `errno` that may be an older one (487).

## 4. Proofs

Every theorem holds for all constants that satisfy the named assumptions: at
least one miner, retry limits that are integers, any set of faults, bounds that
are natural numbers (`MaxBlock` and `MaxBatch` only cap the state space, and are
arbitrary). No fairness is used.

**Minerd** (`MinerdProofs`). `TypesCorrect` is proved from `TypeInv`, which adds
to `TypeOK` how far `main()` has got (`Startup`): without it a miner beyond the
last could be created. `RequestsCorrect` proves `RequestInv`. The five
properties a reader cares about (`SubmitBeforeGet`, `NoOrphanWait`,
`SolutionTracked`, `SolvedBeforeNext`, `FreshWork`) are not inductive: that a
miner waits with its request queued does not say that the request is still
answered after another step. `RequestInv` adds `CommandsOK` (whose command may
be queued depends on where its miner is and what waits for it), `WorkioOK` (what
work I/O holds fits where it is), `AnswersOK` (at most one answer, only for one
who waits or gave up) and `FrozenOK` (only the dead have frozen queues). Each
action has a lemma; frame lemmas carry over what an action cannot touch.
`PathHandedOverOnce` and
`QueuesCreatedFirst` rest on `LongpollInv`, with the request invariant.
`ClientKept` is the refinement of `GetworkClient`, from `TypeInv` and
`RequestInv`: a command work I/O takes from the queue is still on its way
(`PopClient`); while it executes one, its miner has no other of the kind, waits
for no older answer and, if it asks, has no solution pending (`OnlyExecuted`), so
that a reply is `Answer` (`ReplyClient`) and an answered submission `Settle`
(`SettledClient`); the end of work I/O, and nothing else, is `Close`
(`ClientCloses`, `CallClient`). What a thread does without a miner's seeing it is
a stutter of that miner's part (`Unseen`), and a miner's step is nobody else's
(`MinerUnseen`, `OneMiner`).

**ThreadQueue** (`ThreadQueueProofs`). `QueueIsFifo`: initial states map to
initial states, every step to a step or a stutter of `FrozenFifo`; `CallsOK`
ties `op` and `res` to `pc`. `WakeupsKept` counts: a push adds one entry and one
coming signal, a signal turns into one woken thread, a take uses both up; the
cardinalities need the set of threads to be finite. `NullMeansFrozen` assumes
`OneConsumer`: one thread pops, nobody thaws, a wait ends by a signal or its time
limit. That is how minerd uses its queues (each miner, work I/O and the long-poll
thread pop from their own, and `tq_thaw` has no caller), but for the wakeups without a
cause that POSIX allows: `Minerd` has those, the theorem excludes them. With a
second consumer the first may be woken for an entry the other has taken.
The strengthening (`EndsOK`) says that a signal to come or under way finds an
entry or tells of a freeze.

**JsonRpc** (`JsonRpcProofs`). `CallbacksOnLiveStack` from the handle's type and
the count of calls. `RequestArrivesInOrder` and `ReplyArrivesInOrder` for
requests and replies of any length, from one lemma on cutting a sequence in two
and the library's theorem on adjacent subsequences. `PathPushedOnce` from an
invariant that says who may hold a path. `AnswersFaithful` joins what came of the
reply (`Buffered`) to what the decoder makes of it; the point is that a buffer
left over from an earlier call would be decoded as well. `MemoryFreed` is
inductive with `MemoryInv`, which says at each stage of a call what may be held
and how many long-poll headers account for what is lost.

**EList** (`EListProofs`). A new entry between any two neighbours of a list of
any length (`EntryAdded`), and so at its end and its front; any entry deleted
(`EntryDeleted`), and so the first. Each says that the list then `Holds` the new
sequence in both directions; the argument is that the nodes of a list are
distinct, so that the two or four pointers written belong to the places meant.
`ListsSpliced` joins two lists without a common node. The module ends with what
the other proofs need of the natural numbers: a least element (`Least`),
induction from it (`Induction`), and that a recursion has a solution (`Iterates`).

**Lists** (`HelperProofs`). `ListsHold`, for any nodes and heads and any order of
calls. Its invariant `ListsInv` says of each list that it holds what it should
(`Holds`), and of two lists that no entry is in both (`Apart`); `ListsKeepOrder`
alone is not inductive, as an entry of two lists would be unlinked from one only.
A call writes to the nodes of one list and to its entry, and the other lists are
beyond its reach (`Rearranged`, `Put`, `Removed`, `Spliced`). A call of `list_move` is the deletion and the addition it consists of.

**Helpers** (`HelperProofs`). Four theorems on inputs of any length, each from the
type of the input (`InputsTyped`) and a fact about the function.
`TimesExact`: the two carries of `timeval_subtract` keep the time and bring the
microseconds within a second of each other (`Carried`), and of a quotient and
its remainder follows the rest. `WorkExact`: a byte read is two digits
(`HexRead`), a byte written is the same two (`HexWritten`), and a piece of work
is decoded field by field (`FieldIs`). `TargetsExact`: a number is its bytes by
Horner's rule (`ValueIs`); the highest byte in which two numbers differ decides
(`HighestDecide`), it is in the first word `fulltest` finds different, and there
it decides too. `OptionsRead`: what the command line and then the file have said
so far is a function from options to arguments (`Given`, `Settled`), and the
parameters are what `Read` makes of it; `parse_arg` changes both alike
(`ArgumentRead`). A recursive definition is a choice among the functions that
satisfy it: each proof shows that one does and then, by induction, that the one
chosen has the same values.
Assumed are bases and sizes that are not zero (`BasesAssumption`), symbols that
are of their kind (`AlphabetAssumption`), a processor (`ProcessorsAssumption`),
and that no string is NULL (`StringsAssumption`).

**Hashtable** (`HashtableProofs`). `TableIsMap` is the refinement of `KeyMap`, for
any keys, hashes, primes and memory: up to a failed rehash all calls, after it the
iterator, updates through it and `hashtable_close`. `TableKept` is the invariant it
rests on:
`ListOK` (the allocated pairs make one circle with the list's head, in both
directions; a bucket without pairs points at the head twice; the pairs of any
other are neighbours, from its `first` to its `last`, and hash to it; without
buckets the circle alone), `KeysDiffer` (no two pairs with one key), `SizeOK` (`size`
counts the pairs, from which it follows that a table is full when its map is) and
`ClosedOK` (a closed table is empty). It is inductive as it stands. An insertion into a bucket splits the circle before
the bucket's first pair or, for an empty bucket, at the end (`InsertIs`); a
deletion takes one pair out and moves the bucket's ends where they pointed at it
(`DelIs`); a rehash is a row of insertions into an empty table, whose invariant
says which pairs are in already (`RehashIs`); a search meets a pair's key within
its bucket or nowhere (`FindIs`). The operators of `Hashtable` follow pointers a
number of steps; what such a walk meets is shown by induction on that number,
from the least counterexample, and the heap's part by the theorems of
`EListProofs`. Assumed is that memory is a finite set of
pairs without the null pointer and that the list of primes has one and none is
zero.

**ScanHash** (`ScanProofs`). The three properties hold for nonces of any
width, any number of lanes and any set of solutions. `ScanInv` says that what
has been hashed is exactly the interval `Covered(nonce)` until something is
found; a batch is an interval as long as it does not reach 2^32, and the count
of hashes is the interval's cardinality. Of 4way, whose limit may lie in its last
batch, it says that once the nonce has stepped over 2^32 all of them have been
hashed (`AllRound`) and that it is still a multiple of the batch (`Aligned`). `SolutionsFound` and `RangesScanned` hold for every limit
`miner_thread` allows and name what is lost: the last nonce of all (`Dropped`), and
the count of a scan that has wrapped (`Wrapped`, which only a limit in the last
batch allows).

**ScanTime** (`ScanProofs`). `ScanTimeKept` follows the rounding: the time in
whole seconds is at most half a second off, the division loses at most one
nonce, and a common factor cancels (`Rounded`, `Quotient`). With the types
`ScanTimeMet` is inductive, for every scanner and any number of wraps. It speaks of
limits computed from what was hashed, but for the batch that `sse2_64` does not
count; after a wrapped scan `adjusted` is false.

**Texts** (`TextProofs`). `StringsReadBack`: a string of any length is written
exactly if it is well-formed UTF-8, and read back byte for byte. Each level has
its own lemmas. *Characters*: the arithmetic of `utf8_check_full` accepts the
rows of the Unicode table and nothing else (`CodeRanges`, `CharIs`), and
`utf8_encode` undoes it. *Pieces*: what `dump_string` writes for a character is
the character itself, a short escape, one `\u` or two of them (`PieceOf`); each
is walked over by the search for the closing quote (`PieceEnd`) and decoded into
the character's bytes (`PieceDecode`). *Texts*: the places where characters begin
are those from which the rest can be cut into characters (`Readable`), and by
induction from the end of the string what is written from such a place is
decoded into what stands from there. Before all that the stream has to deliver
the text: what is written is UTF-8 again. `WellFormed` is stated as a cut of the
string that the table allows, so that its meaning does not depend on the
direction in which the code walks. `LexingExact` reuses the
search and the decoding for texts put together from plain bytes and escapes, well
formed or not: a piece that is no escape at all makes the search for the closing
quote fail (`EndAt`), and what is left is decoded into what `Says` makes of it, or
refused with it (`DecodeAt`), both by induction from the end of the text; of a
number the lexer walks over the digits of each part, which is where the grammar has
to cut it (`ReadsNumbers`).
The recursive functions are met as above: one
function satisfies the equation, by induction from the end it has one value at
each place, so it is the chosen one. Assumed is that a byte of a string is not
zero (`CharactersAssumption`).

Only checked, not proved: everything under fairness (liveness is out of the
prover's reach here), and of `Library` four properties of jansson. Parser, writer,
copies and drops recur over trees (`ValuesRefcountExact`, `ValuesFaithful`,
`DumpLoads`, `LoadsExact`), and what a RECURSIVE operator computes for every tree
is not to be had from this prover; `JsonValue`, `JsonText` and `Library` hold no
theorem. Proved and no longer the property
of a run, as others say more: `TypeOK` of `Minerd` and `ThreadQueue`,
`RequestInv`, `SolvedBeforeNext`, `QueuesCreated`, `PathHandedOver`.

## 5. Not modelled

- **SHA-256 transforms** and their assembler: 32-bit arithmetic on 80-byte
  headers is out of TLC's reach; a hash is a predicate of the nonce.
- **Logging**: changes no state another part reads.
- **Build**: no behaviour of its own.
- Of jansson: the growth of `strbuffer.c`, indentation, texts and positions of
  errors, `printf` and `strtod` of reals.
- Of the queues: `tq_free`, which nothing calls.

A crash is modelled where the code has one (a reply without a body in
`JsonRpc`); in `Minerd` such a reply counts as a failed call. Real time is not
modelled; pauses and time limits are steps.

## 6. Plan

Done: `Minerd` refining `GetworkClient`, `FrozenFifo`, `ThreadQueue`, `JsonRpc`, `ScanHash`, `ScanTime`,
`EList`, `Lists`, `Hashtable` refining `KeyMap`, `Codecs`, `Options`, `Helpers`,
`JsonLex`, `Texts`, with the proofs of section 4; `JsonValue`, `JsonText`, composed
with the other sequential code in `Library`, checked.

Left: of what a prover reaches, nothing that a run checks. Outside the models are
the failing `strdup` of the options and the reading of reals.
