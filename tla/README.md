# A TLA+ model of purestd

purestd is a `std` for Rust programs without libc: it talks to the kernel by
system calls alone and brings its own locks, threads, allocator, hash tables,
buffered I/O, processes, files, sockets and resolver. This directory holds TLA+
modules for the parts whose correctness depends on the order of things or on
edges that tests hardly reach, TLC configurations that check them on small
instances, and TLAPS proofs of the most important properties for instances of
every size. `PROJECT.json` maps each definition to the lines it translates, lists
the runs, the mutants that show each property can fail, the hazards of the code,
and what the checks found.

## The system and its parts

Bottom up (`src/src/...`):

| part | source | what it relies on | modules |
|---|---|---|---|
| futex calls | `sys_thread.rs` | kernel | `Futex` |
| `Mutex`, `RwLock` | `sync.rs` | futex | `Mutex`, `RwLock`; `Lock` is what a mutex promises |
| `Condvar`, `Barrier`, `mpsc` | `sync.rs` | futex, a `Mutex` | `Condvar`, and over it `WaitWhile`, `Barrier`, `Channel` |
| `Once`, `OnceLock`, `LazyLock` | `sync.rs` | atomics | `Once` |
| park, spawn and join, scoped threads | `thread.rs`, `sys_thread.rs` | futex | `Parker`, `Spawn`, `Scope` |
| thread creation on macOS arm64 | `sys_thread.rs` | Mach messages, a spin lock | `MachSpawn` |
| thread-local keys | `tls.rs` | a `Mutex`, kernel thread ids | `Tls` |
| sleeping and timeouts; `Instant`, `SystemTime` | `thread.rs`, `sys_thread.rs`, `net.rs`; `time.rs`, `syscall.rs` | kernel clocks | `Timeout`; `Clock` |
| allocator | `allocator.rs` | mmap, a spin lock | `Allocator` |
| `HashMap`, `HashSet` | `collections.rs` | hasher | `HashMap`, `HashSet`; `Map` is what the first promises |
| `SipHasher13`, `RandomState` | `hash.rs` | `OnceLock`, getrandom | `SipHasher` |
| buffers, `Read`, `Write`, `BufRead`, `Cursor`, `copy`, vectored calls | `io.rs`, `fs.rs` | descriptors | `BufReader`, `BufWriter`, `Cursor`, `Transfer` |
| standard streams, print macros | `io.rs` | a `Mutex`, descriptors 0 and 1 | `Stdio`, `Stdin` |
| processes | `process.rs` | pipes, fork, wait | `Process` |
| environment, and what a child gets of it | `env.rs`, `process.rs` | a `Mutex` in a `OnceLock` | `Env` |
| paths | `path.rs` | | `Path` |
| directories | `fs.rs` | mkdir, getdents, unlink | `Fs` |
| sockets; names | `net.rs` | socket calls; `UdpSocket`, two files | `Net`; `Resolver` |
| start-up, assembly, other system call wrappers, errors, re-exports | the rest | | not modelled, see the end |

The proofs are in `LockProofs`, `CondvarProofs`, `ThreadProofs`, `BufferedProofs`,
`StreamsProofs`, `SystemProofs` and `EnvProofs`, see below.

## How the models correspond to the code

An atomic operation, a system call, or a stretch of code that touches only what
its thread owns is one action, named after the method and guarded by the
method's conditions. `pc` (or `child`, `ppc`, `call`) says where each thread is
between two actions. Atomics are sequentially consistent. Calls come in any
order and are cut off by a budget (`MaxCalls`, `MaxSend`, ...): each bound is a
constant that its module names as such. Variables that exist only to state a
property (`unseen`, `sent`, `got`, `arrived`, `taken`, `hist`, `log`, `changes`,
...) follow the ones of the code. Text and bytes are sequences over as few values
as the code tells apart.

* `Futex`. One set of sleeping threads per word. `FutexSleeps` compares the word
  and sleeps in one step, as the kernel does; a wake removes one sleeper or all;
  a signal ends a sleep early, after which the loop in `futex_wait` compares
  again.
* `Mutex`. The word is 0, 1 or 2. `lock` is a compare-and-swap and, when it
  fails, the loop of `swap(2)` and `futex_wait`; dropping the guard is a swap and,
  if it returned 2, a wake. `try_lock` is the
  compare-and-swap alone. `Lock` is the
  abstraction: an owner and the threads that want it, with the fairness that a
  wanting thread gets a free lock.
* `RwLock`. The word counts readers or is `RW_WRITER`. Each load, weak
  compare-and-swap (which may fail for no reason), sleep and drop is an action;
  a call remembers the word it loaded and may sleep on a stale one.
* `Condvar`. Its mutex is the abstract lock (`owner`), which `Mutex` is shown to
  implement. `wait` reads the sequence, unlocks, sleeps on the sequence it read,
  and locks again. It is a component: `WaitWhile` (consumers in `wait_while`,
  producers that notify with or without the mutex), `Barrier` and `Channel`
  instantiate it and add the code around it.
* `Channel`. `Sender` clone, send and drop, `recv`, `try_recv`, the iterator,
  and the drop of the receiver. `senders` and `receiver_gone` are read and
  written outside the mutex where the code does so.
* `Once`. `call_once` as load, compare-and-swap, closure, store, and a spin of
  the losers, under the methods of `OnceLock` and `LazyLock`.
* `Parker`. park, park_timeout and unpark with the one token.
* `Spawn`. The stack, the payload and the reference-counted packet from `spawn`
  to `join` or detach, with the failures of mmap and of thread creation, on three
  targets. On macOS the kernel frees the stack of a thread, on Linux it stays
  mapped. `spawn_os` on macOS arm64 looks at the result of the message call only, so
  it may say Ok where there is no thread (`never`), and Err where there is one
  (`stray`); on macOS x86_64 it always fails.
* `Scope`. `ScopeData` lives in the frame of `scope`; children count down, set
  `wake` and notify; the parent checks, sleeps and resets. A child may be one that
  macOS did not make.
* `Tls`. The registry under its mutex, with the lookup and the insertion as two
  critical sections, and a kernel that may give an id again.
* `Allocator`. Addresses and sizes in units of the smallest class. Free lists
  are threaded through the free blocks: `mem` is what a read of an address
  finds, and `Scribble` lets the program overwrite what it owns. What a
  thread does under the spinlock (read the head, pop, link, push, refill) is
  several steps, so the lock is what keeps two threads apart.
* `HashMap`. Slots, tombstones, `len` and `used`, for every assignment of hash
  values to keys. `probe` is `Reach`, `Found` and `ProbeIndex`; `grow_to` is a
  fold over the old slots. Calls are sequential, so each is one action; `call` holds
  its name and arguments until its caller has the result (`Return`). `Map` is a
  partial function, what each call with its arguments does to it, and what it
  returns, so that the refinement pairs every call with the same call.
* `BufReader`. The buffer as its unread window over an inner reader that returns
  as little as it likes or fails; `read_until`, `read_line`, `lines`,
  `read_to_end`, `read_to_string` and `read_exact` go round their loops one
  action at a time.
* `BufWriter`. The buffer, what the inner writer received, and failures half way
  through `write_all`; `into_inner` that fails drops the writer, which flushes
  once more.
* `Stdio`. The lock's extent: a print macro keeps it over all its writes, a
  write through `Stdout` takes it for each.
* `Process`. Descriptor tables with the lowest-free-number rule, `dup2` and
  `close`; a pipe ends when no table holds its write end. `spawn` makes the
  pipes and forks; the parent closes the child's ends while the child wires
  0, 1 and 2, where a failing `open` or `dup2` is ignored and leaves the stream as it
  was (`kept`), and so is a failing `close`. `wait`, and `output` and `wait_with_output`, which read stdout,
  then stderr, then wait. The child's own program reads, writes and exits.

* `MachSpawn`. Creators take `CREATE_LOCK`, send a request to the kernel, wait for
  a reply at the port they share, and unlock; the kernel answers in any order. The
  send or the receive may fail; after a failed receive the reply stays at the port.
* `Timeout`. What each target makes of a `Duration` (a timespec of 64-bit fields,
  the same read by a 32-bit kernel, microseconds in a u32 for `__ulock_wait`, a
  timeval for a socket), and then how long the call blocks, with signals.
* `Clock`. `monotonic` and `gettimeofday` per target, and `elapsed` of both types,
  while time passes and the wall clock is set.
* `HashSet`. Two sets, of which one at a time is changed through the operations of
  `HashMap`; the iterators `intersection`, `difference` and `union` and the
  predicates are computed from the slots, as the code does.
* `SipHasher`. Threads take the process keys, which one of them fills from
  getrandom in pieces, and write one message in chunks of any size. `sipround` is
  left open: the state is the list of words absorbed, so two states are equal only
  if the words are.
* `Cursor`. A `Cursor<Vec<u8>>` next to a `File`, one call on both at a time, with
  `i64`, `u64` and `usize` of their own widths, up to the first call on which the two
  cannot be compared: a position that is no file offset (`set_position`), an overflow
  (a panic in a checked build), an empty write beyond the end, or a position that is
  no `usize`.
* `Transfer`. `copy`, and vectored calls in their three forms: the traits' default,
  the kernel's, and the loops of the WASI backend.
* `Stdin`. The shared `BufReader` under its lock; `lines` keeps the lock between
  lines. Reads of the descriptor are short or fail, and a line may not be UTF-8: the
  call then fails and what it had collected is gone.
* `Env`. `ENV_MAP` under its lock, seeded by its first user; `vars` copies it key by
  key; `spawn` looks the program up in one step of the lock, unless its name has a
  `/`, copies the environment in a later one, applies its own changes, and passes on
  the entries without a NUL.
* `Path`. Texts over `/`, `.` and letters; each method as the text operation it is.
  The reference is `Components`.
* `Fs`. A tree of files, directories and links that several threads or processes
  change one system call at a time, by `rename` too; another program may put a link
  in the place of what it moved away. An open directory is known by its identity
  (`node`), not by its path. `create_dir_all` and `remove_dir_all` keep a
  stack of frames, `ReadDir` its buffer of records, refilled when it is empty; file
  systems may or may not tell the type of an entry; `text` is what
  `from_utf8_lossy` makes of a name, which may be another name.
* `Net`. One step per system call, with whatever result the kernel may give; the
  descriptors of the process are shared by all threads, lowest first.
* `Resolver`. The two files may be unreadable, and `bind`, `send_to` and `recv` may
  fail. A query is a datagram in a network that loses, repeats, reorders and cuts. The answer parser works on bytes with shortened fields, name compression
  included.

`MCLocks`, `MCThreads`, `MCData`, `MCIo` and `MCSystem` put models that share no state next to
each other, so that one run checks them all: `unit` is chosen in the initial
state, the unit it names moves, the others rest. One unit is extended and keeps its
names (`RwLock` in `MCLocks`, `Spawn` in `MCThreads`, `Net` in `MCSystem`), the others are instances. An
instance that something is proved about is made, and its property named, in the
module with the proof, which the MC module extends: the formula that TLC checks is
the one the theorem is about. The models meet where one is used
by another: `Condvar`, `Tls`, `Stdin` and `Env` use the abstract lock that `Mutex`
implements, `Barrier` and `Channel` are composed with `Condvar`, `HashSet` with
`HashMap`, `Scope` ends at the packet of `Spawn`.

## Runs

| run | module, config | checks | shows |
|---|---|---|---|
| `locks` | `MCLocks`, `Locks.cfg` | `MutualExclusion`, `MutexWakes`, `WriterExcludes`, `StateCounts`, `NoLostWakeup`, `ImplementsLock`, `LocksReturn` | four threads on a `Mutex`, three on an `RwLock`, two calls each: exclusion, the word is the count, a sleeper always has somebody who will wake it also when it slept on a stale word, blocked calls return, and the futex protocol refines the abstract lock with its fairness |
| `threads` | `MCThreads`, `Threads.cfg` | `NoLostNotify`, `Rendezvous`, `Delivers`, `OnceSafe`, `ThreadLocal`, `TokenIsUnseenUnpark`, `PacketSafe`, `NothingLeaks`, `ScopeSafe`, `OwnReply`, `CondvarsWake`, `CallsReturn` | no notification or message is lost, nobody passes a barrier early, one value per cell and per thread and key, a token is an unseen `unpark`, memory of spawned and scoped threads is neither touched after its end nor leaked, but for a thread that macOS did not make, a creator gets its own reply unless a receive fails; whoever waits for something that is there gets it, and calls return |
| `data` | `MCData`, `Data.cfg` | `TablesSound`, `BlocksSound`, `OneHash`, `ImplementsMap` | each call on the table does to the map, and returns, what the same call on the map does; there is always an Empty slot, set operations are those of sets; mapped memory is exactly the disjoint union of the blocks, each large enough and aligned; a key has one hash however it is cut into writes |
| `io` | `MCIo`, `Io.cfg` | `ReaderExact`, `WriterExact`, `PrintsWhole`, `LinesWhole`, `CursorIsFile`, `TransferExact`, `PipesWired`, `OutputComplete`, `WaitingReturns` | no byte is lost, repeated or reordered (a failed flush repeats exactly what it had passed on); prints and lines stay whole; a cursor is a file in memory; children and parent hold the right pipe ends, also where setting a stream up failed, output is complete and waiting returns |
| `system` | `MCSystem`, `System.cfg` | `PathLaws`, `DirsExact`, `SocketsAccounted`, `FirstThatWorks`, `Resolves`, `OneMoment`, `TimesRight` | text operations mean the same to the components; concurrent `create_dir_all` calls help each other and `remove_dir_all` removes its directory and nothing else, renames notwithstanding; no descriptor leaks or is closed twice, addresses are tried in order; the resolver gives a host's addresses only, all of them unless something failed, and hangs only on a lost datagram; a child's environment is that of one moment; waits and clocks tell the time |
| `channel_disconnect` | `Channel` | `DisconnectWakes` (violated) | see the findings |
| `tls_reuse` | `Tls` | `InitialisedByItself` (violated) | see the findings |
| `scope_data` | `Scope` | `DataOutlivesThreads` (violated) | see the findings |
| `process_wait` | `MCIo` | `WaitReturns` (violated) | see the findings |
| `create_dir_all` | `MCSystem` | `OkMeansDirectory` (violated) | see the findings |
| `sleep_at_least` | `Timeout` | `SleepsAtLeast` (violated) | see the findings |
| `join_hangs` | `Spawn` | `JoinWaitsForThread` (violated) | see the findings |

`CondvarsWake` and `CallsReturn` join the liveness properties of several models
(`PermitTaken`, `AllReleased`, `MessageWakes`; `ParkReturns`, `JoinEnds`,
`ScopeReturns` and the calls of `Once`): since one unit moves at a time, the joint
property is each unit's own. `LocksReturn` speaks of all blocked calls together: as
finitely many calls are made, one left behind would be blocked at the end.

Deadlock is not checked: every model ends when its calls are used up, and a
program may stop calling. That blocked calls return is what the liveness
properties say.

### Bounds, and why they are enough

* Threads: three or four contend for a lock, so that a thread can barge in
  between an unlock and the wakeup of one of two sleepers. Two calls each let a
  lock be used again after the race.
* `RW_WRITER` = 8: more than there are users, as 2^31 is in the code.
* `SeqSize` of a condition variable is more than the notifications of a run: the
  wrap-around of the 32-bit sequence between a load and a sleep is the one thing
  left out, and listed as a hazard.
* The barrier meets for three of four threads, twice each, so that a generation
  fills up again while a straggler of the last one still sleeps.
* Thread ids: two for three threads, so that one is used again.
* `HashMap`: three keys, two hash values, tables that grow from 2 over 4 to 8.
  Linear probing with reused tombstones never touches more slots than there are
  keys, so the smallest table of the code (8 slots) is scaled down until three
  keys fill it, wrap around its end and force growth; which hash goes to which
  key is arbitrary. Two sets of up to 4 slots.
* `SipHasher`: words of three bytes, up to five bytes in any chunks: empty, partial,
  exactly filled and following words. The length is kept modulo 2 (256).
* `Allocator`: two classes, arenas of four units, eight addresses, two live
  allocations: enough for both lists to be refilled, pushed, popped and
  overwritten, and for a large mapping next to an arena.
* `BufReader`: an input with both line endings, an empty line, a byte that is
  not UTF-8 and an unterminated line; capacities below, at and above the sizes
  of the reads. `BufWriter`: the same, with capacity 0.
* `Cursor`: an `i64` from -6 to 5, every seek and every position of it, and a `usize`
  below and as wide as a `u64`, so that the sign bit, both ends and the truncation
  are met; up to three bytes. `Stdin`: one failing read, one raw read of each thread,
  and a text with a character of two bytes and a byte that is none. `Transfer`: five bytes over buffers of length 0 to 2.
* `Process`: a child that writes more than a pipe holds to stdout, as much as it
  holds to stderr, and reads its stdin to the end; and a second child that is
  spawned before or after it. One stream whose set-up fails, of a child that is alone
  (the unit `lone`). Eleven descriptor numbers are all
  they can use, the leftovers of a failed spawn included.
* `Path`: all texts of up to five characters over one letter, `.` and `/`, and all
  arguments of up to two.
* `Fs`: four trees with links at the top and deep inside, a file in the way, two
  concurrent calls of nine kinds, names that show as themselves or as another, two
  records per refill.
* `Net`: two descriptors, so that the second thread meets the limit; up to two
  addresses; two errors. `Resolver`: two ports, one duplicate, one failing call, answers cut at the
  header or inside a record; hosts with an alias, of either family, in the hosts
  file, and malformed.
* `Timeout`, `Clock`: a second of four nanoseconds, a microsecond of two, a word of
  two bits: every remainder, the largest single `__ulock_wait`, and the sign bit.

### Fairness

Weak fairness of each thread's steps inside a call: the kernel schedules every
runnable thread. Starting a call is never fair. A weak compare-and-swap that may
fail spuriously gets strong fairness of its success (`RwLock`): it does not fail
for ever. A timeout is weakly fair, since time passes. Closures and the programs
of children are taken to end when nothing blocks them. No liveness property
assumes a fair futex wake: which sleeper is woken is arbitrary.

Starvation by an endless stream of other callers is possible in this code (locks
are not queued); the call budgets exclude it, and the liveness properties say
what is left: no call blocks for ever for want of a wakeup.

## Findings

* `channel_disconnect`: the last `Sender` decrements `senders` and notifies
  without the queue's mutex. A receiver that has read `senders` = 1 but not yet
  the sequence reads the bumped sequence and sleeps for ever, although the
  comment says "Last sender gone — wake any blocked receiver."
* `scope_data`: after the last `fetch_sub`, `scope` may return and its frame go,
  before that thread stores to `wake` and notifies through it, although "`scope()`
  outlives all its threads, so `data` is valid".
* `tls_reuse`: values are keyed by kernel thread id and never removed, so a thread
  with a reused id finds a dead thread's value instead of "initializing it on
  first use".
* `process_wait`: pipe ends are not close-on-exec, so a child spawned later keeps
  the write end of an earlier child's stdin. `wait` on the earlier one, which
  closes stdin "so the child can finish", then never returns while the later one
  lives.
* `create_dir_all`: returns Ok when a file is at the path, since it takes
  `AlreadyExists` for success, although it is to "create a directory and all of its
  parents".
* `sleep_at_least`: on macOS `sleep` drops what is below a microsecond; on 32-bit
  Linux it passes 64-bit fields to a call that reads 32-bit ones, so that a sleep of
  less than a second returns at once. Neither lasts "at least `dur`".
* `join_hangs`: on macOS arm64 `spawn_os` does not look at the return code in the
  kernel's reply, so `spawn` returns a handle to a thread that was never made, and
  `join` does not "wait for the associated thread to finish" but for ever.

Three more disagreements with a comment are not runs of their own, but exceptions that
`TimesRight` states:

* On macOS a `park_timeout` below a microsecond becomes 0, which is no timeout, where
  `thread.rs` says that it "returns after at most `dur`" (`Untimed`).
* On macOS x86_64 an `Instant` is the wall clock, which can be set back, where
  `time.rs` says "monotonically nondecreasing".
* On 32-bit Linux the clock calls fill in fields of another width, so that an `Instant`
  can go backwards and a `SystemTime` is wrong; `ElapsedRight` says nothing there.

The models also show behaviour that no line of the repository contradicts, stated
as an exception in the property concerned:

* A socket timeout below a microsecond becomes 0, no timeout, everywhere; on Linux a
  `sleep` of 2^63 seconds or more returns at once.
* `"a".set_file_name("b")` is `a/b`, and `set_extension` of a single relative name
  likewise adds a component, since `pop` refuses to empty the path; `with_file_name`
  does replace it. After a trailing separator there is no file name: `set_file_name`
  adds one, and `set_extension` refuses. `strip_prefix` does not ask for a separator
  after the base.
* `readv` on WASI stops at an empty first buffer and reports 0, which looks like the
  end; what its loops moved before an error is not reported.
* A write of nothing beyond the end makes a `Cursor`'s vector grow, and does nothing
  to a file. On a target with 32-bit words a read or write at a position of 2^32 or
  more goes to the position modulo 2^32.
* The id of a DNS answer is not compared and `recv` has no timeout: a late duplicate
  that finds its port reused is taken for the answer, and a lost datagram hangs
  `resolve`. A file that cannot be read counts as empty.
* A line of stdin that is not UTF-8, or in which a read fails, is consumed and lost.
* A child whose `open` or `dup2` fails starts with the parent's stream.
* `remove_dir_all` goes by the lossy name of an entry, so that a name that is not
  UTF-8 can lead it to another entry; and it follows a link that another program puts
  in the place of a directory it has just seen.
* On macOS a receive that fails leaves its reply to the next creator; and of a thread
  that was never made the payload, the stack and a reference to the packet stay.

## Proofs

Seven modules hold theorems. Each is for every value of the constants that meets
the named assumption: any set of threads, any input, any budget of calls. Where a
model is checked side by side with others, its assumption is a plain definition of
the model, a hypothesis of the theorem, and an ASSUME of the module with the proof
or of the MC module that extends it, which TLC evaluates. The pattern is always the same: the property is not
inductive, a stronger invariant is, one lemma shows that the initial states have
it, one that every step keeps it, action by action.

* `LockProofs`, the two locks.
  `MutexExclusion`, `MutexNoLostWakeup`: exclusion needs
  `StateMatches` (the word is 0 exactly when nobody has a guard), since the
  compare-and-swap looks at the word only. The wakeup property needs
  `SleepersWait` (only a thread at `futex_wait` is in the queue), so that a woken
  thread counts as one that is awake in the loop and will put the 2 back.
  `MutexImplementsLock`: the initial states and every step map to the abstract
  lock; a swap that finds 0 and a successful compare-and-swap are the abstract
  acquisition, an unlock the release, everything else stutters.
  `RwLockExclusion`, `RwLockStateCounts`, `RwLockNoLostWakeup`, for
  finitely many users, fewer than `RW_WRITER`: `Inv` adds `LoadedMatches` (what a
  call remembers of the word it loaded) to `StateCounts` and `SleepersWait`. The
  lemmas `GainReader`, `GainWriter`, `LoseReader`, `LoseWriter` follow the word and
  the set of guards through the four ways they change.
* `CondvarProofs`, the users of a condition variable.
  `DeliversHolds`, `ChannelInv`: `senders` counts the threads that own a `Sender`;
  the receiver holds the queue's mutex from the `pop` that found nothing to its look
  at `senders`, so the queue is still empty when it makes it (`Holding`); and what
  was received followed by what is queued is, for each sender, what it sent
  (`NothingLost`). `PopCarries` and `PushCarries` follow that sequence through a
  `pop` and a `push`.
  `NoLostNotifyHolds`, `WaitInv`: `seq` counts the notifications (`SeqCounts`), so it
  does not come back to a value that was read; and as long as it is what a waiting
  consumer read, every permit was made by a producer that has still to notify
  (`NoneMissed`).
  `RendezvousHolds`, `BarrierInv`: who has arrived in the generation that is filling
  up, who is still to be released from an earlier one, and that there are no more
  generations than calls; `GenerationsBounded` states the last.
* `ThreadProofs`, everything else that threads share.
  `PacketSafeHolds`, `NothingLeaksHolds`: `Positions` says, for each thread by
  itself, how many references its packet has and what is allocated, given where the
  child and the holder of its handle are, a child that was never made included; `OnlyOwn` shows that a step about one child
  leaves the others alone.
  `OnceSafeHolds`: `OneRunner`, whoever is in the closure or about to publish has the
  state RUNNING to itself; `ValueFollows`, what each state says of the value;
  `Outcomes`, what each returned call saw.
  `ThreadLocalHolds`: a live thread's entries in the registry are what it has used
  and what its call holds, also between its two critical sections (`TlsEntries`), and
  no box has two entries (`TlsBoxes`).
  `TokenHolds`, `NoLostWakeupHolds`: with `SleepsInWait`, that the owner is in the
  queue only inside its two waits.
  `OwnReplyHolds`: `OneCreator`, one creator is between lock and unlock;
  `OneRequest`, as long as no receive has failed, what is under way is its request or
  its reply.
  `ScopeSafeHolds`, for finitely many scoped threads: `running` is the number of
  threads whose closure is not over (`Counted`), so that `scope`, which reads 0,
  returns only when there are none, and then nobody is left to spawn more.
* `BufferedProofs`, input.
  `ReaderExactHolds`, `ReaderInv`: what was taken, the window and the rest are the
  input, and a call in progress has collected the input from where it started, with
  no newline if it stops at one (`Collecting`).
  `LinesWholeHolds`, `StdinInv`: whoever reads holds the lock, and only the holder has
  collected a part of a line (`Reading`); the calls that returned or failed follow
  each other in the input, and each line among them is whole, so that the next begins
  after a newline unless a raw read or a failure came before it (`AllWhole`).
* `StreamsProofs`, output and what moves bytes.
  `WriterExactHolds`, `WriterInv`: up to the bytes that failed flushes repeated, the
  output followed by the buffer is what was accepted.
  `PrintsWholeHolds`, `StdioInv`: a thread writes only while it owns the lock
  (`Writing`), and what a macro has written so far is at the end of the stream
  (`AtEnd`).
  `CursorIsFileHolds`: cursor and file agree before every call; the proof compares
  the two results of each call, the clamped and wrapped offsets included, for any
  width of an offset and of a `usize`.
  `TransferExactHolds`, `TransferAt(g, w)`: where each of the calls is when the reader
  has given g bytes and the writer has taken w. The buffers are given by where they
  end, so that no sum over them is needed.
* `SystemProofs`, sockets and time.
  `SocketsAccountedHolds`, with `SocketInCall`: a call has a local `Socket` exactly
  from `Socket::new` to its success or its drop.
  `FirstThatWorksHolds`, with `Tried`: each address before the one in work has
  failed, the last with the error that is kept. The lemmas follow the log through
  one more failure and through the success.
  `TimesRightHolds`, for any length of a second, of a microsecond and of a word.
  `TimeoutInv`: a wait has no alarm after its Duration, and none at all exactly if it
  is `Untimed` (`Waits`); a sleep on Linux is one wait for the whole of it
  (`Sleeps`), on macOS what was slept and what is left make up the whole at every
  turn of the loop (`SleepsOn`). `ClockInv`: a mark holds what the two clocks showed
  at its time. The lemmas are the arithmetic of the conversions: quotients and
  remainders (`DivMod`, `DivIs`), a Duration in microseconds (`Durations`), a timespec
  read with words half as wide (`SpecWithin`), and ticks of a counter in nanoseconds
  (`TicksRight`).
* `EnvProofs` (`OneMomentHolds`), for any number of threads, variables, changes and
  parts of a PATH. `EnvInv`: the last environment there has been is the one to be
  read, seeded or not yet (`History`); whoever works on the map holds its Mutex
  (`Held`); the PATH that a spawn searches was one during the call, or it needs none, and the parts
  before the one reached do not hold the program (`Resolving`); a copy agrees with the
  map as far as it has got, and once it is whole, with an environment no earlier than
  the PATH (`Copies`). `SameStage` shows that a step of one thread leaves what is said
  of another: environments are only added, and the map does not change under a thread
  that holds the lock.

Only model-checked: all liveness and the fairness part of `ImplementsLock` (the
prover does not do it); what recursive definitions and folds compute, which needs an
induction over data that the prover does not do either: `PathLaws`, `Resolves`,
`TablesSound` and `ImplementsMap` (the rebuilding of a hash table), `BlocksSound` (free
lists, and sums over blocks); and `DirsExact`, `OneHash`, `PipesWired` and
`OutputComplete`.

## What is not modelled

* Weak memory: orderings are taken to be at least as strong as needed; the
  acquire and release annotations are not checked.
* Panics: a panic ends the process, so there is no poisoning and no unwinding.
* Assembly: the clone trampolines, the system call stubs in `arch/`, the entry
  points of `rt.rs`. There is no state to interleave, and their content is registers.
* Code that is one system call and the conversion of its result: most of
  `syscall.rs` and `syscall_wasi.rs`, metadata and permissions, socket
  options, the datagram calls, `current_dir`. The calling models state what the
  kernel does.
* Code without state: `args`, `ExitStatus`, `OpenOptions`' flags, error kinds,
  formatting, the parsing of socket addresses, arithmetic on times, the sipround.
* A NUL in the program or an argument of a `Command`, for which `spawn` returns an
  error before it makes a pipe, or in its directory, for which it panics.
* What a thread does that macOS made although `spawn` said Err: its payload and its
  stack are freed under it, and anything may follow.
* `Thread` handles and ids: a counter and a slot.
* Re-entrance: a closure of `OnceLock`, of a thread-local key or of a print macro
  that calls back into the same object.
* A parent that runs with descriptor 0, 1 or 2 closed, signals other than
  SIGPIPE, and allocation in a signal handler.
* A `BufReader` of capacity 0, and alignments above what mmap guarantees in the
  allocator: both are excluded by assumptions.
