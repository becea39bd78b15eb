# A TLA+ model of pht

pht is a PHP extension: a `pht\Thread` runs tasks (a class, a function or a file) on a
worker thread that has a PHP context of its own, and four inter-thread structures
(`Queue`, `Vector`, `HashTable`, `AtomicInteger`) carry data between the contexts. This
directory holds TLA+ modules translated from the C code under `src/src/` and `src/pht.c`,
TLC runs that check them on small instances, and TLAPS proofs that hold for every value of
the constants.

`PROJECT.json` lists the components, the runs, one mutation per checked property, the lines
each definition stands for, the hazards and the findings.

## 1. The system

| Component | State | Operations | Code |
|---|---|---|---|
| Thread | `status`, `lock`, `tasks` (list and `size`), `thread` (handle) | `add{Class,Function,File}Task`, `start`, `join`, `taskCount`, the destructor; `worker_function`, `handle_thread_tasks` | `classes/thread.c`, `ds/pht_queue.c` |
| References | `refcount` of a structure, its `lock`, the entries and PHP objects that point to it | making, copying and dropping a reference; `lock`, `unlock`; freeing | `pht_entry.c`, `classes/*.c` |
| AtomicInteger | `value`, a recursive `lock` | `inc`, `dec`, `get`, `set`, `lock`, `unlock` | `classes/atomic_integer.c` |
| Queue | linked list, `last`, `size` | `push`, `pop`, `front`, `size` | `ds/pht_queue.c`, `classes/queue.c` |
| Vector | array, `size` (capacity), `used` (length) | `push`, `pop`, `shift`, `unshift`, `insertAt`, `updateAt`, `deleteAt`, `resize`, `$v[i]` | `ds/pht_vector.c`, `classes/vector.c` |
| HashTable | buckets (key, hash, value, variance), `size`, `used` | `$h[k]` read, write, isset, unset | `ds/pht_hashtable.c`, `classes/hashtable.c` |
| Property tables | `vn` of a structure; `vn` and a table of each object | `get_properties`: fill the table anew when they differ | `classes/{queue,vector,hashtable}.c` |
| Entry conversion | a value in blocks of memory that no PHP thread owns | `zval` to entry and back, deletion | `pht_entry.c` |
| Context copy | the worker's functions, classes, constants, ini | copy from the parent at start-up, while it runs | `pht_copy.c` |
| Threads of threads | `child_threads` of each context, `parent_thread_ls` | creation, `join()`, `th_free_obj`, request shutdown | `classes/thread.c`, `pht.c` |
| Life cycle | per-thread globals, interned names | request and module start-up and shutdown | `pht.c` |

How they interact. The owner's `add...Task()` turns every argument into an entry
(a reference to a structure if the argument is one), builds a `task_t` and pushes it under
`thread->lock`. The worker polls: it reads `status` and `tasks.size` without the lock,
pops one task under the lock, turns the entries into values of its own, runs the task and
deletes it. `start()` and `join()` store `status` without the lock. The destructor stores
`JOINED` under it, joins the worker and destroys the lock. A structure is shared through
its reference count, whose mutex is the same that `lock()` and `unlock()` expose to the
program, and which the program has to use around each method of a Queue, Vector or HashTable.
Any context may create threads: each keeps its Thread objects in `child_threads` and joins
those that are left when its request ends. A new worker first walks its parent's tables of
functions, classes and constants, which the parent goes on using, and then runs its tasks with
the tables it has built.

What is hard: the unlocked reads and writes of the thread's status and length; the
interleaving of a free with another thread's drop; a mutex the library takes while the program
may hold it; conversions that fail half way; the linked list at its empty boundary; an array
whose capacity is not its length; an open-addressing table with tombstones after a long
sequence of calls; a context that is copied while it changes or ends; objects that die before,
during or after the shutdown that joins their workers. `PROJECT.json` has each hazard at its
line.

## 2. Modules

| Module | Role |
|---|---|
| `TaskRunner` | what a Thread promises: tasks run in the order they were added, once, and `join()` returns only after the last |
| `PhtThread` | one thread object, its owner and its workers; implements `TaskRunner` |
| `PhtThreadProofs` | its inductive invariants and their proofs, those about the memory of tasks and arguments, and the proof that it implements `TaskRunner` |
| `ThreadTree` | the contexts of a process that create, join and drop threads of their own, to the end of each request |
| `ContextCopy`, `ContextCopyProofs` | `ThreadTree` with the tables that each worker copies from its parent; the proofs about both |
| `ItcRefs`, `ItcRefsProofs` | references, reference counts and locks of the four structures between threads |
| `EntryConversion`, `EntryConversionProofs` | values as entries: their blocks of memory in function tasks and cells of structures |
| `AtomicInteger`, `AtomicIntegerProofs` | the value of one AtomicInteger between threads, and the proof |
| `PropertyTable` | the version numbers and property tables of the objects of one structure |
| `EntryList` | what a Queue and a Vector promise to the holder of the lock |
| `PhtQueue`, `PhtQueueProofs` | the linked list, with a `PropertyTable`; implements `EntryList` |
| `PhtVector`, `PhtVectorProofs` | the array, with a `PropertyTable`; implements `EntryList` |
| `EntryMap` | what a HashTable promises to the holder of the lock |
| `PhtHashTable`, `PhtHashTableProofs` | the buckets, with a `PropertyTable`; implements `EntryMap` |
| `MC*` | constants for TLC |

**PhtThread.** The owner is a program counter `opc` and each worker one of `wpc`. An access
without the lock is a step (`StartStatus`, `JoinStatus`, `LoopStatus`, `LoopSize`); a critical
section is split into its loads and its stores (`PushBegin`/`PushEnd`, `PopBegin`/`PopEnd`,
`StartupBegin`/`StartupEnd`), because the unlocked readers see the state in between, and
because a broken lock would show there. `blocks` and `refs` are the heap: which `task_t` is
allocated and how many references the entries of each argument hold. `Program` says what the
PHP program does that the code does not forbid: `join` (after the worker has announced
itself), `early_join` (at any time), `reuse` (start again after a join), `start_twice` (start
while a worker runs). Every program may drop the object, as request shutdown does
(`pht.c:106`). Loads and stores are sequentially consistent: the fields are plain C objects,
so the races on them are undefined by the C standard and the outcomes modelled are those of
naturally aligned words that the compiler neither caches nor merges, which the calls to the
mutex functions inside the polling loop make it do. `pthread_join` on a worker that has been
joined, and locking a destroyed mutex, are undefined: the model returns an error at once from
the first and stops the worker at the second.

**ThreadTree.** A context's life is its `phase`: start-up, the copy, the tasks, then `ending`
(the engine destroys the variables, and with them Thread objects), `rshutdown`
(`PHP_RSHUTDOWN`, which joins what is left in `child_threads`) and `gone`. Thread objects and
workers are numbered apart, because `start()` looks at nothing: a Thread may be started again,
after a `join()` or without one, and then its `handle` and its status are those of the new
worker (`Latest`), while the old one goes on and nobody knows it any more. A wait in
`pthread_join` is a state, `waiting`, of the waiting context, whichever of `join()`, the
destructor or `RSHUTDOWN` it is in, so that the other contexts run on. `exited` has the
contexts whose `EG(exit_status)` is not 0: the main script may call `exit()`, and a file task
may exit or die of an exception in a worker, whose next file task sets the status back. (In a
class or function task of a worker either ends the process, as nothing catches the bailout.)
`freed` says which objects' memory the engine has taken back. `Habits` opens programs that keep
a Thread in an array or a static property until the engine frees it (`keep`), that let go of
one after an exit with a status (`exit_drop`), and the reuse of a joined thread's id
(`same_id`). The statuses and lock of one object are `PhtThread`'s, so `join()` is called here
after the worker has announced itself.

**ContextCopy** extends it. `table` has, for each context and kind of name, the names in the
order of the hash table; `cursor` is where `ZEND_HASH_FOREACH` is in the parent's table, with
the length it read at the start of the loop; one step copies one entry or passes it by
(`Skipped`: anonymous classes, and constants of which the worker has the name or its lower-case
spelling). `links` says which of the classes that a copied class refers to are those of the
worker's table, rather than copies apart. `forward` opens classes that stand in the table
before their parents, `realloc` tables that move because they grow.

**EntryConversion.** A block of memory is a number, an entry has the block it owns, and `sent`
is the value it was made of. `addFunctionTask()` converts its callable and arguments in order,
one step for the whole call, since nobody else sees the entries before the task is pushed.
`drop_captured` opens closures that die while an entry has their captured variables,
`bad_callable` callables that cannot be serialised.

**PropertyTable** is shared by the three containers, whose every method is composed with what it
does to `vn`; of the version numbers only their equality is kept. `stale` is the ghost: the
tables filled before the last change of the content.

**ItcRefs.** A reference is an identifier with a target and a place: a PHP object
(`handle`) or a task's argument (`task`) of a thread, an entry in a container (`in`), or an
entry that has been unlinked and is being deleted (`hand`). Counting is `IncBegin`,
`IncEnd`, `DecBegin`, `DecEnd`: lock, load, store, unlock. The unlocked test of the count
afterwards is `Check`, and `Free` drops the entries of the container. An error-checking
mutex that its owner locks again returns `EDEADLK`, which the counting code ignores before
it unlocks: `Locked` gives that result. A thread may lock several structures, in any order,
count any structure meanwhile, and put a container into a container, itself included. `Habits`
opens what the README's examples avoid: `drop_early`, dropping what other threads still use,
and `count_locked`, counting (passing on, popping or dropping) a Queue, Vector or HashTable
while the same thread has it locked. No habit is needed for a deadlock: see section 4.

**AtomicInteger.** `inc()` and `dec()` are a load and a store under a recursive mutex;
`get()` and `set()` take no lock, whoever holds it. The ghost `expected` adds up the calls, each
at its store, but for a `set()` that falls inside another thread's `inc()` or `dec()`, whose
store overwrites it. `seen` is what a thread knows of the value, forgotten when another thread
calls `set()`.

**PhtQueue, PhtVector, PhtHashTable.** Each is the sequential structure as the holder of its
lock sees it (exclusion is `ItcRefs`' business), down to nodes, slots and buckets. `entries`
is the set of allocated entries, and `out` what the last call returned. Uninitialised slots
and reads past the end of the array are `Junk`. `bad_index` and `bad_offset` open the calls
that throw after having made an entry; the ghost `lost` names the entries they leave behind.
`to_capacity` opens `resize(n)` with `n` the current capacity. A Vector grows by one and then
doubles. In a HashTable an integer is its own hash, a string's is any number, and the loop of
`pht_hashtable_insert_direct` is the function `Turns` of the number of turns it has made.
`UpdateCrashes` is the write whose update probe ends at a tombstone: the destructor is called
with NULL, and nothing happens afterwards (`crashed`).

## 3. Runs

| Run | Question | Instance | Distinct states |
|---|---|---|---|
| `thread_tasks` | are the length and the list right, and is no task run twice, even with two workers on one list? | 3 tasks of every kind, 2 starts, 1 argument | 1 695 601 |
| `thread_live` | memory, lock life, arguments, refinement of `TaskRunner`, termination | 3 file tasks, 2 starts, 2 arguments, any of which may fail | 18 907 |
| `thread_lost_join` | does every `join()` return? **violated** | 1 task, 1 start | 179 |
| `context_tree` | do contexts outlive their copies and their threads, does a worker get what its parent had, does the tree end? | 2 Threads, 2 workers, 1 waiting task each, 3 classes (one anonymous, one that extends another), a constant in 2 spellings | 199 503 |
| `refs_shared` | is the count the number of references, is everything freed once, does counting never keep a lock? | 2 threads, 2 containers that may hold each other and an AtomicInteger, 5 references, up to 2 nested locks of each | 375 028 |
| `refs_race` | two last references dropped at the same time: **violated** | 2 threads, 1 structure | 213 (to the violation) |
| `refs_stolen` | counting a structure one has locked: **violated** | 2 threads, 1 structure | 85 (to the violation) |
| `entry_values` | do values arrive as they were sent, and has each block one owner? | 1 task of up to 2 arguments and a running one, 1 cell, 3 blocks, an `int` of 2 bits | 95 493 |
| `atomic_locked` | is no update lost, and is a section stable? | 3 threads, 2 calls each, 2 nested locks | 776 836 |
| `queue_fifo` | is the chain a queue that loses nothing, and are property tables true? | 3 entries, 3 nodes, used again and again, 2 objects | 2 716 |
| `vector_list` | is the array a list that loses nothing, and are property tables true? | 4 entries, capacity up to 8 | 9 767 |
| `table_map` | is the table a map that can be searched and loses nothing, and are property tables true? | 5 colliding keys, 1 among them, 4 entries, up to 8 buckets | 23 100 |

Why the bounds are enough. Two starts are a worker that runs while the owner works, a second
life of the object, and, with `start_twice`, two workers at once. Three tasks fill, empty and
refill the list while a fourth would only repeat it; two arguments are the least for which a
conversion can fail in the middle. Five references are two objects of each of two threads and
an entry in a container. Four entries take a vector through the capacities 1, 2, 4 and, by
`resize()` and growth, 3, 6 and 8, and a table of 2 buckets through 4 to 8. Two workers are a
tree of depth two or of width two, or two workers of one Thread, and a class with its parent is
the least that can be linked wrongly. Two arguments and a callable let a refusal fall before, between and after the blocks
that it has to free; the integers -2 and 5 fit an `int` of two bits and do not. The keys 0,
-4 and "a" share a home up to size 4, as 1 and "b" do; -4 and "a" have the same hash, and 1 has
that of a tombstone. Entries, threads and
references are interchangeable wherever a run says `SYMMETRY`: no run with a liveness property
does.

Each module has one type invariant; where a run states another invariant that includes it, it
is checked as a part of that one (`RefcountExact`, `ChainAgrees`, `Searchable`,
`PhtVector`'s `NothingLost`, `BlocksExact`).

Deadlock is checked but for `thread_tasks`, where a program that starts twice and drops the
object leaves a worker at a destroyed lock, `table_map`, where a write of the key 1 may end the
process, and the three runs of `ItcRefs`, where programs may lock in opposite orders, or have
dropped all they had.

Fairness of `PhtThread` (`LiveSpec`). `Fairness`: the operating system runs every thread; an
owner that is inside a call finishes it, but need not call anything. `LockFairness`: a thread
that waits for `thread->lock` is not passed over for ever (strong fairness of the four actions
that take it), although the worker takes and releases it in a loop. POSIX does not promise
that of a mutex; it is what a scheduler that preempts the polling worker gives in practice,
and the code relies on it: without it `add...Task()` and the destructor could wait for ever.
Fairness of `ContextCopy`: weak fairness of each thread's `Continue`, which is what goes on by
itself: a worker's own steps, the end of a task (`AllEnd` is about programs whose tasks end),
the return of `pthread_join`, and what the engine does at the end of a request. The script
need not do anything; `AllEnd` is about what follows when it ends. The process ends with the
main thread.

## 4. What the runs found

Three disagreements between the code and what it says of itself, each with its own run:

1. `thread_lost_join` (`thread.c:578`, `thread.c:320`). The worker tests `status` and stores
   `STARTED` under the lock, but `join()` stores `JOINED` without it. If the store falls in
   between, it is overwritten, the worker polls for ever and `join()` never returns. All runs
   that pass with `join` therefore let the program join after the worker has announced itself.
   (The destructor takes the lock and is safe.)
2. `refs_race` (`pht_entry.c:60`). The count is tested after the unlock, so two threads that
   drop the last two references may both free the structure, or one may read it after the
   other has freed it. With one worker, a program that joins it before it drops what it shared
   is safe (`refs_shared`). With two workers that does not suffice: the main thread may put a
   structure into a queue, drop its own object and share the queue; a worker that pops the
   structure and passes it to the other then holds one of its last two references, and the
   race is the same. `NoUseAfterFree` is therefore claimed, and proved, for one worker, or for
   any number when no structure is put into another; the other theorems about `ItcRefs` hold
   for any number.
3. `refs_stolen` (`pht_entry.c:332`). A thread that passes a Queue, Vector or HashTable on
   while it holds its lock loses the lock. An AtomicInteger is safe (`refs_shared`).

Read in the code and modelled in every program, with properties that say exactly how far the
damage goes (they hold, and the theorems about them need no hypothesis but those of section 5):

- `set()` takes no lock, so it is lost when it falls between the load and the store of another
  thread's `inc()` or `dec()`, and it changes the value inside another thread's section
  (`atomic_integer.c:146`), although `src/README.md:439` says that single operations need no
  lock. Nothing else is lost (`NoUpdateLost`, `SectionStable`).
- A second `start()` overwrites the handle of the first worker, which nobody joins any more: it
  polls an object that may be freed, and its parent may end while it copies it or runs
  (`thread.c:564`). `NoOrphan`, `ObjectLives` and `SourceStays` are therefore about the last
  worker of each Thread. The first worker's tasks are still run once (`ExactlyOnce`).
- A worker that ends after a file task has exited with a status, or has died of an exception,
  joins its own Threads in `RSHUTDOWN` only, and there destroys first the file names of the
  functions that they may be copying (`thread.c:106`, `pht.c:122`). This is the second case of
  `SourceLives`.
- Anonymous classes are not copied (`pht_copy.c:524`), nor is a constant when the worker has
  one whose name is its own in lower case (`pht_copy.c:448`), so that of `c` and `C` the
  parent's order decides whether both arrive (`CopiedWhole`). `addClassTask()` accepts an
  anonymous class all the same, as it does one that is declared after `start()`: the worker
  finds neither and instantiates a NULL class entry (`thread.c:142`), while the comment at
  `thread.c:368` says that the class is made sure to exist.
- Counting a structure waits for its lock, whatever locks the thread has (`pht_entry.c:56`,
  `pht_entry.c:332`), and dropping one is not visible as a call. One thread locks an
  AtomicInteger and drops or passes on a Queue; another locks the Queue and pops the
  AtomicInteger: both wait for ever. `tests/error-checking-ds-mutex-locks.phpt` holds three
  locks at once. `OnlySectionsBlock` says that counting is never the only cause: every thread in
  a deadlock has called `lock()` on what another one of them waits for.
- The update probe of a HashTable takes a tombstone for the integer key 1
  (`pht_hashtable.c:237`) and calls the destructor with its NULL value: `$h[3]`, `$h[1]`,
  `unset($h[3])`, `$h[1] = z` ends the process. `tests/ht-implementation.phpt:24` uses that key,
  without deletions. `UpdatesOwnBucket` says that no other key can; the key 0, whose hash an
  empty bucket has, does no harm.

Modelled with a habit that opens it (none is open in a run that passes, but for `bad_index` and
`bad_offset`):

- A second join of a thread, by the destructor after `join()`, finds an id that may be another
  thread's by then, and waits for a thread nobody has told to end (`thread.c:130`, `same_id`).
- An object that a program keeps until the engine frees what is left is dropped after
  `RSHUTDOWN` has destroyed `child_threads`, which it then touches (`thread.c:115`, `keep`). A
  worker whose parent is itself a worker may meanwhile copy functions whose file names the
  parent's `RSHUTDOWN` has destroyed before it joins its children (`pht.c:122`).
- After `exit()` with a status `th_free_obj` leaves the object in `child_threads`, whose
  destructor joins it after the engine has freed its memory (`thread.c:106`, `exit_drop`). In a
  worker the same happens in a task that runs after a file task that exited.
- A class that stands in the table before its parent or interfaces gets copies of them of its
  own (`pht_copy.c:551`, `forward`).
- A parent that declares so much that a table is reallocated moves it from under the worker
  that walks it (`pht_copy.c:76`, `realloc`).
- A closure with captured variables that is destroyed while an entry has it leaves the entry
  with dangling variables (`pht_entry.c:324`, `drop_captured`).
- A callable that cannot be serialised is not refused: the task is added with a callable that
  was never written (`thread.c:430`, `bad_callable`).
- `insertAt()`, `updateAt()` and `$v[i] = x` leak their entry when the index is bad
  (`BadInsertOrUpdate`), as `$h[offset] = x` does when the offset's type is
  (`WriteBadOffset`).
- `resize(n)` with `n` the capacity of a vector that is not full does nothing (`ResizeSame`,
  `to_capacity`).

Modelled as the code is, with properties that say how far it goes:

- An integer that an `int` cannot hold arrives as another one (`pht_entry.c:280`,
  `RoundTrip`).
- The string of a serialised object is never freed, nor is the callable of a task that is
  refused (`pht_entry.c:45`, `thread.c:461`, `BlocksExact`).
- `addClassTask()` and `addFunctionTask()` leak the task when an argument cannot be serialised
  (`FreedOnFailure`; `addFileTask()` frees it), and a thread that is never started keeps its
  tasks for ever (`ReleaseUnstarted`).

## 5. What is proved

All theorems are for every value of the constants. They assume what the modules assume:
the bounds are natural numbers, `Kinds`, `Program` and `Habits` are sets of the names listed,
`set()` is called with integers, the sets of nodes, references and of a vector's entries are
finite, marks such as `Null`, `None` and `Junk` are not entries, the number of values of an
`int` is even, and a key of a HashTable is a string (or none) and an integer hash.

| Theorem | Statement |
|---|---|
| `TypeCorrect` | `PhtThread!Spec => []TypeOK` |
| `SizeCorrect` | `PhtThread!Spec => []SizeAgrees` |
| `RunsOnce` | `PhtThread!Spec => []ExactlyOnce`, with any number of workers on one list |
| `ArgumentsExact` | `PhtThread!Spec => []RefsExact` |
| `NoTaskLost` | `PhtThread!Spec => []NoTaskLeak` in programs that add file tasks only |
| `DestroysLast` | `Spec => []NoUseAfterDestroy` in programs without `start_twice` |
| `ImplementsRunner` | `Spec => RunnerSafe` in programs without `start_twice` |
| `AtomicIntegerProofs!TypeCorrect` | `AtomicInteger!Spec => []TypeOK` |
| `AtomicUpdates` | `AtomicInteger!Spec => []NoUpdateLost`, `set()` without the lock included |
| `SectionsHold` | `AtomicInteger!Spec => []SectionStable` |
| `CountsExact` | `ItcRefs!Spec => []RefcountExact` in programs without `count_locked` |
| `NothingLeaks` | `ItcRefs!Spec => []NoLeak`, likewise |
| `LocksExclude` | `ItcRefs!Spec => []LockExcludes`, likewise |
| `NobodyStuck` | `ItcRefs!Spec => []OnlySectionsBlock`, for every program |
| `UsedIsLive` | `ItcRefs!Spec => []NoUseAfterFree` in programs without `drop_early` and `count_locked`, with one worker or without containers |
| `ContextCopyProofs!TypeCorrect` | `ContextCopy!Spec => []TypeOK` |
| `CopiesWhole` | `ContextCopy!Spec => []CopiedWhole` |
| `LinksClasses` | `ContextCopy!Spec => []Linked` in programs without `forward` |
| `SourceKept` | `ContextCopy!Spec => []SourceStays` in programs without `keep` and `realloc` |
| `NoneForgotten` | `ContextCopy!Spec => []NoOrphan` |
| `ObjectsKept` | `ContextCopy!Spec => []ObjectLives` in programs without `keep` and `exit_drop` |
| `ConversionBlocks` | `EntryConversion!Spec => []BlocksExact` |
| `ConversionRoundTrip` | `EntryConversion!Spec => []RoundTrip` in programs without habits |
| `QueueAgrees` | `PhtQueue!Spec => []ChainAgrees` |
| `QueueKeeps` | `PhtQueue!Spec => []NothingLost` |
| `QueueTables` | `PhtQueue!Spec => []TableTrue` |
| `QueueIsFifo` | `PhtQueue!Spec => Fifo`, the queue of `EntryList` |
| `VectorKeeps` | `PhtVector!Spec => []NothingLost` |
| `VectorTables` | `PhtVector!Spec => []TableTrue` |
| `VectorIsList` | `PhtVector!Spec => IsList`, the vector of `EntryList`, in programs without `to_capacity` |
| `TableSearchable` | `PhtHashTable!Spec => []Searchable` |
| `TableKeeps` | `PhtHashTable!Spec => []NothingLost` |
| `TableUpdatesOwn` | `PhtHashTable!Spec => []UpdatesOwnBucket` |
| `TableTables` | `PhtHashTable!Spec => []TableTrue` |
| `TableIsMap` | `PhtHashTable!Spec => IsMap`, the map of `EntryMap` |

*PhtThread.* `SizeAgrees` is not inductive. `IInv` adds: `LockInv`, the lock is held exactly
by the thread inside a section; `SizeInv`, what the length is inside a section, and that a
load is still good when it is stored; `HandInv`, that what a thread needs in its hand is a
task; `HandleInv`, that a handle exists where it is used. For `ExactlyOnce`, `AgeInv` says
that each task on the list, in a hand or in the history is older than the one being built, and
`OnceInv` is the property itself, with the popped-but-still-linked task of a worker inside
`pht_queue_pop` treated apart. For the life of the lock, `ReapInv` says that the only worker
that may be running is the one the handle names. For the refinement, `DrainInv` says that a
worker that has left its loop has seen both the `JOINED` status and an empty list and that
nobody can have added a task since: the order of the two unlocked reads, status first, is what
makes it inductive.

The memory of tasks needs `EmptyInv` besides: nothing is being built
outside `add...Task()`, and a worker's hand is empty outside pop, run and delete. With
`OnceInv` it says that the number of a task that is built or held is nowhere else, so an
argument has one entry and `task_delete` frees it once.

*The refinement.* The pending tasks of `TaskRunner` are the task a worker has popped and
not run, then the list. The phase is `joining` from the store of `JOINED` until the worker
has ended. Pushing a task is `Add`; `RunTask` is `Run`; the worker's `PopEnd`, like every
other step of its loop, is a stutter. `ImplementsRunner` is for `TaskRunner!SafeSpec`; its fair
version `RunnerSpec` is checked by `thread_live`.

*AtomicInteger.* `MutexInv` ties the recursive mutex's depth to the thread's nested locks
and its call of `inc()`; `LoadInv` says that what a thread has loaded inside `inc()` or `dec()`
is what the other calls have made of the value by the time it stores, so that only a `set()` in
between goes by without a trace.

*ItcRefs.* The steps are first shown to act pointwise (the `...After` operators say what a
step does to every reference, thread and structure), so that the rest of the proof reasons
about one element at a time. `HandInv` says that a reference on a thread's `todo` list is that
thread's own, exists, and will be dropped once, whatever the other threads do: so `--` never
counts a reference that is gone. `MutexInv` says that a mutex has one owner at most and is held
as often as that thread has locked it, by `lock()` or to count; it needs programs that do not
count what they have locked themselves, because such a thread releases its own lock. `CountInv`
is `RefcountExact` with the load that is still good when it is stored. `drop_early` is allowed
throughout: it breaks `NoUseAfterFree` only. `NobodyStuck` has no hypothesis and an invariant
of its own, `HeldInv`, which survives a stolen lock: who counts owns the mutex, the owner of a
recursive mutex has locked it as often as its depth says, and that of another one has called
`lock()` or is counting.

*ItcRefs*, memory. `NoUseAfterFree` follows from the exact count once
nobody can be about to use a structure that another frees. `AnchorInv`: what a thread counts
up has a reference that stays where it is, the thread's own or an entry of a container it has
locked. `ClaimInv`: who has locked a container keeps an object of it and does not
count it. `MainInv`: the main
thread drops only what it keeps another object of, unless all others are done. From here the
two cases part. With one worker there is nobody else to drop at the same time; without
containers, `ShareInv` says that the main thread keeps an object of whatever the workers use,
because only it can have given it to them. Either gives `FreeInv`: who is about to free a
structure is the only thread that knows of it.

*ThreadTree.* `ParentInv` says that the creator of a Thread has started, and that a Thread's
last worker was created for it. `LiveInv` says that a Thread whose last worker lives is in its
creator's `child_threads` or its creator waits for that worker, until the creator has ended:
`join()` leaves a Thread in the set, the destructor and `RSHUTDOWN` take it out and wait, and
`start()` finds it there. `EndInv` says that a context that is in `RSHUTDOWN` has dropped every
Thread it made unless it exited with a status, and that no task is left to exit then;
`FreedInv`, by which no memory in use is freed, follows from it. The theorems are for
`TreeSpec`, and `Spec => TreeSpec` carries them over to `ContextCopy`.

*ContextCopy.* `WalkedTo`: of the part of the parent's table that the walk is past, the worker
has everything but anonymous classes and shadowed constants (`Lacks`), and nothing else; what
was promised lies in that part or ahead of the cursor, within the length read. It holds because
the parent only appends, and because a name that is in the worker's table stays there, so that
what shadows a constant goes on doing so. A name of the walked kind that the worker has lies
behind the cursor, so the walk is never kept from copying by the name itself. `LinkInv`: in every
table a class comes after those it refers to, so its parents have been copied when it is.

*EntryConversion.* Entries are in slots: an argument of a task in the list, one of the
running task, a cell. `Exact` says that a used slot's block holds what was sent, that no two
slots have the same block, and that a block in use is a slot's, an orphan's or a serialised
object's. Every step is shown to be of one shape, `SlotsChange` and `BlocksChange`: it empties
some slots, whose blocks it frees, and fills others from free blocks; `Exact` follows from the
shape once, whichever step it was. For `RoundTrip`, `AllIntact` says that every entry another
thread is to read has the block its value needs and, if it is a closure with captured
variables, that the closure still exists. A habit may break either, hence the hypothesis.

*PhtQueue.* The nodes form a chain: there is a sequence `s` of nodes (`Chain(s)`) that has
each node of the heap once, starts at `elements`, ends at `last`, is linked in its order and
is as long as `size`. `push()` appends to it, `pop()` takes its head, and the last pop resets
both ends. `Walk`, the chain that following `next` finds, is then that `s`, by induction on
the length; the queue's content is the entries along it, so `push()` and `pop()` are those of
`EntryList`.

*PhtVector.* `ArrayOK` with `NothingLost` is inductive. Each method is shown to insert, remove
or update at an index (`Inserts`, `Removes`), however it moves the slots, and then
`NothingLost` and the steps of `EntryList` follow from that alone. `VectorIsList` leaves out
`to_capacity`, where `resize(n)` changes nothing and returns the old length.

*PhtHashTable.* `TableOK(t, n)`: each live bucket of `t` is as many turns from its home as its
variance says and no bucket before it on the way is a never-used one, no two live buckets
match or share an entry, and a bucket without a value is empty or a tombstone. The loop of an
insertion moves items on while it runs, so its invariant, `Turned`, is about the table
together with the item in hand: the two hold what the table held and the new item, and every
bucket it has passed is in use. Hence it finds a place within `size` turns when one is left,
which `used <= size - size / 4` guarantees. A resize is a sequence of such insertions into an
empty table, by induction on the buckets of the old one. A tombstone is not a never-used
bucket, so `unset()` keeps what lies beyond it reachable. `SearchFinds`: a probe then finds
the bucket of a key if there is one, and nothing otherwise. The calls change the pairs of key
and entry as those of `EntryMap` do (`Writes`, `Removes`). The update probe compares buckets
without a value too: only the integer key 1 matches one, a tombstone (0 would match an empty
bucket, but its probe meets its own first).

*Property tables.* In all three, a call either empties `current` or leaves the content alone;
`get_properties` makes true what it makes current.

The loops are recursive functions. That such a function satisfies its own equation, and
facts by induction along it, are proved from the well-foundedness of `<` on the natural
numbers (`Induction`, `ReachableUnfolds`, `TurnsUnfold`, `RepopulateUnfold`).

Only model-checked: everything about liveness (`JoinTerminates`, `RunnerSpec`, `AllEnd`),
which the prover does not handle.

## 6. What is not modelled

- What a task does when it runs, and the PHP engine.
- The deep copy of one function, class, property or ini directive (the larger part of
  `pht_copy.c`) and the copies of engine functions (`pht_zend.c`): a field by field copy of
  engine structures, by one thread, with nothing kept between calls.
- Module start-up (`pht.c`), which sets interned names once.
- The interfaces `Runnable` and `Threaded`, which have no state, and byte strings.
- A worker that ends while it holds a structure's lock, which leaves it locked: the README of
  the repository warns of it, and in `ItcRefs` every holder unlocks.
- The widths of integers but for the `int` of an entry: the reference count, the sizes, the
  version numbers and `value` do not overflow.
- Failures of `malloc` and `pthread_create`, which the code does not look at.
- Weak memory: loads and stores are sequentially consistent (section 2).

## 7. What is left

1. `PhtThread` and `ItcRefs` are composed by hand only: the references that a task's arguments
   hold are counted in both. One module with both would show that the lock of a Thread and
   those of structures are never waited for in a circle.
