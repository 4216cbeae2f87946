# Verification of the operating systems course projects

This directory holds TLA+ models of the programs of this repository, the TLC
configurations that check them on small instances, and TLAPS proofs of their
main safety properties for instances of any size.

The repository holds four programs that do not talk to each other:

- `sched/`: the JOS kernel (x86, several processors) with two schedulers;
- `fisopfs/`: a file system for FUSE, in memory and saved to one file;
- `shell/`: a Unix shell;
- `fork/`: `primes` (a sieve made of processes and pipes) and `xargs`.

The kernel carries most of the concurrency and gets six modules; the shell has
two, `fisopfs` and `primes` have one each.

## 1. Inventory

### sched: the kernel

| Part | State it keeps | Operations |
|---|---|---|
| Environments (`kern/env.c`, `inc/env.h`) | `envs[NENV]` with status, id, parent, page directory, IPC flag, priority, waiting time; `env_free_list`; `curenv` per processor | `env_alloc`, `env_free`, `env_destroy`, `env_run`, `envid2env` |
| Scheduler (`kern/sched.c`) | priority and waiting time of each environment; `cpu_status` | `sched_yield` (round robin or priorities, chosen when compiling), `raise_priority`, `lower_priority`, `sched_halt` |
| Statistics (`kern/sched.c`) | counters, ring of the last 100 runs, start and end times | `init_sched_stats`, `record_env_run`, `record_env_exit`, `print_sched_stats` |
| Traps (`kern/trap.c`) | the trap frame of the environment | `trap`, `trap_dispatch`, `page_fault_handler` |
| System calls (`kern/syscall.c`) | none of its own | 15 calls: environments, priorities, IPC, pages, console |
| Big lock (`kern/spinlock.c`) | `kernel_lock` and its holder | `spin_lock`, `spin_unlock` |
| Boot, panic (`kern/init.c`) | `panicstr` | `i386_init`, `boot_aps`, `mp_main`, `_panic` |
| Pages (`kern/pmap.c`) | free list and reference counts of pages, page tables, TLB | `page_alloc`, `page_free`, `page_decref`, `pgdir_walk`, `page_insert`, `page_lookup`, `page_remove`, `user_mem_check` |
| Copy-on-write fork (`lib/fork.c`, `lib/pgfault.c`) | permissions in the page tables of parent and child | `fork`, `fork_v0`, `duppage`, `dup_or_share`, `pgfault` |
| IPC library (`lib/ipc.c`) | none | `ipc_send` (retry loop), `ipc_recv` |
| Console, monitor, devices, entry code, strings | hardware registers, text | not part of the core logic |

How the parts interact: a processor in user mode traps, takes the big lock in
`trap()`, is dispatched to a system call, the page fault handler or the
scheduler, and leaves through `env_run()`, which releases the lock. A processor
without work goes through `sched_halt()`, which marks it halted, releases the
lock and waits for an interrupt; `trap()` reads the mark back with an atomic
exchange to know that it must take the lock again. One processor acts on the
environment of another only through `env_status`: `env_destroy()` turns it into
a zombie (`ENV_DYING`) that its own processor frees at its next trap.

What is hard: everything outside the lock (user mode, the moment between
`unlock_kernel()` and `context_switch()`, the wait for the lock after a trap),
the handshake of `cpu_status`, zombies, calls on a child in an unexpected
state, the slots that are used again, the fairness of both schedulers, the page
that is shared, replaced or remapped while a second processor uses it.

What makes it correct: one processor in the kernel at a time; one processor per
environment; no address space freed under a processor; every zombie collected;
no slot leaked; nobody starves; `idle` only when nothing is left; no panic
caused by a program; reference counts of pages equal to the mappings; a write
after `fork()` seen by one side only; a message delivered once.

### fisopfs

State: a tree of `inode_t` in memory (name, mode, directory flag, children,
content, times, owner) and its image in `fs.archivo_disco`. Operations: the FUSE
callbacks `getattr`, `readdir`, `mkdir`, `create`, `open`, `read`, `write`,
`truncate`, `unlink`, `rmdir`, `utimens`, `init`, `destroy`, over the
helpers `crear_inode`, `buscar_inode`, `buscar_padre`, `agregar_hijo`,
`eliminar_inode`; `guardar_fs` and `cargar_fs` for the file. Hard: the order of
change and save (`mkdir` and `create` save first and link the inode after),
`fopen(..., "wb")` that truncates the only copy, crashes between the two, and
callbacks that FUSE may run on several threads without any lock. Correct: a
tree without sharing or cycles, unique names in a directory, and after a
remount every completed operation is there.

### shell

State: the command tree of a line, the current directory, the last status, the
children. Operations: `run_cmd` (foreground, background, pipes), `exec_cmd`
(redirections, pipes), the `SIGCHLD` handler, the built-ins `cd`, `pwd`, `exit`.
Hard: the handler and `run_cmd` both wait for children; pipe ends that must be
closed in each process; process groups. Correct: the shell waits for the whole
foreground command, leaves no zombie, and every pipe sees its end of file.

### fork

`primes`: a chain of processes, each filters the multiples of its prime; hard:
ends of pipes, errors half way, everyone waiting on everyone. Correct: prints
the primes up to n in order and terminates with every process collected.
`xargs`: batches of `NARGS` lines; hard: the array of arguments at its limit and
after a short last batch. Correct: every line passed once, in order, at most
`NARGS` at a time.

## 2. Modules

| Module | Models | Abstract specification |
|---|---|---|
| `Sched` | both schedulers as operators on a table | |
| `Kernel` | environments, traps, system calls, lock, panic, over `Sched` | |
| `Pages` | page allocator, page tables, TLB and the calls on pages | |
| `BootMemory` | `i386_init()` from the BIOS map to the first program, then `Pages` | |
| `CowFork` | `fork()`, `fork_v0()` and `pgfault()`, one system call at a time | `PrivateMemory` |
| `Ipc` | `ipc_send()` and `ipc_recv()` over the two system calls | `Rendezvous` |
| `Fisopfs` | the requests of FUSE and the file on disk | `FsPromise` |
| `ShellLine`, `Shell` | the parser's tree; the shell, its processes, pipes and signals | |
| `Primes` | the sieve of processes and pipes | the primes below `N` |
| `KernelProofs` | theorems on `Kernel` and `Sched` | |
| `IpcProofs` | theorems on `Ipc` | |
| `CowForkInvariant`, `CowForkProofs` | the inductive invariant of `CowFork`; theorems on it, its refinement among them | |
| `ShellProofs` | theorems on `Shell` and `ShellLine` | |
| `FisopfsLemmas`, `FisopfsProofs` | what requests and searches do to a tree and to what its paths name; the file on disk and the theorems on `Fisopfs`, its refinement among them | |
| `PagesInvariant`, `PagesLemmas`, `PagesProofs` | the inductive invariant of `Pages`; what its operators do to a memory; theorems on `BootMemory` | |
| `MC...` | small instances for TLC | |

The four abstract specifications are refinement targets: the detailed module
says `INSTANCE ... WITH` the part of its state a user can see and the run checks
the abstract `Spec` as a property.

The modules on the kernel cut it along the big lock. `Kernel` has the
processors, the lock and the life of environments, and its calls on pages are
`SysOther`. `Pages` takes what `Kernel` shows (a trap is one step, one processor
per environment) and models memory. `CowFork` and `Ipc` take both for granted and
model what user programs see between two system calls.

## 3. The model of the kernel

### Sched

`RRPick(run, start, e)` is the round robin loop of `sched_yield()`: slot `e` is
the first runnable slot after `start`, circularly. `MaxE` is `max_e` at the end
of the loop with priorities, which compares and ages at the same time: the
candidate has its old priority, `max_e` the new one. `PrioAfterScan` and
`WaitAfterScan` are the priorities and waiting times after the scan and the
choice. The function it iterates takes `MaxOf` at each slot, the comparison in the
body of the loop. `HighestPriority` is the 5 of `raise_priority()`, `MaxWaitTime` is 3.

### Kernel

Where each processor is (`pc`) follows the path through the code:

| `pc` | Code | Lock |
|---|---|---|
| `boot` | `i386_init()` about to call `env_run(&envs[0])` | held |
| `apstart` | `mp_main()` in `lock_kernel()` | waits |
| `user` | user mode | - |
| `acquire` | `trap()` from user mode, in `lock_kernel()` | waits |
| `wake` | `trap()` of a halted processor, in `lock_kernel()` | waits |
| `dispatch` | `trap_dispatch()` | held |
| `ret` | back in `trap()` after the handler | held |
| `sched` | entry of `sched_yield()` | held |
| `switch` | `env_run()` after `unlock_kernel()` | - |
| `halted` | `hlt` of `sched_halt()` | - |
| `idle`, `debug` | the monitor, which does not return | held for ever |
| `panic`, `dead` | `_panic()`; `hlt` of `trap()` after someone else's panic | held / - |

What happens between taking and releasing the lock is invisible to the other
processors except for its outcome, so a handler is one action and so is the
scan of the scheduler. What happens outside the lock is split: the trap, the
wait for the lock, the write of `env_cpunum` after the unlock, the mark and the
wait of a halted processor. The actions carry the names of the functions:
`SysExofork` is `sys_exofork()`, `EnvDestroy` is the body of `env_destroy()` used
by `SysEnvDestroy`, `SysEnvSetPgfaultUpcall`, `PageFault` and `BadTrap`, and so on;
`PROJECT.json` maps each definition to its lines. The calls on pages, the console
and `sys_getenvid()` leave the modelled state alone and are `SysOther`.

`child` is not a variable of the kernel. It is a history of what programs did
with a slot (made it, started it, asked to kill it) and is used to say which
calls a well-behaved program makes.

Programs are the environment of the model: in each state a program may raise
any trap of `Traps` with any id. `Misuse` lists the calls the kernel accepts
and that no program of `lib/` and `user/` makes: starting a child again
(`restart`), destroying a child that is already a zombie (`rekill`), an invalid
`dstva` (`bad_recv`), lowering a priority under `LOWEST_PRIORITY` (`underflow`),
exhausting the exception stack (`overflow`). With `Misuse = {}` the programs are
those of the repository, and any other with the same manners.

Abstractions: ids are pairs of a generation and a slot, and generations wrap
after `MaxGen` (in C, when the sum stops being positive); page directories are
present or absent; the failure of a call for lack of memory is a
nondeterministic choice; the content of trap frames, messages and pages is not
there: pages and messages have modules of their own. A page fault ends in one of three ways, as the code can: it reaches the
upcall, destroys the environment, or overflows the exception stack.

### Pages and BootMemory

A trap is one step, because the big lock is held from `trap()` to `env_run()`.
`memory` is the state of `pmap.c`: reference counts (`pp_ref`), the free list in
its order, and for each page that holds a directory or a table its entries;
`panic` says that an assertion failed. `PageAlloc`, `PageFree`, `PageDecref`,
`WalkCreate` (`pgdir_walk()` with `create`), `PageInsert`, `PageRemove`,
`BootMapRegion` and `UserMemCheck` are the functions of those names on such a
value, in the order of the code: `PageInsert` counts the page before it removes
what was mapped. `EnvSetupVm`, `FreeTable` and `EnvFreePages` are the part of
`env_alloc()` and `env_free()` that `Kernel` leaves out. `tlb` is what each
processor remembers; `UserAccess` fills it, `TlbInvalidate` drops one entry of
the current processor only, and loading `cr3` (`EnvRun`) drops all. `leaked` is a
history: the pages that `env_page_alloc()` loses.

Addresses are counted in pages and a table has `NPT` entries; the map of
`memlayout.h` keeps its order with that size. The content of data pages is not
there.

`BootMemory` is `i386_init()` up to `env_run(&envs[0])`, in phases: memory is
detected, `boot_alloc()` carves off the directory, `pages[]` and `envs[]`,
`page_init()` builds the free list, the self-tests of `mem_init()` run (each
`Check...` operator answers whether its assertions hold and what it leaves
behind, the reordered free list included), the kernel is mapped, `mp_init()`
reads the table of processors, each processor maps its APIC through
`mmio_map_region()`, and the first program is loaded. Then the machine runs as
in `Pages`, with the processors that were found.

### CowFork

User programs between two system calls. A physical page is the set of places
(environment, address) that map it, with its content. `fork[e]` is where `e` is
in `fork()` or `fork_v0()`, `fault[e]` where it is in `pgfault()`; the processor
may switch after any step, and the page fault handler may interrupt `fork()`
anywhere for its stack. `Scan` reads the entry of a page from `uvpt`; `DuppageChild`
and `DuppageParent` are the two calls that follow, with the entry read before.
Memory may be used up at any `sys_page_alloc()`. `unlucky` is a history of the
environments for which `set_pgfault_handler()` found no memory.

`PrivateMemory` is what `fork()` promises: each environment has its own memory,
a child gets each page as it is at one moment of the fork, and no write crosses.
The refinement shows each alive environment what its mappings hold and each
child under construction the pages that are already safe.

### Ipc

`pc[e]` is `try` before `sys_ipc_try_send()`, `yield` before `sys_yield()`, `recv`
while the environment sleeps in the kernel, `woken` when it has been made runnable
and has not yet read its fields. `SendFails`, `SendWipes`, `SendHalts`, `SendLater` and
`SendDelivers` are the outcomes of `sys_ipc_try_send()`. The page it sends may not
be mapped: `page_lookup()` then leaves `pte` unwritten, and the outcome is any of
`SendFails`, `SendWipes` and `SendHalts`. `Rendezvous` is the promise: a message
passes from one sender to one receiver at one moment, when both are there.

### Fisopfs

`inodo` is the heap, `raiz` the root, `archivo` the records of the disk file in
the order in which `guardar_inode()` writes them. A request is one action up to
its save (`GuardarTras`), then `AbrirDisco`, `VolcarBuffer`, `CerrarDisco` are
`fopen("wb")`, the buffer of stdio that spills, and `fclose()`; `Responder` ends
the handler, and only there is the new inode of `mkdir` and `create` linked. The
process may be killed between any two (`Muere`). `FisopfsInit` is `cargar_fs()`: it
rebuilds the tree, from a file that may end early, in which case the nodes
beyond the end are uninitialised (`Basura`). `FsPromise` has a tree by path and a
copy of it on disk.

### ShellLine and Shell

`ShellLine` classifies the tokens of a line by what the parser does with them
and computes the tree of commands and how many blocks it holds. A tree of pipes
hangs to the right (`parse_line()` makes a command of what precedes the first
`|` and a tree of the rest), so that it is the sequence of its commands:
`fork()` of the left side takes the head, of the right side the tail. A line ends
with nothing after its last `|` or with a command; an empty part anywhere else is
not an `IsLine`, because `parse_cmd()` returns NULL for it and `run_cmd()`
dereferences it. `Shell` has the
process of the shell (`pc`, `tree`, `child`, `status`, `heap`), the processes it makes
(`procs`, with what each has open) and the pending `SIGCHLD`s. The actions of a
process are those of `exec_cmd()`; the handler may run before any step of the
shell, or of a process that holds a pipeline. A program either reads to the end
and ends, or writes until nobody reads.

### Primes

`pc[i]` follows process `i` through `imprimir_numeros_primos_con_procesos()`,
`fds[i]` is what it has open, `data[i]` what is in the pipe it reads. `pipe()` or
`fork()` may fail anywhere.

## 4. Properties and runs

| Run | Instance | What it shows |
|---|---|---|
| `any_programs` | 2 processors, 2 slots, every trap, every misuse | `TypeOK`; `LockOwner` (a processor is in the kernel exactly while it owns the lock); `HaltHandshake` (`cpu_status` tells the truth about halted processors); `FreeListExact` (no slot lost or handed out twice); `PagesOrPanic` |
| `lifecycle` | 2 processors, 3 slots, every trap, no misuse | `OneCpuPerEnv`, `UserEnvAlive`, `ActiveHasCpu`, `RecvingIsBlocked`, `IdleIsFinal`, `CpunumIsTrue`, `NoPanic`, `ZombieReapedByItsCpu`, `OnlyOwnerPreempts` |
| `zombies` | 2 processors, 2 slots, 2 generations, fair | every zombie is freed in the end (`ZombiesCollected`) |
| `round_robin` | 2 processors, 4 environments, fair | `NoStarvation` with round robin |
| `priorities` | 1 processor, 3 environments, priorities, fair | `NoStarvation` for a fixed set of environments; the choice is never more than one ageing step below the top (`PicksNearTopPriority`) |
| `pages` | 5 machines, up to 2 processors, 2 environments | `RefsMatch` (reference counts are the references); `PagePartition` (each page is used, free, taken at boot or known to be lost); `AddressSpaces`; `TlbFresh`; `BootsIfRoom` (a machine panics at boot if and only if it lacks memory, and every processor found sees its APIC) |
| `cow_fork` | 3 environments, 6 pages | `ForkCopies` (implements `PrivateMemory`); `CowIsMended` (whoever has copy-on-write pages can mend them) |
| `ipc` | 3 environments, 4 calls, fair | `Messages` (implements `Rendezvous`); `SendersAreHeard` (nobody sleeps in `ipc_recv()` while somebody sends to it) |
| `fisopfs` | 3 inodes, 2 names, files of 2 bytes | `Promesa` (implements `FsPromise`); `ArbolBienFormado`; `AtrasoDeUno` (what a crash between requests loses is at most one empty inode); `ConsultasFieles` (the handlers that read agree with the tree) |
| `shell` | 2 lines, 6 pids, fair | `StatusIsLast` (the handler never steals the status of the foreground command); `HeapExact`; `NothingLingers` (pipes end, no zombie remains) |
| `primes` | numbers below 20, pipes of 2 numbers, fair | `SieveEnds` (everybody ends and the output is the primes, or a prefix of them if `pipe()` or `fork()` failed) |
| `rekill` | 2 processors, 2 slots, a second destroy of a zombie | a counterexample, see "Findings" |

### Bounds

- Two processors are enough for every interaction the kernel has: a processor
  acts on an environment that at most one other processor runs. The proofs
  cover any number.
- Two or three slots: a parent, a child and a third environment that takes a
  slot again or competes for a processor. `round_robin` has four, two more than
  processors, because with three the order of the scan cannot matter: there is
  never more than one candidate.
- `MaxGen = 1` makes ids wrap at the first reuse of a slot, the worst case for
  stale ids; `zombies` uses 2, so that ids change and return.
- `MinPriority` bounds how far `sys_env_lower_priority()` goes below zero, in
  `any_programs` only. The runs with round robin set `HighestPriority = 0`, as
  priorities do nothing there.
- `priorities` has `MaxWaitTime = 3` as in the code and `HighestPriority = 2`, so
  that environments reach both ends of the scale.
- `pages`: tables of 16 entries and three addresses, two in different tables
  below `UTOP` and one at `UTOP` itself, which must be refused. The five machines
  have two processors, one (with an entry the kernel does not know), no table
  at all, little memory, and no extended memory, so that the boot panics on some
  of them and memory runs out in the middle of calls on the others. Pages that
  programs use have no identity but the places that refer to them: the `VIEW`
  `UpToNames` identifies states that differ by a renaming of such pages, which
  no operator and no property can tell apart (the allocator only ever takes the
  head of the list). `Remote = FALSE` says that a parent does not change the
  mappings of a child that runs on another processor.
- `cow_fork`: three environments, so that a child forks while its parent forks
  again; a read-only page, a data page that is also the stack, and the
  exception stack; six pages, less than three environments need, so that
  memory runs out at every place. The two environments that are not the first
  are interchangeable (symmetry; no liveness is checked there).
- `ipc`: three environments are two senders for one receiver, or a chain; four
  calls in all are two messages and a competitor, or a third message. One value
  is enough, as senders and pages are told apart by their environment.
- `fisopfs`: two names, three inodes and paths of two components are a root, a
  directory and a file in it, or siblings. Two bytes give gaps, overlaps and
  reads at the end. `calloc()` never fails and `fopen()` not twice in a row.
- `shell`: the three lines hold every kind of token and every kind of command:
  in the background, with redirections before an empty part, and a pipeline of
  three with two redirections and `&` in its last part. With two lines a command
  in the background ends during the next one. Six pids are reused.
- `primes`: the eight primes below 20, ten processes, pipes that are full most
  of the time (2 numbers).

Deadlock is not checked where the system may stop: the monitor, a breakpoint and
a panic stop the processors for ever, as they do in the machine; every program
may exit; `exit` ends the shell; the sieve ends. `fisopfs` never stops, and there it
is checked.

### Fairness

- Kernel. `FairTimer`: a processor that can take a step takes one in the end (the
  hardware executes), and the timer strikes each processor again and again:
  `lapic_init()` programs it in periodic mode and the interrupt is pending while
  interrupts are disabled, so it is taken on the way back to user mode however
  often the program traps for other reasons. Hence strong fairness of `Timer`.
  `FairLock`: strong fairness of taking the lock. `spin_lock()` is a loop on
  `xchg` without a queue, so this is an assumption on the bus arbitration of the
  hardware; with weak fairness a processor could spin for ever while the others
  alternate. The fair runs leave breakpoints and misuse out: a monitor that
  holds the lock stops everything by design.
- `Ipc`: each environment that is in the middle of a call goes on, which is
  `NoStarvation` of the kernel. Nobody has to make a call or to leave.
- `Shell`: the system runs somebody as long as there is somebody to run, and
  programs with nothing left to do end. A program that is killed, a command that
  fails or a line that is typed is never forced. No behaviour is infinite, so
  one fair action stands for all.
- `Primes`: the same, for the processes of the sieve.

## 5. What is proved

`KernelProofs` (any programs, any number of processors, slots and generations,
both schedulers). The inductive invariant is

    SysInv == TypeOK /\ LockOwner /\ HaltHandshake /\ HasEnv
              /\ FreeListExact /\ PagesOrPanic

`HasEnv` (a processor that handles the trap of a program has a current
environment) is needed to type `curenv[c]` as a slot in every handler.
`SystemInvariant` proves `Spec => []SysInv`; `TypeCorrect`, `LockOwned`,
`HaltIsHandshake`, `FreeListIsExact` and `PagesThere` follow. The proof splits by
conjunct and then by action; `PushFree` and `PopFree` carry the reasoning on the
list, `MemCases` says that each step leaves the memory alone, frees one slot or
allocates one.

The second half (under `Misuse = {}`, which is the assumption on programs of
section 3). The inductive invariant is `SafeInv == SysInv /\ ProgInv`, where
`ProgInv` holds the properties of the run `lifecycle` and four facts they need:

- `LiveSlots`: a slot has an address space iff it is not free, so that
  `env_destroy()` of a live environment never reads a NULL directory;
- `CurenvLive`: the current environment of a processor is not free, and is
  `RUNNING` while its trap is handled. Without it `PageFault`, which calls
  `env_run()` without looking at the status, could revive a zombie;
- `ChildMeans`: a fresh child is blocked, marked as no receiver and current
  nowhere, which makes `set_status` safe; "killed" means zombie, which makes a
  second destroy recognisable;
- `BootReady`: `envs[0]` is runnable when the boot processor runs it.

The central step is `OtherCpu`: seen by the holder of the lock every other
processor is outside the kernel and its environment is running or a zombie.
`ProgramInvariant` proves `Spec => []SafeInv`, and nine theorems give the
properties of `lifecycle`, the two action properties from a case analysis of
every change of `env_status` (`StatusChange`).

`IpcProofs` (any number of environments, values and calls). The inductive
invariant is `IpcInv == TypeOK /\ CallOK /\ WokenOK`: whoever sends has a target
and a value in hand, and whoever has been woken has a sender, a value and, if
its page was asked for and sent, a page in its window. The key lemma is
`TargetSleeps`: a target whose `env_ipc_recving` is set sleeps in `ipc_recv()`, so
it is not the sender, and nobody has been woken whose fields could be
overwritten. `ImplementsRendezvous` proves `Spec => Messages`: each outcome of
`sys_ipc_try_send()` maps to one step of `Rendezvous` or to none (`DeliversMaps` to
`Meet`, the failures to `Leave`, a retry to a stutter). `NoneAssumption` says that
`None` is not a message.

`KernelProofs` also proves `PicksNearTop`, about the scan of `sched_yield()` with
priorities: the environment that is picked is outranked, once aged, by no
runnable one. `MaxE` is a recursive function of the loop counter, so the proof
is by induction on it. The induction theorems of the library take a predicate as
a parameter, which no installed prover can instantiate; the lemma `Induction`
says the same of a *set* (a set with 0 and every successor has all naturals) and
follows from the well-foundedness of `<`. With it `ScanIsDefined` shows that the
recursive definition has a value up to each slot, `MaxIsScanned` that `MaxE` is
the last of them, and `MaxIsNearTop` that whoever the scan passes over is below
the winner.

`CowForkProofs` (any environments, addresses in any order, pages and values).
`CowInv`, in `CowForkInvariant`, relates the page tables, the pages and the
positions of everybody in `fork()`, `fork_v0()` and `pgfault()`:

- `MemoryOK`: what is mapped has exactly one page, which is what `page_decref()`
  has to keep; `FlagsOK`, `PcOK`, `LifeOK`: types, and only the living act;
- `Gives`: a child under construction maps exactly what the loop has passed;
- `Faults`, `TempOK`: what `pgfault()` has at `PFTEMP` is shared with nobody but
  the page it is about to replace, and holds the same;
- `Mends`, `Stacks`: whoever has copy-on-write pages has its upcall and its
  exception stack, or `set_pgfault_handler()` failed;
- `Exclusive`: a page that one can write is seen by nobody else, except between
  the two calls of `duppage()`, where the child has it already and the parent
  has not given up its right to write: until `DuppageParent` the page does not count
  as the child's.

`CowInvariant` proves `Spec => []CowInv`; `TypeCorrect` and `Mended` follow.
`CowRefines` is `Spec => ForkCopies`: under `CowInv` the
memory that `PrivateMemory` shows (`Memory`) is the content of the mappings that
count (`SeesMemory`), and every action maps to a step of `PrivateMemory` or to a
stutter. `DuppageParent`, `V0Copy` and, for a page that was copy-on-write or
read-only already, `DuppageChild` map to the copy of one page; the four calls of
`pgfault()` are invisible; `Write` is a write in one memory only, by `Exclusive`.
`CowForkAssumption` says of the addresses what `memlayout.h` does: none comes
twice, the exception stack is the last, the normal stack is writable, `PFTEMP`
is none of them, and the first program fits in the machine.

`ShellProofs` (any lines, pids and number of lines typed). The inductive
invariant is `ShellInv == TypeOK /\ Processes /\ MemoryHeld /\ Foreground`:

- `Processes`: every process is in the table with a parent other than itself,
  and only those that run a pipe, or the shell, have a `SIGCHLD` to handle;
- `MemoryHeld`: the blocks allocated are those of the command that runs, and
  what `parse_exec()` drops;
- `Foreground`: while the shell waits, its child is in the table, or nothing is
  expected of its status; a child that is past `setpgid()` has a group of its own,
  so that the handler, which reaps the group of the shell, cannot take it. A
  child that was killed before `setpgid()` is the exception, and the handler of a
  pipeline may have reused its pid.

`StatusLast` follows from `Foreground`, `MemoryExact` from `MemoryHeld`, `TypeCorrect`
from the first conjunct. What the memory needs is `LineFreed`: for every line,
`free_command()` frees what `parse_line()` allocated and did not drop. Its lemmas
are on sums (`SumAdds`, by `Induction` over a sequence) and on counting tokens
(`CountAdds`, by cardinality of disjoint sets). One lemma per way to change the table
(`StepKeeps`, `ForkKeeps`, `EndsKeeps`, `ReapKeeps`) carries the actions.
`ShellAssumption` says that pids are positive and that lines are `IsLine`.

`PagesProofs` (any environments, processors, pages, addresses and size of a table).
The boot works on given numbers, and its self-tests say whether it went well;
what is proved is that a machine that starts to run in order stays in order:
`InOrder == phase = "run" /\ PagesInv /\ IdleKnown`, and `StaysInOrder` is
`Spec => [](InOrder => []InOrder)`. That every boot which does not panic ends in
order is what `TypeOK` checks in `pages`. The invariant, in `PagesInvariant`, is
about a memory `m`, the directories `D` of the environments and the page `h`
that a call holds, because `page_insert()` counts a page before it maps it:

- `Records`, `FreeList`: the free pages are different, uncounted, and no tables;
- `Directories`: each environment has one of its own, equal to the kernel's
  above `UTOP` except at `UVPT`, and the kernel has nothing below;
- `TablesApart`, `UserTablesOK`: a table belongs to one entry of one directory,
  and what it maps is neither a table nor a directory. Without this a write of
  one entry could change the references of another;
- `RefsCounted`: each count is the number of entries, environments and held
  pages that refer to it: `RefsMatch`, with the page in hand;
- `OneRunner`, `TlbInv`: an environment runs on one processor, which is what
  makes the local `tlb_invalidate()` enough when `~Remote`;
- `IdleKnown` (in `BootMemory`): the pages neither free nor counted are those
  taken at boot and `leaked`.

`PagesLemmas` has one lemma for each function of `pmap.c` (`AllocInv`,
`DecrefFields`, `RemoveInv`, `WalkInv`, `PutInv`, `InsertInv`): what it does to the
invariant, to the mappings of every address space and to the idle pages. The
counts follow from `WriteSlotRefs`: writing one entry moves one reference. The loops of
`env_free()` are recursive functions; `TableLoopInv` and `UserLoopInv` follow them
entry by entry with `Induction`, and `TableDroppedInv` and `DirFreedInv` show that
each table and the directory have lost all but their last reference.
`PagesProofs` has one lemma per trap. `CountsStayRight`, `SpacesStayApart`,
`NoPageIsLost`, `TranslationsStayFresh` and `NeverPanics` follow. `PagesAssumption`
says that there are finitely many environments, as `envs[]` is an array: a
count is the cardinality of a finite set.

`FisopfsLemmas` and `FisopfsProofs` (any names, modes, sizes, depth and any finite
set of inodes). The inductive invariant `FisopfsInv` has three parts:

- `ArbolInv`, the tree: in the heap every inode other than the root and the one
  that waits for `agregar_hijo()` is the child of one directory, once
  (`UnSoloLugar`); the names of a directory differ (`NombresDistintos`); only
  directories have children; and the inode that waits is empty and brings a
  name its directory does not have (`PendienteSano`), which the search of `mkdir`
  saw before the save and which must still be true after it.
- `EnMemoria`, the depth: no inode lies deeper than a path can reach (`Hondo`),
  and neither will the one that waits. Without it the recursion of
  `guardar_inode()` could be cut, and the dump would not be whole. `Sobras`: what
  was made up for the end of a cut file is no directory.
- `EnDisco`, the file: it is `Sano`, that is, at every record but the last more
  are expected, only directories expect children, every record goes into a
  directory before it under a name of its own, and none too deep.

`WalkIsTaken` and `SearchFinds` say what `buscar_inode()` answers,
`CreateKeepsTree`, `AddKeepsTree` and `RemoveKeepsTree` what the requests do to the
heap, and `MapIsSearch` that the walk by first match finds what the set of all
inodes of that path names. The file is a recursive dump of the heap. `BlockParents`
says how counts and parents compose when the dump of a child follows what has
been written, `LevelIsTree` and `DumpIsTree` follow the recursion of
`guardar_inode()` by induction on the depth that is left, and `DumpIsSound` gives
`Sano` of what a save writes. `CutIsSound`: every prefix of a `Sano` file is one.
`PaddedIsSound`: and so it stays with the nodes that `cargar_inode()` makes up past
its end. `ChildrenRead` and `MountedTree`: a mount of it is a tree. `FisopfsInvariant`,
`TypeCorrect`, `TreeStaysATree` and `QueriesStayTrue` follow for every sequence of
requests, failed saves, crashes and mounts.

`LagsByOne` and `KeepsPromise` (the refinement of `FsPromise`) speak of `Arbol` and
`Durable`, the maps from paths to nodes that the heap and the file stand for.
`PathInduction` (on the length of a path) carries the lemmas on such maps:

- `PathUnique`: an inode of the tree lies on one path, so a change of one inode
  shows at one path. `AddShows`, `ContentsShow` and `RemovalShows` say what
  `agregar_hijo()`, a new content and `eliminar_inode()` do to `Arbol`: a leaf more
  (or nothing, when it hangs deeper than a path reaches), one content changed,
  a leaf less.
- `MirrorTree`: two heaps with a correspondence of inodes that keeps children and
  what is seen of each have the same map. `DumpIsMirror`: the nodes that a mount
  makes of a whole dump mirror the heap that was dumped, so that
  `cargar_inode()` undoes `guardar_inode()`. With `DumpReads`, the file of a save is
  `Roto` until its last record and then `Arbol`.
- `StepKeepsLag`: `AtrasoDeUno` with `FisopfsInv` is inductive. When a request goes on
  after its save, the file is the dump of the heap (in `EnDisco`), so the copy on
  disk is the tree before `agregar_hijo()`; `AddShows` gives the one inode by
  which it lags afterwards.
- `StepMaps`: a step of `Fisopfs` is a step of `FsPromise` or a stutter, by one lemma
  for each kind of step: `MountMaps`, `RequestMaps` for the change a request makes
  before its save, `OpenMaps`, `SpillMaps` and `CloseMaps` for the save, `AnswerMaps`
  for the change made after it and `EndMaps` for the end of the process.

Two assumptions name values that are no data: `Ausente` is not a sequence of
records (a file that does not exist is not an empty one), and `NoMontado` is not
a map from paths to nodes.

Only model-checked: `NoStarvation`, `ZombiesCollected`, `SendersAreHeard`,
`NothingLingers` and `SieveEnds` (liveness under fairness is out of the prover's
reach); those of `BootMemory` that speak of the boot: `BootsIfRoom`, the types, and that the boot
ends in order.

The constants are assumed to be what their names say (at least one slot, the
boot processor among the processors, at least one environment created at boot
and at most `NENV`, `MinPriority <= 0`, and the assumptions named above), and TLC
evaluates these assumptions in every run.

## 6. Findings

`rekill` (`env.c:470`): a second destroy of a zombie frees it while the other
processor still executes it; `env_destroy()` only tests `ENV_RUNNING`.

The models show other differences between the code and what its comments or
documents say, that no run keeps. In `Kernel`, with `Misuse` or the bounds as said:

- `syscall.c:183` (`Misuse = {"restart"}`, `OneCpuPerEnv` fails): `sys_env_set_status()`
  overwrites `ENV_RUNNING`, and a second processor runs the same environment.
- `syscall.c:416` (`{"bad_recv"}`, `RecvingIsBlocked` fails): a receive that fails
  leaves `env_ipc_recving` set.
- `trap.c:373` (`{"overflow"}`, `NoPanic` fails): an overflow of the exception stack
  panics the kernel instead of destroying the environment.
- `sched.c:204` (`PicksTopPriority` fails in `priorities`): the scan compares old
  with new priorities and can pass over the environment with the highest one.
- `sched.c:172`: after an exit the scan starts at slot 0 instead of after the
  environment that ran last.
- `sched.c:203`: with priorities, a program that keeps forking children that
  exit at once starves another environment for ever (`NoStarvation` fails in
  `priorities` with `exofork` and `set_status` among the traps and more slots).

In `Pages`, `CowFork` and `Ipc`:

- `syscall.c:57`: the page of a failed `env_page_alloc()` is lost, although the
  comment at `syscall.c:234` asks for it to be freed. `PagePartition` needs `leaked`.
- `pmap.c:578`: only the current processor invalidates its TLB. With
  `Remote = TRUE`, `TlbFresh` fails.
- `sys_page_map()` never checks the permissions it is given; `sys_cputs()` asks for
  a writable string where its comment says readable.
- `mp_init()` without a table leaves `ncpu` at 0; each processor overwrites the
  pointer `lapic` with a new mapping of the same device.
- `lib/fork.c`: the test for `PTE_COW` in `pgfault()` compares a masked value with
  0 or 1 and never fires, so that a write to a read-only page gets a private,
  writable copy instead of a panic. `ForkCopies` holds all the same.
- `lib/pgfault.c:36`: `set_pgfault_handler()` fails without a word, and `fork()` goes
  on. `CowIsMended` makes this exception and no other.
- `fork_v0()` in a child of `fork()` shares copy-on-write pages as
  read-only; in a run all programs use the same one of the two.
- `syscall.c:384`: a send whose page is not mapped replaces the page of the
  receiver by zeros before it fails, and looks at an uninitialised pointer on the
  way: it may halt the kernel.
- A page that the receiver did not ask for leaves its `env_ipc_perm` as it was,
  where `lib/ipc.c:11-12` promises 0. `ipc_recv()` is safe if its caller passes the
  address it reads the page from.
- With several senders one may lose every race; only the receiver is promised
  progress.

In the other programs:

- `fisopfs.c:245`: the only copy is truncated before it is written; a crash there
  loses the whole file system (`Roto`). The next mount reads past the end.
- `fisopfs.c:445`: the gap of a write past the end holds whatever `realloc()` left.
- `mkdir` and `create` save before they link: the new inode reaches the disk with
  the next save only. A file that ends early may come back as a root that is no
  directory, against `fisopfs.md`.
- `runcmd.c:70`: `fork()` is not checked, and a foreground command that is killed
  before `setpgid()` may be collected by the handler; its status is lost.
- `$?` after a pipeline is the raw status; `cmd 2>&1 &` runs in the foreground, as
  the first `&` is the one that counts; tokens that expand to nothing leak; the
  handler calls `printf`, which is not safe in a handler.
- `parsing.c:195`: an empty part before a `|` becomes a NULL command, which
  `run_cmd()` and `exec_cmd()` dereference; `IsLine` leaves such lines out. Not
  enumerated in the lines of `shell`: an `&` at the beginning, more arguments than
  the array holds.
- `primes`: a failure of `pipe()` or `fork()` half way ends the processes before it by
  `SIGPIPE`, so the output is a prefix and nobody reports it but the one that
  failed. The order of the output is that of a terminal; into a pipe each
  process flushes when it ends, the last prime first.
- `xargs.c:85`: fewer than `NARGS` lines in the first batch leave entries of the array
  uninitialised, which are freed.

## 7. Not modelled

- Statistics of the scheduler: read by nothing but the last report.
- Console, monitor commands, interrupt controllers, assembly entry code:
  registers and glue. Their effect (a timer that strikes, a monitor that never
  returns) is in `Kernel`.
- Strings and formatting, in the kernel and in the other programs; the bytes of
  an ELF image and the segment registers.
- The layout of the frames on the exception stack: `CowFork` has a fault as one
  return from `pgfault()`, since the handler touches nothing that faults.
- `xargs`: one process with a sequential loop.
- Requests of FUSE on several threads: nothing guards the tree, so two at once
  are data races on `realloc()` and `free()`, without a meaning to model.
- Known gaps of the abstraction: `curenv` and `cpu_status` are read at trap entry
  in one step with the test of `panicstr`; the model lets a processor that has
  passed the test go on, as the code does.

## 8. Running

    tlc -config lifecycle.cfg MCKernel   (also any_programs, zombies, round_robin,
                                          priorities, rekill)
    tlc -config pages.cfg MCPages
    tlc -config cow_fork.cfg MCCowFork
    tlc -config ipc.cfg MCIpc
    tlc -config fisopfs.cfg MCFisopfs
    tlc -config shell.cfg MCShell
    tlc -config primes.cfg MCPrimes
    tlapm KernelProofs.tla
    tlapm IpcProofs.tla
    tlapm CowForkProofs.tla
    tlapm ShellProofs.tla
    tlapm FisopfsLemmas.tla
    tlapm FisopfsProofs.tla
    tlapm PagesLemmas.tla
    tlapm PagesProofs.tla

Definitions whose comment says "Mutant" are variants of the code with one
mistake in them, kept to show that each property notices the mistake it is
meant for; no specification uses them.
