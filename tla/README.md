# Formal model of toy-kernel

TLA+ specifications of the kernel in `src/`, of the C library under its user
programs and of the programs in the initial ramdisk, with the TLC configurations
that model-check them and, for scheduler, paging and allocator, proofs checked by
TLAPS. Everything is translated from the source; `PROJECT.json` maps each
definition to its lines.

Run one model with `tlc -config <cfg> <module>` (the pairs are in
`PROJECT.json`), check proofs with `tlapm <module>` for the five `...Proofs`
modules.

## The system

A 32-bit x86 kernel for one processor, the C and C++ libraries of its user
programs, and a few programs in an initial ramdisk.

| Part | Source | Modelled by |
|---|---|---|
| Scheduler, tasks, exit, join, destruction | `kernel/task.cpp`, `ktask.h`, `task.S` | `Scheduler`, `ReadyQueue`, `RoundRobin`, `Context` |
| Interrupt entry and exit, descriptor tables, timer | `kernel/isr.cpp`, `interrupt.S`, `descriptortables.cpp`, `timer.cpp` | `Context`, `Scheduler` |
| Paging: directories, frames, counts, TLB | `kernel/paging.cpp`, `paging.h`, `bitarray.h` | `PageMemory`, `Paging`, `Reclaim`, `AddressSpace` |
| Kernel heap growth | `kernel/kmalloc.cpp` | `PageMemory` (pages), `Allocator` (bytes) |
| System calls | `kernel/syscall.cpp` | `Context` (dispatch), `Scheduler`, `Paging`, `Programs` |
| Boot, shutdown | `kernel/kernel.cpp` | `Scheduler`, `Paging`, `Context`, `Programs` |
| Allocator of kernel and programs | `utils/allocator.cpp`, `libc/umalloc.cpp` | `Allocator`, `Heap` |
| Program start-up, `system`, boot programs, shell | `libc/pre-main.cpp`, `system.cpp`, `userboot/` | `Programs`, `AddressSpace` |
| Command line, ELF loading | `libc/elf.cpp`, `system.cpp`, `pre-main.cpp` | `Loader` |
| File system from a USTAR archive | `utils/vfs.cpp`, `libc/opendir.cpp` | `FileSystem` |
| Containers, C string routines | `libcxx/include`, `BitVector.h`, `libc/string.cpp` | `Containers` |
| 64-bit division, decimal output | `utils/builtins.cpp`, `print.cpp` | `Numbers` |
| Serial port, terminal, type traits, build scripts | | not modelled |

How the parts interact. An interrupt pushes a frame on the kernel stack the TSS
names; the stub saves the registers and calls a handler. The timer's calls
`schedule`, which takes the front of the ready queue and leaves through one of
four assembly routines into the next task. A system call enters through an
interrupt gate, so it runs with interrupts off to its end, except
`destroy_user_task`, which turns them on around the destructor: that waits for
the task to exit (`Join`), gives its page directory back, and frees the object. A
`UserTask` constructor clones the kernel's page directory, sets a stack up, puts
the task on the queue and copies its code through a temporary mapping. Every
kernel allocation may extend the kernel heap, and the new page then has to appear
in every page directory. A failed assertion in the kernel stops the machine:
interrupts off, endless loop.

The main task creates the entry task from the ramdisk; that loads a second stage
as an ELF program, which runs two flat binaries and loads the shell, which runs
commands through `system`. A program that starts reads its arguments from its
parent's stack and the archive from the entry task's memory, through pages it
shares for that time.

## The modules

**Scheduler** is the life of tasks. Its variables are the fields of the code: the
queue as a sequence, `CurrentTask`, `state_`, `user_in_kernel_space_`,
`parent_task_` of each task, and of the processor the ring (`cpl`), the kernel
stack in the TSS (`esp0`) and the page directory (`cr3`). `place` and `joined` are
the program counter of a task: in its own code, in `Join`, in the rest of a
destructor; for the main task the stages of `kernel_main`. The actions:

| Action | Code |
|---|---|
| `TimerCallback` | the timer tick, and on each `kQuanta`-th one `schedule(regs)` |
| `create_user_task`, `exit_this_task`, `destroy_user_task` | the system calls |
| `PageFault` | `HandlePageFault`, on a task whose code is not there yet |
| `Join`, `DestroyTask` | the destructor: the wait, and what follows it |
| `KernelJumpToUserEntry`, `CopyCode`, `KernelEnd` | the main task |

No constructor sets `user_in_kernel_space_`, so a new task's is either value.
`user_in_kernel_space_` is cleared for the task left behind before the flag of
the next is read, and this order is kept. Registers are in `Context`.

**RoundRobin** is what the queue promises: unfinished tasks form a ring, the
processor goes round it, a new task comes right after its creator, an exiting one
is cut out. `Scheduler` and `ReadyQueue` both implement it, through
`INSTANCE ... WITH`. **ReadyQueue** is the same queue as the linked list it is,
from the kernel tasks of `kernel/tests.cpp` on. The main task runs `AddToQueue`
with interrupts on, so its two stores are two actions (`AddToQueueLink`,
`AddToQueuePublish`) between which tasks may run and exit; in a system call they
are one. `torn` is set when a freed node is published; from there on the list
leads through memory that may be anything, and is not followed.

**Context** is the machine below that: the words on the kernel and user stacks.
The stubs of `interrupt.S`, the dispatch of `isr.cpp`, the saving and restoring in
`schedule` and `task.S`, the gates and segments by selector and privilege and the
acknowledgement of interrupts are operators on a machine record; actions are the
stages of the boot, a tick, a device interrupt, an exception, each system call by
its number, and what kernel tasks do. The first word `schedule` reads, the next
pointer of the first node, is part of the machine (`node`): it is arbitrary
between the stores of `InitScheduler`, and `kfree` leaves it as it is at the end.
The main task's `AddToQueue` is in two steps here, too. History variables hold the context a task
lost the processor with, or made its system call with.

**PageMemory** has a memory (page directories, reference counts, frame bitmap),
and each operation of `paging.cpp` is an operator from a memory to a memory in
which a failed assertion is recorded. **Paging** has the actions on it: creating
the entry task, the first switch to a task (which reads the new stack through a
temporary mapping), and the system calls. Of the scheduler it keeps each task's
state and parent, and lets any runnable task go next. Whether an allocation
extends the heap is a free choice. **Reclaim** replaces the one step of
`ReclaimPageDirRegion` by its loads and stores: `--ref`, and the byte-wise
clearing of a bit. `Preemptible` says whether another task may run in between,
which the code allows.

**AddressSpace** adds to `PageMemory` what the words in the frames are, `cr3`, and
the TLB, so that a load or store goes where the processor's translation says.
`InvlpgDropsAll` says whether `invlpg` drops all entries, which the instruction
allows, or just the one it names. **Programs** composes it with the life cycle of
tasks and runs the programs of the ramdisk, each a script with one entry for each
system call, load or store that matters, with a switch between any two. The entry
task's constructor runs in the main task with interrupts on and has three steps:
up to `AddToQueue`, the mapping of the code page, the copy of the code
(`KernelJumpToUserEntry`, `MapCode`, `FillCode`). A task that executes without its
code stops the machine (`Fetch`).

**Allocator** is `utils/allocator.cpp`: the chunk headers by address, first fit,
splitting at both ends for alignment, growth by whole pages, forward merging,
`Realloc` in place or by copy, `heap_used_`. Each call is one step, as
`kmalloc.cpp` turns interrupts off and a program has one thread. **Heap** is its
promise: blocks that are aligned, in the heap and apart.

**FileSystem** is `vfs.cpp` over paths as sequences of tokens: the walk over the
headers of an archive, its octal sizes and padding, the assertions on sizes, the
making of nodes, look-up, `mkdir`, `mkfile`, writing, and listing with `opendir`
and `readdir`. Through libc a program's tree is const, so nothing is added during a
listing; `mkdir` and `mkfile` are used by the parser and by the user space tests.

**Containers**, **Numbers** and **Loader** are sequential code. A container is its
block of cells with what an allocation leaves there, beside the sequence it stands
for. A division or a print is a loop, one step for each turn. `Loader` splits a
command line, places segments, clears `.bss`, relocates, and packs and unpacks the
arguments. **MCLibrary** puts these three and `FileSystem` together for one run.

The `MC...` modules give TLC its constants. Operators commented "Mutant" are
plausible errors that `PROJECT.json` puts in the place of the definition that
follows them, to see that the properties notice.

## The runs

Passing runs:

| Run | Question | Bounds |
|---|---|---|
| `scheduler` | Are queue, processor context, references between tasks and the end of main right, does the scheduler implement the ring, does every task get its turn, does every wait for a finished task end? | main and three user tasks, a quantum of 2 |
| `ready_queue` | Do the pointers stay right, and implement the ring, with timer and exits between the stores of `AddToQueue`, unless the front task exits there? | main, three kernel and three user tasks |
| `context` | Does a task resume with the registers, flags, ring and stack it had, on every path into and out of the kernel; is a system call invisible but for its result; do kernel stacks stay bounded; does the timer keep ticking? | two user and two kernel tasks, a quantum of 2, three exceptions, two device lines |
| `paging` | Do counts, bitmap, common kernel mappings and separation of address spaces survive every sequence of system calls, and does only a lack of resources fail an assertion? | two page directories, eight frames, a heap of two pages, two user pages |
| `reclaim` | Do the steps of a destructor that nothing interrupts amount to the single step of `Paging`? | as `paging`, a heap of one page |
| `programs` | Does every program run its own code and get its arguments, environment and archive; do the windows between address spaces close; does the boot reach the prompt and every command return to it; is all memory given back? | five page directories, twenty frames, two commands |
| `allocator` | Does the chunk list tile the heap, is `heap_used_` right, are blocks aligned and apart? | 48 bytes in pages of 16, four sizes, three alignments |
| `library` | Do containers stand for their sequences; are division and printing right; is the loaded image the one linked; do the words of a command line arrive; is the tree the one the archive describes, and do look-up and listing find exactly what is there? | vectors and strings to 6, bits to 9, words of 7 bits, lines of 5 characters, an argv of 4; archives of up to three members, six nodes, blocks of 8 bytes, sizes of three digits |

Why the bounds are enough for the interesting cases. Three user tasks give a
queue with a task strictly between front and end, a grandchild of the entry task
and two siblings; object slots are reused, so creation is not bounded. A quantum
of 2 has ticks that switch and ticks that do not. Three kernel tasks, one more
than the tests ever have, let the front task, another one or none exit while main
adds a third. In `context`, one user task
waits in the kernel for the other's exit while kernel tasks are switched to. Two
page directories let one task share with, copy from and destroy another while the
heap grows under both, and eight frames are few enough to run out at each
allocation. In `programs`, five directories hold the entry task, the second stage,
the shell and two more: both flat programs at once, or a shell in the shell with a
command; one deeper and the page directories run out. Three heap pages and
requests of up to more than a page give heap extension by one and by two pages,
extension twice for the sake of alignment, splits at both ends and merges over
several chunks, and exhaustion. In `library`, capacities of 2, 3 and 4 are
outgrown twice, and a word of 7 bits has every case of sign, carry and zero that
one of 64 has.

Deadlock is checked everywhere. A stopped machine stutters explicitly (`Halted`,
`Stopped`, `Done`), so a deadlock would be a state the code has no step for.

Runs in which the code disagrees with what the repository says of it, each with
an entry under "findings":

| Run | What it shows |
|---|---|
| `scheduler_code` | The entry task is on the queue before its code page is mapped; a tick in between starts it, and it faults. |
| `ready_queue_torn` | If the task at the front exits between the two stores of `AddToQueue`, its freed node is published as part of the list. |
| `reclaim_preempted` | A switch between load and store of `--ref` loses another task's update of a count. |
| `programs_tlb` | `invlpg` is given the variable that holds the address, so a removed mapping can stay in the TLB. |

What the passing runs assume. `paging`, `reclaim` and `allocator` assume programs
that name valid handles, mapped sources and pages of the user's range, and free
what they hold, once, as the repository's programs do; the kernel checks no range
in `map_page` and `unmap_page`. The three stops that the code does not mean are
exceptions spelt out in the properties: `OnlyResourcesRunOut` of `programs` allows
the entry task to run without code while main is in its constructor (the subject
of `scheduler_code`), `OnlyExpectedStops` a freed node in main's `AddToQueue` (the
subject of `ready_queue_torn`) and a tick between the stores of `InitScheduler`
that finds garbage in the new node. `library` has archives whose paths fit the name
field of a header: a longer one has a prefix, which `getFullPath` joins to the name
without a separator. `programs` assumes `InvlpgDropsAll`, so that what it
shows is not about the TLB; `programs_tlb` drops that. `library` stops looking at
an object after a use the code does not support (`misused`): appending to a
string after an erase, as `push_back` writes no terminator and relies on the zeros
a growing block starts with, which no program does; and clearing a bit of a
`BitVector` that is still in its inline buffer, which `BitVector.h:53` does not do
and `Node::Dump` asks for, drawing a line too many.

Further facts the models agree on with the code and no run is about: a program
that exits without destroying the tasks it created makes its own destructor fail
`assert(child_tasks_.empty())`; the quantum is counted from the boot and not from
the switch, so a task that takes over from an exiting one may get fewer ticks
than `kQuanta`; `map_page` never returns `MAP_OOM`, as the search for a frame
asserts first; unmapping a page twice takes a reference from frame 0; `memcmp`
of equal blocks returns the difference of the bytes after them.

### Fairness

Liveness is checked in three runs, each under what the code's scheduling gives.

- `scheduler` (`NoStarvation`, `JoinReturns`). The timer is weakly fair: the PIT
  is programmed at boot to interrupt periodically, and interrupts are on in every
  state between two steps unless the machine has stopped. A task's kernel code
  that does not wait is strongly fair, per task: a task that gets the processor
  again and again executes instructions, though each of its turns may end before
  the next step of the model. Nothing is assumed of user programs; they may loop,
  exit or create tasks for ever.
- `context` (`TimerKeepsTicking`). Only that the timer device goes on raising its
  line (`TimerFair`). That the controller lets it through, and a handler is there,
  is what the property is about.
- `programs` (`CommandsReturn`). The main task gets on with the boot; the
  processor comes to a task that has something to do, which is less than what
  `scheduler` shows; and a processor that is with such tasks again and again makes
  one of them move; each unless the machine stops.

All four properties allow for a stopped machine; the invariants say what may stop
it.

## The proofs

For every value of the constants, from the assumptions named in the modules.

| Module | Theorem | Says |
|---|---|---|
| `SchedulerProofs` | `TypeCorrect` | `TypeOK` is invariant |
| | `QueueIsExact` | no task twice on the queue, the running one last, exactly the unfinished ones on it |
| | `ContextIsRight` | ring, kernel stack and page directory are those of the running task |
| | `NoDanglingTask` | no task pointer in use names a deleted task |
| | `CompletedStaysCompleted` | a task that exited never runs again |
| | `MainEndsAlone` | at `KernelEnd` only the main task is on the queue |
| `RingProofs` | `RingIsImplemented` | the scheduler implements `RoundRobin` |
| `PagingProofs` | `TypeCorrect` | `TypeOK` is invariant |
| | `ReferencesAreExact` | counts and bitmap are exactly what the directories say |
| | `KernelStaysCommon` | kernel pages are mapped alike in every directory |
| | `OnlyResourcesFail` | no assertion of the paging code fails but for want of a resource |
| | `TasksAreIsolated` | only `share_page` makes two tasks map one frame |
| `AllocatorProofs` | `ChunksStayExact` | until an assertion fails, chunks tile the heap and those in use are the blocks held |
| | `HeapIsImplemented` | the allocator implements `Heap` |

**Scheduler** (any set of user tasks, any quantum; `TaskAssumption`: the main task
and the null pointer are not user tasks; `QuantaAssumption`: `kQuanta` is
positive). None of the invariants is inductive alone. `Inv` is their conjunction
with `Bookkeeping`, which says what they leave open: a user task that waits for
the processor after having run has its flag set exactly if it was interrupted in a
destructor (without this, resuming it could pick the wrong ring); a task has a
pending destructor exactly while its place says so; the task whose destructor is
past `Join` is finished; the main task never leaves the queue (so an exiting task
has a successor). Lemmas on `Rotate` and `Unlink` say what they do to the members
and the last node of a list without repetitions; `TimerQueue`, `ExitQueue` and
`CreateQueue` carry `QueueExact` over the three kinds of change; then there is
one lemma for each action.

`MainEndsAlone` needs more. The assertion in `~Task` lets a destructor finish
only when its task has no children, so main can reach its end only if the tasks
hang together: `Tree` says that every non-empty set of live user tasks has one
whose parent is outside of it, `EntryOnly` that main's only child is the entry
task. A live task left after the entry task's destruction would belong to a set
closed under parents, which `Tree` excludes.

`RingIsImplemented` maps the queue to the ring by sending each task to the one
behind it, and the last to the front. Given `Inv`, the front is the task after the
current one; `Rotate` leaves every successor as it was, `Unlink` closes the gap of
an exiting task, and a node put before the front is one right after the running task, its
creator.

**Paging** (any number of frames above three, page directories, heap and user
pages; `LayoutAssumption`). `PageMemoryProofs` has a lemma for each operation on
memories, `PagingProofs` one for each action. The invariant is `Sound(mem)`, and
while the machine runs `Neat(mem)`. `Sound` is: types; `Counted`, the count of a
frame is the cardinality of its set of entries; `Shared`, common pages are mapped
alike; the heap is mapped from its bottom without a gap, so that the next page of
the heap is free in every directory; only resources ran out. `Neat` holds between
operations: the kernel's own directory maps nothing but common pages (so a clone
shares nothing else), no temporary mapping was left behind (so the next copy finds
its page free), every task has its shared space (so the first switch finds the
stack). Without `Neat` the assertions in `AddPage` could fail; it does not hold
within an operation, where `Sound` alone carries over. The counting is by
cardinality: writing one entry in a set of directories adds or removes as many
pairs as the code adds to or takes from the count, a clone adds one pair for each
of its entries that map the frame, and destroying a directory removes them.
`Private` says that two tasks have no more frames in common after an operation
than before; it composes, and every operation but `share_page` has it.

**Allocator** (any heap, any page size and start that are multiples of the header,
any sizes; `HeapAssumption`, and `AlignmentAssumption`: an alignment is below
`kMaxAlignment` or a multiple of it, as powers of two are). The invariant is
`Tiled(heap)` and `Held(heap, live)`, until an assertion fails. `Tiled` says what
walking up from the bottom meets. `Held` relates blocks and chunks in use, and
that every block is aligned to `kMaxAlignment`, without which `Take` could be left
with a front too small for a header. `CutTiled` says that cutting a chunk into
pieces that fill it keeps the tiling; it covers `Take` with its two splits and the
shrinking `Realloc`. `Changed(h, n, gone, new)` is what a call does to the chunks
in use: `Malloc` adds one, `Free` removes one, and the slow `Realloc` composes the
two. Two blocks are apart because the next chunk after one starts behind its end.
The theorem on chunks is conditional on no assertion having failed, because that
`heap_used_` covers every chunk to be freed is a sum over chunks, see below.

Only model-checked: liveness, which is out of the prover's reach; `Accounting`, a
sum over a set; `ReclaimIsAtomic` and what `ReadyQueue` promises; and everything
about `Context`, `Programs`, `FileSystem`, `Containers`, `Numbers` and `Loader`.
The last four compute by recursion or folds over data, on which the prover has no
induction.

## Not modelled

- The serial port is I/O with a device. Terminal and keyboard are not in the
  build. Type traits are compile-time code. Build and linker scripts run
  elsewhere, but what the linker makes of a program is an input of `Loader`.
- The bits of descriptors and of page directory entries (protection included),
  the assembly before `kernel_main`, the multiboot record, the PIT's divisor.
- Hexadecimal output and the scanning of format strings; `Node::Dump`; `getcwd`
  (nothing changes the directory), whose use in `shell.cpp` passes the size of a
  pointer; moves of vectors, `unique_ptr`, iterator adaptors; `memcmp`, `strncpy`.
- The inline assembly of the system call wrappers names no clobbered registers;
  what a compiler makes of it is not in the source.
- The wrap of 16-bit reference counts and of 32-bit sizes; copies that cross a
  4 MB page; an allocation that extends the kernel heap by several pages at once
  is in `Allocator`, not in `Paging`.
- The writes of the constructor through its creator's page directory
  (`task.cpp:151`) overwrite the creator's own argument word: `AddressSpace` has
  them, and no program reads that word again after it created a task.

## Plan

1. `Accounting` as a proof, by cardinalities of byte sets in the place of the sum,
   which would make `ChunksStayExact` unconditional.
2. `ReclaimIsAtomic` and the list of `ReadyQueue` as proofs.
3. A kernel heap that grows by several pages at a time in `Paging`.
