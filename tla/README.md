# A TLA+ development of Orlix

Orlix runs a Linux kernel port (`arch/orlix`) as one thread of an iOS or macOS
process. There is no hypervisor, no MMU of its own and no preemptible CPU: user
code runs in the same address space as the kernel, a Darwin signal handler takes
the place of exception vectors, copies of pages take the place of page tables,
and virtio devices are functions of the kernel they serve. What can go wrong is
therefore not what goes wrong in an ordinary port, and little of it is in reach
of a test: it depends on when a signal arrives, on which pages share a host
page, on which address space ran before, and on who called whom.

The modules here model those parts from the source, check them with TLC on
small instances, and prove with TLAPS the central safety results about each
of them, for any number of tasks, pages, sessions, signals and buffers.

Paths below are relative to `src/`; `KOV` is
`OrlixKernel/Sources/ports/orlix/overlay`, `HA` is
`OrlixHostAdapter/Sources/OrlixHostAdapter`.

## 1. Inventory

### A. User trap transport
`HA/runtime/trap.c`, `KOV/arch/orlix/kernel/{hosted_exec,process,idle}.c`.
*State*: the hosted thread's registers and `TPIDR_EL0`; `user_active`, `kernel_sp`,
`active_user_tls`; trap frame and resume frame; the `pending` flag, the mutex and
condition variable of the timer thread; the timer signal, pending and masked;
per task `task_pt_regs`, `thread.user_tls` and the work it is in the kernel for.
*Operations*: trap by `BRK` (system call, TLS write), by fault or by timer
signal; system call gate; resume by publishing a frame and spinning until the
timer thread replaces the thread state; TLS trampoline; clone, exec, exit,
context switch, signal delivery.
*Interaction*: two threads over unlocked flags; calls into the kernel; page
faults go to B.
*Hard*: interleaving of the timer thread with the trap and return windows, lost
wakeups, failing Mach calls, stale TLS in the hardware register.
*Correct when*: each task computes with its own registers and TLS, enters on its
own kernel stack, is redirected only where it waits for it, and is preempted.

### B. Shadow user memory
`HA/memory/kernel_mapping.c`, `KOV/arch/orlix/mm/{init,fault,uaccess,mmap}.c`,
`KOV/arch/orlix/include/asm/{tlbflush,mmu_context}.h`.
*State*: page tables, frames, and per host page of the user aperture (a window)
its protection and the frames its segments copy.
*Operations*: mirroring before a return (pc, stack, fault neighbours), fault
service, copy-back of writable windows at every trap, refresh after
`copy_to_user`, flush on page-table changes, drop of all windows on a change of
address space; also kernel windows, `ioremap` and the system call gate page.
*Interaction*: called by A at every trap and resume, calls Linux fault handling,
which can sleep, so other tasks run in the middle of a mirroring pass.
*Hard*: stale copies, lost stores, a host page that holds several Linux pages,
translation of system call instructions in the copies.
*Correct when*: it behaves as an MMU, keeps address spaces apart, and no
translated text reaches a frame.

### C. virtio-mmio transport
`KOV/drivers/orlix/virtio/mmio.c`, `KOV/arch/orlix/kernel/irq.c`.
*State*: per slot the registers and queues (`ready`, `last_avail`, ring
addresses), `pending_queues`, the work item, the input poll timer; in memory the
available and used rings.
*Operations*: register access, notification (deferred for block, at once for
console and entropy), the serving loops, `push_used` with the interrupt, reset.
*Interaction*: upstream drivers call it by register writes and are called by it
through the interrupt; it calls D and E.
*Hard*: reentrancy of the interrupt handler, lost notifications, wrap of indices.
*Correct when*: each available buffer is used once, in order, and answered.

### D. Host console
`HA/terminal/console.c` and the transport in `OrlixOS/Sources/Session/OrlixOS.swift`.
*State*: a 65536 byte input ring under a lock, an output descriptor.
*Operations*: enqueue, read, write, set descriptor. *Hard*: a full ring, a full
pipe, a descriptor that is closed while it is used. *Correct when*: what the ring
accepts arrives once and in order.

### E. Host block storage
`HA/boot/resources.c`.
*State*: registry of at most eight root images; selected block paths, sizes and
writability; state images on disk.
*Operations*: register, clear, look up, select for boot, create a state image
from its template, read, write, flush. *Hard*: crash in a copy, registry changed
between registration and boot, bounds in sectors against bytes. *Correct when*: a
boot sees the images its session registered, the base image is never written, and
a state image is a complete one.

### F. Clock events and idle
`KOV/arch/orlix/kernel/{time,idle}.c`, `HA/runtime/{time,thread}.c`.
*State*: armed, periodic, deadline. *Operations*: set next event, periodic,
oneshot, shutdown, poll (at traps, system calls and in the idle loop), sleep
until the deadline. *Hard*: polled time, handlers that rearm. *Correct when*: an
armed event is delivered, once, not before its deadline.

### G. Signals and system call restart
`KOV/arch/orlix/kernel/{signal,syscall,traps,ptrace}.c`.
*State*: registers, system call number, signal frame, saved mask. *Operations*:
restart decision, frame set-up, `rt_sigreturn`, the exit loop. *Hard*: several
signals for one interrupted system call. *Correct when*: a system call is
restarted or ends with `EINTR`, once, as on arm64.

### H. Boot control
`OrlixKernel/Sources/boot/{loader,handoff,params}.c`, `KOV/arch/orlix/boot/boot.c`,
`OrlixLinuxSession` in `OrlixOS.swift`. *State*: the boot-once latch, boot
parameters. *Hard*: two sessions that boot at once share the registry of E.
*Correct when*: one session boots, with its own images.

### I. Environment store and OCI import
`OrlixOS/Sources/Session/OrlixEnvironment.swift`, `OrlixRootfsImport.swift`,
`OrlixOCIImageLayout.swift`, `OrlixEnvironmentImageMaterialization.swift`.
*State*: one directory per environment with images, staging trees and a
descriptor; in an import the tree and its manifest. *Operations*: prepare, save,
load, list, copy, import a tar or an OCI layout with roll-back, apply layers and
whiteouts. *Hard*: two operations on one id, a kill between file operations,
roll-back of the wrong directory, whiteouts against entries of the same layer.
*Correct when*: a listed environment is complete, a failed one leaves nothing, and
the manifest describes the tree.

### J. Linux init
`OrlixOS/Sources/init/{init,rootinit}.c`. *State*: mounts, console, pseudo terminal,
shell process, the command read from `/proc/cmdline`. *Operations*: assemble the
overlay root, mount, start the command, relay, reap. *Hard*: the exit of the shell
against `poll`, blocking writes in both directions, a command line that Swift
writes, the kernel cuts and init reads with limits of its own. *Correct when*: the
command of the descriptor runs as its user, mounts hide nothing, the relay moves
every byte in order and ends when the shell does.

### K-M. Other parts
The tty and block driver skeletons (`KOV/drivers/orlix/{tty,block}`), the
terminal application (`OrlixTerminal`), the test runner, the Linux oracle, build
scripts and the C library build keep no state worth a model.

### How the components meet
A calls B before every return and B uses the page-fault path of A. C runs inside
the kernel that A runs; its work items and timers run when tasks do. D feeds C's
console queue; E serves C's block queues and is configured by H from what I
stored. F is polled by A; G changes the registers that A resumes. J is user code
of A whose terminal is C and D.

Two facts of the code shape every module. The kernel is not preemptible and has
one CPU, and clock and device interrupts are calls (`orlix_timer_poll`,
`orlix_irq_dispatch`): kernel code interleaves with other kernel code only where
it sleeps or calls. Real concurrency exists only with host threads: the timer
thread (A), the typing thread (D) and sessions (H, I).

## 2. Modules

| Module | What it is |
| --- | --- |
| `TaskExecution` | abstract: private registers and TLS of Linux tasks |
| `HostedTrap` | A: hosted thread, Darwin signals, timer thread |
| `HostedTrapProperties` | its properties, inductive invariant, mapping to `TaskExecution` |
| `HostedTrapProofs`, `HostedTrapRefinement` | its theorems |
| `PagedMemory` | abstract: page tables and frames as an MMU gives them |
| `ShadowMemory` | B: windows of user memory |
| `ShadowMemoryProperties` | its properties and the mapping to `PagedMemory` |
| `ShadowMemoryProofs` | its theorems: isolation, coherence, the refinement of `PagedMemory` |
| `VirtioQueue`, `VirtioQueueProperties` | C with an input queue without limit |
| `VirtioQueueProofs` | theorems about the queue of the block device |
| `DurableDisk` | abstract: disks whose flushed contents survive |
| `BlockStorage`, `BlockStorageProperties` | E and H: from two sessions that boot to the sector on disk, with kills and power losses |
| `BlockStorageProofs` | their theorems |
| `InterruptibleCalls` | abstract: system calls, handlers and masks as a program sees them |
| `ClockEvents` | F: the polled clock event device |
| `UserCalls`, `UserCallsProperties` | G composed with F: a task, its handlers, the exit loop and the clock |
| `UserCallsProofs` | theorems, with the refinement of `InterruptibleCalls` |
| `PtyRelay` | D and J: the input ring and the relay of the pseudo terminal |
| `LinuxInit`, `LinuxInitProperties` | J: PID 1 from the overlay root to the end of the relay (extends `PtyRelay`) |
| `LinuxInitProofs` | theorems about the mounts, the command and the terminal |
| `NumberLemmas` | least numbers, division with remainder |
| `MCHostedTrap`, `MCShadowMemory`, `MCVirtioQueue`, `MCBlockStorage`, `MCUserCalls`, `MCLinuxInit` | instances for TLC |

Operators that end in `_Mutant` stand before the definition they distort. They
are plausible bugs; each property is violated when its mutant takes the place of
the definition.

### HostedTrap
`mode` is where the hosted thread executes: user code, the trampoline, the gate,
the handler, the kernel entry, the kernel, `resume` (frame written, not yet
published) and the spin. `tpc` is where the timer thread is: between its test of
`pending`, its test of `user_active` and the signal it sends, so everything the
hosted thread does in between is an interleaving of the model. One action is one
stretch of code without a shared access that matters: `TrapHandler` is
`OrlixHostUserTrapHandler` for a trap of user code, `TrapEntry` and `GateEntry` the
entries into the kernel, `SyscallDispatch`, `SwitchTo`, `Clone`, `Exec`, `ExitTo`,
`DeliverLinuxSignal` what the kernel does, `ResumeCurrentUser` and
`PublishResume` the way back, `Redirect`, `SuspendFails` and `SetStateFails` the
three outcomes of the timer thread's attempt.
Registers are abstracted to who computed them (a task, a system call result, a
signal handler, a new image), TLS to values inside the aperture, zero, the
host's, and one that no program can use: unaligned or outside the aperture. `Clone`
stores whatever it is passed, as `copy_thread` does (`process.c:132-133`); the TLS
write and the gate test what they take. Registers that were consumed become `"dead"`: reading one is a bug that
the invariant excludes. Darwin may lose `TPIDR_EL0` at any time
(`LoseUserTls`), as the repair code in `trap.c` says.

### ShadowMemory
`pte` and `frame` are Linux; `prot`, `seg` and `shadow` are the windows. A
mirroring pass over a window (`sync`) collects its pages one by one; between two
of them the task may sleep and another may run (`Switch`), because
`handle_mm_fault` can. `Trap` is a trap with its copy-back, `ServeFault` the fault
handler, `Resume` the passes before a return: over the page of `pc`, the pages around
the stack pointer up to its own, that of the next push and that of the stack pointer (`StackQueue`).
One that cannot mirror the page of `pc` ends in the panic of the code, and the others
go on. `CopyToUser` and `SyncUserReadRange` are the accesses of system calls. `Mmap`, `Munmap`, `Mprotect` and
`Fork` are Linux, with `FlushRange` where Linux flushes the TLB. A page holds one of
three contents: zero, a text with a system call instruction, and the same text
translated.

### VirtioQueue
`calls` is the call chain: the serving loop, the interrupt handler it calls, and a
loop that the handler causes by a notification. `Serve` pushes a buffer on the used
ring and calls the handler (`push_used`); the count of the buffer
(`last_avail++`) happens when the handler returns (`IrqReturns`). An interrupt
that arrives while its handler runs is dropped, as `handle_simple_irq` does.
The work item takes `pending_queues` and serves the queue if its bit was there, once
when it starts and again after each loop (`NotifyWork`, `LoopEnds`): a bit that is lost loses the request.
The driver (`Submit`, `TakeUsed`, `Reset`, `Probe`) is upstream code and modelled
from its use: the block driver adds requests in process context and in its
handler, the console driver gives each buffer back as soon as it has read it.

### BlockStorage
Each session is a thread that clears the registry, registers its root images and
boots (`pc`, `todo`). The registry has a lock, so that one access is one step
(`ClearImages`, `RegisterImage`, `SelectFiles`, `SelectBundled`, ...), and everything
else interleaves: a second session can clear and refill the registry between the
registration and the two look-ups of the first. `started` is the latch of
`loader.c`. Making a state image is the sequence of the code: look at the
superblock, copy the template piece by piece, extend with zeros. Images are maps
from places to contents; `file` is what the host sees, `synced` what survives a
loss of power, and a sector reaches `synced` whenever the host likes
(`WriteBack`) or at a flush. `Kill` and `LosePower` can happen between any two
steps; the next boot starts from what they leave. The registry knows identifiers and
not sessions: an entry of the same identifier is overwritten by whoever comes
later (`RegisterImage`), and a boot copies the entry it finds (`root`) and works on the paths in it.
A flush is an `fsync`: it changes nothing on disk (`Flush`), since Darwin only hands the data to the drive. A request of Linux (`req`) goes
buffer by buffer, as `orlix_virtio_mmio_process_block_request` does, and can fail
at each. `torn` is a history variable: images whose making was interrupted.
Under the mapping to `DurableDisk` a boot may only make a disk that is not there;
everything else that sessions do is a stutter.

### UserCalls and ClockEvents
One task: its registers (`pc`, `x0`, the call number, `orig_x0`, `in_syscall`), its
signal frames, masks and the restart block. The program and its handlers call,
compute and return. A call is a `BRK`, with its number in `x8`, or goes through the gate
(`Gates`), which takes the number from `x0` and puts the argument there, so that a call made
again finds the argument for its number. A result is compared as an `int` (`AsInt`): it may
be a longer one whose low half is a restart code (`LongResult`). When a frame cannot be
written the program ends (`SetupFails`) or its handler of `SIGSEGV` starts (`SetupFaults`). `mode` is where the kernel is: in a call, asleep, polling the
clock, and in the three parts of `orlix_exit_to_user_mode_work`. Each pass of that
loop decides anew: reschedule (other tasks run, and may send a signal), signals
(restart, rewind, `EINTR`, deliver with a frame), resume work. `Sigreturn` restores a frame,
forgets the call and sets the restart block to one that ends with `EINTR`, as
`signal.c:232` does. `ClockEvents` counts the time that is
left until the event and polls it where the code does: after a system call, at
the timer trap and in the idle loop, which sleeps until the deadline. A poll that
comes late by several periods advances the event past now.

### PtyRelay and LinuxInit
`ring` is the array of `console.c` with its head and length, so that a byte that is
stored in the wrong cell is seen. Bytes carry numbers, so order can be
stated. Input is typed from the start of the boot, and the tty holds it until init reads. Before the relay begins, `make_transport_raw`
sets the modes of the tty with `TCSAFLUSH`, which discards the first bytes of what it holds,
any number of them (`MakeTransportRaw`). `relay` follows `relay_pty` call by call: reap, poll, the two copies, the
look at the hang-up; a write takes any part that fits and blocks otherwise. The
shell reads, prints, may leave a process on the terminal and exits; it closes
its files before it can be reaped, as Linux does. `LinuxInit` runs the two boots:
the development boot through `rootinit.c` with its wait for the disks, and the
other one straight into `init.c`. The command line is a sequence of tokens: `Tokens`
is what `OrlixEnvironment.swift` writes, `Lines` what `setup_arch` keeps of it (the
cut can fall between tokens or within a value) and `SelectedCommandConfig` what
init makes of that, with its limits. Up to `MaxFailures` steps of a boot fail, each
in the way the code handles.

## 3. Runs

| Run | Shows | Bounds |
| --- | --- | --- |
| `HostedTrapSafety` | types, the inductive invariant, the three control properties, a TLS that cannot be used comes only from `clone`, refinement of `TaskExecution` | boot task and two slots, two TLS values beside zero, the host's and one that cannot be used, any of them passed to `clone`; about 1.9 million states with symmetry |
| `HostedTrapLiveness` | a resume reaches user code; user code is preempted while the timer signal is deliverable | boot task and one slot |
| `HostedTrapStaysPreemptible` | *violated*: finding 1 | one slot |
| `ShadowMemoryCoherence` | windows behave as an MMU: no store lost, none visible where it should not be, no translated text in frames | two address spaces, two pages, one page to a host page; text, then shared or private file memory; about 1.1 million states with symmetry |
| `ShadowMemoryIsolation` | a window copies only frames of the running address space, and writes back only to those | two address spaces, one window of two Linux pages: a stack beside text or data; about 2.1 million states with symmetry |
| `ShadowMemoryMissedPages` | *violated*: finding 2 | one address space, three windows of two pages |
| `ShadowMemoryThreads` | *violated*: finding 3 | two threads of one address space, two pages |
| `VirtioBlockQueue` | every request is served once, in order, and completes, over resets | three buffers, indices modulo 6, seven requests; about 50,000 states |
| `VirtioConsoleQueue` | *violated*: finding 4 | two buffers, indices modulo 4, five inputs |
| `BlockStorage` | one Linux boots, on the two images of one root image that is registered under the identifier of its session, and of that session unless another one registers that identifier; no base image is written; reads and writes that succeed have happened; state images are whole unless their making was interrupted; refinement of `DurableDisk` | two sessions that boot the same identifier, one with two root images of the bundle and one with an environment; a registry of two, images of two sectors, requests of up to two buffers; about 304,000 states |
| `UserCalls` | refinement of `InterruptibleCalls`; `restart_syscall` goes on with its own call; signals arrive, clock events are handled, sleepers wake | two signals, one with `SA_RESTART`, the other `SIGSEGV`; one frame deep, one mask, the program calls by `BRK` and its handlers through the gate, one long result; polls late by up to one period; about 244,000 states |
| `LinuxInit` | input in order and, unless both sides block, arriving; the end of the shell noticed; no mount hides another; the command of the descriptor runs; the boot ends | ring of 2 bytes, tty of 2, buffers of 2, 1 and 1, typing from the start; two failures; eight commands below, at and above the limits; about 432,000 states |

*Why the bounds suffice.* The trap transport has one hosted thread and one timer
thread; a third task adds no interleaving, since a switch involves two, and the
proofs remove the bound altogether. Two TLS values are needed to confuse them.
In the shadow memory two address spaces are needed for fork, copy-on-write and
aperture reuse, two pages for a window with a neighbour; a frame beyond one per
page and space is never used. The product has four Linux pages to a host page (4096 bytes in 16 KiB,
`target-settings.xcconfig:34`). There the refinement of `PagedMemory` fails in two ways: through finding 2,
and where a page that can be written shares its window with text or with a page that cannot
(`kernel_mapping.c:851`). The coherence instance therefore has one Linux page to a host page; without those two the theorem
`ShadowMemoryIsMmu` covers any number, and its specification (`BackedSpec`) was checked by TLC with two. The other
instances have two pages to a window. A fault that mirrors its neighbours as well
(`Neighbours`) needs more pages than most instances have and happens in `ShadowMemoryMissedPages`; the proofs cover it.
In the queues the indices wrap during the run, and a buffer is
reused while others are in flight. In the block storage two sessions are what it takes
to disturb one another; two sectors of two places tell a file that ends within a
sector, a copy that stops half way and a request that goes past its first
buffer. Both sessions boot the identifier `default`, so each can overwrite the entry of
the other. The registry is never full, since two identifiers fit; a registry that
refuses an image is covered by the proofs. In `UserCalls` a handler
inside the program is where a second activation uses the one restart block;
two signals are needed for one that arrives while the other is being delivered.
In `LinuxInit` each buffer is smaller than what flows through it, so that each is
full, empty and partly written, also before the relay. Something is typed or printed in an undisturbed boot
with one command only (`Used`), since neither the ring nor the relay looks at either; the relay itself runs in every boot.

*Deadlock* is checked for the trap transport. It is not for `ShadowMemory`, where
a kernel panic ends the run, nor for `VirtioQueue`, whose payloads are bounded by
`Last`. It is checked for `BlockStorage`, where a request can always
be submitted or a process killed, and for `UserCalls`, where the idle loop
always has a step. In `LinuxInit` it is not: init pauses for ever at its end, or
Linux has panicked.

*Fairness.* `HostedTrapLiveness` assumes that the timer thread keeps running, that
Darwin schedules the handler and delivers a signal that stays deliverable, that
a resume that was published goes on, and, by strong fairness of `Redirect`, that
`thread_suspend` and `thread_set_state` do not fail for ever. It assumes nothing of
user code, of the kernel's choice of tasks, or of Darwin's loss of the TLS register.
The timer thread sleeps in a timed wait (`trap.c:631-650`), so a lost wakeup costs a
period and not the resume.
`VirtioBlockQueue` assumes that a call chain continues and queued work runs,
which is what a work queue promises; it assumes nothing of the driver.
`UserCalls` assumes that kernel steps, the idle loop and time go on, and, by strong
fairness of `TrapTimer`, that a program that computes is trapped again and again
by the host timer: `HostedTrapLiveness` shows that it is while the timer signal is
deliverable, and finding 1 when it is not. The program itself may compute for ever.
`LinuxInit` assumes that init, the console driver and a shell that writes go on, and
that a shell that reads again and again does read (`SF` of `ShellReads`); it does not
assume that the shell stops printing, exits or gives up the terminal, nor that
anybody types.

## 4. Findings

1. *Lost preemption* (`trap.c:689`). The timer thread tests `user_active` and sends
   the signal in two steps. If the hosted thread traps in between, the signal is
   handled in the return window and the redirect replaces the context of its
   handler: the signal stays blocked in user code.
2. *Missed pages* (`uaccess.c:69`). A write to user memory through a window that is
   not installed creates the window with one of its pages; the others read as zero. The product, with four
   pages to a window, is exposed to this.
3. *Freed frame in a window* (`init.c:514`). A page is unmapped by another thread
   while a mirroring pass that has noted its frame sleeps.
4. *Console queue* (`mmio.c:485`). The driver's handler returns a buffer and notifies
   from inside the loop that has not counted it yet; the inner loop serves the same
   entry again, and the device runs past the available index.

`PROJECT.json` quotes the text that each one contradicts. The following were met
while the code was modelled. They have no run that is violated: the models contain what the code
does, and the specifications are as weak as that makes them, which is said in each.

5. *System calls through the gate* (`hosted_exec.c:622-664`). The gate stores the
   first argument in `x0`, and a restart moves `pc` back by one instruction, to the
   branch into the gate, which then takes that argument for the call number. `UserCalls` does the
   same, and `InterruptibleCalls` promises only for a call by `BRK` that it is made again with its own argument.
6. *A long result* (`signal.c:162`). The result of the call is compared as an `int`:
   a 64 bit result whose low half looks like a restart code is thrown away, and the call, which
   has happened, is made again or ends with `EINTR`. `InterruptibleCalls` allows that for such results
   (`LongResult`). One that looks like `ERESTART_RESTARTBLOCK` would even go on with a sleep of another call;
   the theorems exclude it (`NoLongBlock`).
7. *Clobbered registers* (`trap.c:472`). The TLS trampoline leaves the TLS value in
   `x16` and the program counter in `x17`, also on the return from a timer trap,
   while `hosted_exec.c:656-658` says that the saved user frame is restored.
8. *TLS across exec* (`hosted_exec.c:259`). A switch between exec and the first
   resume stores the hardware register, which holds the TLS of the old image, into
   the new one (`thread.user_tls` is reset in `process.c:83` and `:94`).
9. *A command line that is cut* (`setup.c:95`). The line is cut at `COMMAND_LINE_SIZE`
   and the user and group come last in it (`OrlixEnvironment.swift:640-642`): a
   command whose line is too long runs as root. So does one whose `setuid` fails
   (`init.c:718`), which is only reported. Arguments beyond the 16th, environment
   beyond the 32nd and what follows a value of 2048 bytes are dropped without a word.
   `RunsTheCommand` is stated for a command that fits and steps that succeed.
10. *The end of the relay* (`init.c:590`, `:621`). When the shell has been reaped, or
   hangs up, the relay ends without draining the terminal, so that the last output
   can be lost; when it hangs up before it can be reaped its exit status is lost. A
   key typed at that moment makes the write fail. A process that the shell
   leaves behind hides its end until the next input.
11. *Two writers* (`init.c:534`). The relay blocks in a write to the terminal while the shell
   blocks in a write of its own (`Jammed`); only the end of the shell breaks it.
12. *State images* (`resources.c:674`). An image whose copy was interrupted, or failed,
   is kept for ever, because only its superblock is looked at; and one whose superblock
   the guest destroys is replaced at the next boot. Identifiers that differ only in characters
   that the file name replaces share one image. Two sessions that boot at once may both be refused.
13. *Another session's image* (`resources.c:224-240`). The registry is keyed by identifier, and the identifier of a root
    image is free text with a common default (`OrlixEnvironment.swift:28-29`, `:487-493`): a session can boot the image that another
    one registered under the same name, and the initial RAM disk can come from a different entry than the disks.
    `RunsOnItsImages` promises the session's own images only if no other session uses the identifier (`NameIsOwn`).
14. *Flush* (`resources.c:1074`). A flush is a plain `fsync`, which on Darwin does not wait for the
    drive (`F_FULLFSYNC` does). What Linux was told is flushed can be gone after a loss of power: `AnswersAreTrue` says
    nothing of a flush, and `DurableDisk` has none.
15. *Input before the relay* (`init.c:210`). What is typed before init makes the tty raw, and has left
    the ring by then, is discarded. `InputInOrder` says that only the front of the input can be lost so.
16. *A TLS that is not tested* (`process.c:132-133`). `clone` stores the TLS it is passed, while the TLS write and the gate
    refuse one that is not aligned or not in the aperture. The child
    starts with the value in the register, but nothing repairs it once Darwin has lost it; `ImplementsTaskExecution` promises nothing of the TLS of such a task.

Two smaller divergences: a program that sets its TLS to zero keeps the old value, and the
sentence "keeps host code on host TLS" of the implementation log does not hold after a
context switch, harmlessly, since host calls switch TLS themselves.

## 5. Theorems

The first group is about `HostedTrap` for any set of tasks and TLS values, and any value that is passed to
`clone`; it assumes only that the boot task is a task and that the tokens of the model are distinct
(`IdleAssumption`, `TlsAssumption`, `TokenAssumption`).

- `Inductive`: `Spec => []IInv`. The properties are not inductive by themselves. That a
  trap enters on its own stack needs that only user tasks leave the kernel, without
  an open system call (`SlotInv`). That a task keeps its registers needs that a
  frame is read only while it is live and that a resume frame is the saved state of
  the current task (`FrameInv`). That it keeps its TLS needs to know, for every mode,
  which of the thread struct, the hardware register, `active_user_tls` and the
  frames holds it (`TlsInv`). `IInv` is their conjunction, is itself checked by
  `HostedTrapSafety`, and is proved per part (`TypeStep` and its neighbours), one
  step per action.
- `TypeCorrect`, `UserActiveIsExact`, `RedirectIsInvited`, `OwnStack` follow from it, and `TlsIsUsable`
  (`OddTlsOnlyFromClone`): a `thread.user_tls` that cannot be used, such as the TLS of the host left in the register, comes
  only from a `clone` that was passed it. The trampoline loads only usable ones (`TypeOK`).
- `Refines`: `Spec => ImplementsTaskExecution`. Steps of the transport, of Darwin and of
  the timer thread stutter under the mapping; user steps, traps, system call
  results, clone, exec, exit and signals each map to one step of `TaskExecution`.

The second group is about `BlockStorage` for any sessions, root images, sizes and
contents (`ImageAssumption`, `SizeAssumption`):

- `StorageInvariant`: `Spec => []StorageInv`. The invariant says that the session that
  holds the latch is the only one past it (`LatchInv`), that everything in the registry was registered by some session, that
  the root image which the boot has copied has the identifier it wants (`RegistryInv`), that the devices name the two paths
  of that one image, and that only a device with the path of a state image is
  writable; the last is what protects base images, since a request knows a device and not an image.
- `OneLinux`, `LinuxRunsOnItsImages` and `BaseImagesAreNeverWritten` follow from it. That the image is the session's own
  if no other session registers its identifier (`NameIsOwn`) is a consequence of who can have registered it.
- `StorageTypeCorrect` (`TypeOK`). The invariant is `TypeInv`; that a selected length is no longer than the
  largest image is arithmetic of sectors (`RoundUpIs`).
- `StorageAnswers` (`AnswersAreTrue`), about reads and writes; a flush promises nothing (finding 14). The invariant `RequestInv` says what a request has done after each of
  its buffers (`Served`), that the sectors it names are on its device, and that a device ends where its
  file ends (`DevicesEnd`), which a boot establishes by extending the file and a write keeps.
- `ImagesAreWhole` (`WholeUnlessInterrupted`) and `ImplementsDisk`: `Spec => ImplementsDurableDisk`. A boot looks at the
  superblock alone; that this is enough is `ImagesInv`: an image with a superblock is whole unless it is torn or being
  made, no superblock is on disk that the host does not see, and an image that is being made is its
  template up to the end of a buffer. Under the mapping a copied buffer fills one sector
  (`SectorOf`), and registering, extending, failing and flushing are
  stutters. Both theorems have the hypothesis `OneTemplate`: identifiers whose names give the
  same file (finding 12) have templates of one length. Otherwise one would boot on the shorter image of the other.

The third group is about `ShadowMemory`, for any address spaces, tasks, pages and pages to a
host page, on the hypothesis `OwnSpaces`, that no two tasks share an address space. Finding 3
is why it is needed: `ShadowMemoryThreads` breaks `SegmentsMatchPtes` with two threads. `NoneAssumption`
says that the token for "no entry" is none.

- `MemoryInvariant`: `Spec => []IsolationInv`. A window is filled at the end of a pass that
  notes one page after another and can sleep at each. That its copies match the page table then needs
  `Noted`: what any task's pass has noted, also while the task sleeps, is still the frame of that
  page. It is so because only the task itself changes its address space: another one faults,
  unmaps, forks and executes in its own. A fork fills the address space of a task that has
  never run, or has exited; `AskedFor` and the guard of `Fork` give that it has no page then, so
  that its pass has noted none.
- `MemoryTypeCorrect`, `MemoryIsolation` (`SegmentsMatchPtes`) and `WritesStayOwn` (`WritesOwnFramesOnly`)
  follow from it.
- `ViewInvariant`: `Spec => []ViewInv`, for any layout. A copy in a window that cannot be written must not
  become older than its frame. The window of another page could change the frame if it were mapped there
  too, so the invariant says that a frame is mapped at one page, the same in every address
  space (`OneHome`: a fork keeps the page, and the model maps a page of a file at one address, see section
  6), and that every copy lies in a mapped window (`Backed`). `ProgramsReadFrames` (`UserSeesFrames`) follows.
- `CoherenceInvariant`: `Spec => []CoherenceInv`, on the further hypothesis `TextApart`, that no host page holds both
  memory that a program may write and memory that it may execute. A writable copy and its frame agree whenever
  the kernel runs (`InStep`), and translated text is only in windows that are executed and never
  written (`Untranslated`). `KernelReadsStores` (`KernelSeesUserStores`) and `FramesUntranslated`
  (`FramesStayUntranslated`) follow. Without the hypothesis the last one is false: a window gets the union of
  the rights of its pages (`kernel_mapping.c:851`), and TLC shows, on the layout of
  `ShadowMemoryIsolation`, a translated text that is copied back because a stack shares its window.
- `ShadowMemoryIsMmu`: `BackedSpec => ImplementsPagedMemory`, on the same two hypotheses and for any number of Linux pages to a
  host page. `BackedSpec` is `Spec` with programs that store only in pages which their page table lets them write and
  which have a copy. This is what the code does not see to where a window holds several pages: the first is the
  union of rights (`kernel_mapping.c:851`), the second finding 2. The kernel's part is not restricted; `CopyToUser` creates windows
  with one page in `BackedSpec` too. The memory of the mapping is `Contents`, what
  the frames would hold if all windows were copied back. A store of a program, and `CopyToUser`, are a store of
  `PagedMemory`, to a frame that the table lets the running address space write; everything else changes the tables
  and keeps what the frames in use hold. Copying back, dropping, refreshing and filling a
  window leave `Contents` as it was, because a clean copy agrees with its frame; a fault fills only a frame that
  nobody uses. `CopyToUser` takes the rights of its page for the whole window; that loses nothing,
  because where text is kept apart a window loses the right to be written only if none of its copies could have been
  written. With one Linux page to a host page TLC checks the refinement of all of `Spec` (`ShadowMemoryCoherence`).

The fourth group is about the queue of the block device, for any size of the queue and any modulus of
the indices that the size divides (`SizeAssumption`: 16 bit counters and a power of two), on the hypothesis `Deferred`.
Without it the queue is that of the console, and finding 4 refutes `BuffersAccountedFor`. The theorems are
about `BlockSpec`; the run adds fairness to it.

- `QueueInvariant`: `BlockSpec => []QueueInv`. That no buffer is lost or doubled is not inductive: it does
  not say which buffer comes next. The invariant is that the used and the waiting entries are one first-in
  first-out queue (`Outstanding`): serving a buffer only moves the border in it, also while the
  interrupt handler runs and the count lags by one (`WaitsFrom`), and its payloads continue those
  received. Two entries never share a slot, since there are at most as many as slots (`SlotsDiffer`), which is
  arithmetic of remainders (`NumberLemmas`).
- `QueueTypeCorrect`, `RequestsInOrder` (`InOrder`) and `BuffersKept` (`BuffersAccountedFor`).

The fifth group is about `UserCalls`, for any signals, masks, depth of handlers and clock
(`CallAssumption`, `PeriodAssumption`; the token for "no mask" is no mask), any calls through the gate and any long results
(`ResultAssumption`), on the hypothesis `NoLongBlock` that no long result looks like `ERESTART_RESTARTBLOCK` (finding 6).

- `CallInvariant`: `Spec => []CallInv`. That a restart belongs to its own depth needs to know where a
  call with that number can be made from (`Site`), and that the only frame whose call can restart
  is the newest one that asked for it: `rt_sigreturn` spoils the block of every other.
- `CallTypeCorrect`, `RestartIsOwn` (`RestartsOwnCall`).
- `CallsAreInterruptible`: `Spec => ImplementsInterruptibleCalls`, one lemma per action: the work before the
  return maps to an answer, a restart or the start of a handler, everything of the clock to a stutter. What
  `InterruptibleCalls` promises is weaker than Linux at findings 5 and 6, and its comments say so.

The sixth group is about `LinuxInit`, for any descriptors, limits and sizes of the buffers of the terminal
(`InitAssumption`, `DescriptorAssumption`, `RelayAssumption`):

- `BootInvariant`: `LinuxSpec => []BootInv`, with how far `rootinit` and `init` are in their lists, and what cannot be mounted
  inside `/dev` and `/sys` by then; `MountsStayVisible` (`NothingHidden`) follows.
- `CommandRuns`: `LinuxSpec => []RunsTheCommand`: what `selected_command_config` reads from the line that Swift wrote is the
  command, if it fits.
- `RelayInvariant`: `LinuxSpec => []RelayInv`, which adds to `InputInOrder` the types and that the relay holds bytes only while it
  writes them: otherwise its next read of the console would overwrite some. The order is kept since a step either
  cuts one buffer and appends the cut to the one before (`CutMoves`), or numbers new bytes
  behind the last (`OrderGrows`, `RingGrows`: a burst that wraps around the ring lies in it as a sequence does), or
  takes the first one (`OrderShrinks`), or, when the tty is flushed before the relay, drops some from the front, where nothing
  is ahead of the tty yet (`OrderOfRest`). `InputArrivesInOrder` (`InputInOrder`) and, with `BootInvariant`,
  `LinuxTypeCorrect` (`LinuxTypeOK`) follow.

`NumberLemmas` gets round the lack of induction over data: every set of natural numbers that is not empty has a
least element (`LeastNat`, from the well-foundedness of `<` in the library, which takes no
operator), and quotients, remainders and their periods follow.

Checked only by TLC: liveness and fairness (`ENABLED` is out of reach of the prover), that is the two
properties of `HostedTrapLiveness` and the liveness properties of the other runs. Every invariant and every
refinement that a passing run checks is also a theorem, on the hypotheses named above; that of `PagedMemory` is a theorem about `BackedSpec`,
and about all of `Spec` it is checked by TLC only, for one Linux page to a host page.

## 6. What is not modelled

- *Trap transport*: floating point state, the diagnostic event ring, the
  classification of a `BRK` at `pc-4`, `SA_ONSTACK` after a redirect out of a handler. The mutex and the condition variable
  of the timer thread: its wait is timed, and is taken to end.
- *Shadow memory*: pages that are writable and executable; one frame at two
  addresses; file writes by system call; reclaim and truncation at arbitrary points;
  windows whose pages differ in protection, outside the isolation instance; a host
  allocation that fails within a copy; kernel windows, `ioremap`, the gate page, the
  address choice of `mmap`.
- *virtio*: registers that only hold a value, descriptor chains and block requests,
  the console output and entropy queues.
- *Block storage*: the identity request and malformed descriptor chains; the driver
  sends one data segment per request, the model up to two. The device tree and the initial
  RAM disk of the hand-off beyond their failure. When the drive writes back what an `fsync` gave it is left open.
- *Signals*: handlers that leave by `longjmp`, a program that calls `restart_syscall`
  itself, `ptrace`, more than one task; a call through the gate made again whose argument is the number of `exit` or
  `rt_sigreturn`; a handler of `SIGSEGV` that starts because `rt_sigreturn` found a spoiled frame; a frame of which only
  the `siginfo` cannot be written.
- *Console and init*: output that is dropped when the pipe of the console is full; line editing of the input that the tty
  takes before it is raw, and a tty that stays so because `tcsetattr` failed; `O_NONBLOCK`; the aliases of `/dev`; a `poll` or
  `waitpid` that fails itself; orphans (init reaps the shell only); tokens for init in a command line that the caller of
  the session gives. `BootEnds` would hold too if the attempts were not counted anew for the second disk.
- *Environment store and OCI layers* (I): directories, tar and JSON handling in Swift; a model of
  their file operations is planned. K-M: nothing to model.

## 7. Plan

Done: `HostedTrap` against `TaskExecution` with proofs; `ShadowMemory` against
`PagedMemory` with proofs; `VirtioQueue`; `BlockStorage` against `DurableDisk` with proofs; `UserCalls`
with `ClockEvents` against `InterruptibleCalls`; `LinuxInit` with `PtyRelay`. Left, in order of importance:

1. `EnvironmentStore` (I): import, copy and boot as sequences of file operations,
   interleaved and killed between any two. Abstract specification: an environment is
   absent or complete.
2. `OciLayers` (I): the applicator and the manifest edits as operators, checked against
   the union of layers that OCI defines, over all pairs of small layers.
