# zygisk-magisk-module in TLA+

TLA+ modules, TLC configurations and TLAPS proofs for the code of this
repository: a Magisk module that brings Zygisk to Android.  Source paths are
those of the repository, with its `src/` directory shortened: `hook.cpp`,
`module.cpp`, `module.hpp`, `jni_hooks.hpp`, `ipc_client.cpp` are under
`src/libzygisk/src/`, `lsplt.cc` and `elf_util.cc` under
`src/libzygisk/lsplt/`, `server.rs` under `src/zygiskd/src/`.

1. [The system](#1-the-system)
2. [The modules](#2-the-modules)
3. [The runs](#3-the-runs)
4. [The proofs](#4-the-proofs)
5. [What the code does otherwise than its comments say](#5-what-the-code-does-otherwise-than-its-comments-say)
6. [What is not modelled](#6-what-is-not-modelled)
7. [Plan](#7-plan)

## 1. The system

The zygote is the process that Android forks every app from.  At boot a
property makes its VM load `libzygisk` in place of the native bridge.  The
library hooks the zygote's imports and replaces three families of native
methods of `com.android.internal.os.Zygote`.  When one is called, Zygisk forks
early, asks the daemon `zygiskd` about the process, runs modules (third-party
libraries) in the child around the original method, and then takes itself out
of the child.

| component | state | operations | interacts with |
|---|---|---|---|
| **ZygiskContext** (`module.cpp`, the part of `hook.cpp` before `HookContext`, the wrappers of `jni_hooks.hpp`) | per process: `g_ctx`, `pid`, `flags`, `info_flags`, `modules`, the signal mask, the mount namespace | `native*_pre/_post`, `fork_pre/_post`, `app_specialize_pre/_post`, `server_specialize_pre/_post`, `run_modules_pre/_post`, `setOption`, `new_fork`, `new_unshare`, destructor | asks zygiskd; calls modules; at its end calls HookContext |
| **Descriptors and IPC client** (`fork_pre`, `sanitize_fds`, `exempt_fd`, `connectCompanion`, `getModuleDir`; `ipc_client.cpp`) | the descriptor table, `allowed_fds`, `exempted_fds`, `fds_to_ignore`, `g_sock`, `g_available` | `zygisk_connect` with its retries, `zygisk_request_fd`, the API calls, `owned_fd` | the socket of zygiskd, the zygote's own check of descriptors, modules |
| **LSPlt** (`lsplt.cc`) | `register_info`, `hook_info` with each region's `hooks` and `backup`; the memory map itself | `RegisterHook`, `CommitHook` (scan, filter, merge, `DoHook`), `InvalidateBackup`, under `hook_mutex` | HookContext and every module share it; the linker maps libraries meanwhile |
| **HookContext** (`hook.cpp:120-262, 300-500`, `entry.cpp`) | `g_hook`, `plt_backup`, `self_handle`, `runtime_callbacks`, `should_unmap` | bootstrap from the native bridge (`new_dlclose`, `new_strdup`, `find_runtime_callbacks`), `hook_zygote_jni`, `restore_zygote_hook`, `restore_plt_hook`, `hook_unloader`, `new_pthread_attr_destroy` | LSPlt, the VM, the dynamic linker, libnativebridge |
| **JNI method replacement** (`hook.cpp:503-656`, `jni_hooks.hpp`, `gen_jni_hooks.py`) | the method table of a class; three lists of wrappers, which come to hold the originals | `hook_zygote_jni`, `hook_jni_methods`, `register_jni_methods`, `restore_zygote_hook` | the VM; modules replace methods of the same class |
| **Module API for PLT hooks** (`plt_hook_register/exclude/commit`, `module.cpp:227-330`) | `register_info`, `ignore_info` under `hook_info_lock` | register, exclude, commit | LSPlt, `/proc/self/maps` |
| **ELF lookup** (`elf_util.cc`) | none once parsed | GNU hash, ELF hash and linear lookup; `FindPltAddr` | LSPlt |
| **zygiskd** (`server.rs`, `process.rs`) | the listening socket, the socket's file | bind, accept, read a header, answer, drop | one client at a time |
| **Boot scripts** (`module/*.sh`) | properties, bind mounts, the daemon process | install, start, respawn, set the native bridge | init |
| **xDL** (`libxdl/_xDL/xdl/src/main/cpp`) | `xdl_t` objects with two tables each, loaded once; the linker's symbols and mutex, the caller addresses and liblzma's functions, each initialised once | `xdl_open`, `xdl_close`, `xdl_sym`, `xdl_dsym`, `xdl_addr`, `xdl_addr_clean` | the dynamic linker, liblzma. It is compiled into libzygisk; nothing in `src/` calls it |

What is hard about them:

- *Processes that share code and nothing else.*  The same handlers run in the
  zygote, in its children and in children of children.  `is_child()` is
  `pid <= 0`, so it must tell three things apart with one number: parent
  (`> 0`), forked child (`0`), and a context that never forked (`-1`), the
  specialisation of an app from the pool of preforked processes.
- *Partial failure.*  A fork, a commit, an `mremap`, a `mprotect`, a `connect`
  or a read can fail in the middle of a sequence that another handler
  completes.
- *Order.*  The library unmaps itself from inside one of its hooks, beside
  threads that may be in others; unmounting must be decided before the original
  method unshares the namespace; hooks of one memory region are put back
  together.
- *Sharing.*  Several owners chain their callbacks through backup variables
  in LSPlt, in any order; descriptor numbers are reused by modules that know
  nothing of each other.
- *Recursion across locks.*  xDL initialises things once, under locks, with
  functions that may need those things.
- *Ending.*  The specialisation must end if the daemon is away, busy with
  another program or dies, if modules do not load, if a fork fails; and the
  library must then really be gone.

What makes each component correct, in the properties that the runs check:

| component | properties |
|---|---|
| ZygiskContext | `ZygotePristine`, `DeniedIsolated`, `PrePostPaired`, `ReturnedPidIsTheChild`, `SigchldRestored`, `NothingDangles`, `CallsReturn`, `SpecialisedIsLeft`, refinement of `Injection` |
| HookContext | `FaultNeedsCause`, `MainReturnsMapped`, `UnloadsItself` |
| Descriptors, IPC | `KnownAfterSanitize`, `InheritedSurvive`, `ExemptedIffTold`, `SpecialisationEnds`; `ReturnsTheConnection` is violated |
| LSPlt | `HooksRecordOriginal`, `MovedWhileHooked`, refinement of `PltView` |
| users of LSPlt | `ChainIsHeld` |
| JNI replacement | `AllOrNothing`, `RestoreUndoes`, `CallsReachOriginal` |
| PLT API | `CallsEnd`, `ExclusionsHold`, `TrueMeansHooked` |
| ELF lookup | `SlotsAreAll`, where its limits allow it |
| zygiskd, boot scripts | `AskersGoOn`, `ListenerAnswers`, `DaemonListens` |
| xDL | `SearchesSeeWholeTables`, `LinkerIsLocked`, `HeldStaysMapped`, `CallsReturn`; of its searches `NamesFindTheirSymbol`, `AddressesFindTheirSymbol` |

The full list of hazards, each at its line and with the properties that would
catch it going wrong, is in `PROJECT.json` ("hazards").

## 2. The modules

| module | what it is |
|---|---|
| `ZygiskContext` | the processes and their contexts, flags, modules and hooks; one action per handler |
| `Injection` | the abstract specification of the above: what Zygisk promises about its presence in a process |
| `MCZygiskContext` | replies of zygiskd for TLC |
| `ZygiskContextProofs` | theorems about `ZygiskContext`, that it implements `Injection` among them |
| `Lsplt` | the hook engine, a commit in steps, with failing system calls |
| `PltView` | the abstract specification of the above: slots as a caller sees them |
| `MCLsplt` | libraries and functions for TLC |
| `LspltProofs` | theorems about `Lsplt` and `PltOwners` |
| `PltOwners` | extends `Lsplt` with the owners that share it: HookContext and modules, which hook and unhook with backup variables |
| `MCPltOwners` | owners and callbacks for TLC |
| `JniHooks` | the native methods of class Zygote: replaced by Zygisk, by modules, and put back |
| `MCJniHooks` | names, signatures and classes for TLC |
| `JniHooksProofs` | theorems about `JniHooks` |
| `HookContext` | one process from the native bridge to the unmapping of the library, with other threads |
| `MCHookContext` | register files for TLC |
| `HookContextProofs` | theorems about `HookContext` |
| `ZygiskFds` | the descriptors of one process during its specialisation |
| `ZygiskFdsProofs` | theorems about `ZygiskFds` |
| `Zygiskd` | the daemon, the boot scripts, and everyone who connects |
| `PltApi` | PLT hooks of modules, by regular expression or direct, from several threads |
| `MCPltApi` | modules, expressions and exclusions for TLC |
| `PltApiProofs` | theorems about `PltApi` |
| `ElfSymbols` | how symbols are found in a file: LSPlt's lookups and xDL's searches |
| `MCElfSymbols` | a family of files for TLC |
| `ElfSymbolsProofs` | theorems about `ElfSymbols` |
| `Xdl` | xDL's opening, force-loading and once-initialised tables, from several threads |
| `MCXdl` | devices for TLC |
| `XdlProofs` | theorems about `Xdl` |

A definition named `<definition>_M<fault>` is a mutant: a plausible bug in that
definition.  No specification uses one; they exist to show that each property
fails when the code is wrong.

### ZygiskContext

Every variable is a function of the process.  `old_fork(p, c)` copies `p`'s
memory to `c`; nothing else relates two processes.  `pc` is the place in the
wrapper of the JNI method:

| `pc` | code that comes next |
|---|---|
| `java` | nothing of Zygisk on the stack |
| `fork` | `fork_pre` |
| `info` | `app_specialize_pre` / `server_specialize_pre`: `get_module_info`, the `dlopen` loop |
| `modules` | `onLoad`, then the pre callback, of every module |
| `orig_fork` | the original forking method, up to its call of `fork`, which is `new_fork` |
| `orig_parent`, `orig_child` | the original method after its fork, in each process |
| `post` | the post callbacks |
| `dtor` | `~ZygiskContext` |

Action and handler have the same name.  Three names differ: `ConstructContext`
is the constructor and, with `NativeForkPre`, the start of a wrapper;
`specialize_pre` is the common part of the two `*_specialize_pre` (they differ
in the flags they set); `ForkUnhooked` is a fork from a native method that
Zygisk does not replace, such as `nativeForkUsap`.

A reply of zygiskd is a set of flags out of `InfoReplies`.  It also stands for
the uninitialised header that the code uses when reading it failed
(`module.cpp:338`).  When there is no connection, `info_flags` is what it was.

The code that runs in a child also runs in the zygote when `fork_pre` failed,
because `pid` stays `-1`.  The model keeps that: it is why `ZygotePristine` and
`ReturnedPidIsTheChild` are only claimed when forks do not fail.

`Injection` knows no contexts, flags or hooks: a process is `absent`, `armed`,
`hosting`, `leaving` or `gone`, and never comes back to `armed`.  `pending` are
the modules that Zygisk will still call there; a process is left only when there
are none.  This is about calls and not about the modules' libraries, which stay
mapped unless they asked to be closed (`module.cpp:229`), those of modules that
were erased always.  `ImplementsInjection` is the refinement; `Phase` and
`Pending` are the mapping.

### Lsplt

A library is the one region that holds its PLT slots, mapped at some address.
`mem` is what a caller reads, `saved` the region moved aside by `mremap`
(`HookInfo::backup`), `hooks` and `hook_info` are the code's own, `orig` is a
history variable: the slots as the linker left them, or as `InvalidateBackup`
made them.  `FindPltAddr` is the constant `Plt`: which slots a symbol has.

`RegisterHook` and `InvalidateBackup` are one step each.  `CommitHook` is
several, one per registration and per slot, for `dlopen` by another thread may
come in between; `Locked` is `hook_mutex`.  `HookSlot` is the body of
`DoHook(addr)`, with `HookFails` for the two early returns.  Each system call
that the code checks, or should check, may fail if `Failures` names it: `scan`
(reading the maps), `move` (the `mremap` that moves a region aside), `copy` (the
`mmap`), `restore` (the `mremap` back when the last hook goes), `invalidate` and
`mprotect` (in `InvalidateBackup`).  A copy that fails loses what the linker
wrote, in one of two ways.  Where the kernel knows no `MREMAP_DONTUNMAP` a hole is
left: the library's header is still scanned, and later hooks fail.  Where it
does, the region stays mapped and shows the file's own pages (`InFile`), so later
hooks take those for the originals.

`PltView` has, for each library, the list of redirections asked for, and
changes one slot at a time in their order, and a slot whose region could not be
copied becomes unreadable or what the file has.  That a region with several slots is
exchanged as a whole, twice, is invisible there, which is what
`ImplementsPltView` checks.

### PltOwners

`Hook` and `Unhook` are what HookContext and the modules do: register a
callback with a backup variable, later register what that variable holds.
`Chain` follows a call from a slot through the callbacks and what their backup
variables hold.  An owner unhooks only while it is the last to hook: one that
unhooks below another puts its own backup into the slot, which drops the
other's hook (`lsplt.cc:162`).  `OwnersApart` is what owners are: each with a
callback of its own, that is no function of a library, and slots that belong to
one symbol each.  `NoneLost` leaves the failures after which nothing is lost: a
scan that fails leaves all registrations queued, and a region may stay aside.

### JniHooks

A method is a name with a signature, and `natives` the function of each method
that the class has.  A list of `jni_hooks.hpp` is keyed by method: `ListOf(n)`
are the entries for name `n`, `lists` their `fnPtr`, which is the wrapper at
first and the original after a replacement; the wrappers call what their entry
holds (`CallsOn`).  `Registered` is `register_jni_methods`: entries that the
class does not have, or whose function is null, change nothing.  `Hooked` is the
search for the old function that follows it; which method is found first
depends on the order of the class, so it is a choice.

`hook_zygote_jni` is one step per method of the class with one of the three
names (`todo`): `Replace` hooks the list of the name, and `Missing` is the first
method for which that fails.  Without a VM, `todo` is empty at once.  After it,
wrappers may run, and once one runs in a child (`EnterChild`) modules replace
methods and put them back, in any order of methods but each method as a stack,
until the context's destructor.  `Shared` says whether a module may use one
function for two methods.

### ZygiskFds

`fds` says what each number refers to: a descriptor of the zygote, the
connection, or one of a module.  New descriptors get the lowest free number, as
POSIX demands, which is how the hazards of reused numbers come in.  `method`
distinguishes the three replaced methods: only `fork` (apps) can exempt
descriptors, and `specialize` neither forks nor sanitizes.  `exempt_fd` takes any
number, open or not, in range or not, as the code does; `Number` are those that
modules try.  Files that are
opened and closed in one step are not seen, except for the directory that
`fork_pre` reads, because that one is noted as open in passing and must not be
allowed.

### HookContext

One process, from the call of `entry.cpp` to the `dlclose` of itself.  `stage`
is how far it is:

| `stage` | meaning |
|---|---|
| `probe` | libnativebridge asks whether libzygisk is compatible; `hook_entry` |
| `refused` | it was told no, and closes the library: `new_dlclose` |
| `bridge` | the real native bridge is being loaded, from inside that hook |
| `started` | until AndroidRuntime copies the name of ZygoteInit: `new_strdup` |
| `zygote` | the methods are replaced, or could not be |
| `child` | a fork of the above |

`hook` is the function of libzygisk that each thread is in.  What is hooked is
a set of symbols, with the `old_` pointers and `plt_backup` beside it, because a
slot that is not written leaves the three different.  `failures` is chosen at
the start, every set of them: reading the maps, writing slots, finding the frame
of `LoadNativeBridge`, the VM, its `JNIEnv`, restoring slots.  The registers of that frame are
words that point to the callbacks, elsewhere into libart, or elsewhere.
`nb` is the property, in the three forms that `post-fs-data.sh` gives it.

A process may die here, and `fault` says how and in which thread: the code
dereferences things that a failed step left null or deleted, and the library is
unmapped beside threads that nothing waits for.  `FaultNeedsCause` says what has
to fail first.  That a thread returns into the unmapped library is the one kind
that needs no failure: it takes a thread beside the main one that was in a hook
when the library unmapped itself with every slot put back.  `MainReturnsMapped`
keeps the main thread out of it.

### Zygiskd

`script`, `daemon` and `path` follow the boot scripts and `run()`: install, start,
respawn, bind over the file of an earlier boot.  `Installed` is what
`customize.sh` leaves on disk, which is why `Service` never starts anything.
`queue` and `serving` are the accept loop, `link` and `sent` each peer's
connection.  The clients are `zygisk_connect` and `get_module_info` as seen from
outside: `delay` doubles to `LastDelay`, then the process goes without.  Each asks
once for itself, the zygote only if its own fork failed; then its destructor takes
it for a child and puts its methods back, so that none of its later children
asks (`ZygoteReturns`).  What a module asks after that (`ModuleAsks`) goes to the
number in `g_sock`, whatever that is by then: such a call may return or not, and
nothing is claimed of it.  Children may be killed halfway.  `Other` are programs
that are not Zygisk: they connect, may send a header, may go, and owe zygiskd none
of it.

### PltApi

`register_info` and `ignore_info` are the lists of the context, `pending` is
LSPlt's, seen as one queue for each library: `DoHook` takes a library's
registrations out of the one list in their order, and those of another library
make no difference to it.  An expression is the set of libraries that it
matches.  `plt_hook_commit` is taken apart where other threads can come in: under
`hook_info_lock` it reads the maps (`Resolved` is `plt_hook_process_regex`,
as the set `todo` of the calls it will make, in the order `Precedes`), makes its
calls of `RegisterHook` one by one (`ProcessNext`), clears the lists (`Release`),
and only then, without the lock, commits (`CommitHook`).  A commit writes a
library's queue at once: on a slot is then the last callback registered for it
(`Top`), and in the backup variable of each what was below it (`Under`), in the
last library in which it was written (`Saved`).  `Found` says for which symbols of
which libraries `FindPltAddr` finds a slot; a registration for another is dropped
and the commit is none the worse for it (`Hits`).  Modules of version 4 and later
call `RegisterHook` and `CommitHook` directly.  History variables keep what was
asked: `put` what was written where, `shield` what was excluded in time, `due`
what a commit has to bring about.  `due` is emptied when another module commits
in the middle: whoever commits first takes everybody's registrations, and the
return value of the other says nothing about them.

Nothing keeps a module from registering a callback again; `made` counts, and each
registration is known by its callback and its `nth`.  One backup variable can
hold one chain, so `CallsEnd` and `TrueMeansHooked` say what holds until some
callback is registered a second time (`Once`), and are false after that (section
5).  `ExclusionsHold` holds for every registration.

### ElfSymbols

Pure algorithms: a behaviour is one `file`, one query and its answer.  A file has
its dynamic section, symbols, both hash tables as a link editor writes them
(`Bloom`, `GnuBucket` and the chains follow from the symbols), relocations
and sections, any of which may be truncated or missing.  GNU ld's form of a
table without symbols, with `symoffset` 1 below all the imports, is among them.
LSPlt reads all tables with entries of the size that `DT_PLTREL` tells
(`is_use_rela`); what it sees if that is the wrong size is `misread`, and what it
sees in a packed table is `packed`: any entries at all.  `elf_util.cc` and
xDL walk the same two tables, so the walks are shared (`GnuWalk`, `SysvWalk`);
what each does around them is apart: LSPlt's fallback to a linear search below
`symoffset` and its slots, xDL's two tables, its search by address, and names
with a suffix.  The properties compare every answer with a search through all
symbols.

### Xdl

xDL's calls are recursive: to iterate on Android 5 one needs the linker's mutex,
to find that one needs the linker's symbols, and to find those one must iterate.
So a thread has a list `todo` of steps, and a step may put others before the
rest; a lock that a step needs and its own thread holds is a thread waiting for
itself.  Everything loaded once (both tables of each handle, the linker's
symbols, the caller addresses, liblzma's functions) goes through the same four
steps, `Ensure`, `LockAndLook`, `Done` and `Unlock`.  A `Device` is what differs
among phones: the API level, whether the auxiliary vector has the linker, where
each file keeps its `.symtab`, which namespaces open which libraries.  Handles
are shared by the clients; the `cache` that `xdl_addr` is given is one for each
thread.  `NeedsItself` names the devices on which a
call waits for itself, and `CallsReturn` is claimed for all others.

## 3. The runs

| run | checks | instance |
|---|---|---|
| `context` | the safety of ZygiskContext when forks do not fail, and that it implements `Injection`, with two children beside the zygote and failing commits | 363k states |
| `context_live` | when forks may fail: every call returns, with SIGCHLD unblocked; every specialised process is left | 29k states |
| `lsplt` | records, moved regions, refinement of `PltView`, one library mapped at one or two addresses; scanning, moving and copying may fail | 1.6M states |
| `owners` | three owners that nest, in a library and in LSPlt's own: calls run exactly the callbacks held, also if scans fail or a region cannot be put back | 2.0M states |
| `fds` | sanitizing, exemption, the connection, and that a specialisation ends | 98k states |
| `fds_stale` | violation of `ReturnsTheConnection` | |
| `jni` | replacing and restoring the methods of class Zygote, with modules in between; where calls end | 1.1k states |
| `hook_context` | what can kill a process, and that the library is gone after it left, beside a second thread | 235k states |
| `zygiskd` | unless a silent program holds the daemon, everyone who asks goes on and whoever listens answers; the daemon comes up | 254k states |
| `plt_api` | chains end, exclusions hold, a commit that returned true hooked what was asked where there is a slot | 1.6M states |
| `elf` | every lookup against a search through all symbols | 92k states |
| `xdl` | whole tables, the linker's lock, what is held stays mapped, calls return | 537k states |

Bounds, and why they are enough:

- `Child` of ZygiskContext: two children let a child of a child run beside the
  zygote and another child.  Processes share nothing after the fork, so more
  processes add more copies of the same behaviour.  Pids are not reused: a
  pid that ended is not distinguished in this code.
- `Module`: two modules let the load of one fail, and one be unloaded, beside
  another; `context` has one, because a module affects the processes only
  through the context's flags.
- `InfoReplies`: each half of the denylist mask, the whole of it, and the whole
  with a flag that is not in it.
- `Lsplt`: two slots, with one symbol bound to one of them and another to both,
  are the least with which a region is put back while another slot is hooked;
  two addresses for one library give an order among entries.  `MaxPending` 2 lets
  two registrations for one slot wait.  Three functions: an original and two
  callbacks that replace each other; the file has the address of one of them in
  its slots, which is the worst it can have there.  `PltOwners` has `MaxPending` 3, so that
  each of its owners can wait for a commit.
- `JniHooks`: two names, one with two signatures in its list, and for each name
  a signature that no list has; 24 classes, with each name once or not at all.
  So one name can be replaced before or after another cannot.  Three functions of
  modules with lists of two methods make stacks of three on one method.
- `ZygiskFds`: five numbers of which 0 and 2 are open at the fork leave a free
  number below an open one.  `MaxCalls` 5 lets a module open, exempt, close and
  open again, and connect.  `MaxAttempts` is the code's own number: delays of
  100 to 1600 ms.
- `HookContext`: two threads, of which one is inside a hook while the other
  unmaps.  `Plain` has one symbol: those functions differ in what they do, which
  is ZygiskContext's, not in when they are entered.  Four register files: the
  callbacks first, a pointer into libart before them, after them, and none.
- `Zygiskd`: two children that wait for each other and for one other program,
  a queue of one so that it is full; `LastDelay` 200 is two attempts, for all
  attempts but the last are alike.  `Devices` are no failure, and each of bind,
  a dying daemon and a failing fork.
- `PltApi`: two modules that use expressions and one that does not, two
  libraries, of which one is mapped later, two symbols, of which one has no slot
  that LSPlt finds in one of the libraries, one callback for each module.  `Made`
  lets each callback be registered once, or one of them twice and no other: the
  second registration matters to `ExclusionsHold` alone.  Reading the maps for the
  expressions does not fail in the run: the commit then returns true with nothing
  done (section 5), and `TrueMeansHooked` says so in its premise.
- `ElfSymbols`: up to three symbols whose hashes collide in the bucket, in the
  bloom filter or not; two buckets; five dynamic sections, one with `DT_PLTREL`
  behind the end and one with a packed table, so that some files are misread; the
  two forms of a GNU table without symbols; four lists of sections.  Three
  symbols suffice for a chain whose middle is passed over.
- `Xdl`: two threads, two handles, three calls: one opens, another searches,
  and the application loads or unloads.  The six devices are Android 5, 7, 7.1,
  8 and 9, with the ways to keep symbols and to reach a library that make their
  recursions differ.

The runs of `ZygiskContext`, `ZygiskFds`, `JniHooks`, `HookContext`, `Zygiskd`,
`PltApi`, `ElfSymbols` and `Xdl` turn deadlock checking off.  Those systems do
stop: all processes back in Java with no pid left to fork, the specialisation
done, the methods put back, a process dead or the library gone, every peer
served, every callback registered, the query answered, every call made.  In
`Xdl`, a deadlock of the code is what `CallsReturn` finds instead.

Fairness:

- `ZygiskContext`: weak fairness of a process's steps inside a replaced method
  (`InCall`), since a thread that runs goes on running and module callbacks and
  the original method return; and of `new_pthread_attr_destroy`, since the VM
  starts its daemon threads after a specialisation.  Nothing is assumed of
  forks, nor of `new_unshare`.
- `ZygiskFds`: weak fairness of the method's own code, and of `DaemonAnswers`:
  zygiskd serves one connection at a time and gets to this one.  `Zygiskd` shows
  when that is so: unless a silent program holds it.  A module need not do
  anything.
- `Zygiskd`: weak fairness of the scripts, of the daemon's loop and of each
  client's own code.  Nothing is assumed of other programs, nor of children that
  are killed, nor of what modules ask.  `server.rs:29` reads a header without a
  timeout, so a program that connects, sends nothing and stays holds up every
  specialisation (`WaitsForOther`); `AskersGoOn` and `ListenerAnswers` have this as
  their one exception, and so say that nothing else does.
- `Xdl`: weak fairness of each thread's steps.  Nothing is assumed of calls.
- `Lsplt`, `PltOwners`, `JniHooks`, `HookContext`, `PltApi` and `ElfSymbols` have
  no liveness properties and no fairness.

## 4. The proofs

All proofs are checked by TLAPS without omitted steps, for every value of the
constants that meets the modules' assumptions.

**ZygiskContextProofs.**  `TypeCorrect`, then `IInvCorrect`, from which
`DeniedIsolated`, `PrePostPaired`, `SigchldRestored` and `NothingDangles`
follow without any assumption about failures.  `IInv` says of one process: when
there is a context (`WindowInv`), what a parent may be doing (`ParentInv`), how
far the modules are at each `pc` (`StageInv`), where SIGCHLD is blocked, in
which order hooks come out, when the namespace may have changed, and what is
known of a denied process.  It is needed because each property speaks of one
place in the wrapper and is brought about at another: `DeniedIsolated` speaks of
the mount namespace, which `new_unshare` changes, and depends on a flag set
earlier, on that flag never being reset, and on the namespace not having
been private before.  A step moves one process, or two if it is a fork, and
the lemmas follow that: `SameInv` for the processes that stay, `ForkCopies` for
what a child starts with, then one lemma per action.

If forks do not fail, `NoFailInv` adds that a cached fork result is the one
child (`CachedInv`) and that the zygote is never taken for a child
(`ZygoteInv`): `ZygotePristineCorrect` and `ReturnedPidCorrect`.  The assumption
is needed: with `ForkMayFail` TLC finds both violated (section 5).

`ImplementsInjectionCorrect`: if forks do not fail, `ZygiskContext` implements
`Injection`.  Under the mapping `Phase` and `Pending`,
every step is one of `Injection` or a stutter, which takes `IInv` and
`NoFailInv`: that a process only loads modules as a child, that it never gets
armed again, and that its context is not destroyed before each module had its
last callback, is not to be seen from the step alone.

**LspltProofs.**  `TypeCorrect` holds whatever fails; it takes that a commit's
registration is for an address where something is mapped (`Committing`).  `HooksRecordOriginal` is
not inductive.  `IInv` adds that a region not moved aside has no hooks
(`CleanAt`), which is why the pages are those of the linker when they are
moved; that the entry of a moved region is never dropped (`KeptAt`), which is
why a commit's merge forgets no hook; and that nothing is hooked where nothing
is mapped.  It is proved under the assumption that the `mremap` of
`InvalidateBackup` does not fail, for the code clears the hooks of a region that
stays moved aside in that case.  `MovedWhileHooked` needs that the `mremap` back
does not fail either.  `InvalidatedMeansHookedCorrect` shows that a failing
`mprotect` is the one other way for an `InvalidateBackup` that returns true to
lose a hook.  None of them bounds libraries, slots, functions or (`MaxPending`
being any number) registrations.

`ImplementsPltViewCorrect`: unless an `mprotect` or an `mremap` of
`InvalidateBackup` fails, `Lsplt` implements `PltView`.  `Seen` is the step
simulation, with one lemma per action (`TakeSeen`, `HookSeen`, `FinishSeen` and
so on), and needs `IInv` and that a region's libraries are where they say
(`SelfMapped`).  The abstract queue of a library is the registration being
worked on, then what `Requests` collects from `register_info`: a recursive
function of a prefix's length, about which `RequestsAppend` and `RequestsRemove`
say what appending and taking out a registration do to it.  With a failing
`mremap` the callers see originals come back, which `PltView` does not promise,
and with a failing `mprotect` the slots keep hooks that LSPlt has forgotten.

`ChainIsHeldCorrect`: if no hook is lost to a failure, a call runs exactly the
callbacks still hooked, latest first.  `ChainIsHeld` speaks of the moments when
nothing is queued; to get there the invariant must say what registrations will do
when their turn comes.  Owners register while others wait, an unhook may wait
behind the hook of the next owner, and a commit takes the registrations of one
library before those of another.  `Found(b, s, i, v)` is the function that slot
`s` will hold when the `i`-th registration is next: the callback of the last one
before it for that slot, or what the slot holds once the registration under way
is done.  `OwnersInv` says that a registration that hooks will find what the owners
below its own left (`QueueRight`); that the registration under way does so in
the slots it has yet to write, and has it in its backup from the first slot on
(`WorkRight`); that every owner whose registration is done has it in its backup
(`BackupRight`); and that whoever comes behind the list finds the latest owner on
top (`TopRight`).  `FoundGrows` and `FoundTaken` say what appending and taking a
registration do to `Found`: those that stay find what they would have found.
`Chain` is recursive, and `ChainRuns` goes up the owners by induction.  The
definitions `OwnersApart` and `NoneLost` are hypotheses of these theorems and not
assumptions of the module, so the theorems about `Lsplt` do not depend on them.
That owners unhook only while they are on top is part of `OwnersSpec`: without
it `ChainIsHeld` is false (section 5).

**JniHooksProofs.**  `TypeCorrect`; then `AllOrNothingCorrect` and
`RestoreUndoesCorrect`, for any methods, lists and modules, under two
assumptions: a class has a name of Zygisk's at most once (`OneOfEachName`), and a
module uses a function for one method only (`~Shared`).  `IInv` says what an
entry holds while the names are being replaced, done or untouched
(`Replacing`), that a child can only be reached when nothing was given up
(`Restorable`), that a method only ever runs functions of its own (`OwnOnly`),
and that the functions of modules on one method form a stack
(`Placed`, `Linked`): this is what makes the search by function pointer find
the right method.  Without `OneOfEachName` the second method of a name would put
the original back and keep the wrapper as what to restore (see section 5).

`CallsReachOriginalCorrect`, under the same assumptions: whoever calls a method
ends in the original, through any stack of modules.  `After(m)[n]` is where the
call is after it went through `n` functions.  While it is among modules, each
function is one below in the method's stack (`CallsOnTo`), so it leaves the
modules (`LeavesModules`): otherwise it would have been in more places than
there are callbacks (which is why `CallbackAssumption` says that they are
finitely many).  Below them is the original or a wrapper, whose entry holds the
original (`WrapperHasOriginal`).

**ZygiskFdsProofs.**  `TypeCorrect`, `KnownAfterSanitize`, `InheritedSurvive`
and `ExemptedIffTold` for any number of descriptors, any set open at the fork,
any calls of a module and any numbers that it exempts.  `IInv` adds that what `fork_pre` allowed is exactly what
the zygote has open: the directory it reads takes the lowest free number, and
the entries `.` and `..`, which parse as 0, either name an open descriptor or
that very number (`ForkAllows`); and that none of the numbers the code keeps and
later closes is one of the zygote's (`Owned`).

**HookContextProofs.**  All three properties, for any threads, symbols and
register files.  `IInv` is `TypeInv` with four parts: what exists at each stage
of the bootstrap (`BootInv`), what the callbacks can be (`CallbackInv`), how far
the wrapper, the unloader and the context are on the way out (`LeavingInv`), and
that every slot still hooked is known to `plt_backup` as long as the library is
mapped (`SlotInv`).  The last is what makes a successful restore take every
slot.  A null `JNIEnv` is a cause of death of its own (`Fails("env")`).

**ElfSymbolsProofs.**  For files with any number of symbols, buckets, chains
and relocations: `SlotsAreAllCorrect`, `NamesFindTheirSymbolCorrect` and
`AddressesFindTheirSymbolCorrect`.  The searches are compared with a search
through all symbols, so what matters is that the walks through chains miss
nothing: a walk through a GNU chain meets the symbols from where it starts to
where the chain ends, which is where the bucket ends, because link editors sort
the symbols by bucket (`WellFormed`); a walk through a SysV chain meets the
bucket's symbols, in any order; and the imports, which a GNU hash table leaves
out, are below `symoffset`, where the linear search looks, unless the file is
GNU ld's with an empty table.  For that file, for relocations that are read with
the wrong size and for packed ones the theorem about slots claims nothing of what
LSPlt cannot see.

**XdlProofs.**  `TypeCorrect`, `SearchesSeeWholeTablesCorrect`,
`LinkerIsLockedCorrect` and `HeldStaysMappedCorrect`, for any threads,
libraries, devices and handles.
`LinkerIsLocked` is not inductive: that the mutex is held where a thread calls
the loader depends on the step before, which was put on the list when the
opening began, with the search for the mutex itself between them.  So the
argument is about the lists.  `Before` says which step may come right before
which, and `Orderly` what a list looks like as a whole: a loading is done after
all of its parts (`PartsFinish`), each lock is released once (`ReleasesOnce`),
nothing is on a handle after the step that closes it (`EndsLast`).  The model
follows the recursion of the code by replacing a step with what it expands to;
every expansion is orderly (`Block` and the lemmas after it build them up from
their parts), and a list stays so when a step is replaced by its expansion
(`GraftOrderly`).  So no induction on the depth of the calls is needed.

`IInv` ties the lists to the state: a lock is held exactly by the thread that
has its release on its list (`LockInv`), a table whose flag is set is whole or
missing (`TableInv`), the next step finds what it relies on (`NextInv`), the
linker is locked only by a thread that is about to use or unlock it
(`LinkerInv`).  The last two parts are ownership: a handle that a call has found
for itself, will close, or keeps in its cache is allocated, and neither the
clients' nor another thread's (`OwnInv`), and nobody is on a handle that is not
the clients' or its own (`UseInv`).  They are needed because a handle that is
closed is zeroed, flags and locks with it, and a thread that still loads one of
its tables would find its lock free.  The clients' side of this is an
assumption of the model, in `Uses`: they close no handle that is in use.

`HeldStaysMapped` needs a second invariant, `HeldInv`, on top of `IInv`.  The
linker unmaps a library when its count of it reaches zero, so a handle alone
says nothing: the count must be at least the number of those who claim the
library (`Claimants`, `CountInv`), which are the application, each handle that
holds, the functions that were taken from a liblzma that had to be loaded, and
each step of a thread that has the linker's handle in hand or is going to put it
into an `xdl_t` or to give it to `dlclose` (`Claims`).  A claim is a token, and
the steps of a thread are counted from the end of its list, so that a token
stays the same while steps are put before it.  Each step of the model then adds
no token, or one and counts up, or swaps one for another: the step that opened
for the handle that holds, the handle for the step that drops it, the handle of
liblzma for its functions.  The lists have to agree on the library they are
about for this (`Agrees`, `Found`): what one step loads is what a later step
holds, with the search for the linker's mutex between them.

That proof found a defect of the model.  `Read` had a CASE whose conditions
overlapped: on a device that keeps `.symtab` packed, reading `.dynsym` met two
of them, and TLC took the first.  It is an IF now.

**PltApiProofs.**  `TypeCorrect`, `ExclusionsHoldCorrect`, `CallsEndCorrect` and
`TrueMeansHookedCorrect`, for any modules of any versions, libraries, callbacks,
expressions and exclusions, however often a callback is registered and whatever
fails; of libraries there are finitely many.  The invariant has two parts.
`ListsInv` is inductive by itself, and `ExclusionsHold` follows from it: outside
a commit the lists of the context are what was asked for since the last one
(`ListsAreAsked`), what is excluded is what they cover, and nothing that is
excluded is on its way into the library (`NothingShielded`), be it queued with
LSPlt or among the calls that a commit has yet to make.

The other two properties are about chains of callbacks, and hold until one of
them is registered a second time (`Once`).  One backup variable serves a callback
in every library that its expression matches, and keeps what the last write put
there; so a chain can start in one library and go on in
another, and the question is why it does not come back.  The reason is an order
of all callbacks: each library gets its callbacks in this order, and a backup
variable holds a callback that is earlier in it (`Ordered`).  The order is
nowhere in the state, so the second part of `IInv` says that, given `Once`, there
is one, `rank`, with the one symbol `sym` that each callback is for and a `bound` above
all ranks.  A commit that resolves expressions appends: its callbacks get new
ranks from `bound` on, in the order in which they were registered, which is
that of the list and not that of the libraries.  It keeps the lock until the last
of them is registered with LSPlt, so no other expression comes in between; but
direct registrations do, and a direct registration goes to one library only, at
the end of its queue while calls for that library may be yet to come.
`OrderRegisterHook` makes room for it: a rank `r` becomes `2r + 1`, and it gets an
even one, behind all that its library has and before all that is to come.  Then
`CallsEnd` is a descent: of the ranks met on the way from a slot there is a least
one, and what that callback calls has none.  `TrueMeansHooked` is an ascent:
every callback that was written is on top of its slot or has one above it in the
same library that calls on to it or hides it (`Stacked`); so the highest of those
that a call would not meet has one above it that it does meet, a contradiction
unless that one hides it.  What a commit has to bring about is on its way while
it runs and written when it returned true (`DueComes`).

The model was rewritten for these proofs: the lists had been filtered with
`SelectSeq`, of which the provers have no definition, and written slot by slot by
a fold.

**Induction.**  The library's theorems on induction take an operator as a
parameter, which no installed prover can instantiate.  The proof modules that
need it say the same of sets, in their first lemmas: `AllNaturals` (a set of naturals that contains 0 and with each its
successor contains all) from `MinExists` (a set of naturals that is not empty
has a least element), and `RecursionExists`: a function that is defined step by
step exists.  Each use gives the set of the numbers for which what is to be
proved holds.

Model-checked only:

- liveness (`CallsReturn`, `SpecialisedIsLeft`, `SpecialisationEnds`, those of
  `Zygiskd`): proofs of properties under fairness, and of ENABLED, are out of the
  prover's reach.

`RECURSIVE` operators are not used: no module with a theorem could reach them.

## 5. What the code does otherwise than its comments say

`fds_stale` is a run that TLC ends with a counterexample; the quote is in
`PROJECT.json` ("findings").  `getModuleDir` closes the descriptor that `g_sock`
keeps; the next request writes to a closed number, or to a file of a module.

What else the models show, beside the code:

ZygiskContext and HookContext

- The fork of `fork_pre` fails; `pid` is `-1`, which `new_fork` does not take for
  a cached result.  The original method forks once more, its child runs, and
  Java is told -1 (`ReturnedPidIsTheChild` with `ForkMayFail`).
- Restoring the PLT hooks fails; the library stays, with hooks, and `g_hook` is
  deleted, which `new_dlclose` and `new_pthread_attr_destroy` still use.
- The first register that points into libart's writable pages is taken for the
  callbacks, and `hook_zygote_jni` calls through them without a test; null
  callbacks are called as well (`hook.cpp:411`).
- If the property is an absolute path, what follows the loader's length of it is
  loaded as the real bridge (`hook.cpp:417`).
- `hook_zygote_jni` logs a null `JNIEnv` (`hook.cpp:604`) and then uses it: the
  process dies (`FaultNeedsCause`, "env").
- Two methods of one name in class Zygote make `hook_zygote_jni` hook the list of
  the name twice.  The second time its entries are the originals, so those are
  put back, and the lists hold wrappers, which a later restore would install.
- A module that registers one function for two methods gets the original of one
  in both entries: the search goes by function pointer.

LSPlt and its users

- `InvalidateBackup` ignores a failing `mprotect`, drops the hooks and returns
  true, though `lsplt.hpp` promises false if any hook fails to be invalidated.
- Two owners that unhook in the order in which they hooked: the first one's
  callback comes back.
- A registration that matches no mapped library stays queued, and the commit
  still returns true, though `lsplt.hpp` promises false if any hook fails.
- A hook that registers the function already in the slot is recorded
  (`lsplt.cc:172` is outside the test at `lsplt.cc:164`), so the region stays a
  dirty copy with no slot changed.
- `Merge` keeps the old entry and its parsed `Elf` of an address whose library
  was unloaded (`lsplt.cc:110`); a file mapped at two addresses is hooked at
  both, through one backup variable.
- `plt_hook_commit` with unreadable maps clears the lists and returns what
  LSPlt makes of none: true.
- The functions of the API read `g_ctx` more than once (`module.cpp:137-157`),
  and another thread may clear it in between.
- A registration for which no slot is found, or whose file cannot be parsed, is
  erased and the commit returns true (`lsplt.cc:201-210`), though `lsplt.hpp:108`
  promises false if any of the hooks fail.
- A callback that is registered a second time, for another library, with the same
  backup variable, and after another module's callback was put on both: the two
  may call each other in a circle (`lsplt.cc:165`).  TLC finds it if `CallsEnd`
  is stated without `Once`.
- A copy that fails after an `mremap` with `MREMAP_DONTUNMAP` leaves the region
  with the file's own pages, without relocations (`lsplt.cc:142`).
- The GNU hash table of a library without own symbols: GNU ld writes `symoffset`
  1 for it, so its imports are not below it, and LSPlt finds none.
- Without a `DT_PLTREL`, `is_use_rela_` stays false (`elf_util.hpp:40`), and the
  relocations of a 64-bit file are read with the wrong entry size.
- Packed relocations (APS2) are recognised and then read as plain ones.

zygiskd and the scripts

- `service.sh` would respawn `$MODDIR/bin/zygiskd`, which `customize.sh` has
  moved to `$MODPATH/zygiskd`: a daemon that died is never started again.
- `zygiskd` ignores the request code and answers with flags that are always 0.
- A program that connects and stays silent holds up everyone until it exits.
- `exempt_fd` accepts any number (`module.cpp:417`), so one that is closed or out
  of range too; and an accepted descriptor that has the number in `g_sock` is
  closed by the next `getModuleDir`, or at the end of `app_specialize_pre`.

xDL (compiled in, called by nothing in `src/`)

- The linker's symbols are looked up under a lock, by code that needs them if the
  linker's `.symtab` is packed, or, on Android 5, if the auxiliary vector does
  not name the linker: the thread waits for itself.
- On Android 5 the linker's mutex and the lock of a handle's table are taken in
  both orders if a client's iterate callback searches.
- An initialisation that failed counts as done; caller addresses are looked for
  once; liblzma's functions stay in use if somebody else had loaded the library
  and unloads it, and its linker handle is never closed if xDL loaded it.
- A path is compared by its end: another library that ends the same may be found.
- `xdl_addr4`'s cache outlives the library it describes.
- `xdl_dsym` takes the first symbol whose name without suffix matches.

## 6. What is not modelled

- `syscall.hpp` (vendored system call stubs), logging, build files, the sample
  of `_xDL`.
- Of xDL: what `ANDROID_PLATFORM=26` (`.github/workflows/build.yml:58`) compiles
  out, that is the iteration through `/proc/self/maps` of Android 4 and the
  repairs for Android 6 packages; `xdl_info`, which reads and returns; callbacks
  of clients given to `xdl_iterate_phdr`.
- Of the scripts: the repair of storage, cleaning up, uninstalling.  They act
  once, on files that no other part reads.
- `zygisk_request` of `ipc_client.cpp`: nothing calls it.  The contents of
  zygiskd's answer: flags are data to it, and `ZygiskContext` allows any.
- The matching of regular expressions; how `call_app` converts arguments between
  API versions.
- In `ZygiskContext`: threads other than the main one, `ZYGISK_ENABLED`, the log
  pipe, the differences between API versions (a module has a valid table or has
  not), descriptors (they are in `ZygiskFds`).
- In `JniHooks`: classes other than Zygote, whose methods nothing puts back;
  two methods of one name; modules that hook in a zygote whose own fork failed
  (`ZygiskContext` has that case).
- In `Lsplt`: libraries that are unloaded, the offset range of a registration,
  libraries with their slots in several regions, and a thread that calls through
  a slot in the middle of a move.

## 7. Plan

Modelled: every component of section 1.  What is left, in this order:

1. **Lsplt** with libraries that are unloaded and addresses that are reused: the
   cached `Elf` of a merged entry, and which of the theorems then need that
   nothing is unloaded.
2. **JniHooks** with a class that has a name twice.
3. Larger instances: three threads in `Xdl`, three callbacks of one module in
   `PltApi`.
