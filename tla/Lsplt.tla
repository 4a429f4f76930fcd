------------------------------- MODULE Lsplt -------------------------------
(***************************************************************************)
(* The PLT hook engine (lsplt.cc): RegisterHook queues registrations,      *)
(* CommitHook applies them.  To hook a slot, the memory region that holds  *)
(* it is moved aside and replaced by an anonymous copy, which is written;  *)
(* when the last hook of the region goes, the moved region is put back.    *)
(* InvalidateBackup puts it back with the hooks written into it.           *)
(*                                                                         *)
(* A library is seen as the one region that holds its PLT slots; its       *)
(* header is found again at every scan.  Base addresses are the regions'   *)
(* addresses. The three operations hold hook_mutex, so a commit, though    *)
(* made of several steps here, excludes the other two.  Libraries are      *)
(* loaded at any time and are not unloaded.  A mutant, named               *)
(* <definition>_M<fault>, precedes the definition it is a fault of.        *)
(***************************************************************************)
EXTENDS Naturals, SequencesExt

CONSTANTS
    Lib,          \* library files, by device and inode
    Base,         \* addresses at which a library can be mapped
    Slot,         \* PLT slots of a library, by their offset
    Sym,          \* symbol names
    Plt,          \* Plt[l][y]: the slots of library l for symbol y (FindPltAddr)
    Fn,           \* function pointers, original functions and callbacks
    Loaded,       \* Loaded[l][s]: what the linker writes into slot s of l
    InFile,       \* InFile[l][s]: what the file has there
    Ptr,          \* backup variables of those who register hooks
    Null,         \* the null pointer
    NoLib,
    SelfLib,      \* the library that contains LSPlt, or NoLib
    MaxPending,   \* bound on the length of register_info
    Failures      \* the system calls that may fail

ASSUME LibAssumption ==
    /\ NoLib \notin Lib /\ SelfLib \in Lib \cup {NoLib}
    /\ Plt \in [Lib -> [Sym -> SUBSET Slot]]
    /\ Loaded \in [Lib -> [Slot -> Fn]] /\ InFile \in [Lib -> [Slot -> Fn]]
ASSUME NullAssumption == Null \notin Fn /\ Null \notin Ptr
ASSUME BaseAssumption == Base \subseteq Nat
ASSUME BoundAssumption == MaxPending \in Nat
ASSUME FailureAssumption ==
    Failures \subseteq {"scan", "move", "copy", "restore", "invalidate", "mprotect"}

VARIABLES
    mapped,        \* the library mapped at each address
    mem,           \* the pages at each address, as a caller sees them
    hook_info,     \* the addresses that have a HookInfo
    hooks,         \* HookInfo::hooks: the function a hooked slot had, or Null
    backup,        \* HookInfo::backup: has the region been moved aside?
    saved,         \* the pages that were moved aside
    register_info, \* registrations not yet applied, in order
    old,           \* what the backup variables hold
    work,          \* the registration a commit is applying, or <<>>
    result,        \* what the running or last commit returns
    orig           \* the pages as they would be without any hook (history)

memVars  == <<mapped, mem, orig>>
infoVars == <<hook_info, hooks, backup, saved>>
vars == <<memVars, infoVars, register_info, old, work, result>>

Pages == [Slot -> Fn]
NoHooks == [s \in Slot |-> Null]
NoPages == [s \in Slot |-> Null]
Registration == [lib : Lib, sym : Sym, callback : Fn, ptr : Ptr \cup {Null}]
\* A registration found in the library mapped at base, with the slots to do.
Work == [base : Base, callback : Fn, ptr : Ptr \cup {Null}, slots : SUBSET Slot]

TypeOK ==
    /\ mapped \in [Base -> Lib \cup {NoLib}]
    /\ mem \in [Base -> [Slot -> Fn \cup {Null}]]
    /\ orig \in [Base -> [Slot -> Fn \cup {Null}]]
    /\ hook_info \in SUBSET Base
    /\ hooks \in [Base -> [Slot -> Fn \cup {Null}]]
    /\ backup \in [Base -> BOOLEAN]
    /\ saved \in [Base -> [Slot -> Fn \cup {Null}]]
    /\ register_info \in Seq(Registration)
    /\ old \in [Ptr -> Fn \cup {Null}]
    /\ work \in Work \cup {<<>>}
    /\ result \in {"none", "running", "failing", "true", "false"}

Init ==
    /\ mapped = [b \in Base |-> NoLib]
    /\ mem = [b \in Base |-> NoPages]
    /\ orig = [b \in Base |-> NoPages]
    /\ hook_info = {}
    /\ hooks = [b \in Base |-> NoHooks]
    /\ backup = [b \in Base |-> FALSE]
    /\ saved = [b \in Base |-> NoPages]
    /\ register_info = <<>>
    /\ old = [p \in Ptr |-> Null]
    /\ work = <<>>
    /\ result = "none"

\* Is hook_mutex held by a commit?
Locked == result \in {"running", "failing"}
MayFail(call) == call \in Failures

---------------------------------------------------------------------------
\* The dynamic linker maps library l at a free address and relocates it.
Dlopen(l, b) ==
    /\ mapped[b] = NoLib
    /\ mapped' = [mapped EXCEPT ![b] = l]
    /\ mem' = [mem EXCEPT ![b] = Loaded[l]]
    /\ orig' = [orig EXCEPT ![b] = Loaded[l]]
    /\ UNCHANGED <<infoVars, register_info, old, work, result>>

RegisterHook(l, y, f, p) ==
    /\ ~Locked
    /\ Len(register_info) < MaxPending
    /\ register_info' =
         Append(register_info, [lib |-> l, sym |-> y, callback |-> f, ptr |-> p])
    /\ UNCHANGED <<memVars, infoVars, old, work, result>>

---------------------------------------------------------------------------
PendingLibs == {register_info[i].lib : i \in DOMAIN register_info}

\* ScanHookInfo and Filter: the mapped libraries that a registration is for.
\* A region that is moved aside is anonymous at its address, so not found.  Of
\* a library that has a hole the header still is.
Scanned == {b \in Base : mapped[b] \in PendingLibs /\ ~backup[b]}

\* Merge: of the old entries, those found again and those with a backup stay.
Merge_MFoundOnly == hook_info \cap Scanned
Merge == {b \in hook_info : b \in Scanned \/ backup[b]}

\* CommitHook up to the loop over the registrations.  The scan of a process
\* that runs finds some library, so it is empty only if it failed.
CommitHook ==
    /\ ~Locked
    /\ register_info # <<>>
    /\ \/ /\ hook_info' = Scanned \cup Merge
          /\ hooks' = [b \in Base |-> IF b \in Merge THEN hooks[b] ELSE NoHooks]
          /\ result' = "running"
       \/ /\ MayFail("scan")
          /\ result' = "false"
          /\ UNCHANGED <<hook_info, hooks>>
    /\ UNCHANGED <<memVars, backup, saved, register_info, old, work>>

\* DoHook(list) visits the entries by rising address and, at each, takes the
\* registrations it matches from the list, in order.
Targets(r) == {b \in hook_info : mapped[b] = r.lib}
ToDo == UNION {Targets(register_info[i]) : i \in DOMAIN register_info}
NextEntry == CHOOSE b \in ToDo : \A c \in ToDo : b <= c

TakeRegistration(i) ==
    /\ Locked /\ work = <<>>
    /\ i \in DOMAIN register_info
    /\ ToDo # {}
    /\ NextEntry \in Targets(register_info[i])
    /\ \A j \in 1..(i - 1) : NextEntry \notin Targets(register_info[j])
    /\ work' = [base |-> NextEntry, callback |-> register_info[i].callback,
                ptr |-> register_info[i].ptr,
                slots |-> Plt[register_info[i].lib][register_info[i].sym]]
    /\ register_info' = RemoveAt(register_info, i)
    /\ UNCHANGED <<memVars, infoVars, old, result>>

IsSelf(b) == mapped[b] = SelfLib

\* The slot's new entry in HookInfo::hooks after callback f replaced g.
Recorded_MLatest(b, s, f, g) ==
    IF hooks[b][s] # Null /\ hooks[b][s] = f THEN Null ELSE g
Recorded(b, s, f, g) ==
    IF hooks[b][s] = Null THEN g
    ELSE IF hooks[b][s] = f THEN Null
    ELSE hooks[b][s]

\* *backup = the_backup
BackupWritten_MAfter(f, g) ==
    IF g # f /\ work.ptr # Null THEN [old EXCEPT ![work.ptr] = f] ELSE old
BackupWritten(f, g) ==
    IF g # f /\ work.ptr # Null THEN [old EXCEPT ![work.ptr] = g] ELSE old

\* A region left without its pages, by a copy that failed, cannot be moved.
Hole(b) == mem[b] = NoPages

\* DoHook(addr): move the region aside unless that is done or the library is
\* LSPlt's own, write the slot and keep the hook's record.  If this was the
\* region's last hook, the pages that were moved aside are put back.
HookSlot(b, s, f) ==
    LET g == mem[b][s]
        moves == ~backup[b] /\ ~IsSelf(b)
        pages == IF moves THEN mem[b] ELSE saved[b]
        record == [hooks[b] EXCEPT ![s] = Recorded(b, s, f, g)]
        last == record = NoHooks /\ ~IsSelf(b)
    IN /\ moves => ~Hole(b)
       /\ UNCHANGED orig
       /\ old' = BackupWritten(f, g)
       /\ hooks' = [hooks EXCEPT ![b] = record]
       /\ \/ /\ last
             /\ mem' = [mem EXCEPT ![b] = pages]
             /\ saved' = [saved EXCEPT ![b] = NoPages]
             /\ backup' = [backup EXCEPT ![b] = FALSE]
             /\ UNCHANGED result
          \/ /\ last => MayFail("restore")
             /\ mem' = [mem EXCEPT ![b][s] = f]
             /\ saved' = [saved EXCEPT ![b] = pages]
             /\ backup' = [backup EXCEPT ![b] = ~IsSelf(b)]
             /\ result' = IF last THEN "failing" ELSE result

\* DoHook(addr) that cannot move the region, or cannot replace it: then what
\* the linker wrote is lost.  If the kernel left the region mapped
\* (MREMAP_DONTUNMAP), it shows the file again, and may be hooked again.
HookFails(b) ==
    /\ ~backup[b] /\ ~IsSelf(b)
    /\ \/ /\ Hole(b) \/ MayFail("move")
          /\ UNCHANGED <<mem, orig>>
       \/ /\ MayFail("copy") /\ ~Hole(b)
          /\ \/ /\ mem' = [mem EXCEPT ![b] = NoPages]
                /\ UNCHANGED orig
             \/ /\ mem' = [mem EXCEPT ![b] = InFile[mapped[b]]]
                /\ orig' = [orig EXCEPT ![b] = InFile[mapped[b]]]
    /\ result' = "failing"
    /\ UNCHANGED <<hooks, backup, saved, old>>

DoHook(s) ==
    /\ Locked /\ work # <<>>
    /\ s \in work.slots
    /\ HookSlot(work.base, s, work.callback) \/ HookFails(work.base)
    /\ work' = [work EXCEPT !.slots = @ \ {s}]
    /\ UNCHANGED <<mapped, hook_info, register_info>>

FinishRegistration ==
    /\ Locked /\ work # <<>>
    /\ work.slots = {}
    /\ work' = <<>>
    /\ UNCHANGED <<memVars, infoVars, register_info, old, result>>

\* The registrations that no entry matches stay queued.
CommitReturns ==
    /\ Locked /\ work = <<>>
    /\ \A i \in DOMAIN register_info : Targets(register_info[i]) = {}
    /\ result' = IF result = "running" THEN "true" ELSE "false"
    /\ UNCHANGED <<memVars, infoVars, register_info, old, work>>

---------------------------------------------------------------------------
\* The moved pages of b with the current value of each hooked slot.
Hooked_MUnread(b) == [s \in Slot |-> IF hooks[b][s] # Null THEN hooks[b][s] ELSE saved[b][s]]
Hooked(b) == [s \in Slot |-> IF hooks[b][s] # Null THEN mem[b][s] ELSE saved[b][s]]

\* InvalidateBackup: every moved region (kept: those whose mremap fails,
\* locked: those that cannot be made writable) is put back, with its hooks.
InvalidateBackup ==
    /\ ~Locked
    /\ \E kept, locked \in SUBSET {b \in Base : backup[b]} :
         /\ MayFail("invalidate") \/ kept = {}
         /\ MayFail("mprotect") \/ locked = {}
         /\ mem' = [b \in Base |->
              IF ~backup[b] \/ b \in kept THEN mem[b]
              ELSE IF b \in locked THEN saved[b] ELSE Hooked(b)]
         /\ orig' = [b \in Base |-> IF backup[b] THEN mem'[b] ELSE orig[b]]
         /\ hooks' = [b \in Base |-> IF backup[b] THEN NoHooks ELSE hooks[b]]
         /\ backup' = [b \in Base |-> b \in kept]
         /\ saved' = [b \in Base |-> IF b \in kept THEN saved[b] ELSE NoPages]
         /\ result' = IF kept = {} THEN "true" ELSE "false"
    /\ UNCHANGED <<mapped, hook_info, register_info, old, work>>

---------------------------------------------------------------------------
\* Any function may be registered for any symbol; a hook is removed by
\* registering the function that a backup variable holds.
Register_MUnchecked ==
    \E l \in Lib, y \in Sym, f \in Fn \cup {Null}, p \in Ptr \cup {Null} : RegisterHook(l, y, f, p)
Register ==
    \E l \in Lib, y \in Sym, f \in Fn, p \in Ptr \cup {Null} : RegisterHook(l, y, f, p)

Commit ==
    \/ CommitHook
    \/ \E i \in 1..MaxPending : TakeRegistration(i)
    \/ \E s \in Slot : DoHook(s)
    \/ FinishRegistration
    \/ CommitReturns

Next ==
    \/ \E l \in Lib, b \in Base : Dlopen(l, b)
    \/ Register
    \/ Commit
    \/ InvalidateBackup

Spec == Init /\ [][Next]_vars

---------------------------------------------------------------------------
\* Outside LSPlt's own library, what HookInfo::hooks keeps for a slot is the
\* function the linker put there, however often the slot was hooked since; a
\* slot with no entry holds that function; and the pages moved aside hold it
\* in every slot.  So the last hook to go can put those pages back.  (A hole
\* has no functions left, and a region that lost its pages otherwise has those
\* of the file.  InvalidateBackup makes the hooks part of orig.)
HooksRecordOriginal ==
    \A b \in Base, s \in Slot : ~IsSelf(b) =>
        /\ hooks[b][s] \in {Null, orig[b][s]}
        /\ hooks[b][s] = Null => mem[b][s] = orig[b][s] \/ Hole(b)
        /\ backup[b] => saved[b][s] = orig[b][s]

\* A region is kept aside exactly as long as one of its slots is hooked: no
\* copy is left behind, and none is missing when a hook must be undone.
MovedWhileHooked ==
    \A b \in Base : ~IsSelf(b) => (backup[b] <=> hooks[b] # NoHooks)

\* lsplt.hpp:119-122: InvalidateBackup does all existing hooks on the original
\* memory; if any of them fails to invalidate, it returns false.
InvalidatedMeansHooked ==
    [][InvalidateBackup /\ result' = "true" => mem' = mem]_vars

\* The redirections that the first n registrations of a list ask of library l.
Request(r) == [slots |-> Plt[r.lib][r.sym], callback |-> r.callback]
Requests(l, list) ==
    LET of[n \in Nat] ==
          IF n = 0 THEN <<>>
          ELSE IF n \in DOMAIN list /\ list[n].lib = l
          THEN Append(of[n - 1], Request(list[n]))
          ELSE of[n - 1]
    IN of

\* The registration that a commit is applying to library l.
Taken(l) ==
    IF work # <<>> /\ mapped[work.base] = l
    THEN <<[slots |-> work.slots, callback |-> work.callback]>> ELSE <<>>

\* To a caller, hooks take effect one slot at a time and in the order they
\* were registered; nothing else ever changes a slot.
Queue(l) == Taken(l) \o Requests(l, register_info)[Len(register_info)]
View == INSTANCE PltView WITH library <- mapped, view <- mem,
                              queue <- [l \in Lib |-> Queue(l)]
ImplementsPltView == View!Spec
=============================================================================
