---------------------------- MODULE PltOwners ----------------------------
(***************************************************************************)
(* Those who share LSPlt: the HookContext and the modules of a process     *)
(* hook the same symbols, each with a callback of its own that calls on    *)
(* to what its backup variable holds, and unhook by registering that       *)
(* again.  A process maps each library once.  What may fail in a commit is *)
(* its scan, which leaves the registrations queued, and the move back of a *)
(* region which nobody hooks any more.                                     *)
(***************************************************************************)
EXTENDS Lsplt

CONSTANTS
    Callback      \* the callback of each owner, its backup variable in Ptr

Owner == Ptr

\* Owners do not share a callback, which is no library's function, and a slot
\* is that of one symbol: a relocation names one.
OwnersApart ==
    /\ Callback \in [Owner -> Fn]
    /\ \A o, p \in Owner : o # p => Callback[o] # Callback[p]
    /\ \A o \in Owner, l \in Lib, s \in Slot : Callback[o] # Loaded[l][s]
    /\ \A l \in Lib, y, z \in Sym : y # z => Plt[l][y] \cap Plt[l][z] = {}

\* No hook is lost to a failure: all that may go wrong is a scan, after which
\* nothing is done, or the last move, after which a copy is left.
NoneLost == Failures \subseteq {"scan", "restore"}

VARIABLES
    held      \* held[l][y]: the owners that hook y in l, in order

ownerVars == <<vars, held>>

OwnersInit == Init /\ held = [l \in Lib |-> [y \in Sym |-> <<>>]]

\* Nothing the owner registered is still queued: its backup is available.
Settled(o) == ~Locked /\ \A i \in DOMAIN register_info : register_info[i].ptr # o

Owners(l, y) == ToSet(held[l][y])

\* An owner hooks a symbol, when it does not already: its backup variable
\* serves one symbol.
Hook(o, l, y) ==
    /\ l \in ToSet(mapped)
    /\ \A k \in Lib, z \in Sym : o \notin Owners(k, z)
    /\ held' = [held EXCEPT ![l][y] = Append(@, o)]
    /\ RegisterHook(l, y, Callback[o], o)

\* restore_plt_hook: register what the backup variable holds, with no backup.
\* An owner that does so below another drops the other's hook with its own
\* (lsplt.cc:162); owners here unhook only while they are the last to hook.
Unhook(o, l, y) ==
    /\ o \in Owners(l, y)
    /\ o = Last(held[l][y])
    /\ Settled(o)
    /\ old[o] # Null
    /\ held' = [held EXCEPT ![l][y] = Front(@)]
    /\ RegisterHook(l, y, old[o], Null)

MapLibrary(l, b) == l \notin ToSet(mapped) /\ Dlopen(l, b)

OwnersNext ==
    \/ \E o \in Owner, l \in Lib, y \in Sym : Hook(o, l, y) \/ Unhook(o, l, y)
    \/ UNCHANGED held /\
         (Commit \/ InvalidateBackup \/ \E l \in Lib, b \in Base : MapLibrary(l, b))

OwnersSpec == OwnersInit /\ [][OwnersNext]_ownerVars

---------------------------------------------------------------------------
Idle == ~Locked /\ register_info = <<>>

\* What a call through f runs: f, then what its owner's backup holds, and so
\* on, for at most n functions.
Chain[n \in Nat] == [f \in Fn \cup {Null} |->
    IF n = 0 THEN <<>>
    ELSE <<f>> \o (IF \E o \in Owner : Callback[o] = f
                   THEN Chain[n - 1][old[CHOOSE o \in Owner : Callback[o] = f]]
                   ELSE <<>>)]

\* When owners unhook in the reverse order, a call through a slot runs the
\* callbacks of exactly those who hook it, the latest first, and ends in the
\* library's own function: none is lost, none runs after it was unhooked, and
\* they do not call each other in a circle.
ChainIsHeld ==
    Idle => \A b \in Base, y \in Sym : mapped[b] # NoLib =>
        LET owners == held[mapped[b]][y]
        IN \A s \in Plt[mapped[b]][y] :
             LET chain == Chain[Len(owners) + 2][mem[b][s]]
             IN Front(chain) = [i \in DOMAIN owners |->
                                 Callback[Reverse(owners)[i]]]
=============================================================================
