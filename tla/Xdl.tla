-------------------------------- MODULE Xdl --------------------------------
(***************************************************************************)
(* xDL, the library that finds loaded ELF files and their symbols: opening *)
(* and force-loading (xdl.c, xdl_linker.c), the iteration over the loaded  *)
(* files (xdl_iterate.c) and the tables that are loaded once, each under a *)
(* lock of its own (xdl.c, xdl_linker.c, xdl_lzma.c).  What a search finds *)
(* in a table is ElfSymbols.                                               *)
(*                                                                         *)
(* The calls are recursive: the linker's own symbols are looked up with    *)
(* xdl_open and xdl_dsym, .gnu_debugdata is unpacked with functions that   *)
(* xdl_open and xdl_sym find, and force-loading needs the linker's         *)
(* symbols.  A thread therefore keeps the steps it still has to do, and a  *)
(* step may put others before them.                                        *)
(***************************************************************************)
EXTENDS Integers, Sequences, FiniteSets

CONSTANTS
    Thread, Nobody,
    Lib,        \* libraries besides the linker, liblzma among them
    Device,     \* records of what the process runs on
    MaxHandle,  \* xdl_t objects that can be allocated at once
    MaxCalls    \* calls of all threads, the application's dlopen and dlclose included

Handle == 1..MaxHandle
Null == 0
LinkerHandle == -1          \* what dlopen returned
Linker == "linker"
Lzma == "liblzma"
Table == {"dynsym", "symtab"} \X Handle
Once == {"symbols", "callers", "lzma"} \X {0}
Symbols == <<"symbols", 0>>
Callers == <<"callers", 0>>
Unpacker == <<"lzma", 0>>
GDl == <<"g_dl_mutex", 0>>

ASSUME LibAssumption == Lzma \in Lib /\ Linker \notin Lib /\ "" \notin Lib
ASSUME ThreadAssumption == Nobody \notin Thread
ASSUME BoundAssumption == MaxHandle \in Nat \ {0} /\ MaxCalls \in Nat \ {0}

VARIABLES
    device,     \* never changes
    todo,       \* the steps each thread has to do, the next one first
    ret,        \* what the last step of a thread returned
    calls,      \* how many calls have been made
    owner,      \* who holds a lock
    inited,     \* the flags of what has been loaded or initialised
    table,      \* .dynsym and .symtab of each handle
    handle,     \* the xdl_t objects
    given,      \* handles that the clients have
    cache,      \* of each thread: the handles that xdl_addr has made
    refs, app,  \* the linker's reference counts; does the application hold one?
    dlopenSym, mutexSym, \* xdl_linker_dlopen, xdl_linker_mutex are set
    caller,     \* namespaces that a caller address is known of
    code        \* xdl_lzma_code: no, found in a loaded file, or force-loaded

pointers == <<dlopenSym, mutexSym, caller, code>>
objects == <<table, handle>>
lists == <<given, cache>>
vars == <<device, todo, ret, calls, owner, inited, objects, lists, refs, app, pointers>>

Unused == [lib |-> "", held |-> FALSE]
Lock == Table \cup Once \cup {GDl}

Init ==
    /\ device \in Device
    /\ todo = [t \in Thread |-> <<>>]
    /\ ret = [t \in Thread |-> Null]
    /\ calls = 0
    /\ owner = [l \in Lock |-> Nobody]
    /\ inited = {}
    /\ table = [k \in Table |-> "unloaded"]
    /\ handle = [h \in Handle |-> Unused]
    /\ given = {} /\ cache = [t \in Thread |-> {}]
    /\ app = device.loaded
    /\ refs = [l \in Lib |-> IF l \in app THEN 1 ELSE 0]
    /\ dlopenSym = FALSE /\ mutexSym = FALSE /\ caller = {} /\ code = "no"

(***************************************************************************)
(* The steps.                                                              *)
(***************************************************************************)
Do(op) == [op |-> op]
DoLib(op, lib) == [op |-> op, lib |-> lib]
DoKey(op, k) == [op |-> op, key |-> k]
Take(k, into) == [op |-> "take", key |-> k, into |-> into]
Search(k, into) == <<DoKey("ensure", k), Take(k, into)>>

Api == device.api
Lollipop == Api \in {21, 22}
Nougat == Api \in {24, 25}

\* xdl_linker_lock and xdl_linker_unlock around some steps: the mutex is a
\* symbol of the linker that is looked up first.
WithLinkerLock_MBlind(steps) == <<Do("lockLinker")>> \o steps \o <<Do("unlockLinker")>>

WithLinkerLock(steps) ==
    <<DoKey("ensure", Symbols), Do("lockLinker")>> \o steps \o <<Do("unlockLinker")>>

\* xdl_find: the linker comes from the auxiliary vector, everything else
\* from dl_iterate_phdr, under the linker's mutex on Android 5.
Iterating(lib) == IF Lollipop THEN WithLinkerLock(<<DoLib("iterate", lib)>>)
                  ELSE <<DoLib("iterate", lib)>>

Find(lib) == IF lib = Linker /\ device.auxv THEN <<Do("auxv")>> ELSE Iterating(lib)

\* xdl_linker_force_dlopen: dlopen itself up to Android 6, then the linker's
\* own dlopen in the name of a caller.
ForceDlopen(lib) ==
    IF Api <= 23 THEN <<DoLib("dlopen", lib)>>
    ELSE <<DoKey("ensure", Symbols), DoLib("forceAs", lib)>>

OpenAlways(lib) == ForceDlopen(lib) \o <<DoLib("forced", lib)>>
OpenTry(lib) == Find(lib) \o <<DoLib("tryForce", lib)>>

At(t, op) == todo[t] # <<>> /\ Head(todo[t]).op = op
Now(t) == Head(todo[t])
Goes(t, more) == todo' = [todo EXCEPT ![t] = more \o Tail(@)]
Returns(t, r) == ret' = [ret EXCEPT ![t] = r]

Mapped(lib) == lib \notin Lib \/ refs[lib] > 0
LinkerFree(t) == owner[GDl] \in {Nobody, t}

(***************************************************************************)
(* xdl_linker_init_symbols, xdl_linker_init_caller_addr, xdl_ensure_*_load *)
(* and the head of xdl_lzma_decompress all go the same way: look at the    *)
(* flag, lock, look again, load, set the flag, unlock.                     *)
(***************************************************************************)
Body(k) ==
    CASE k = Symbols      -> Find(Linker) \o <<Do("linkerFound")>>
      [] k = Callers      -> <<Do("scanCallers")>>
      [] k = Unpacker     -> OpenTry(Lzma) \o <<Do("lzmaFound")>>
      [] k[1] = "dynsym"  -> <<DoKey("read", k), DoKey("whole", k)>>
      [] k[1] = "symtab"  -> <<DoKey("read", k)>>

Ensure(t) ==
    /\ At(t, "ensure")
    /\ Goes(t, IF Now(t).key \in inited THEN <<>> ELSE <<DoKey("lock", Now(t).key)>>)
    /\ UNCHANGED <<device, ret, calls, owner, inited, objects, lists, refs, app, pointers>>

\* The second look is missing: a thread that had to wait loads once more.
LockAndLook_MBlind(t) ==
    /\ At(t, "lock")
    /\ LET k == Now(t).key IN
       /\ owner[k] = Nobody
       /\ owner' = [owner EXCEPT ![k] = t]
       /\ Goes(t, Body(k) \o <<DoKey("done", k), DoKey("unlock", k)>>)
    /\ UNCHANGED <<device, ret, calls, inited, objects, lists, refs, app, pointers>>

\* Only a thread that finds the work done gives the lock back.
LockAndLook_MKeeps(t) ==
    /\ At(t, "lock")
    /\ LET k == Now(t).key IN
       /\ owner[k] = Nobody
       /\ owner' = [owner EXCEPT ![k] = t]
       /\ Goes(t, IF k \in inited THEN <<DoKey("unlock", k)>>
                  ELSE Body(k) \o <<DoKey("done", k)>>)
    /\ UNCHANGED <<device, ret, calls, inited, objects, lists, refs, app, pointers>>

LockAndLook(t) ==
    /\ At(t, "lock")
    /\ LET k == Now(t).key IN
       /\ owner[k] = Nobody
       /\ owner' = [owner EXCEPT ![k] = t]
       /\ Goes(t, (IF k \in inited THEN <<>> ELSE Body(k) \o <<DoKey("done", k)>>)
                  \o <<DoKey("unlock", k)>>)
    /\ UNCHANGED <<device, ret, calls, inited, objects, lists, refs, app, pointers>>

Done(t) ==
    /\ At(t, "done")
    /\ inited' = inited \cup {Now(t).key}
    /\ Goes(t, <<>>)
    /\ UNCHANGED <<device, ret, calls, owner, objects, lists, refs, app, pointers>>

Unlock(t) ==
    /\ At(t, "unlock")
    /\ owner' = [owner EXCEPT ![Now(t).key] = Nobody]
    /\ Goes(t, <<>>)
    /\ UNCHANGED <<device, ret, calls, inited, objects, lists, refs, app, pointers>>

(***************************************************************************)
(* Finding a loaded file.                                                  *)
(***************************************************************************)
FreeHandles == {h \in Handle : handle[h] = Unused}

Alloc(t, lib) ==
    IF FreeHandles = {}
    THEN Returns(t, Null) /\ UNCHANGED <<handle, table, inited>>
    ELSE LET h == CHOOSE h \in FreeHandles : \A g \in FreeHandles : h <= g IN
         /\ handle' = [handle EXCEPT ![h] = [lib |-> lib, held |-> FALSE]]
         /\ table' = [k \in Table |-> IF k[2] = h THEN "unloaded" ELSE table[k]]
         /\ inited' = inited \ ({"dynsym", "symtab"} \X {h})
         /\ Returns(t, h)

FromAuxv(t) ==
    /\ At(t, "auxv")
    /\ Alloc(t, Linker)
    /\ Goes(t, IF FreeHandles = {} THEN <<Do("again")>> ELSE <<>>)
    /\ UNCHANGED <<device, calls, owner, lists, refs, app, pointers>>

\* Without memory for the handle xdl_find iterates.  xdl_iterate_by_linker
\* begins with the auxiliary vector too, and its callback stops there.
Again(t) ==
    /\ At(t, "again")
    /\ Alloc(t, Linker)
    /\ Goes(t, <<>>)
    /\ UNCHANGED <<device, calls, owner, lists, refs, app, pointers>>

\* The linker itself is in dl_iterate_phdr's list from Android 8.1 on.  (Its
\* callback mends the names and headers that some versions leave out.)
Listed(lib) == IF lib = Linker THEN Api >= 27 ELSE Mapped(lib)

Iterate(t) ==
    /\ At(t, "iterate")
    /\ LinkerFree(t)
    /\ LET lib == Now(t).lib IN
       IF Listed(lib)
       THEN Alloc(t, lib)
       ELSE Returns(t, Null) /\ UNCHANGED <<handle, table, inited>>
    /\ Goes(t, <<>>)
    /\ UNCHANGED <<device, calls, owner, lists, refs, app, pointers>>

LockLinker(t) ==
    /\ At(t, "lockLinker")
    /\ IF mutexSym THEN owner[GDl] = Nobody /\ owner' = [owner EXCEPT ![GDl] = t]
                   ELSE UNCHANGED owner
    /\ Goes(t, <<>>)
    /\ UNCHANGED <<device, ret, calls, inited, objects, lists, refs, app, pointers>>

UnlockLinker(t) ==
    /\ At(t, "unlockLinker")
    /\ owner' = IF mutexSym THEN [owner EXCEPT ![GDl] = Nobody] ELSE owner
    /\ Goes(t, <<>>)
    /\ UNCHANGED <<device, ret, calls, inited, objects, lists, refs, app, pointers>>

(***************************************************************************)
(* xdl_open with the force flags.                                          *)
(***************************************************************************)
TryForce(t) ==
    /\ At(t, "tryForce")
    /\ Goes(t, IF ret[t] # Null THEN <<>> ELSE OpenAlways(Now(t).lib))
    /\ UNCHANGED <<device, ret, calls, owner, inited, objects, lists, refs, app, pointers>>

\* From Android 7 on the linker's inner dlopen, in the name of a caller.
ForceAs(t) ==
    /\ At(t, "forceAs")
    /\ LET lib == Now(t).lib IN
       IF ~dlopenSym
       THEN Returns(t, Null) /\ Goes(t, <<>>)
       ELSE /\ Goes(t, <<DoKey("ensure", Callers)>> \o
                       IF Nougat THEN WithLinkerLock(<<DoLib("dlopen", lib)>>)
                                 ELSE <<DoLib("dlopen", lib)>>)
            /\ UNCHANGED ret
    /\ UNCHANGED <<device, calls, owner, inited, objects, lists, refs, app, pointers>>

Dlopen(t) ==
    /\ At(t, "dlopen")
    /\ LinkerFree(t)
    /\ LET lib == Now(t).lib IN
       IF (IF Api <= 23 THEN device.opens[lib] # {} ELSE caller \cap device.opens[lib] # {})
       THEN Returns(t, LinkerHandle) /\ refs' = [refs EXCEPT ![lib] = @ + 1]
       ELSE Returns(t, Null) /\ UNCHANGED refs
    /\ Goes(t, <<>>)
    /\ UNCHANGED <<device, calls, owner, inited, objects, lists, app, pointers>>

Forced(t) ==
    /\ At(t, "forced")
    /\ LET lib == Now(t).lib IN
       Goes(t, IF ret[t] = Null THEN <<>> ELSE Find(lib) \o <<DoLib("hold", lib)>>)
    /\ UNCHANGED <<device, ret, calls, owner, inited, objects, lists, refs, app, pointers>>

\* The xdl_t keeps the linker's handle; without one it is given back.
Hold(t) ==
    /\ At(t, "hold")
    /\ IF ret[t] = Null
       THEN /\ LinkerFree(t)
            /\ refs' = [refs EXCEPT ![Now(t).lib] = @ - 1]
            /\ UNCHANGED handle
       ELSE handle' = [handle EXCEPT ![ret[t]].held = TRUE] /\ UNCHANGED refs
    /\ Goes(t, <<>>)
    /\ UNCHANGED <<device, ret, calls, owner, inited, table, lists, app, pointers>>

(***************************************************************************)
(* What is initialised once.                                               *)
(***************************************************************************)
\* xdl_linker_init_symbols_impl: which of the linker's symbols are needed
\* depends on Android's version.
LinkerFound(t) ==
    /\ At(t, "linkerFound")
    /\ LET h == ret[t]
           sym == <<"symtab", h>> IN
       Goes(t, IF h = Null THEN <<>>
               ELSE CASE Lollipop        -> Search(sym, "mutex") \o <<DoKey("close", sym)>>
                      [] Nougat          -> Search(sym, "dlopen_ext") \o <<DoKey("noExt", sym)>>
                      [] Api \in {26,27} -> Search(sym, "dlopen") \o <<DoKey("close", sym)>>
                      [] Api >= 28       -> Search(<<"dynsym", h>>, "dlopen") \o <<DoKey("close", sym)>>
                      [] OTHER           -> <<DoKey("close", sym)>>)
    /\ UNCHANGED <<device, ret, calls, owner, inited, objects, lists, refs, app, pointers>>

\* Without dlopen_ext, do_dlopen under the linker's mutex.
NoExt(t) ==
    /\ At(t, "noExt")
    /\ LET sym == Now(t).key IN
       Goes(t, (IF dlopenSym THEN <<>> ELSE Search(sym, "dlopen") \o Search(sym, "mutex"))
               \o <<DoKey("close", sym)>>)
    /\ UNCHANGED <<device, ret, calls, owner, inited, objects, lists, refs, app, pointers>>

\* A namespace has a caller address if one of its libraries is loaded now.
ScanCallers(t) ==
    /\ At(t, "scanCallers")
    /\ LinkerFree(t)
    /\ caller' = {c \in DOMAIN device.anchors : \E lib \in device.anchors[c] : Mapped(lib)}
    /\ Goes(t, <<>>)
    /\ UNCHANGED <<device, ret, calls, owner, inited, objects, lists, refs, app, dlopenSym, mutexSym, code>>

\* The linker's handle of liblzma is dropped, never closed.
LzmaFound(t) ==
    /\ At(t, "lzmaFound")
    /\ LET dyn == <<"dynsym", ret[t]>> IN
       Goes(t, IF ret[t] = Null THEN <<>> ELSE Search(dyn, "code") \o <<DoKey("close", dyn)>>)
    /\ UNCHANGED <<device, ret, calls, owner, inited, objects, lists, refs, app, pointers>>

\* A symbol is looked up in a table that may be missing.
TakeIt(t) ==
    /\ At(t, "take")
    /\ LET into == Now(t).into
           there == table[Now(t).key] = "whole" IN
       /\ dlopenSym' = (dlopenSym \/ (there /\ (into = "dlopen" \/ (into = "dlopen_ext" /\ device.ext))))
       /\ mutexSym' = (mutexSym \/ (there /\ into = "mutex"))
       /\ code' = IF there /\ into = "code"
                  THEN IF handle[Now(t).key[2]].held THEN "forced" ELSE "found"
                  ELSE code
    /\ Goes(t, <<>>)
    /\ UNCHANGED <<device, ret, calls, owner, inited, objects, lists, refs, app, caller>>

\* xdl_dynsym_load, xdl_symtab_load: the tables are put together from the
\* memory of the library, from its file, or from its .gnu_debugdata.
Read(t) ==
    /\ At(t, "read")
    /\ LET k == Now(t).key
           where == device.symtab[handle[k[2]].lib] IN
       IF k[1] = "symtab" /\ where = "none"
       THEN table' = [table EXCEPT ![k] = "missing"] /\ Goes(t, <<>>)
       ELSE /\ table' = [table EXCEPT ![k] = "reading"]
            /\ Goes(t, IF k[1] = "dynsym" THEN <<>>
                       ELSE IF where = "packed"
                            THEN <<DoKey("ensure", Unpacker), DoKey("unpack", k)>>
                            ELSE <<DoKey("whole", k)>>)
    /\ UNCHANGED <<device, ret, calls, owner, inited, handle, lists, refs, app, pointers>>

Whole(t) ==
    /\ At(t, "whole")
    /\ table' = [table EXCEPT ![Now(t).key] = "whole"]
    /\ Goes(t, <<>>)
    /\ UNCHANGED <<device, ret, calls, owner, inited, handle, lists, refs, app, pointers>>

\* What becomes of packed data: it may be damaged, or memory may be short.
Unpacked == IF code = "no" THEN {"missing"} ELSE {"missing", "whole"}

Unpack(t) ==
    /\ At(t, "unpack")
    /\ \E outcome \in Unpacked : table' = [table EXCEPT ![Now(t).key] = outcome]
    /\ Goes(t, <<>>)
    /\ UNCHANGED <<device, ret, calls, owner, inited, handle, lists, refs, app, pointers>>

\* The handle is closed here and by the caller, who was given it.
Close_MCloses(t) ==
    /\ At(t, "close")
    /\ LET h == Now(t).key[2] IN
       /\ handle' = [handle EXCEPT ![h] = Unused]
       /\ refs' = IF handle[h].held THEN [refs EXCEPT ![handle[h].lib] = @ - 1] ELSE refs
       /\ Returns(t, IF handle[h].held THEN LinkerHandle ELSE Null)
    /\ Goes(t, <<>>)
    /\ UNCHANGED <<device, calls, owner, inited, table, lists, app, pointers>>

\* xdl_close frees the object and returns the linker's handle.
Close(t) ==
    /\ At(t, "close")
    /\ LET h == Now(t).key[2] IN
       /\ handle' = [handle EXCEPT ![h] = Unused]
       /\ Returns(t, IF handle[h].held THEN LinkerHandle ELSE Null)
    /\ Goes(t, <<>>)
    /\ UNCHANGED <<device, calls, owner, inited, table, lists, refs, app, pointers>>

(***************************************************************************)
(* The clients: calls of any thread on handles that they share.  A handle  *)
(* is closed when no other thread uses it, and the linker's handle that    *)
(* xdl_close returns is given to dlclose, as xdl.h says.                   *)
(***************************************************************************)
Counted == calls < MaxCalls /\ calls' = calls + 1

Call(t, steps) ==
    /\ todo[t] = <<>>
    /\ Counted
    /\ todo' = [todo EXCEPT ![t] = steps]

Uses(t, h) == \E i \in DOMAIN todo[t] : "key" \in DOMAIN todo[t][i] /\ todo[t][i].key[2] = h

xdl_open(t) ==
    /\ \E lib \in Lib :
       \E steps \in {Find(lib), OpenTry(lib), OpenAlways(lib)} :
          Call(t, steps \o <<Do("give")>>)
    /\ UNCHANGED <<device, ret, owner, inited, objects, lists, refs, app, pointers>>

Give(t) ==
    /\ At(t, "give")
    /\ given' = given \cup ({ret[t]} \ {Null})
    /\ Goes(t, <<>>)
    /\ UNCHANGED <<device, ret, calls, owner, inited, objects, cache, refs, app, pointers>>

xdl_sym(t) ==
    /\ \E h \in given, name \in {"dynsym", "symtab"} : Call(t, Search(<<name, h>>, "nothing"))
    /\ UNCHANGED <<device, ret, owner, inited, objects, lists, refs, app, pointers>>

xdl_close(t) ==
    /\ \E h \in given :
          /\ \A other \in Thread \ {t} : ~Uses(other, h)
          /\ given' = given \ {h}
          /\ Call(t, <<DoKey("close", <<"dynsym", h>>), DoLib("drop", handle[h].lib)>>)
    /\ UNCHANGED <<device, ret, owner, inited, objects, cache, refs, app, pointers>>

Drop(t) ==
    /\ At(t, "drop")
    /\ LinkerFree(t)
    /\ refs' = IF ret[t] = LinkerHandle THEN [refs EXCEPT ![Now(t).lib] = @ - 1] ELSE refs
    /\ Goes(t, <<>>)
    /\ UNCHANGED <<device, ret, calls, owner, inited, objects, lists, app, pointers>>

\* xdl_addr: the file of an address, out of the cache of the caller, and its
\* symbol, if asked for, first in .dynsym and then in .symtab.
Named(h) ==
    {<<>>, Search(<<"dynsym", h>>, "nothing"),
     Search(<<"dynsym", h>>, "nothing") \o Search(<<"symtab", h>>, "nothing")}

xdl_addr(t) ==
    /\ \E lib \in {l \in Lib : Mapped(l)} :
       LET hits == {h \in cache[t] : handle[h].lib = lib} IN
       \/ \E h \in hits : \E steps \in Named(h) : Call(t, steps)
       \/ hits = {} /\ Call(t, Iterating(lib) \o <<Do("cache")>>)
    /\ UNCHANGED <<device, ret, owner, inited, objects, lists, refs, app, pointers>>

Cache(t) ==
    /\ At(t, "cache")
    /\ IF ret[t] = Null
       THEN Goes(t, <<>>) /\ UNCHANGED cache
       ELSE /\ cache' = [cache EXCEPT ![t] = @ \cup {ret[t]}]
            /\ \E steps \in Named(ret[t]) : Goes(t, steps)
    /\ UNCHANGED <<device, ret, calls, owner, inited, objects, given, refs, app, pointers>>

xdl_addr_clean(t) ==
    /\ cache[t] # {}
    /\ Call(t, <<>>)
    /\ handle' = [h \in Handle |-> IF h \in cache[t] THEN Unused ELSE handle[h]]
    /\ cache' = [cache EXCEPT ![t] = {}]
    /\ UNCHANGED <<device, ret, owner, inited, table, given, refs, app, pointers>>

\* The application loads and unloads libraries of its own accord.
AppDlopen(lib) ==
    /\ lib \notin app
    /\ Counted
    /\ owner[GDl] = Nobody
    /\ app' = app \cup {lib}
    /\ refs' = [refs EXCEPT ![lib] = @ + 1]
    /\ UNCHANGED <<device, todo, ret, owner, inited, objects, lists, pointers>>

AppDlclose(lib) ==
    /\ lib \in app
    /\ Counted
    /\ owner[GDl] = Nobody
    /\ app' = app \ {lib}
    /\ refs' = [refs EXCEPT ![lib] = @ - 1]
    /\ UNCHANGED <<device, todo, ret, owner, inited, objects, lists, pointers>>

Step(t) ==
    \/ Ensure(t) \/ LockAndLook(t) \/ Done(t) \/ Unlock(t)
    \/ FromAuxv(t) \/ Again(t) \/ Iterate(t) \/ LockLinker(t) \/ UnlockLinker(t)
    \/ TryForce(t) \/ ForceAs(t) \/ Dlopen(t) \/ Forced(t) \/ Hold(t)
    \/ LinkerFound(t) \/ NoExt(t) \/ ScanCallers(t) \/ LzmaFound(t)
    \/ TakeIt(t) \/ Read(t) \/ Whole(t) \/ Unpack(t) \/ Close(t)
    \/ Give(t) \/ Drop(t) \/ Cache(t)

Next ==
    \/ \E t \in Thread : Step(t) \/ xdl_open(t) \/ xdl_sym(t) \/ xdl_close(t)
                            \/ xdl_addr(t) \/ xdl_addr_clean(t)
    \/ \E lib \in Lib : AppDlopen(lib) \/ AppDlclose(lib)

Spec == Init /\ [][Next]_vars /\ \A t \in Thread : WF_vars(Step(t))

(***************************************************************************)
(* Properties.                                                             *)
(***************************************************************************)
\* A search looks at a table that has been loaded completely or found to be
\* missing, and no table is loaded a second time while somebody searches
\* it: two threads that share a handle may ask for its first search at once
\* (xdl_ensure_dynsym_loaded, xdl_ensure_symtab_loaded).
SearchesSeeWholeTables ==
    \A t \in Thread : At(t, "take") => table[Now(t).key] \in {"whole", "missing"}

\* On Android 5 the list of loaded files is walked, and on Android 7 a
\* library is force-loaded, with the linker's mutex held if the linker has
\* one, although the first thread that needs it must look it up on the way;
\* whoever unlocks it has locked it (xdl_linker_lock, xdl_linker_unlock test
\* the pointer, not who locked), and nothing stays locked between calls.
LinkerIsLocked ==
    \A t \in Thread :
        /\ ((Lollipop /\ At(t, "iterate")) \/ (Nougat /\ At(t, "dlopen")))
              => Symbols \in inited /\ (mutexSym => owner[GDl] = t)
        /\ (At(t, "unlockLinker") /\ mutexSym) => owner[GDl] = t
        /\ todo[t] = <<>> => \A l \in Lock : owner[l] # t

\* A handle that force-loaded its library keeps it mapped whatever else is
\* loaded and unloaded, and so do the functions found in a liblzma that had
\* to be loaded (xdl_open_always_force, xdl_close, xdl_lzma_init).
HeldStaysMapped ==
    /\ \A h \in Handle : handle[h].held => Mapped(handle[h].lib)
    /\ code = "forced" => Mapped(Lzma)

\* The once-initialisers need each other.  A call returns unless looking up
\* the linker's symbols needs those symbols: on Android 5, if the linker is
\* not in the auxiliary vector; on Android 5, 7 and 8.x, if the linker's
\* own .symtab is packed and liblzma must be opened to read it.
NeedsItself ==
    \/ /\ Lollipop
       /\ ~device.auxv \/ device.symtab[Linker] = "packed"
    \/ /\ Api \in 24..27
       /\ device.symtab[Linker] = "packed"

CallsReturn ==
    \A t \in Thread : (todo[t] # <<>> /\ ~NeedsItself) ~> (todo[t] = <<>>)
=============================================================================
