------------------------------ MODULE JniHooks ------------------------------
(***************************************************************************)
(* The native methods of class Zygote (hook.cpp): HookContext replaces     *)
(* those that specialise a process, modules replace others or the same in  *)
(* a child, and restore_zygote_hook puts the first back before the         *)
(* library leaves.                                                         *)
(*                                                                         *)
(* A method is a name with a signature.  The lists of jni_hooks.hpp have   *)
(* several signatures for each name, since it depends on the Android       *)
(* version which of them a class has.  After a replacement, an entry of a  *)
(* list holds the function that its wrapper must call.  A list names a     *)
(* method once.  The order of a class's methods is not known: whatever     *)
(* depends on it is a choice here. A mutant, <definition>_M<fault>,        *)
(* precedes the definition it is a fault of.                               *)
(***************************************************************************)
EXTENDS Naturals, FiniteSets

CONSTANTS
    Method,     \* methods, each a name with a signature
    Name,       \* names of the methods that specialise a process
    NameOf,     \* NameOf[m]: the name of m
    Known,      \* the methods in the lists of jni_hooks.hpp
    Class,      \* the sets of native methods that the class may have
    Callback,   \* the functions of modules
    Shared,     \* may a module use one function for several methods?
    MaxList,    \* bound on the methods in a module's list
    Null        \* the null pointer

\* The VM's own function, and the wrapper of jni_hooks.hpp, for a method.
Original(m) == <<"original", m>>
Wrapper(m) == <<"wrapper", m>>

ASSUME MethodAssumption ==
    /\ Known \subseteq Method
    /\ \A m \in Known : NameOf[m] \in Name
    /\ Class \subseteq SUBSET Method
ASSUME FunctionAssumption ==
    \A m \in Method :
        /\ Original(m) \notin Callback /\ Wrapper(m) \notin Callback
        /\ Original(m) # Null /\ Wrapper(m) # Null
ASSUME CallbackAssumption == Null \notin Callback /\ IsFiniteSet(Callback)
ASSUME BoundAssumption == Shared \in BOOLEAN /\ MaxList \in Nat

VARIABLES
    natives,   \* the function of each native method, Null if there is none
    lists,     \* the fnPtr of each entry of the three lists
    replaced,  \* replaced_fork_app and the others: names that are done
    todo,      \* the methods that hook_zygote_jni has yet to look at
    phase,
    returned   \* returned[f][m]: what a module got back for f in place of m

vars == <<natives, lists, replaced, todo, phase, returned>>

Fn == {Original(m) : m \in Method} \cup {Wrapper(m) : m \in Method} \cup Callback

TypeOK ==
    /\ natives \in [Method -> Fn \cup {Null}]
    /\ lists \in [Known -> Fn \cup {Null}]
    /\ replaced \in SUBSET Name
    /\ todo \in SUBSET Method
    /\ phase \in {"boot", "replacing", "child", "restored"}
    /\ returned \in [Callback -> [Method -> Fn \cup {Null}]]

Init ==
    /\ \E class \in Class :
         natives = [m \in Method |-> IF m \in class THEN Original(m) ELSE Null]
    /\ lists = [m \in Known |-> Wrapper(m)]
    /\ replaced = {}
    /\ todo = {}
    /\ phase = "boot"
    /\ returned = [f \in Callback |-> [m \in Method |-> Null]]

ListOf(n) == {m \in Known : NameOf[m] = n}

---------------------------------------------------------------------------
\* register_jni_methods: entries with a function replace that of the class's
\* method, if it has the method.
Takes(list, m) == m \in DOMAIN list /\ list[m] # Null /\ natives[m] # Null
Registered(list) == [m \in Method |-> IF Takes(list, m) THEN list[m] ELSE natives[m]]

\* hook_jni_methods: an entry gets back the old function of a method (the first
\* in the class) that now has the entry's function, or null if it was refused.
Hooked_MUnchanged(list, out) ==
    out = [m \in DOMAIN list |-> IF Takes(list, m) THEN list[m] ELSE Null]
Hooked(list, out) ==
    /\ DOMAIN out = DOMAIN list
    /\ \A m \in DOMAIN list :
         IF Takes(list, m)
         THEN \E k \in Method : Registered(list)[k] = list[m] /\ out[m] = natives[k]
         ELSE out[m] = Null

---------------------------------------------------------------------------
\* hook_zygote_jni: with a VM, look at the methods of class Zygote; without,
\* the lists stay as they are.
hook_zygote_jni ==
    /\ phase = "boot"
    /\ phase' = "replacing"
    /\ todo' \in {{}, {m \in Method : natives[m] # Null /\ NameOf[m] \in Name}}
    /\ UNCHANGED <<natives, lists, replaced, returned>>

Entries(ms) == [m \in ms |-> lists[m]]
CanHook(m) == \E k \in ListOf(NameOf[m]) : Takes(lists, k)

Filled_MOthersLost(out) == out
Filled(out) == [k \in Known |-> IF k \in DOMAIN out THEN out[k] ELSE lists[k]]

\* A method with one of the names: its whole list is hooked, if one entry can.
Replace(m) ==
    /\ m \in todo
    /\ CanHook(m)
    /\ LET list == Entries(ListOf(NameOf[m])) IN
       /\ natives' = Registered(list)
       /\ \E out \in [DOMAIN list -> Fn \cup {Null}] :
            Hooked(list, out) /\ lists' = Filled(out)
    /\ replaced' = replaced \cup {NameOf[m]}
    /\ todo' = todo \ {m}
    /\ UNCHANGED <<phase, returned>>

Missing_MListsKept(m) ==
    /\ m \in todo
    /\ ~CanHook(m)
    /\ natives' = Registered(Entries(UNION {ListOf(n) : n \in replaced}))
    /\ todo' = {}
    /\ UNCHANGED <<lists, replaced, phase, returned>>
\* Otherwise the method cannot be hooked: what was replaced is put back.
Missing(m) ==
    /\ m \in todo
    /\ ~CanHook(m)
    /\ natives' = Registered(Entries(UNION {ListOf(n) : n \in replaced}))
    /\ lists' = [k \in Known |-> Null]
    /\ todo' = {}
    /\ UNCHANGED <<replaced, phase, returned>>

\* A wrapper is called and runs modules in a child.
EnterChild ==
    /\ phase = "replacing" /\ todo = {}
    /\ \E m \in Method : natives[m] = Wrapper(m)
    /\ phase' = "child"
    /\ UNCHANGED <<natives, lists, replaced, todo, returned>>

\* A module replaces the methods ms of the class, which need not have them all.
\* It does not replace a method by a function that runs for it already.
hookJniNativeMethods(ms, fs) ==
    /\ phase = "child"
    /\ \A m \in ms : returned[fs[m]][m] = Null
    /\ Shared \/ \A m \in ms : \A k \in Method :
         returned[fs[m]][k] = Null /\ (k \in ms /\ k # m => fs[k] # fs[m])
    /\ natives' = Registered(fs)
    /\ \E out \in [ms -> Fn \cup {Null}] :
         /\ Hooked(fs, out)
         /\ returned' = [f \in Callback |-> [m \in Method |->
              IF m \in ms /\ fs[m] = f THEN out[m] ELSE returned[f][m]]]
    /\ UNCHANGED <<lists, replaced, todo, phase>>

\* A module puts back what it got for the function that the method has.
Unhook(m) ==
    /\ phase = "child"
    /\ natives[m] \in Callback
    /\ natives' = Registered([k \in {m} |-> returned[natives[m]][m]])
    /\ returned' = [returned EXCEPT ![natives[m]][m] = Null]
    /\ UNCHANGED <<lists, replaced, todo, phase>>

restore_zygote_hook_MListForgotten ==
    /\ phase = "child"
    /\ \E n \in Name : natives' = Registered(Entries(Known \ ListOf(n)))
    /\ phase' = "restored"
    /\ UNCHANGED <<lists, replaced, todo, returned>>
\* In the destructor of the child's context; modules have no API from then on.
restore_zygote_hook ==
    /\ phase = "child"
    /\ natives' = Registered(lists)
    /\ lists' = [m \in Known |-> IF Takes(lists, m) THEN lists[m] ELSE Null]
    /\ phase' = "restored"
    /\ UNCHANGED <<replaced, todo, returned>>

Zygisk ==
    \/ hook_zygote_jni
    \/ \E m \in Method : Replace(m) \/ Missing(m)
    \/ EnterChild
    \/ restore_zygote_hook

\* The lists of a module.
Choice == {ms \in SUBSET Method : ms # {} /\ Cardinality(ms) <= MaxList}

Module ==
    \/ \E ms \in Choice : \E fs \in [ms -> Callback] : hookJniNativeMethods(ms, fs)
    \/ \E m \in Method : Unhook(m)

Next == Zygisk \/ Module

Spec == Init /\ [][Next]_vars

---------------------------------------------------------------------------
\* The methods that specialise a process are replaced all or none: once
\* hook_zygote_jni is done, each that the class has has its wrapper, and the
\* wrapper's entry the original to call; or the class is as the VM made it, and
\* the lists are cleared, with no entry that could be put back later, or, if
\* there was nothing to replace, still as the library was loaded.
AllOrNothing ==
    phase = "replacing" /\ todo = {} =>
        LET found == {m \in Method : natives[m] # Null /\ NameOf[m] \in Name} IN
        \/ /\ replaced # {}
           /\ \A m \in found : m \in Known /\ natives[m] = Wrapper(m) /\ lists[m] = Original(m)
        \/ /\ \A m \in Method : natives[m] \in {Null, Original(m)}
           /\ \/ \A m \in Known : lists[m] = Null
              \/ replaced = {} /\ \A m \in Known : lists[m] = Wrapper(m)

\* When the library leaves, no method runs a function of it, and those that
\* specialise a process are the VM's again, whatever modules did in between.
RestoreUndoes ==
    phase = "restored" => \A m \in Method :
        /\ \A k \in Method : natives[m] # Wrapper(k)
        /\ m \in Known => natives[m] \in {Null, Original(m)}

\* What function f, called for method m, calls on to.
CallsOn(f, m) ==
    IF f \in Callback THEN returned[f][m]
    ELSE IF \E k \in Known : f = Wrapper(k) THEN lists[CHOOSE k \in Known : f = Wrapper(k)]
    ELSE f

\* Where a call of m is after n functions.
After(m) == LET after[n \in Nat] == IF n = 0 THEN natives[m] ELSE CallsOn(after[n - 1], m)
            IN after

\* A call of a native method always ends in the method's own original, through
\* whatever wrappers and functions of modules: "find the old function pointer
\* and return to caller", hook.cpp:539.
CallsReachOriginal ==
    \A m \in Method : natives[m] # Null =>
        After(m)[Cardinality(Callback) + 2] = Original(m)
=============================================================================
