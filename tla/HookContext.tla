---------------------------- MODULE HookContext ----------------------------
(***************************************************************************)
(* HookContext (hook.cpp) in one process, from the moment libnativebridge  *)
(* asks libzygisk whether it is compatible to the moment the library       *)
(* unmaps itself: the slots it hooks, the real native bridge it loads      *)
(* from inside a hook of dlclose, the callbacks of the VM that it takes    *)
(* from its caller's registers, and its way out in new_pthread_attr_       *)
(* destroy while other threads run.  The process is the zygote until a     *)
(* replaced method forks, and the child from then on: a parent leaves that *)
(* method as it entered it.                                                *)
(*                                                                         *)
(* What modules and the context do inside a replaced method is             *)
(* ZygiskContext; the JNI methods are JniHooks, and how a slot is written  *)
(* is Lsplt.                                                               *)
(***************************************************************************)
EXTENDS Sequences, Naturals

CONSTANTS
    Thread,     \* threads of the process
    Main,       \* its main thread, the only one until it is specialised
    Plain,      \* hooked symbols of libandroid_runtime whose functions here
                \* change nothing but what ZygiskContext has: fork, unshare,
                \* selinux_android_setcontext, __android_log_close
    Registers   \* what the callee-saved registers of LoadNativeBridge may
                \* hold, in the order in which they are searched

Failure == {"scan", "slot", "unwind", "vm", "env", "restore"}
Word == {"callbacks", "libart", "elsewhere"}

ASSUME ThreadAssumption == Main \in Thread
ASSUME PlainAssumption ==
    Plain \cap {"dlclose", "strdup", "pthread_attr_destroy", "none",
                "unloading"} = {}
ASSUME RegisterAssumption == Registers \subseteq Seq(Word)

(***************************************************************************)
(* The hooked imports and the library whose slots they are.                *)
(***************************************************************************)
Sym == {"dlclose", "strdup", "pthread_attr_destroy"} \cup Plain
Library == [s \in Sym |-> CASE s = "dlclose" -> "native_bridge"
                            [] s = "pthread_attr_destroy" -> "art"
                            [] OTHER -> "android_runtime"]

VARIABLES
    failures,          \* what may go wrong on this device
    nb,                \* the property ro.dalvik.vm.native.bridge
    regs,              \* the registers of the frame of LoadNativeBridge
    stage,             \* how far the process is
    hooked,            \* symbols whose slot holds Zygisk's function
    old,               \* symbols whose old_ pointer is not null
    plt_backup,        \* g_hook->plt_backup
    g_hook,            \* the HookContext: none, live or deleted
    self_handle,       \* g_hook->self_handle
    runtime_callbacks, \* g_hook->runtime_callbacks
    should_unmap,      \* g_hook->should_unmap
    mapped,            \* is libzygisk mapped?
    bridge,            \* the native bridge the VM ends up with
    jni,               \* are the methods of class Zygote replaced?
    wrapper,           \* the main thread and a replaced method: outside, inside,
                       \* or leaving it after its context was destroyed
    hook,              \* the function of Zygisk each thread is in
    fault              \* how the process died, and which thread it was

env == <<failures, nb, regs>>
plt == <<hooked, old, plt_backup>>
ctx == <<g_hook, self_handle, runtime_callbacks, should_unmap>>
vars == <<env, plt, ctx, stage, mapped, bridge, jni, wrapper, hook, fault>>

Fails(f) == f \in failures
Idle(t) == hook[t] = "none"
Dies(kind, t) == fault' = <<kind, t>>

(***************************************************************************)
(* post-fs-data.sh sets the property to the loader's bare name, to which   *)
(* the user may have appended that of a real bridge, or to an absolute     *)
(* path if the bind mount failed.  Tail is what follows as many characters *)
(* as the bare name has: of a path, the rest of a directory's name.        *)
(***************************************************************************)
Property == {"loader", "loader+real", "absolute"}
Tail12(v) == CASE v = "loader" -> "none" [] v = "loader+real" -> "real"
               [] v = "absolute" -> "garbage"

Init ==
    /\ failures \in SUBSET Failure
    /\ nb \in Property
    /\ regs \in Registers
    /\ stage = "probe"
    /\ hooked = {} /\ old = {} /\ plt_backup = {}
    /\ g_hook = "none" /\ self_handle = "none"
    /\ runtime_callbacks = "null" /\ should_unmap = FALSE
    /\ mapped = TRUE /\ bridge = "none" /\ jni = FALSE
    /\ wrapper = "outside" /\ hook = [t \in Thread |-> "none"]
    /\ fault = <<"none", Main>>

-----------------------------------------------------------------------------
(***************************************************************************)
(* is_compatible: hook_entry, then hook_plt.  A library that Scan does not *)
(* find leaves its inode 0, which RegisterHook refuses; a slot that        *)
(* CommitHook does not write leaves old_ null, and is dropped.             *)
(***************************************************************************)
hook_entry ==
    /\ stage = "probe"
    /\ \E found \in SUBSET {"native_bridge", "android_runtime"} :
       \E written \in SUBSET {s \in Sym : Library[s] \in found} :
          /\ Fails("scan") \/ found = {"native_bridge", "android_runtime"}
          /\ Fails("slot") \/ written = {s \in Sym : Library[s] \in found}
          /\ hooked' = written
          /\ old' = written
          /\ plt_backup' = written
    /\ g_hook' = "live"
    /\ stage' = "refused"
    /\ UNCHANGED <<env, self_handle, runtime_callbacks, should_unmap, mapped,
                   bridge, jni, wrapper, hook, fault>>

(***************************************************************************)
(* find_runtime_callbacks: the first register that points into the         *)
(* writable pages of libart, whatever it points to there.                  *)
(***************************************************************************)
find_runtime_callbacks ==
    LET inside == {i \in DOMAIN regs : regs[i] # "elsewhere"}
    IN IF inside = {} THEN "null"
       ELSE regs[CHOOSE i \in inside : \A j \in inside : i <= j]

(***************************************************************************)
(* post_native_bridge_load(handle): the frame of LoadNativeBridge may not  *)
(* be found, nor the callbacks in its registers.  If the property is       *)
(* longer than the loader's name, the rest of it is loaded as the real     *)
(* bridge, from inside this call.                                          *)
(***************************************************************************)
post_native_bridge_load(handle) ==
    /\ self_handle' = handle
    /\ \/ /\ Fails("unwind") \/ find_runtime_callbacks = "null"
          /\ stage' = "started"
          /\ UNCHANGED <<runtime_callbacks, hook>>
       \/ /\ find_runtime_callbacks # "null"
          /\ Tail12(nb) # "none"
          /\ stage' = "bridge"
          /\ hook' = [hook EXCEPT ![Main] = "dlclose"]
          /\ UNCHANGED runtime_callbacks
       \/ /\ find_runtime_callbacks # "null"
          /\ Tail12(nb) = "none"
          /\ stage' = "started"
          /\ runtime_callbacks' = find_runtime_callbacks
          /\ UNCHANGED hook

new_dlclose_MAlways(handle) == post_native_bridge_load(handle)

new_dlclose(handle) ==
    IF self_handle = "none"
    THEN post_native_bridge_load(handle)
    ELSE UNCHANGED <<self_handle, runtime_callbacks, stage, hook>>

(***************************************************************************)
(* libnativebridge closes the library that said it was not compatible.  If *)
(* its slot is not hooked, that unmaps Zygisk.                             *)
(***************************************************************************)
LoaderClosed ==
    /\ stage = "refused"
    /\ IF "dlclose" \in hooked
       THEN new_dlclose("loader") /\ UNCHANGED mapped
       ELSE /\ mapped' = FALSE
            /\ stage' = "started"
            /\ UNCHANGED <<self_handle, runtime_callbacks, hook>>
    /\ UNCHANGED <<env, plt, g_hook, should_unmap, bridge, jni, wrapper, fault>>

(***************************************************************************)
(* The real bridge does not load, and libnativebridge closes it as well.   *)
(***************************************************************************)
BridgeClosed ==
    /\ stage = "bridge" /\ bridge = "none"
    /\ new_dlclose("real")
    /\ bridge' = "failed"
    /\ UNCHANGED <<env, plt, g_hook, should_unmap, mapped, jni, wrapper, fault>>

(***************************************************************************)
(* LoadNativeBridge returns, and so does post_native_bridge_load.          *)
(***************************************************************************)
BridgeReturns ==
    /\ stage = "bridge"
    /\ bridge' = IF bridge = "none" THEN Tail12(nb) ELSE bridge
    /\ runtime_callbacks' = find_runtime_callbacks
    /\ stage' = "started"
    /\ hook' = [hook EXCEPT ![Main] = "none"]
    /\ UNCHANGED <<env, plt, g_hook, self_handle, should_unmap, mapped, jni,
                   wrapper, fault>>

(***************************************************************************)
(* AndroidRuntime::start copies the name of ZygoteInit.  hook_zygote_jni   *)
(* gives up without a VM, or if a method cannot be replaced; a thread that *)
(* has no JNIEnv is only logged, and FindClass called through null.  Then  *)
(* runtime_callbacks is called through, without a test.                    *)
(***************************************************************************)
hook_zygote_jni ==
    \/ Fails("vm") /\ UNCHANGED <<jni, fault>>
    \/ Fails("env") /\ Dies("env", Main) /\ UNCHANGED jni
    \/ runtime_callbacks = "callbacks" /\ jni' = TRUE /\ UNCHANGED fault
    \/ runtime_callbacks = "null" /\ Dies("null", Main) /\ UNCHANGED jni
    \/ runtime_callbacks = "libart" /\ Dies("wild", Main) /\ UNCHANGED jni

new_strdup ==
    /\ stage = "started"
    /\ stage' = "zygote"
    /\ IF "strdup" \notin hooked THEN UNCHANGED <<jni, fault>>
       ELSE IF mapped THEN hook_zygote_jni
       ELSE Dies("entered", Main) /\ UNCHANGED jni
    /\ UNCHANGED <<env, plt, ctx, mapped, bridge, wrapper, hook>>

-----------------------------------------------------------------------------
EnterChild_MUnloader ==
    /\ stage = "zygote"
    /\ Idle(Main)
    /\ stage' = "child"
    /\ wrapper' = IF jni THEN "inside" ELSE "outside"
    /\ should_unmap' = jni
    /\ hooked' = hooked \cup {"pthread_attr_destroy"}
    /\ old' = old \cup {"pthread_attr_destroy"}
    /\ plt_backup' = plt_backup \cup {"pthread_attr_destroy"}
    /\ UNCHANGED <<env, g_hook, self_handle, runtime_callbacks, mapped, bridge,
                   jni, hook, fault>>

(***************************************************************************)
(* A child is forked: in a replaced method, or from one that is not        *)
(* replaced, in which case Zygisk never leaves it.                         *)
(***************************************************************************)
EnterChild ==
    /\ stage = "zygote"
    /\ Idle(Main)
    /\ stage' = "child"
    /\ wrapper' = IF jni THEN "inside" ELSE "outside"
    /\ UNCHANGED <<env, plt, ctx, mapped, bridge, jni, hook, fault>>

(***************************************************************************)
(* hook_unloader: the registration is noted in plt_backup before the       *)
(* commit, and stays there if the slot was not written.                    *)
(***************************************************************************)
hook_unloader ==
    \/ Fails("scan") /\ UNCHANGED plt
    \/ /\ plt_backup' = plt_backup \cup {"pthread_attr_destroy"}
       /\ \/ Fails("slot") /\ UNCHANGED <<hooked, old>>
          \/ /\ hooked' = hooked \cup {"pthread_attr_destroy"}
             /\ old' = old \cup {"pthread_attr_destroy"}

(***************************************************************************)
(* The end of the ZygiskContext of a child, still inside the wrapper.      *)
(***************************************************************************)
DestroyContext ==
    /\ wrapper = "inside"
    /\ Idle(Main)
    /\ wrapper' = "leaving"
    /\ should_unmap' = TRUE
    /\ jni' = FALSE
    /\ hook_unloader
    /\ UNCHANGED <<env, g_hook, self_handle, runtime_callbacks, stage, mapped,
                   bridge, hook, fault>>

WrapperReturns ==
    /\ wrapper = "leaving"
    /\ wrapper' = "outside"
    /\ IF mapped THEN UNCHANGED fault ELSE Dies("returned", Main)
    /\ UNCHANGED <<env, plt, ctx, stage, mapped, bridge, jni, hook>>

(***************************************************************************)
(* A thread calls through a hooked slot, and returns through libzygisk     *)
(* when the original function has returned.  Other threads exist in a      *)
(* specialised process only, and after its context is destroyed the        *)
(* wrapper calls nothing more.  new_dlclose looks at g_hook.               *)
(***************************************************************************)
Enter(t, s) ==
    /\ stage = "child" \/ (stage = "zygote" /\ t = Main)
    /\ Idle(t)
    /\ t = Main => wrapper # "leaving"
    /\ s \in hooked
    /\ IF mapped /\ ~(s = "dlclose" /\ g_hook = "deleted")
       THEN hook' = [hook EXCEPT ![t] = s] /\ UNCHANGED fault
       ELSE /\ Dies(IF mapped THEN "deleted" ELSE "entered", t)
            /\ UNCHANGED hook
    /\ UNCHANGED <<env, plt, ctx, stage, mapped, bridge, jni, wrapper>>

Return(t) ==
    /\ stage \in {"zygote", "child"}
    /\ hook[t] \in Sym \ {"pthread_attr_destroy"}
    /\ hook' = [hook EXCEPT ![t] = "none"]
    /\ IF mapped THEN UNCHANGED fault ELSE Dies("returned", t)
    /\ UNCHANGED <<env, plt, ctx, stage, mapped, bridge, jni, wrapper>>

(***************************************************************************)
(* restore_plt_hook: an entry whose old_ is null cannot be registered, and *)
(* the commit may not write every slot; either keeps the library.          *)
(***************************************************************************)
restore_plt_hook_MBlind ==
    /\ \E back \in SUBSET (plt_backup \cap old) :
          /\ Fails("restore") \/ back = plt_backup \cap old
          /\ hooked' = hooked \ back
    /\ UNCHANGED <<old, plt_backup, should_unmap>>

restore_plt_hook ==
    /\ \E back \in SUBSET (plt_backup \cap old) :
          /\ Fails("restore") \/ back = plt_backup \cap old
          /\ hooked' = hooked \ back
          /\ should_unmap' = (back = plt_backup)
    /\ UNCHANGED <<old, plt_backup>>

(***************************************************************************)
(* new_pthread_attr_destroy after the original function.  A successful     *)
(* restore leaves the thread in the hook; UnmapSelf is the rest.           *)
(***************************************************************************)
new_pthread_attr_destroy(t) ==
    /\ hook[t] = "pthread_attr_destroy"
    /\ IF ~mapped
       THEN /\ Dies("returned", t)
            /\ UNCHANGED <<plt, ctx, hook>>
       ELSE IF t # Main
       THEN /\ hook' = [hook EXCEPT ![t] = "none"]
            /\ UNCHANGED <<plt, ctx, fault>>
       ELSE IF g_hook = "deleted"
       THEN /\ Dies("deleted", t)
            /\ UNCHANGED <<plt, ctx, hook>>
       ELSE /\ IF should_unmap THEN restore_plt_hook
               ELSE UNCHANGED <<plt, should_unmap>>
            /\ hook' = [hook EXCEPT ![t] =
                           IF should_unmap' THEN "unloading" ELSE "none"]
            /\ g_hook' = IF should_unmap' THEN g_hook ELSE "deleted"
            /\ UNCHANGED <<self_handle, runtime_callbacks, fault>>
    /\ UNCHANGED <<env, stage, mapped, bridge, jni, wrapper>>

(***************************************************************************)
(* delete g_hook, then dlclose(self_handle) as a tail call: it returns to  *)
(* the caller of pthread_attr_destroy.                                     *)
(***************************************************************************)
UnmapSelf ==
    /\ hook[Main] = "unloading"
    /\ hook' = [hook EXCEPT ![Main] = "none"]
    /\ g_hook' = "deleted"
    /\ IF self_handle = "loader"
       THEN mapped' = FALSE /\ UNCHANGED bridge
       ELSE bridge' = "closed" /\ UNCHANGED mapped
    /\ UNCHANGED <<env, plt, self_handle, runtime_callbacks, should_unmap,
                   stage, jni, wrapper, fault>>

Next ==
    /\ fault[1] = "none"
    /\ \/ hook_entry
       \/ LoaderClosed
       \/ BridgeClosed
       \/ BridgeReturns
       \/ new_strdup
       \/ EnterChild
       \/ DestroyContext
       \/ WrapperReturns
       \/ \E t \in Thread :
             \/ \E s \in Sym : Enter(t, s)
             \/ Return(t)
             \/ new_pthread_attr_destroy(t)
       \/ UnmapSelf

Spec == Init /\ [][Next]_vars

-----------------------------------------------------------------------------
(***************************************************************************)
(* What can kill a process, and what must have happened before it can:     *)
(* calling through a null JNIEnv needs a VM that gives none (hook.cpp:612),*)
(* calling null callbacks an unwind that found none (hook.cpp:411),        *)
(* calling something else in their place a register that points into       *)
(* libart (hook.cpp:342), using a deleted HookContext a restore that did   *)
(* not write every slot (hook.cpp:260), and entering the library after it  *)
(* was unmapped a dlclose that could not be hooked (hook.cpp:457).         *)
(* Returning into the unmapped library needs no failure, only a thread     *)
(* beside the main one that is in a hook when the library goes             *)
(* (hook.cpp:247); but then the library went by its own hand, with every   *)
(* slot put back.                                                          *)
(***************************************************************************)
FaultNeedsCause ==
    /\ fault[1] = "env" => Fails("env")
    /\ fault[1] = "null" => Fails("unwind") \/ find_runtime_callbacks = "null"
    /\ fault[1] = "wild" => find_runtime_callbacks = "libart"
    /\ fault[1] = "deleted" => Fails("restore")
    /\ fault[1] = "entered" => Fails("scan") \/ Fails("slot")
    /\ fault[1] = "returned" =>
          fault[2] # Main /\ g_hook = "deleted" /\ should_unmap /\ hooked = {}

(***************************************************************************)
(* The main thread never returns into the unmapped library, neither from   *)
(* the hook that unmaps it nor from a replaced method (hook.cpp:235-256):  *)
(* only another thread that is inside a hook at that moment can.           *)
(***************************************************************************)
MainReturnsMapped == fault[1] = "returned" => fault[2] # Main

(***************************************************************************)
(* A HookContext deleted with should_unmap set took this library away and  *)
(* not the real bridge, which was loaded and perhaps closed again from     *)
(* inside new_dlclose (hook.cpp:228, hook.cpp:387).                        *)
(***************************************************************************)
UnloadsItself ==
    /\ g_hook = "deleted" /\ should_unmap => ~mapped
    /\ bridge # "closed"
=============================================================================
