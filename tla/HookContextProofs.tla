------------------------- MODULE HookContextProofs -------------------------
(***************************************************************************)
(* The invariants of HookContext hold for every set of threads and every   *)
(* content of the registers.  What has to be strengthened is the order in  *)
(* which a process gets to its end: the unloader's hook exists only in a   *)
(* child whose context is destroyed, and by then the library knows the     *)
(* handle that unmaps it.                                                  *)
(***************************************************************************)
EXTENDS HookContext, TLAPS

Unloader == "pthread_attr_destroy"

TypeInv ==
    /\ stage \in {"probe", "refused", "bridge", "started", "zygote", "child"}
    /\ wrapper \in {"outside", "inside", "leaving"}
    /\ hook \in [Thread -> {"none", "unloading"} \cup Sym]
    /\ self_handle \in {"none", "loader"}
    /\ should_unmap \in BOOLEAN /\ mapped \in BOOLEAN /\ jni \in BOOLEAN
    /\ nb \in Property /\ bridge # "closed"

\* Until a child is forked nothing has been torn down.
BootInv ==
    /\ stage \in {"probe", "refused"} =>
          /\ self_handle = "none" /\ hook[Main] = "none" /\ runtime_callbacks = "null"
    /\ stage \in {"probe", "refused", "bridge"} => mapped
    /\ stage = "bridge" => self_handle = "loader"
    /\ stage \notin {"zygote", "child"} => ~jni
    /\ stage # "child" =>
          /\ ~should_unmap /\ wrapper = "outside" /\ g_hook # "deleted"
          /\ Unloader \notin plt_backup
          /\ hook[Main] \notin {Unloader, "unloading"}
    /\ ~mapped /\ stage # "child" => ~jni

\* The VM's methods are replaced through the callbacks that were found when
\* the library learned its handle.
CallbackInv ==
    /\ runtime_callbacks # "null" =>
          self_handle = "loader" /\ runtime_callbacks = find_runtime_callbacks
    /\ jni \/ wrapper # "outside" => self_handle = "loader"
    /\ stage = "started" /\ mapped /\ runtime_callbacks = "null" =>
          Fails("unwind") \/ find_runtime_callbacks = "null"

\* The main thread on its way out.
LeavingInv ==
    /\ wrapper # "outside" => mapped
    /\ wrapper = "inside" =>
          /\ ~should_unmap /\ g_hook # "deleted"
          /\ Unloader \notin plt_backup
          /\ hook[Main] \notin {Unloader, "unloading"}
    /\ wrapper = "leaving" => hook[Main] = "none"
    /\ ~mapped => hook[Main] = "none"
    /\ hook[Main] \in {Unloader, "unloading"} \/ Unloader \in hooked =>
          self_handle = "loader"
    /\ hook[Main] = Unloader \/ Unloader \in hooked =>
          plt_backup = old /\ (should_unmap \/ g_hook = "deleted")
    /\ hook[Main] = "unloading" => hooked = {} /\ should_unmap

\* The slots, what is noted of them, and what is left of them.
SlotInv ==
    /\ hooked \subseteq plt_backup
    /\ Unloader \notin plt_backup => plt_backup = old
    /\ stage = "refused" /\ "dlclose" \notin hooked => Fails("scan") \/ Fails("slot")
    /\ ~mapped => hooked = {} \/ Fails("scan") \/ Fails("slot")
    /\ g_hook = "deleted" /\ should_unmap => ~mapped
    /\ g_hook = "deleted" /\ mapped => Fails("restore")

\* Nobody is inside a library that went without a hook on its dlclose, and one
\* that went by its own hand has no slot left.
InsideInv ==
    /\ stage # "child" => \A t \in Thread \ {Main} : hook[t] = "none"
    /\ ~mapped /\ g_hook # "deleted" => \A t \in Thread : hook[t] = "none"
    /\ ~mapped /\ g_hook = "deleted" => should_unmap /\ hooked = {}

IInv == TypeInv /\ BootInv /\ CallbackInv /\ LeavingInv /\ SlotInv /\ InsideInv

-----------------------------------------------------------------------------
\* The unloader's symbol is an import of libart, and no symbol is named like
\* a state of a thread.
LEMMA SymFacts ==
    /\ {"dlclose", "strdup", Unloader} \subseteq Sym
    /\ "none" \notin Sym /\ "unloading" \notin Sym
    /\ Library[Unloader] = "art"
    /\ Main \in Thread
  BY PlainAssumption, ThreadAssumption DEF Sym, Library, Unloader

LEMMA InitInv == Init => IInv
  BY SymFacts DEF Init, IInv, TypeInv, BootInv, CallbackInv, LeavingInv, SlotInv, InsideInv, Unloader

\* What is_compatible hooks.
LEMMA EntryHooks ==
    ASSUME hook_entry
    PROVE  /\ old' = hooked' /\ plt_backup' = hooked'
           /\ Unloader \notin hooked'
           /\ "dlclose" \notin hooked' => Fails("scan") \/ Fails("slot")
<1>1. PICK found \in SUBSET {"native_bridge", "android_runtime"} :
        \E written \in SUBSET {s \in Sym : Library[s] \in found} :
          /\ Fails("scan") \/ found = {"native_bridge", "android_runtime"}
          /\ Fails("slot") \/ written = {s \in Sym : Library[s] \in found}
          /\ hooked' = written /\ old' = written /\ plt_backup' = written
  BY Zenon DEF hook_entry
<1>2. Library["dlclose"] = "native_bridge"
  BY PlainAssumption DEF Library, Sym
<1> QED
  BY <1>1, <1>2, SymFacts

LEMMA EntryInv == IInv /\ hook_entry => IInv'
<1> SUFFICES ASSUME IInv, hook_entry PROVE IInv'
  OBVIOUS
<1> USE DEF IInv
<1>1. TypeInv'
  BY DEF hook_entry, TypeInv, env
<1>2. BootInv'
  BY EntryHooks DEF hook_entry, TypeInv, BootInv, Unloader
<1>3. CallbackInv'
  BY DEF hook_entry, TypeInv, BootInv, CallbackInv, find_runtime_callbacks, env, Fails
<1>4. LeavingInv'
  BY EntryHooks, SymFacts DEF hook_entry, TypeInv, BootInv, CallbackInv, LeavingInv, Unloader
<1>5. SlotInv'
  BY EntryHooks DEF hook_entry, TypeInv, BootInv, SlotInv, Fails, env
<1>6. InsideInv'
  BY DEF hook_entry, BootInv, InsideInv
<1> QED
  BY <1>1, <1>2, <1>3, <1>4, <1>5, <1>6

\* libnativebridge closes the library: the first call of new_dlclose, if
\* there is one.
LEMMA LoaderInv == IInv /\ LoaderClosed => IInv'
<1> SUFFICES ASSUME IInv, LoaderClosed PROVE IInv'
  OBVIOUS
<1> USE SymFacts DEF IInv, LoaderClosed, new_dlclose, post_native_bridge_load, env, plt, ctx, Fails, find_runtime_callbacks, Unloader
<1>1. TypeInv'
  BY DEF TypeInv, BootInv, CallbackInv, LeavingInv
<1>2. BootInv'
  BY DEF TypeInv, BootInv, CallbackInv
<1>3. CallbackInv'
  BY DEF TypeInv, BootInv, CallbackInv
<1>4. LeavingInv'
  BY DEF TypeInv, BootInv, CallbackInv, LeavingInv, SlotInv
<1>5. SlotInv'
  BY DEF TypeInv, BootInv, CallbackInv, LeavingInv, SlotInv
<1>6. InsideInv'
  BY DEF TypeInv, BootInv, LeavingInv, InsideInv
<1> QED
  BY <1>1, <1>2, <1>3, <1>4, <1>5, <1>6

\* new_dlclose finds the handle known and does nothing.
LEMMA BridgeClosedInv == IInv /\ BridgeClosed => IInv'
<1> SUFFICES ASSUME IInv, BridgeClosed PROVE IInv'
  OBVIOUS
<1> USE SymFacts DEF IInv, BridgeClosed, new_dlclose, env, plt, ctx, Fails, find_runtime_callbacks, Unloader
<1>1. TypeInv'
  BY DEF TypeInv, BootInv, CallbackInv, LeavingInv
<1>2. BootInv'
  BY DEF TypeInv, BootInv, CallbackInv
<1>3. CallbackInv'
  BY DEF TypeInv, BootInv, CallbackInv
<1>4. LeavingInv'
  BY DEF TypeInv, BootInv, CallbackInv, LeavingInv, SlotInv
<1>5. SlotInv'
  BY DEF TypeInv, BootInv, CallbackInv, LeavingInv, SlotInv
<1>6. InsideInv'
  BY DEF TypeInv, BootInv, LeavingInv, InsideInv
<1> QED
  BY <1>1, <1>2, <1>3, <1>4, <1>5, <1>6

LEMMA BridgeReturnsInv == IInv /\ BridgeReturns => IInv'
<1> SUFFICES ASSUME IInv, BridgeReturns PROVE IInv'
  OBVIOUS
<1> USE SymFacts DEF IInv, BridgeReturns, Tail12, Property, env, plt, ctx, Fails, find_runtime_callbacks, Unloader
<1>1. TypeInv'
  BY DEF TypeInv, BootInv, CallbackInv, LeavingInv
<1>2. BootInv'
  BY DEF TypeInv, BootInv, CallbackInv
<1>3. CallbackInv'
  BY DEF TypeInv, BootInv, CallbackInv
<1>4. LeavingInv'
  BY DEF TypeInv, BootInv, CallbackInv, LeavingInv, SlotInv
<1>5. SlotInv'
  BY DEF TypeInv, BootInv, CallbackInv, LeavingInv, SlotInv
<1>6. InsideInv'
  BY DEF TypeInv, BootInv, LeavingInv, InsideInv
<1> QED
  BY <1>1, <1>2, <1>3, <1>4, <1>5, <1>6

LEMMA StrdupInv == IInv /\ new_strdup => IInv'
<1> SUFFICES ASSUME IInv, new_strdup PROVE IInv'
  OBVIOUS
<1> USE SymFacts DEF IInv, new_strdup, hook_zygote_jni, Dies, env, plt, ctx, Fails, find_runtime_callbacks, Unloader
<1>1. TypeInv'
  BY DEF TypeInv, BootInv, CallbackInv, LeavingInv
<1>2. BootInv'
  BY DEF TypeInv, BootInv, CallbackInv
<1>3. CallbackInv'
  BY DEF TypeInv, BootInv, CallbackInv
<1>4. LeavingInv'
  BY DEF TypeInv, BootInv, CallbackInv, LeavingInv, SlotInv
<1>5. SlotInv'
  BY DEF TypeInv, BootInv, CallbackInv, LeavingInv, SlotInv
<1>6. InsideInv'
  BY DEF TypeInv, BootInv, LeavingInv, InsideInv
<1> QED
  BY <1>1, <1>2, <1>3, <1>4, <1>5, <1>6

LEMMA EnterChildInv == IInv /\ EnterChild => IInv'
<1> SUFFICES ASSUME IInv, EnterChild PROVE IInv'
  OBVIOUS
<1> USE SymFacts DEF IInv, EnterChild, env, plt, ctx, Fails, find_runtime_callbacks, Unloader
<1>1. TypeInv'
  BY DEF TypeInv, BootInv, CallbackInv, LeavingInv
<1>2. BootInv'
  BY DEF TypeInv, BootInv, CallbackInv
<1>3. CallbackInv'
  BY DEF TypeInv, BootInv, CallbackInv
<1>4. LeavingInv'
  BY DEF TypeInv, BootInv, CallbackInv, LeavingInv, SlotInv
<1>5. SlotInv'
  BY DEF TypeInv, BootInv, CallbackInv, LeavingInv, SlotInv
<1>6. InsideInv'
  BY DEF TypeInv, BootInv, LeavingInv, InsideInv
<1> QED
  BY <1>1, <1>2, <1>3, <1>4, <1>5, <1>6

LEMMA WrapperInv == IInv /\ WrapperReturns => IInv'
<1> SUFFICES ASSUME IInv, WrapperReturns PROVE IInv'
  OBVIOUS
<1> USE SymFacts DEF IInv, WrapperReturns, env, plt, ctx, Fails, find_runtime_callbacks, Unloader
<1>1. TypeInv'
  BY DEF TypeInv, BootInv, CallbackInv, LeavingInv
<1>2. BootInv'
  BY DEF TypeInv, BootInv, CallbackInv
<1>3. CallbackInv'
  BY DEF TypeInv, BootInv, CallbackInv
<1>4. LeavingInv'
  BY DEF TypeInv, BootInv, CallbackInv, LeavingInv, SlotInv
<1>5. SlotInv'
  BY DEF TypeInv, BootInv, CallbackInv, LeavingInv, SlotInv
<1>6. InsideInv'
  BY DEF TypeInv, BootInv, LeavingInv, InsideInv
<1> QED
  BY <1>1, <1>2, <1>3, <1>4, <1>5, <1>6

\* All slots were given back before.
LEMMA UnmapInv == IInv /\ UnmapSelf => IInv'
<1> SUFFICES ASSUME IInv, UnmapSelf PROVE IInv'
  OBVIOUS
<1> USE SymFacts DEF IInv, UnmapSelf, env, plt, ctx, Fails, find_runtime_callbacks, Unloader
<1>1. TypeInv'
  BY DEF TypeInv, BootInv, CallbackInv, LeavingInv
<1>2. BootInv'
  BY DEF TypeInv, BootInv, CallbackInv
<1>3. CallbackInv'
  BY DEF TypeInv, BootInv, CallbackInv
<1>4. LeavingInv'
  BY DEF TypeInv, BootInv, CallbackInv, LeavingInv, SlotInv
<1>5. SlotInv'
  BY DEF TypeInv, BootInv, CallbackInv, LeavingInv, SlotInv
<1>6. InsideInv'
  BY DEF TypeInv, BootInv, LeavingInv, InsideInv
<1> QED
  BY <1>1, <1>2, <1>3, <1>4, <1>5, <1>6

\* The unloader is hooked here, in a context whose bookkeeping is whole.
LEMMA UnloaderHooked ==
    ASSUME IInv, hook_unloader
    PROVE  /\ hooked' \subseteq plt_backup'
           /\ Unloader \notin plt_backup' => plt_backup' = old'
           /\ wrapper = "inside" /\ Unloader \in hooked' => plt_backup' = old'
           /\ hooked \subseteq hooked'
           /\ hooked' = {} => hooked = {}
           /\ hooked' \subseteq hooked \cup {Unloader}
  BY DEF hook_unloader, plt, Unloader, IInv, SlotInv, LeavingInv

LEMMA DestroyInv == IInv /\ DestroyContext => IInv'
<1> SUFFICES ASSUME IInv, DestroyContext PROVE IInv'
  OBVIOUS
<1> USE SymFacts DEF IInv, DestroyContext, env, Fails, find_runtime_callbacks, Idle
<1>h. hook_unloader
  OBVIOUS
<1>1. TypeInv'
  BY DEF TypeInv
<1>2. BootInv'
  BY DEF TypeInv, BootInv
<1>3. CallbackInv'
  BY DEF TypeInv, BootInv, CallbackInv
<1>4. LeavingInv'
  BY <1>h, UnloaderHooked DEF TypeInv, BootInv, CallbackInv, LeavingInv
<1>5. SlotInv'
  BY <1>h, UnloaderHooked DEF TypeInv, BootInv, CallbackInv, LeavingInv, SlotInv
<1>6. InsideInv'
  BY DEF TypeInv, BootInv, LeavingInv, InsideInv
<1> QED
  BY <1>1, <1>2, <1>3, <1>4, <1>5, <1>6

\* Threads come and go; what they are inside matters for the main one only.
LEMMA EnterInv ==
    ASSUME NEW t \in Thread, NEW s \in Sym, IInv, Enter(t, s)
    PROVE  IInv'
<1> USE SymFacts DEF IInv, Enter, env, plt, ctx, Fails, find_runtime_callbacks, Idle
<1>1. TypeInv'
  BY DEF TypeInv
<1>2. BootInv'
  BY DEF TypeInv, BootInv, SlotInv
<1>3. CallbackInv'
  BY DEF TypeInv, BootInv, CallbackInv
<1>4. LeavingInv'
  BY DEF TypeInv, BootInv, CallbackInv, LeavingInv, SlotInv
<1>5. SlotInv'
  BY DEF TypeInv, SlotInv
<1>6. InsideInv'
  BY DEF TypeInv, BootInv, LeavingInv, InsideInv
<1> QED
  BY <1>1, <1>2, <1>3, <1>4, <1>5, <1>6

LEMMA ReturnInv ==
    ASSUME NEW t \in Thread, IInv, Return(t)
    PROVE  IInv'
<1> USE SymFacts DEF IInv, Return, env, plt, ctx, Fails, find_runtime_callbacks
<1>1. TypeInv'
  BY DEF TypeInv
<1>2. BootInv'
  BY DEF TypeInv, BootInv
<1>3. CallbackInv'
  BY DEF TypeInv, BootInv, CallbackInv
<1>4. LeavingInv'
  BY DEF TypeInv, BootInv, CallbackInv, LeavingInv, Unloader
<1>5. SlotInv'
  BY DEF TypeInv, SlotInv
<1>6. InsideInv'
  BY DEF TypeInv, BootInv, LeavingInv, InsideInv
<1> QED
  BY <1>1, <1>2, <1>3, <1>4, <1>5, <1>6

\* restore_plt_hook gives back every slot, or finds one that it cannot write.
LEMMA Restored ==
    ASSUME IInv, hook[Main] = Unloader, g_hook # "deleted", restore_plt_hook
    PROVE  /\ should_unmap' => hooked' = {}
           /\ ~should_unmap' => Fails("restore")
           /\ should_unmap' \in BOOLEAN
           /\ hooked' \subseteq hooked
           /\ old' = old /\ plt_backup' = plt_backup
<1>1. plt_backup = old /\ hooked \subseteq plt_backup
  BY DEF IInv, LeavingInv, SlotInv
<1>2. PICK back \in SUBSET (plt_backup \cap old) :
          /\ Fails("restore") \/ back = plt_backup \cap old
          /\ hooked' = hooked \ back
          /\ should_unmap' = (back = plt_backup)
  BY DEF restore_plt_hook
<1> QED
  BY <1>1, <1>2 DEF restore_plt_hook

LEMMA UnloaderInv ==
    ASSUME NEW t \in Thread, IInv, new_pthread_attr_destroy(t)
    PROVE  IInv'
<1> USE SymFacts DEF IInv
<1>f. UNCHANGED <<env, stage, mapped, bridge, jni, wrapper>>
  BY DEF new_pthread_attr_destroy
<1>a. CASE UNCHANGED <<plt, ctx, hook>>
  <2> USE <1>f, <1>a DEF env, plt, ctx, Fails, find_runtime_callbacks
  <2>1. TypeInv'
    BY DEF TypeInv
  <2>2. BootInv'
    BY DEF BootInv
  <2>3. CallbackInv'
    BY DEF CallbackInv
  <2>4. LeavingInv'
    BY DEF LeavingInv
  <2>5. SlotInv'
    BY DEF SlotInv
  <2>6. InsideInv'
    BY DEF TypeInv, BootInv, LeavingInv, InsideInv
  <2> QED
    BY <2>1, <2>2, <2>3, <2>4, <2>5, <2>6
<1>b. CASE t # Main /\ hook' = [hook EXCEPT ![t] = "none"] /\ UNCHANGED <<plt, ctx>>
  <2> USE <1>f, <1>b DEF env, plt, ctx, Fails, find_runtime_callbacks
  <2>h. hook'[Main] = hook[Main]
    BY DEF TypeInv
  <2>1. TypeInv'
    BY DEF TypeInv
  <2>2. BootInv'
    BY <2>h DEF BootInv
  <2>3. CallbackInv'
    BY DEF CallbackInv
  <2>4. LeavingInv'
    BY <2>h DEF LeavingInv
  <2>5. SlotInv'
    BY DEF SlotInv
  <2>6. InsideInv'
    BY DEF TypeInv, BootInv, LeavingInv, InsideInv
  <2> QED
    BY <2>1, <2>2, <2>3, <2>4, <2>5, <2>6
<1>c. CASE /\ t = Main /\ mapped /\ g_hook # "deleted" /\ hook[Main] = Unloader
           /\ IF should_unmap THEN restore_plt_hook ELSE UNCHANGED <<plt, should_unmap>>
           /\ hook' = [hook EXCEPT ![t] = IF should_unmap' THEN "unloading" ELSE "none"]
           /\ g_hook' = IF should_unmap' THEN g_hook ELSE "deleted"
           /\ UNCHANGED <<self_handle, runtime_callbacks>>
  <2>s. should_unmap /\ stage = "child" /\ wrapper = "outside" /\ self_handle = "loader"
    BY <1>c DEF TypeInv, BootInv, LeavingInv, Unloader
  <2>r. /\ should_unmap' => hooked' = {}
        /\ ~should_unmap' => Fails("restore")
        /\ should_unmap' \in BOOLEAN
        /\ hooked' \subseteq hooked
        /\ old' = old /\ plt_backup' = plt_backup
    BY <1>c, <2>s, Restored
  <2>h. hook'[Main] = IF should_unmap' THEN "unloading" ELSE "none"
    BY <1>c DEF TypeInv
  <2> USE <1>f, <1>c, <2>s, <2>r DEF env, Fails, find_runtime_callbacks
  <2>1. TypeInv'
    BY DEF TypeInv
  <2>2. BootInv'
    BY DEF BootInv
  <2>3. CallbackInv'
    BY DEF CallbackInv
  <2>4. LeavingInv'
    BY <2>h DEF LeavingInv, Unloader
  <2>5. SlotInv'
    BY DEF SlotInv
  <2>6. InsideInv'
    BY DEF TypeInv, BootInv, LeavingInv, InsideInv
  <2> QED
    BY <2>1, <2>2, <2>3, <2>4, <2>5, <2>6
<1> QED
  BY <1>a, <1>b, <1>c DEF new_pthread_attr_destroy, Unloader

LEMMA StutterInv == IInv /\ UNCHANGED vars => IInv'
  BY DEF vars, env, plt, ctx, IInv, TypeInv, BootInv, CallbackInv, LeavingInv, SlotInv,
         InsideInv, Fails, find_runtime_callbacks

LEMMA StepInv == IInv /\ [Next]_vars => IInv'
<1> SUFFICES ASSUME IInv, [Next]_vars PROVE IInv'
  OBVIOUS
<1> USE EntryInv, LoaderInv, BridgeClosedInv, BridgeReturnsInv, StrdupInv, EnterChildInv,
        DestroyInv, WrapperInv, UnmapInv, StutterInv
<1>1. ASSUME NEW t \in Thread, Return(t) PROVE IInv'
  BY <1>1, ReturnInv
<1>2. ASSUME NEW t \in Thread, new_pthread_attr_destroy(t) PROVE IInv'
  BY <1>2, UnloaderInv
<1>3. ASSUME NEW t \in Thread, NEW s \in Sym, Enter(t, s) PROVE IInv'
  BY <1>3, EnterInv
<1> QED
  BY <1>1, <1>2, <1>3 DEF Next

-----------------------------------------------------------------------------
(***************************************************************************)
(* How a process may die: every step that kills it has its cause, and none *)
(* of them is a return of the main thread.                                 *)
(***************************************************************************)
Deaths == FaultNeedsCause /\ MainReturnsMapped

LEMMA DeathStep == IInv /\ Deaths /\ [Next]_vars => Deaths'
<1> SUFFICES ASSUME IInv, Deaths, [Next]_vars PROVE Deaths'
  OBVIOUS
<1> USE SymFacts DEF Deaths, FaultNeedsCause, MainReturnsMapped, Fails, find_runtime_callbacks
<1>1. CASE UNCHANGED <<env, fault>> /\ fault[1] = "none"
  BY <1>1 DEF env
<1>7. CASE UNCHANGED vars
  BY <1>7 DEF vars, env, plt, ctx
<1>2. ASSUME new_strdup PROVE Deaths'
  BY <1>2 DEF new_strdup, hook_zygote_jni, Dies, env, ctx, plt, IInv, TypeInv, CallbackInv, SlotInv
<1>3. ASSUME WrapperReturns PROVE Deaths'
  BY <1>3 DEF WrapperReturns, env, ctx, plt, IInv, LeavingInv, Dies
<1>4. ASSUME NEW t \in Thread, NEW s \in Sym, Enter(t, s) PROVE Deaths'
  BY <1>4 DEF Enter, Dies, env, ctx, plt, IInv, TypeInv, SlotInv
<1>5. ASSUME NEW t \in Thread, Return(t) PROVE Deaths'
  BY <1>5 DEF Return, Dies, env, ctx, plt, IInv, LeavingInv, InsideInv
<1>6. ASSUME NEW t \in Thread, new_pthread_attr_destroy(t) PROVE Deaths'
  BY <1>6 DEF new_pthread_attr_destroy, Dies, env, ctx, plt, IInv, LeavingInv, SlotInv, InsideInv, Unloader
<1> QED
  BY <1>1, <1>2, <1>3, <1>4, <1>5, <1>6, <1>7
     DEF Next, hook_entry, LoaderClosed, BridgeClosed, BridgeReturns, EnterChild,
         DestroyContext, UnmapSelf

LEMMA DeathInit == Init => Deaths
  BY DEF Init, Deaths, FaultNeedsCause, MainReturnsMapped

\* The inductive invariant holds in every state.
THEOREM InvCorrect == Spec => []IInv
  BY InitInv, StepInv, PTL DEF Spec

\* A process that dies inside Zygisk has met a failure, each kind of death
\* one of its own (hook.cpp:260, hook.cpp:342, hook.cpp:411, hook.cpp:457,
\* hook.cpp:612), or a thread beside the main one was in a hook when the
\* library, with every slot put back, unmapped itself (hook.cpp:247).
THEOREM FaultNeedsCauseCorrect == Spec => []FaultNeedsCause
<1>1. Deaths => FaultNeedsCause
  BY DEF Deaths
<1> QED
  BY <1>1, InvCorrect, DeathInit, DeathStep, PTL DEF Spec

\* The main thread never returns into the library it unmapped
\* (hook.cpp:235-256), however many other threads run.
THEOREM MainReturnsMappedCorrect == Spec => []MainReturnsMapped
<1>1. Deaths => MainReturnsMapped
  BY DEF Deaths
<1> QED
  BY <1>1, InvCorrect, DeathInit, DeathStep, PTL DEF Spec

\* The handle that new_dlclose keeps is the library's own, and it is closed
\* exactly when every slot was restored (hook.cpp:228, hook.cpp:387).
THEOREM UnloadsItselfCorrect == Spec => []UnloadsItself
<1>1. IInv => UnloadsItself
  BY DEF IInv, TypeInv, SlotInv, UnloadsItself
<1> QED
  BY <1>1, InvCorrect, PTL
=============================================================================
