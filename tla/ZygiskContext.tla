--------------------------- MODULE ZygiskContext ---------------------------
(***************************************************************************)
(* The life of a process specialisation in libzygisk (hook.cpp,            *)
(* module.cpp, the wrappers of jni_hooks.hpp): the zygote enters one of    *)
(* the replaced JNI methods, a ZygiskContext is built on its stack, the    *)
(* real fork happens early, the child runs the modules around the          *)
(* original method, and the destructor takes the hooks out of the child,   *)
(* which unloads Zygisk at the next pthread_attr_destroy of its main       *)
(* thread.                                                                 *)
(*                                                                         *)
(* Every variable is a function of the process: fork copies the parent's   *)
(* memory, so a child starts from its parent's values, and from then on    *)
(* the processes share nothing.  File descriptors and the socket to        *)
(* zygiskd are the state of ZygiskFds; get_module_info is seen here by     *)
(* its results only. The PLT slots are those of Lsplt; here a CommitHook   *)
(* succeeds or fails.  The ZYGISK_ENABLED variable and the log calls of    *)
(* the code have no effect on this state.                                  *)
(***************************************************************************)
EXTENDS Integers

CONSTANTS
    Zygote,         \* pid of the zygote, the one process alive initially
    Child,          \* pids that fork may hand out: the bound on processes
    Module,         \* module libraries installed under /data/adb/modules
    InfoReplies,    \* values info_flags may get from a reply, or from the
                    \* uninitialised header when the read fails
    ForkMayFail,    \* may the fork system call fail?
    CommitMayFail   \* may lsplt::CommitHook report a failure?

StateFlag == {"ProcessGrantedRoot", "ProcessOnDenyList", "DenyListEnforced",
              "ProcessIsMagiskApp"}
UNMOUNT_MASK == {"ProcessOnDenyList", "DenyListEnforced"}

Flag == {"POST_SPECIALIZE", "APP_FORK_AND_SPECIALIZE", "APP_SPECIALIZE",
         "SERVER_FORK_AND_SPECIALIZE", "DO_REVERT_UNMOUNT",
         "SKIP_CLOSE_LOG_PIPE"}

Option == {"FORCE_DENYLIST_UNMOUNT", "DLCLOSE_MODULE_LIBRARY"}

ASSUME PidAssumption ==
    /\ Zygote \in Nat \ {0}
    /\ Child \subseteq Nat \ {0}
    /\ Zygote \notin Child
ASSUME ReplyAssumption == InfoReplies \subseteq SUBSET StateFlag
ASSUME FailAssumption == ForkMayFail \in BOOLEAN /\ CommitMayFail \in BOOLEAN

Proc == {Zygote} \cup Child

VARIABLES
    pc,              \* where the process is in the replaced JNI method
    g_ctx,           \* is the global g_ctx non-null?
    pid,             \* g_ctx->pid
    flags,           \* g_ctx->flags
    info_flags,      \* g_ctx->info_flags
    modules,         \* g_ctx->modules: how far each library has got
    unload,          \* modules whose unload member is set
    forked,          \* children really created by the call in progress
    sigchld_blocked, \* is SIGCHLD in the signal mask?
    mount,           \* the mount namespace
    jni_hooked,      \* do the Zygote class's natives point into Zygisk?
    unloader_hooked, \* is libart's pthread_attr_destroy slot hooked?
    should_unmap,    \* g_hook->should_unmap
    g_hook           \* the HookContext, and the library with it

ctxVars  == <<g_ctx, flags, info_flags, modules, unload>>
osVars   == <<sigchld_blocked, mount>>
hookVars == <<jni_hooked, unloader_hooked, should_unmap, g_hook>>
vars == <<pc, pid, forked, ctxVars, osVars, hookVars>>

PC == {"unborn", "java", "fork", "info", "modules", "orig_fork",
       "orig_parent", "orig_child", "post", "dtor"}
\* A library not in the list, dlopen'ed, registered with a valid table, run
\* before and after the original method, dlclosed; or erased as not valid.
ModState == {"absent", "loaded", "valid", "pre", "post", "closed", "erased"}

TypeOK ==
    /\ pc \in [Proc -> PC]
    /\ g_ctx \in [Proc -> BOOLEAN]
    /\ pid \in [Proc -> Int]
    /\ flags \in [Proc -> SUBSET Flag]
    /\ info_flags \in [Proc -> SUBSET StateFlag]
    /\ modules \in [Proc -> [Module -> ModState]]
    /\ unload \in [Proc -> SUBSET Module]
    /\ forked \in [Proc -> SUBSET Child]
    /\ sigchld_blocked \in [Proc -> BOOLEAN]
    /\ mount \in [Proc -> {"shared", "private", "reverted"}]
    /\ jni_hooked \in [Proc -> BOOLEAN]
    /\ unloader_hooked \in [Proc -> BOOLEAN]
    /\ should_unmap \in [Proc -> BOOLEAN]
    /\ g_hook \in [Proc -> {"alive", "freed", "unmapped"}]

NoModules == [m \in Module |-> "absent"]

\* Mutants (definitions named _M...) are the plausible bugs that show each
\* property able to fail; the specification does not use them.
is_child_MParent(p) == pid[p] >= 0
is_child_MForkedOnly(p) == pid[p] = 0
is_child(p) == pid[p] <= 0

Denied_MExact(info) == UNMOUNT_MASK = info
Denied(info) == UNMOUNT_MASK \subseteq info

IsApp(p) == "SERVER_FORK_AND_SPECIALIZE" \notin flags[p]
Forks(p) == "SKIP_CLOSE_LOG_PIPE" \notin flags[p]

\* Zygisk is loaded in the zygote and has replaced the JNI methods.
Init ==
    /\ pc = [p \in Proc |-> IF p = Zygote THEN "java" ELSE "unborn"]
    /\ g_ctx = [p \in Proc |-> FALSE]
    /\ pid = [p \in Proc |-> -1]
    /\ flags = [p \in Proc |-> {}]
    /\ info_flags = [p \in Proc |-> {}]
    /\ modules = [p \in Proc |-> NoModules]
    /\ unload = [p \in Proc |-> {}]
    /\ forked = [p \in Proc |-> {}]
    /\ sigchld_blocked = [p \in Proc |-> FALSE]
    /\ mount = [p \in Proc |-> "shared"]
    /\ jni_hooked = [p \in Proc |-> TRUE]
    /\ unloader_hooked = [p \in Proc |-> FALSE]
    /\ should_unmap = [p \in Proc |-> FALSE]
    /\ g_hook = [p \in Proc |-> "alive"]

Goto(p, l) == pc' = [pc EXCEPT ![p] = l]

---------------------------------------------------------------------------
\* The fork system call as p makes it: the child c gets a copy of p's memory,
\* signal mask and mount namespace.  Callers say what pc, pid and forked become.
Inherit(v, p, c) == [v EXCEPT ![c] = v[p]]
old_fork(p, c) ==
    /\ pc[c] = "unborn"
    /\ g_ctx' = Inherit(g_ctx, p, c)
    /\ flags' = Inherit(flags, p, c)
    /\ info_flags' = Inherit(info_flags, p, c)
    /\ modules' = Inherit(modules, p, c)
    /\ unload' = Inherit(unload, p, c)
    /\ sigchld_blocked' = Inherit(sigchld_blocked, p, c)
    /\ mount' = Inherit(mount, p, c)
    /\ jni_hooked' = Inherit(jni_hooked, p, c)
    /\ unloader_hooked' = Inherit(unloader_hooked, p, c)
    /\ should_unmap' = Inherit(should_unmap, p, c)
    /\ g_hook' = Inherit(g_hook, p, c)

\* The wrapper constructs the context; a new context has no fork result.
ConstructContext(p, fs) ==
    /\ pc[p] = "java"
    /\ jni_hooked[p]
    /\ g_ctx' = [g_ctx EXCEPT ![p] = TRUE]
    /\ pid' = [pid EXCEPT ![p] = -1]
    /\ flags' = [flags EXCEPT ![p] = fs]
    /\ info_flags' = [info_flags EXCEPT ![p] = {}]
    /\ modules' = [modules EXCEPT ![p] = NoModules]
    /\ unload' = [unload EXCEPT ![p] = {}]
    /\ forked' = [forked EXCEPT ![p] = {}]
    /\ UNCHANGED hookVars

\* nativeForkAndSpecialize and nativeForkSystemServer up to the fork: only
\* the zygote calls them, and only while a pid is left.
NativeForkPre(p, fs) ==
    /\ p = Zygote
    /\ \E c \in Child : pc[c] = "unborn"
    /\ ConstructContext(p, fs)
    /\ sigchld_blocked' = [sigchld_blocked EXCEPT ![p] = TRUE]
    /\ Goto(p, "fork")
    /\ UNCHANGED mount

nativeForkAndSpecialize_pre(p) == NativeForkPre(p, {"APP_FORK_AND_SPECIALIZE"})
nativeForkSystemServer_pre(p) == NativeForkPre(p, {"SERVER_FORK_AND_SPECIALIZE"})

\* nativeSpecializeAppProcess: a USAP child turns itself into an app.
nativeSpecializeAppProcess_pre(p) ==
    /\ p # Zygote
    /\ ConstructContext(p, {"SKIP_CLOSE_LOG_PIPE"})
    /\ Goto(p, "info")
    /\ UNCHANGED osVars

\* fork_pre: the parent goes on to the original method (sanitize_fds returns
\* at once); the child, and a caller whose fork failed, go on as the child.
fork_pre(p) ==
    /\ pc[p] = "fork"
    /\ \/ \E c \in Child :
            /\ old_fork(p, c)
            /\ pid' = [pid EXCEPT ![p] = c, ![c] = 0]
            /\ pc' = [pc EXCEPT ![p] = "orig_fork", ![c] = "info"]
            /\ forked' = [forked EXCEPT ![p] = {c}, ![c] = {}]
       \/ /\ ForkMayFail
          /\ pid' = [pid EXCEPT ![p] = -1]
          /\ Goto(p, "info")
          /\ UNCHANGED <<ctxVars, forked, osVars, hookVars>>

\* app_specialize_pre and server_specialize_pre with get_module_info, and the
\* dlopen loop of run_modules_pre: zygiskd answered or not; unless the answer
\* puts the process on the denylist, the libraries that can be opened are.
specialize_pre(p) ==
    /\ pc[p] = "info"
    /\ \E connected \in BOOLEAN, reply \in InfoReplies, found \in SUBSET Module :
         LET info == IF connected THEN reply ELSE info_flags[p]
             opened == IF connected /\ ~Denied(info) THEN found ELSE {}
         IN /\ info_flags' = [info_flags EXCEPT ![p] = info]
            /\ modules' = [modules EXCEPT ![p] =
                 [m \in Module |-> IF m \in opened THEN "loaded" ELSE "absent"]]
            /\ flags' = [flags EXCEPT ![p] = @ \cup
                 (IF IsApp(p) THEN {"APP_SPECIALIZE"} ELSE {}) \cup
                 (IF IsApp(p) /\ Denied(info) THEN {"DO_REVERT_UNMOUNT"} ELSE {})]
    /\ Goto(p, "modules")
    /\ UNCHANGED <<g_ctx, pid, unload, forked, osVars, hookVars>>

---------------------------------------------------------------------------
setOption_MRaw(p, m, opts) ==
    /\ flags' = [flags EXCEPT ![p] = @ \cup opts]
    /\ UNCHANGED unload
\* setOption for each option that the running callback of m sets.
setOption(p, m, opts) ==
    /\ flags' = [flags EXCEPT ![p] = @ \cup
         (IF "FORCE_DENYLIST_UNMOUNT" \in opts THEN {"DO_REVERT_UNMOUNT"} ELSE {})]
    /\ unload' = [unload EXCEPT ![p] = @ \cup
         (IF "DLCLOSE_MODULE_LIBRARY" \in opts THEN {m} ELSE {})]

Module_UNCHANGED == UNCHANGED <<pc, g_ctx, pid, info_flags, forked, osVars, hookVars>>

\* onLoad: the module registers (and may then set options) or does not; one
\* that has no valid table afterwards is erased from the list.
onLoad(p, m) ==
    /\ pc[p] = "modules"
    /\ modules[p][m] = "loaded"
    /\ \/ /\ \E opts \in SUBSET Option : setOption(p, m, opts)
          /\ modules' = [modules EXCEPT ![p][m] = "valid"]
       \/ /\ \E opts \in SUBSET {"FORCE_DENYLIST_UNMOUNT"} : setOption(p, m, opts)
          /\ modules' = [modules EXCEPT ![p][m] = "erased"]
    /\ Module_UNCHANGED

\* preAppSpecialize or preServerSpecialize, once every module is loaded.
preSpecialize(p, m) ==
    /\ pc[p] = "modules"
    /\ \A n \in Module : modules[p][n] # "loaded"
    /\ modules[p][m] = "valid"
    /\ \E opts \in SUBSET Option : setOption(p, m, opts)
    /\ modules' = [modules EXCEPT ![p][m] = "pre"]
    /\ Module_UNCHANGED

CallOriginal_MAllValid(p) ==
    /\ pc[p] = "modules"
    /\ \A m \in Module : modules[p][m] \in {"absent", "pre"}
    /\ Goto(p, IF Forks(p) THEN "orig_fork" ELSE "orig_child")
    /\ UNCHANGED <<pid, forked, ctxVars, osVars, hookVars>>
\* The pre hook returns to the wrapper, which calls the original method.
CallOriginal(p) ==
    /\ pc[p] = "modules"
    /\ \A m \in Module : modules[p][m] \notin {"loaded", "valid"}
    /\ Goto(p, IF Forks(p) THEN "orig_fork" ELSE "orig_child")
    /\ UNCHANGED <<pid, forked, ctxVars, osVars, hookVars>>

new_fork_MUncached(p) ==
    /\ pc[p] = "orig_fork"
    /\ \/ \E c \in Child :
           /\ old_fork(p, c)
           /\ pid' = Inherit(pid, p, c)
           /\ pc' = [pc EXCEPT ![p] = "orig_parent", ![c] = "orig_child"]
           /\ forked' = [forked EXCEPT ![p] = @ \cup {c}, ![c] = {}]
       \/ /\ is_child(p)
          /\ Goto(p, "orig_child")
          /\ UNCHANGED <<pid, forked, ctxVars, osVars, hookVars>>
\* new_fork, called by the original method: the cached result of fork_pre if
\* there is one, and a fork of its own otherwise.
new_fork(p) ==
    /\ pc[p] = "orig_fork"
    /\ IF g_ctx[p] /\ pid[p] >= 0
         THEN /\ Goto(p, IF pid[p] = 0 THEN "orig_child" ELSE "orig_parent")
              /\ UNCHANGED <<pid, forked, ctxVars, osVars, hookVars>>
         ELSE \/ \E c \in Child :
                   /\ old_fork(p, c)
                   /\ pid' = Inherit(pid, p, c)
                   /\ pc' = [pc EXCEPT ![p] = "orig_parent", ![c] = "orig_child"]
                   /\ forked' = [forked EXCEPT ![p] = @ \cup {c}, ![c] = {}]
              \/ /\ ForkMayFail
                 /\ Goto(p, "orig_parent")
                 /\ UNCHANGED <<pid, forked, ctxVars, osVars, hookVars>>

\* new_unshare(CLONE_NEWNS), called by the original method while it
\* specialises the process.  It need not be called, and may fail.
new_unshare(p) ==
    /\ pc[p] = "orig_child"
    /\ mount[p] = "shared"
    /\ mount' = [mount EXCEPT ![p] =
         IF g_ctx[p] /\ "DO_REVERT_UNMOUNT" \in flags[p] THEN "reverted" ELSE "private"]
    /\ UNCHANGED <<pc, pid, forked, ctxVars, sigchld_blocked, hookVars>>

fork_post_MForkedOnly(p) ==
    sigchld_blocked' = [sigchld_blocked EXCEPT ![p] = IF Forks(p) /\ pid[p] >= 0 THEN FALSE ELSE @]
\* fork_post, which only the two forking methods reach.
fork_post(p) ==
    sigchld_blocked' = [sigchld_blocked EXCEPT ![p] = IF Forks(p) THEN FALSE ELSE @]

\* The original method returns: the parent's post hook only does fork_post,
\* a child's goes on to run_modules_post.
OriginalReturns(p) ==
    /\ pc[p] \in {"orig_parent", "orig_child"}
    /\ IF is_child(p)
         THEN /\ flags' = [flags EXCEPT ![p] = @ \cup {"POST_SPECIALIZE"}]
              /\ Goto(p, "post")
              /\ UNCHANGED sigchld_blocked
         ELSE /\ fork_post(p)
              /\ Goto(p, "dtor")
              /\ UNCHANGED flags
    /\ UNCHANGED <<g_ctx, pid, info_flags, modules, unload, forked, mount, hookVars>>

\* postAppSpecialize or postServerSpecialize, then tryUnload.
postSpecialize(p, m) ==
    /\ pc[p] = "post"
    /\ modules[p][m] = "pre"
    /\ \E opts \in SUBSET Option : setOption(p, m, opts)
    /\ modules' = [modules EXCEPT ![p][m] = IF m \in unload'[p] THEN "closed" ELSE "post"]
    /\ Module_UNCHANGED

PostReturns(p) ==
    /\ pc[p] = "post"
    /\ \A m \in Module : modules[p][m] # "pre"
    /\ fork_post(p)
    /\ Goto(p, "dtor")
    /\ UNCHANGED <<pid, forked, ctxVars, mount, hookVars>>

restore_zygote_hook_MNone(p) == UNCHANGED jni_hooked
restore_zygote_hook(p) == jni_hooked' = [jni_hooked EXCEPT ![p] = FALSE]

hook_unloader_MUncommitted(p) == UNCHANGED unloader_hooked
\* pthread_attr_destroy is registered and committed.
hook_unloader(p) ==
    \E committed \in IF CommitMayFail THEN BOOLEAN ELSE {TRUE} :
        unloader_hooked' = [unloader_hooked EXCEPT ![p] = committed]

\* ~ZygiskContext: the object dies with its module list; a child also restores
\* the JNI methods and hooks pthread_attr_destroy.
DestroyContext(p) ==
    /\ pc[p] = "dtor"
    /\ g_ctx' = [g_ctx EXCEPT ![p] = FALSE]
    /\ pid' = [pid EXCEPT ![p] = -1]
    /\ flags' = [flags EXCEPT ![p] = {}]
    /\ info_flags' = [info_flags EXCEPT ![p] = {}]
    /\ modules' = [modules EXCEPT ![p] = NoModules]
    /\ unload' = [unload EXCEPT ![p] = {}]
    /\ forked' = [forked EXCEPT ![p] = {}]
    /\ IF is_child(p)
         THEN /\ should_unmap' = [should_unmap EXCEPT ![p] = TRUE]
              /\ restore_zygote_hook(p)
              /\ hook_unloader(p)
         ELSE UNCHANGED <<should_unmap, jni_hooked, unloader_hooked>>
    /\ Goto(p, "java")
    /\ UNCHANGED <<osVars, g_hook>>

---------------------------------------------------------------------------
\* new_pthread_attr_destroy on the main thread (on any other it returns at
\* once): unhook everything and dlclose; if unhooking fails, g_hook is deleted
\* all the same, and the slot of pthread_attr_destroy may or may not be hooked
\* still.
new_pthread_attr_destroy(p) ==
    /\ pc[p] = "java"
    /\ unloader_hooked[p]
    /\ g_hook[p] = "alive"
    /\ \/ /\ should_unmap[p]
          /\ unloader_hooked' = [unloader_hooked EXCEPT ![p] = FALSE]
          /\ g_hook' = [g_hook EXCEPT ![p] = "unmapped"]
          /\ UNCHANGED should_unmap
       \/ /\ CommitMayFail \/ ~should_unmap[p]
          /\ should_unmap' = [should_unmap EXCEPT ![p] = FALSE]
          /\ \E still \in BOOLEAN :
               unloader_hooked' = [unloader_hooked EXCEPT ![p] = still]
          /\ g_hook' = [g_hook EXCEPT ![p] = "freed"]
    /\ UNCHANGED <<pc, pid, forked, ctxVars, osVars, jni_hooked>>

\* A fork from a native method that Zygisk does not replace, as nativeForkUsap,
\* or from a process whose methods have been restored, as an app zygote:
\* new_fork without a context, or libc's own fork.  No other fork is under way
\* (the pids are the model's bound, and the zygote's fork has one reserved).
ForkUnhooked(p) ==
    /\ pc[p] = "java"
    /\ \A q \in Proc : pc[q] # "fork"
    /\ \E c \in Child :
         /\ old_fork(p, c)
         /\ pc' = [pc EXCEPT ![c] = "java"]
         /\ pid' = Inherit(pid, p, c)
    /\ UNCHANGED forked

---------------------------------------------------------------------------
\* What p does once it is in a replaced method.
InCall(p) ==
    \/ fork_pre(p)
    \/ specialize_pre(p)
    \/ \E m \in Module : onLoad(p, m) \/ preSpecialize(p, m) \/ postSpecialize(p, m)
    \/ CallOriginal(p)
    \/ new_fork(p)
    \/ OriginalReturns(p)
    \/ PostReturns(p)
    \/ DestroyContext(p)

Step(p) ==
    \/ nativeForkAndSpecialize_pre(p)
    \/ nativeForkSystemServer_pre(p)
    \/ nativeSpecializeAppProcess_pre(p)
    \/ InCall(p)
    \/ new_unshare(p)
    \/ new_pthread_attr_destroy(p)
    \/ ForkUnhooked(p)

Next == \E p \in Proc : Step(p)

Spec == Init /\ [][Next]_vars

\* A thread that runs goes on running, module callbacks and the original
\* method return, and the VM starts daemon threads, and so reaches
\* pthread_attr_destroy, after a specialisation.  Nobody has to fork.
Fairness ==
    \A p \in Proc : WF_vars(InCall(p)) /\ WF_vars(new_pthread_attr_destroy(p))

FairSpec == Spec /\ Fairness
---------------------------------------------------------------------------
\* The zygote only ever forks: no module is loaded into it, its namespace
\* stays shared, and nothing of Zygisk is taken out of it, whatever happens in
\* the children that run the same handlers.
ZygotePristine ==
    /\ modules[Zygote] = NoModules
    /\ "POST_SPECIALIZE" \notin flags[Zygote]
    /\ mount[Zygote] = "shared"
    /\ jni_hooked[Zygote]
    /\ ~should_unmap[Zygote]
    /\ g_hook[Zygote] = "alive"

\* An app on an enforced denylist sees neither modules nor their mounts: no
\* library is opened for it, and once its namespace is its own, the module
\* paths have been unmounted in it.
DeniedIsolated ==
    \A p \in Proc :
        /\ "APP_SPECIALIZE" \in flags[p]
        /\ {"ProcessOnDenyList", "DenyListEnforced"} \subseteq info_flags[p]
        => modules[p] = NoModules /\ mount[p] # "private"

\* When a context dies, every module that ran before the original method has
\* run after it, in the same process; those that asked to be unloaded are.
PrePostPaired ==
    \A p \in Proc : pc[p] = "dtor" =>
        \A m \in Module :
            /\ modules[p][m] \in {"absent", "erased", "post", "closed"}
            /\ modules[p][m] = "post" => m \notin unload[p]

\* The pid that a forking method hands to Java is the child its call created:
\* the fork made early by fork_pre is the only one.
ReturnedPidIsTheChild ==
    \A p \in Proc : pc[p] = "dtor" =>
        forked[p] = IF pid[p] > 0 THEN {pid[p]} ELSE {}

\* SIGCHLD, blocked around the fork, is deliverable again in parent and child
\* whenever they run code of their own.
SigchldRestored ==
    \A p \in Proc : pc[p] = "java" => ~sigchld_blocked[p]

\* Once the library is unmapped nothing that survives points into it: not the
\* JNI methods, not the PLT slot, not a context.
NothingDangles ==
    \A p \in Proc : g_hook[p] = "unmapped" =>
        ~jni_hooked[p] /\ ~unloader_hooked[p] /\ ~g_ctx[p]

\* A replaced method returns to Java.
CallsReturn == \A p \in Proc : g_ctx[p] ~> ~g_ctx[p]

\* A process that has been specialised ends up without Zygisk.
SpecialisedIsLeft ==
    \A p \in Proc : "POST_SPECIALIZE" \in flags[p] ~> g_hook[p] = "unmapped"

---------------------------------------------------------------------------
\* The phase of Injection that a process is in.  A context makes its process a
\* host from specialize_pre on, unless it is the parent's.
Hosting(p) ==
    /\ g_ctx[p]
    /\ is_child(p)
    /\ pc[p] \notin {"fork", "info"}

Phase(p) ==
    CASE pc[p] = "unborn" -> "absent"
      [] pc[p] # "unborn" /\ g_hook[p] = "unmapped" -> "gone"
      [] pc[p] # "unborn" /\ g_hook[p] # "unmapped" /\ ~jni_hooked[p] -> "leaving"
      [] OTHER -> IF Hosting(p) THEN "hosting" ELSE "armed"

\* The modules that Zygisk has yet to call: onLoad, or the callbacks before or
\* after the original method.
Pending(p) == {m \in Module : modules[p][m] \in {"loaded", "valid", "pre"}}

Abstract == INSTANCE Injection WITH
    phase <- [p \in Proc |-> Phase(p)],
    pending <- [p \in Proc |-> Pending(p)]

\* The contexts, flags and hooks implement the promise of Injection.
ImplementsInjection == Abstract!Spec
=============================================================================
