------------------------ MODULE ZygiskContextProofs ------------------------
(***************************************************************************)
(* Theorems about ZygiskContext, for any set of processes, modules and     *)
(* replies.                                                                *)
(***************************************************************************)
EXTENDS ZygiskContext, TLAPS

\* The actions of Next, one by one, for a process p (and a module m).
LEMMA StepCases ==
    ASSUME Next, NEW G,
           \A p \in Proc : nativeForkAndSpecialize_pre(p) => G,
           \A p \in Proc : nativeForkSystemServer_pre(p) => G,
           \A p \in Proc : nativeSpecializeAppProcess_pre(p) => G,
           \A p \in Proc : fork_pre(p) => G,
           \A p \in Proc : specialize_pre(p) => G,
           \A p \in Proc, m \in Module : onLoad(p, m) => G,
           \A p \in Proc, m \in Module : preSpecialize(p, m) => G,
           \A p \in Proc, m \in Module : postSpecialize(p, m) => G,
           \A p \in Proc : CallOriginal(p) => G,
           \A p \in Proc : new_fork(p) => G,
           \A p \in Proc : OriginalReturns(p) => G,
           \A p \in Proc : PostReturns(p) => G,
           \A p \in Proc : DestroyContext(p) => G,
           \A p \in Proc : new_unshare(p) => G,
           \A p \in Proc : new_pthread_attr_destroy(p) => G,
           \A p \in Proc : ForkUnhooked(p) => G
    PROVE  G
  BY DEF Next, Step, InCall

---------------------------------------------------------------------------
\* A function keeps its type when two of its values change.
LEMMA UpdateTwo ==
    ASSUME NEW S, NEW T, NEW f \in [S -> T], NEW x, NEW y, NEW a \in T, NEW b \in T
    PROVE  [f EXCEPT ![x] = a, ![y] = b] \in [S -> T]
  OBVIOUS

\* Setting options keeps the types of what it sets.
LEMMA SetOptionType ==
    ASSUME TypeOK, NEW p \in Proc, NEW m \in Module, NEW opts \in SUBSET Option,
           setOption(p, m, opts)
    PROVE  flags' \in [Proc -> SUBSET Flag] /\ unload' \in [Proc -> SUBSET Module]
  BY DEF TypeOK, setOption, Flag

\* A fork keeps the types of what the child inherits.
LEMMA ForkType ==
    ASSUME TypeOK, NEW p \in Proc, NEW c \in Child, old_fork(p, c)
    PROVE  /\ g_ctx' \in [Proc -> BOOLEAN]
           /\ flags' \in [Proc -> SUBSET Flag]
           /\ info_flags' \in [Proc -> SUBSET StateFlag]
           /\ modules' \in [Proc -> [Module -> ModState]]
           /\ unload' \in [Proc -> SUBSET Module]
           /\ sigchld_blocked' \in [Proc -> BOOLEAN]
           /\ mount' \in [Proc -> {"shared", "private", "reverted"}]
           /\ jni_hooked' \in [Proc -> BOOLEAN]
           /\ unloader_hooked' \in [Proc -> BOOLEAN]
           /\ should_unmap' \in [Proc -> BOOLEAN]
           /\ g_hook' \in [Proc -> {"alive", "freed", "unmapped"}]
  BY DEF TypeOK, old_fork, Inherit, Proc

\* Every state of the specification is well typed.
THEOREM TypeCorrect == Spec => []TypeOK
<1>1. Init => TypeOK
  BY DEF Init, TypeOK, PC, ModState, NoModules
<1>2. TypeOK /\ [Next]_vars => TypeOK'
  <2> SUFFICES ASSUME TypeOK, [Next]_vars PROVE TypeOK'
    OBVIOUS
  <2> USE PidAssumption, ReplyAssumption, FailAssumption
  <2>1. ASSUME NEW p \in Proc, nativeForkAndSpecialize_pre(p) PROVE TypeOK'
    BY <2>1 DEF TypeOK, nativeForkAndSpecialize_pre, NativeForkPre, ConstructContext, Goto,
       hookVars, NoModules, PC, ModState, Flag
  <2>2. ASSUME NEW p \in Proc, nativeForkSystemServer_pre(p) PROVE TypeOK'
    BY <2>2 DEF TypeOK, nativeForkSystemServer_pre, NativeForkPre, ConstructContext, Goto,
       hookVars, NoModules, PC, ModState, Flag
  <2>3. ASSUME NEW p \in Proc, nativeSpecializeAppProcess_pre(p) PROVE TypeOK'
    BY <2>3 DEF TypeOK, nativeSpecializeAppProcess_pre, ConstructContext, Goto,
       hookVars, osVars, NoModules, PC, ModState, Flag
  <2>4. ASSUME NEW p \in Proc, fork_pre(p) PROVE TypeOK'
    <3>1. CASE \E c \in Child :
                 /\ old_fork(p, c)
                 /\ pid' = [pid EXCEPT ![p] = c, ![c] = 0]
                 /\ pc' = [pc EXCEPT ![p] = "orig_fork", ![c] = "info"]
                 /\ forked' = [forked EXCEPT ![p] = {c}, ![c] = {}]
      <4>1. PICK c \in Child :
                 /\ old_fork(p, c)
                 /\ pid' = [pid EXCEPT ![p] = c, ![c] = 0]
                 /\ pc' = [pc EXCEPT ![p] = "orig_fork", ![c] = "info"]
                 /\ forked' = [forked EXCEPT ![p] = {c}, ![c] = {}]
        BY <3>1
      <4>2. pid' \in [Proc -> Int] /\ pc' \in [Proc -> PC] /\ forked' \in [Proc -> SUBSET Child]
        <5>1. c \in Int /\ 0 \in Int /\ {c} \in SUBSET Child /\ {} \in SUBSET Child
          BY PidAssumption
        <5>2. "orig_fork" \in PC /\ "info" \in PC
          BY DEF PC
        <5> QED
          BY <4>1, <5>1, <5>2, UpdateTwo DEF TypeOK
      <4> QED
        BY <4>1, <4>2, ForkType DEF TypeOK
    <3>2. CASE UNCHANGED <<ctxVars, forked, osVars, hookVars>>
               /\ pid' = [pid EXCEPT ![p] = -1] /\ Goto(p, "info")
      BY <3>2 DEF TypeOK, PC, Goto, ctxVars, osVars, hookVars
    <3> QED
      BY <2>4, <3>1, <3>2 DEF fork_pre
  <2>5. ASSUME NEW p \in Proc, specialize_pre(p) PROVE TypeOK'
    BY <2>5 DEF TypeOK, specialize_pre, Goto, osVars, hookVars, PC, ModState, Flag
  <2>6. ASSUME NEW p \in Proc, NEW m \in Module, onLoad(p, m) PROVE TypeOK'
    <3>1. flags' \in [Proc -> SUBSET Flag] /\ unload' \in [Proc -> SUBSET Module]
      BY <2>6, SetOptionType DEF onLoad, Option
    <3>2. modules' \in [Proc -> [Module -> ModState]]
      <4>1. CASE modules' = [modules EXCEPT ![p][m] = "valid"]
        BY <4>1 DEF TypeOK, ModState
      <4>2. CASE modules' = [modules EXCEPT ![p][m] = "erased"]
        BY <4>2 DEF TypeOK, ModState
      <4> QED
        BY <2>6, <4>1, <4>2 DEF onLoad
    <3> QED
      BY <2>6, <3>1, <3>2 DEF TypeOK, onLoad, Module_UNCHANGED, osVars, hookVars
  <2>7. ASSUME NEW p \in Proc, NEW m \in Module, preSpecialize(p, m) PROVE TypeOK'
    BY <2>7, SetOptionType DEF TypeOK, preSpecialize, Module_UNCHANGED, osVars, hookVars, ModState
  <2>8. ASSUME NEW p \in Proc, NEW m \in Module, postSpecialize(p, m) PROVE TypeOK'
    BY <2>8, SetOptionType DEF TypeOK, postSpecialize, Module_UNCHANGED, osVars, hookVars, ModState
  <2>9. ASSUME NEW p \in Proc, CallOriginal(p) PROVE TypeOK'
    BY <2>9 DEF TypeOK, CallOriginal, Goto, PC, ctxVars, osVars, hookVars
  <2>10. ASSUME NEW p \in Proc, new_fork(p) PROVE TypeOK'
    <3>1. CASE \E c \in Child :
                 /\ old_fork(p, c)
                 /\ pid' = Inherit(pid, p, c)
                 /\ pc' = [pc EXCEPT ![p] = "orig_parent", ![c] = "orig_child"]
                 /\ forked' = [forked EXCEPT ![p] = @ \cup {c}, ![c] = {}]
      <4>1. PICK c \in Child :
                 /\ old_fork(p, c)
                 /\ pid' = Inherit(pid, p, c)
                 /\ pc' = [pc EXCEPT ![p] = "orig_parent", ![c] = "orig_child"]
                 /\ forked' = [forked EXCEPT ![p] = @ \cup {c}, ![c] = {}]
        BY <3>1
      <4>2. pid' \in [Proc -> Int] /\ pc' \in [Proc -> PC] /\ forked' \in [Proc -> SUBSET Child]
        BY <4>1 DEF TypeOK, PC, Inherit
      <4> QED
        BY <4>1, <4>2, ForkType DEF TypeOK
    <3>2. CASE UNCHANGED <<pid, forked, ctxVars, osVars, hookVars>>
               /\ \E l \in {"orig_child", "orig_parent"} : Goto(p, l)
      BY <3>2 DEF TypeOK, PC, Goto, ctxVars, osVars, hookVars
    <3> QED
      BY <2>10, <3>1, <3>2 DEF new_fork
  <2>11. ASSUME NEW p \in Proc, OriginalReturns(p) PROVE TypeOK'
    <3>1. /\ flags' \in [Proc -> SUBSET Flag]
          /\ sigchld_blocked' \in [Proc -> BOOLEAN]
          /\ pc' \in [Proc -> PC]
      <4>1. CASE is_child(p)
        <5>1. pc' = [pc EXCEPT ![p] = "post"]
          BY <2>11, <4>1 DEF OriginalReturns, Goto
        <5>2. pc' \in [Proc -> PC]
          BY <5>1 DEF TypeOK, PC
        <5>3. flags' \in [Proc -> SUBSET Flag]
          <6>1. flags' = [flags EXCEPT ![p] = @ \cup {"POST_SPECIALIZE"}]
            BY <2>11, <4>1 DEF OriginalReturns
          <6> QED
            BY <6>1 DEF TypeOK, Flag
        <5> QED
          BY <2>11, <4>1, <5>2, <5>3 DEF TypeOK, OriginalReturns
      <4>2. CASE ~is_child(p)
        BY <2>11, <4>2 DEF TypeOK, OriginalReturns, fork_post, Goto, PC
      <4> QED
        BY <4>1, <4>2
    <3> QED
      BY <2>11, <3>1 DEF TypeOK, OriginalReturns, hookVars
  <2>12. ASSUME NEW p \in Proc, PostReturns(p) PROVE TypeOK'
    BY <2>12 DEF TypeOK, PostReturns, fork_post, Goto, PC, ctxVars, hookVars
  <2>13. ASSUME NEW p \in Proc, DestroyContext(p) PROVE TypeOK'
    <3>1. /\ should_unmap' \in [Proc -> BOOLEAN]
          /\ jni_hooked' \in [Proc -> BOOLEAN]
          /\ unloader_hooked' \in [Proc -> BOOLEAN]
      <4>1. CASE is_child(p)
        BY <2>13, <4>1 DEF TypeOK, DestroyContext, restore_zygote_hook, hook_unloader
      <4>2. CASE ~is_child(p)
        BY <2>13, <4>2 DEF TypeOK, DestroyContext
      <4> QED
        BY <4>1, <4>2
    <3>2. /\ modules' \in [Proc -> [Module -> ModState]]
          /\ pc' \in [Proc -> PC]
      BY <2>13 DEF TypeOK, DestroyContext, Goto, PC, ModState, NoModules
    <3> QED
      BY <2>13, <3>1, <3>2 DEF TypeOK, DestroyContext, osVars
  <2>14. ASSUME NEW p \in Proc, new_unshare(p) PROVE TypeOK'
    BY <2>14 DEF TypeOK, new_unshare, ctxVars, hookVars
  <2>15. ASSUME NEW p \in Proc, new_pthread_attr_destroy(p) PROVE TypeOK'
    <3>1. should_unmap' \in [Proc -> BOOLEAN]
      BY <2>15 DEF TypeOK, new_pthread_attr_destroy
    <3>2. unloader_hooked' \in [Proc -> BOOLEAN]
      BY <2>15 DEF TypeOK, new_pthread_attr_destroy
    <3>3. g_hook' \in [Proc -> {"alive", "freed", "unmapped"}]
      BY <2>15 DEF TypeOK, new_pthread_attr_destroy
    <3> QED
      BY <2>15, <3>1, <3>2, <3>3 DEF TypeOK, new_pthread_attr_destroy, ctxVars, osVars
  <2>16. ASSUME NEW p \in Proc, ForkUnhooked(p) PROVE TypeOK'
    BY <2>16, ForkType DEF TypeOK, ForkUnhooked, Inherit, PC, Proc
  <2>17. CASE UNCHANGED vars
    BY <2>17 DEF TypeOK, vars, ctxVars, osVars, hookVars
  <2> QED
    BY <2>1, <2>2, <2>3, <2>4, <2>5, <2>6, <2>7, <2>8, <2>9, <2>10, <2>11, <2>12, <2>13,
       <2>14, <2>15, <2>16, <2>17, StepCases
<1> QED
  BY <1>1, <1>2, PTL DEF Spec

---------------------------------------------------------------------------
\* The inductive invariant, for one process, whatever fails.

\* There is a context exactly while a replaced method runs; without one, and
\* before specialize_pre, no module is listed and no app specialised.
WindowInv(p) ==
    /\ g_ctx[p] <=> pc[p] \notin {"unborn", "java"}
    /\ pc[p] \in {"unborn", "java", "fork", "info"} =>
         modules[p] = NoModules /\ "APP_SPECIALIZE" \notin flags[p]

\* The fork result is a pid only in the parent, which runs no module.
ParentInv(p) ==
    pid[p] > 0 => /\ pc[p] \in {"orig_fork", "orig_parent", "dtor"}
                  /\ modules[p] = NoModules

\* How far the modules are at each point of the method.
StageInv(p) ==
    \A m \in Module :
        /\ pc[p] = "modules" => modules[p][m] \notin {"post", "closed"}
        /\ pc[p] \in {"orig_fork", "orig_parent", "orig_child"} =>
             modules[p][m] \in {"absent", "pre", "erased"}
        /\ pc[p] = "post" => modules[p][m] \in {"absent", "pre", "erased", "post", "closed"}
        /\ pc[p] = "dtor" => modules[p][m] \in {"absent", "erased", "post", "closed"}
        /\ modules[p][m] = "post" => m \notin unload[p]

\* SIGCHLD is blocked only inside a forking method, before fork_post.
SigchldInv(p) ==
    sigchld_blocked[p] => /\ pc[p] \notin {"unborn", "java", "dtor"}
                          /\ Forks(p)

\* Hooks come out in one order: JNI methods, then the unloader's slot, then
\* the library; and they come out of a process that has no context.
HookInv(p) ==
    /\ ~jni_hooked[p] => pc[p] = "java"
    /\ unloader_hooked[p] => ~jni_hooked[p]
    /\ g_hook[p] = "unmapped" => ~jni_hooked[p] /\ ~unloader_hooked[p]

\* The mount namespace changes only while the original method specialises the
\* process, after which its JNI methods do not point into Zygisk again.
MountInv(p) ==
    mount[p] # "shared" =>
        \/ ~jni_hooked[p]
        \/ pc[p] \in {"orig_child", "post", "dtor"} /\ ~(pid[p] > 0)

DeniedInv(p) ==
    /\ "APP_SPECIALIZE" \in flags[p]
    /\ {"ProcessOnDenyList", "DenyListEnforced"} \subseteq info_flags[p]
    => /\ "DO_REVERT_UNMOUNT" \in flags[p]
       /\ modules[p] = NoModules
       /\ mount[p] # "private"

ProcInv(p) ==
    /\ WindowInv(p)
    /\ ParentInv(p)
    /\ StageInv(p)
    /\ SigchldInv(p)
    /\ HookInv(p)
    /\ MountInv(p)
    /\ DeniedInv(p)

IInv == \A p \in Proc : ProcInv(p)

\* What holds beyond IInv when no fork fails.
CachedInv(p) ==
    /\ forked[p] = IF pid[p] > 0 THEN {pid[p]} ELSE {}
    /\ pc[p] \in {"info", "modules"} /\ pid[p] < 0 => ~Forks(p)
    /\ pc[p] = "orig_fork" => pid[p] >= 0

ZygoteInv ==
    /\ pc[Zygote] \in {"java", "fork", "orig_fork", "orig_parent", "dtor"}
    /\ pc[Zygote] \in {"orig_fork", "orig_parent", "dtor"} => pid[Zygote] > 0
    /\ ~unloader_hooked[Zygote]
    /\ ZygotePristine

NoFailInv == ZygoteInv /\ \A p \in Proc : CachedInv(p)


---------------------------------------------------------------------------
\* What a step leaves alone in process q.
Same(q) ==
    /\ pc'[q] = pc[q] /\ g_ctx'[q] = g_ctx[q] /\ pid'[q] = pid[q]
    /\ flags'[q] = flags[q] /\ info_flags'[q] = info_flags[q]
    /\ modules'[q] = modules[q] /\ unload'[q] = unload[q]
    /\ sigchld_blocked'[q] = sigchld_blocked[q] /\ mount'[q] = mount[q]
    /\ jni_hooked'[q] = jni_hooked[q] /\ unloader_hooked'[q] = unloader_hooked[q]
    /\ g_hook'[q] = g_hook[q]

LEMMA SameInv == ASSUME NEW q \in Proc, ProcInv(q), Same(q) PROVE ProcInv(q)'
  BY DEF Same, ProcInv, WindowInv, ParentInv, StageInv, SigchldInv, HookInv, MountInv,
     DeniedInv, Forks

\* A step of p alone, or of p and its new child c.
LEMMA OneMoves ==
    ASSUME IInv, NEW p \in Proc, ProcInv(p)', \A q \in Proc \ {p} : Same(q)
    PROVE  IInv'
  BY SameInv DEF IInv
LEMMA TwoMove ==
    ASSUME IInv, NEW p \in Proc, NEW c \in Proc, ProcInv(p)', ProcInv(c)',
           \A q \in Proc \ {p, c} : Same(q)
    PROVE  IInv'
  BY SameInv DEF IInv

LEMMA ConstructInv ==
    ASSUME TypeOK, IInv, NEW p \in Proc,
           \/ nativeForkAndSpecialize_pre(p)
           \/ nativeForkSystemServer_pre(p)
           \/ nativeSpecializeAppProcess_pre(p)
    PROVE  IInv'
<1>1. PICK fs \in { {"APP_FORK_AND_SPECIALIZE"}, {"SERVER_FORK_AND_SPECIALIZE"},
                    {"SKIP_CLOSE_LOG_PIPE"} } : ConstructContext(p, fs)
  BY DEF nativeForkAndSpecialize_pre, nativeForkSystemServer_pre, NativeForkPre,
     nativeSpecializeAppProcess_pre
<1>2. /\ pc'[p] \in {"fork", "info"}
      /\ sigchld_blocked'[p] => "SKIP_CLOSE_LOG_PIPE" \notin flags'[p]
      /\ mount' = mount
      /\ \A q \in Proc \ {p} : pc'[q] = pc[q] /\ sigchld_blocked'[q] = sigchld_blocked[q]
  <2>1. CASE nativeForkAndSpecialize_pre(p)
    BY <2>1 DEF nativeForkAndSpecialize_pre, NativeForkPre, ConstructContext, Goto, TypeOK
  <2>3. CASE nativeForkSystemServer_pre(p)
    BY <2>3 DEF nativeForkSystemServer_pre, NativeForkPre, ConstructContext, Goto, TypeOK
  <2>2. CASE nativeSpecializeAppProcess_pre(p)
    BY <2>2 DEF nativeSpecializeAppProcess_pre, ConstructContext, Goto, osVars, TypeOK,
       IInv, ProcInv, SigchldInv
  <2> QED
    BY <2>1, <2>2, <2>3
<1>3. ProcInv(p)'
  <2>1. /\ g_ctx'[p] /\ pid'[p] = -1 /\ flags'[p] = fs
        /\ modules'[p] = NoModules /\ UNCHANGED hookVars /\ jni_hooked[p]
        /\ \A m \in Module : modules'[p][m] = "absent"
    BY <1>1 DEF ConstructContext, TypeOK, NoModules
  <2>2. WindowInv(p)' /\ ParentInv(p)' /\ StageInv(p)' /\ SigchldInv(p)'
    BY <2>1, <1>2 DEF WindowInv, ParentInv, StageInv, SigchldInv, Forks
  <2>3. HookInv(p) /\ MountInv(p) /\ pc[p] = "java"
    BY <1>1 DEF IInv, ProcInv, ConstructContext
  <2>4. HookInv(p)'
    BY <2>1, <2>3, <1>2 DEF HookInv, hookVars
  <2>5. MountInv(p)' /\ DeniedInv(p)'
    BY <2>1, <2>3, <1>2 DEF MountInv, DeniedInv
  <2> QED
    BY <2>2, <2>4, <2>5 DEF ProcInv
<1>4. \A q \in Proc \ {p} : Same(q)
  BY <1>1, <1>2 DEF ConstructContext, TypeOK, Same, hookVars
<1> QED
  BY <1>3, <1>4, OneMoves


LEMMA ForkCopies ==
    ASSUME TypeOK, NEW p \in Proc, NEW c \in Child, old_fork(p, c)
    PROVE  /\ c \in Proc /\ pc[c] = "unborn"
           /\ \A q \in Proc :
                LET o == IF q = c THEN p ELSE q
                IN /\ g_ctx'[q] = g_ctx[o] /\ flags'[q] = flags[o]
                   /\ info_flags'[q] = info_flags[o] /\ modules'[q] = modules[o]
                   /\ unload'[q] = unload[o] /\ sigchld_blocked'[q] = sigchld_blocked[o]
                   /\ mount'[q] = mount[o] /\ jni_hooked'[q] = jni_hooked[o]
                   /\ unloader_hooked'[q] = unloader_hooked[o]
                   /\ g_hook'[q] = g_hook[o]
<1>1. c \in Proc /\ pc[c] = "unborn"
  BY DEF old_fork, Proc
<1> QED
  BY <1>1 DEF old_fork, Inherit, TypeOK

LEMMA ForkPreInv ==
    ASSUME TypeOK, IInv, NEW p \in Proc, fork_pre(p)
    PROVE  IInv'
<1>0. pc[p] = "fork" /\ ProcInv(p)
  BY DEF fork_pre, IInv
<1>1. CASE UNCHANGED <<ctxVars, forked, osVars, hookVars>>
           /\ pid' = [pid EXCEPT ![p] = -1] /\ Goto(p, "info")
  <2>1. ProcInv(p)'
    BY <1>0, <1>1 DEF ctxVars, osVars, hookVars, Goto, TypeOK, IInv, ProcInv,
       WindowInv, ParentInv, StageInv, SigchldInv, HookInv, MountInv, DeniedInv, Forks
  <2>2. \A q \in Proc \ {p} : Same(q)
    BY <1>1 DEF ctxVars, osVars, hookVars, Goto, TypeOK, Same
  <2> QED
    BY <2>1, <2>2, OneMoves
<1>2. ASSUME NEW c \in Child, old_fork(p, c),
             pid' = [pid EXCEPT ![p] = c, ![c] = 0],
             pc' = [pc EXCEPT ![p] = "orig_fork", ![c] = "info"]
      PROVE IInv'
  <2>1. c \in Proc /\ c # p /\ pc[p] = "fork" /\ c \in Int
    BY <1>0, <1>2, ForkCopies, PidAssumption
  <2>2. /\ pc'[p] = "orig_fork" /\ pid'[p] = c /\ pc'[c] = "info" /\ pid'[c] = 0
        /\ \A q \in Proc \ {p, c} : pc'[q] = pc[q] /\ pid'[q] = pid[q]
    BY <1>2, <2>1 DEF TypeOK
  <2>3. ProcInv(p) /\ pc[p] = "fork" /\ modules[p] = NoModules
    BY <1>0 DEF ProcInv, WindowInv
  <2>4. ProcInv(p)'
    BY <1>2, <2>1, <2>2, <2>3, ForkCopies DEF ProcInv,
       WindowInv, ParentInv, StageInv, SigchldInv, HookInv, MountInv, DeniedInv, Forks, NoModules
  <2>5. ProcInv(c)'
    BY <1>2, <2>1, <2>2, <2>3, ForkCopies DEF ProcInv,
       WindowInv, ParentInv, StageInv, SigchldInv, HookInv, MountInv, DeniedInv, Forks, NoModules
  <2>6. ASSUME NEW q \in Proc \ {p, c} PROVE Same(q)
    <3>1. q \in Proc /\ q # c /\ pc'[q] = pc[q] /\ pid'[q] = pid[q]
      BY <2>2
    <3> QED
      BY <1>2, <3>1, ForkCopies DEF Same
  <2> QED
    BY <2>1, <2>4, <2>5, <2>6, TwoMove
<1> QED
  BY <1>1, <1>2, fork_pre(p) DEF fork_pre

LEMMA SpecializeInv ==
    ASSUME TypeOK, IInv, NEW p \in Proc, specialize_pre(p)
    PROVE  IInv'
<1>1. \A q \in Proc \ {p} : Same(q)
  BY DEF specialize_pre, Goto, osVars, hookVars, TypeOK, Same
<1>2. /\ pc[p] = "info" /\ pc'[p] = "modules" /\ ProcInv(p)
      /\ pid' = pid /\ g_ctx' = g_ctx /\ unload' = unload /\ UNCHANGED <<osVars, hookVars>>
  BY DEF specialize_pre, Goto, TypeOK, IInv
<1>3. /\ \A m \in Module : modules'[p][m] \in {"loaded", "absent"}
      /\ Forks(p)' <=> Forks(p)
  BY DEF specialize_pre, TypeOK, Forks
<1>4. DeniedInv(p)'
  <2>1. PICK connected \in BOOLEAN, reply \in InfoReplies, found \in SUBSET Module :
         LET info == IF connected THEN reply ELSE info_flags[p]
             opened == IF connected /\ ~Denied(info) THEN found ELSE {}
         IN /\ info_flags' = [info_flags EXCEPT ![p] = info]
            /\ modules' = [modules EXCEPT ![p] =
                 [m \in Module |-> IF m \in opened THEN "loaded" ELSE "absent"]]
            /\ flags' = [flags EXCEPT ![p] = @ \cup
                 (IF IsApp(p) THEN {"APP_SPECIALIZE"} ELSE {}) \cup
                 (IF IsApp(p) /\ Denied(info) THEN {"DO_REVERT_UNMOUNT"} ELSE {})]
    BY DEF specialize_pre
  <2> DEFINE info == IF connected THEN reply ELSE info_flags[p]
  <2>2. info_flags'[p] = info /\ mount'[p] = "shared"
    BY <2>1, <1>2 DEF TypeOK, ProcInv, MountInv, HookInv, osVars
  <2>3. ASSUME Denied(info) PROVE modules'[p] = NoModules
    BY <2>1, <2>3 DEF NoModules, TypeOK
  <2>4. ASSUME Denied(info), "APP_SPECIALIZE" \in flags'[p]
        PROVE  "DO_REVERT_UNMOUNT" \in flags'[p]
    <3>1. CASE IsApp(p)
      BY <2>1, <2>4, <3>1 DEF TypeOK
    <3>2. CASE ~IsApp(p)
      <4>1. flags'[p] = flags[p]
        BY <2>1, <3>2 DEF TypeOK
      <4> QED
        BY <2>4, <4>1, <1>2 DEF ProcInv, WindowInv
    <3> QED
      BY <3>1, <3>2
  <2> QED
    BY <2>2, <2>3, <2>4 DEF DeniedInv, Denied, UNMOUNT_MASK
<1>5. ProcInv(p)'
  BY <1>2, <1>3, <1>4 DEF ProcInv, WindowInv, ParentInv, StageInv, SigchldInv, HookInv,
     MountInv, osVars, hookVars
<1> QED
  BY <1>1, <1>5, OneMoves


\* A callback of module m moves m on and sets options; nothing else.
LEMMA CallbackInv ==
    ASSUME TypeOK, IInv, NEW p \in Proc, NEW m \in Module, NEW opts \in SUBSET Option,
           NEW v \in ModState, setOption(p, m, opts), Module_UNCHANGED,
           modules' = [modules EXCEPT ![p][m] = v],
           modules[p][m] # "absent",
           \/ pc[p] = "modules" /\ v \in {"valid", "pre", "erased"}
           \/ pc[p] = "post" /\ v = (IF m \in unload'[p] THEN "closed" ELSE "post")
    PROVE  IInv'
<1>1. ProcInv(p) /\ modules[p] # NoModules /\ pc[p] \in {"modules", "post"}
  BY DEF IInv, NoModules
<1>2. /\ \A q \in Proc \ {p} : flags'[q] = flags[q] /\ unload'[q] = unload[q]
                               /\ modules'[q] = modules[q]
      /\ flags[p] \subseteq flags'[p]
      /\ "APP_SPECIALIZE" \in flags'[p] => "APP_SPECIALIZE" \in flags[p]
      /\ Forks(p)' <=> Forks(p)
      /\ \A n \in Module \ {m} : /\ n \in unload'[p] <=> n \in unload[p]
                                 /\ modules'[p][n] = modules[p][n]
      /\ modules'[p][m] = v
  BY DEF setOption, TypeOK, Forks
<1>3. /\ pc' = pc /\ g_ctx' = g_ctx /\ pid' = pid /\ info_flags' = info_flags
      /\ sigchld_blocked' = sigchld_blocked /\ mount' = mount
      /\ jni_hooked' = jni_hooked /\ unloader_hooked' = unloader_hooked /\ g_hook' = g_hook
  BY DEF Module_UNCHANGED, osVars, hookVars
<1>4. \A q \in Proc \ {p} : Same(q)
  BY <1>2, <1>3 DEF Same
<1>5. WindowInv(p)' /\ SigchldInv(p)' /\ HookInv(p)' /\ MountInv(p)'
  BY <1>1, <1>2, <1>3 DEF ProcInv, WindowInv, SigchldInv, HookInv, MountInv
<1>6. ParentInv(p)' /\ DeniedInv(p)'
  BY <1>1, <1>2, <1>3 DEF ProcInv, ParentInv, DeniedInv
<1>7. StageInv(p)'
  BY <1>1, <1>2, <1>3 DEF ProcInv, StageInv
<1> QED
  BY <1>4, <1>5, <1>6, <1>7, OneMoves DEF ProcInv

LEMMA ModuleInv ==
    ASSUME TypeOK, IInv, NEW p \in Proc, NEW m \in Module,
           onLoad(p, m) \/ preSpecialize(p, m) \/ postSpecialize(p, m)
    PROVE  IInv'
<1> USE DEF ModState
<1>1. CASE onLoad(p, m)
  <2>1. PICK opts \in SUBSET Option, v \in {"valid", "erased"} :
          setOption(p, m, opts) /\ modules' = [modules EXCEPT ![p][m] = v]
    BY <1>1 DEF onLoad, Option
  <2> QED
    BY <1>1, <2>1, CallbackInv DEF onLoad
<1>2. CASE preSpecialize(p, m)
  BY <1>2, CallbackInv DEF preSpecialize
<1>3. CASE postSpecialize(p, m)
  <2> DEFINE v == IF m \in unload'[p] THEN "closed" ELSE "post"
  <2>1. PICK opts \in SUBSET Option : setOption(p, m, opts)
    BY <1>3 DEF postSpecialize
  <2>2. /\ v \in ModState /\ modules' = [modules EXCEPT ![p][m] = v]
        /\ pc[p] = "post" /\ modules[p][m] # "absent" /\ Module_UNCHANGED
    BY <1>3 DEF postSpecialize
  <2> QED
    BY <2>1, <2>2, CallbackInv
<1> QED
  BY <1>1, <1>2, <1>3

\* Steps that move pc between the points of the original method.
LEMMA CallOriginalInv ==
    ASSUME TypeOK, IInv, NEW p \in Proc, CallOriginal(p)
    PROVE  IInv'
<1>1. /\ ProcInv(p) /\ pc[p] = "modules" /\ pc'[p] \in {"orig_fork", "orig_child"}
      /\ \A m \in Module : modules[p][m] \in {"absent", "pre", "erased"}
      /\ ~(pid[p] > 0)
      /\ UNCHANGED <<pid, ctxVars, osVars, hookVars>>
  BY DEF CallOriginal, IInv, Goto, TypeOK, ModState, ProcInv, StageInv, ParentInv
<1>2. \A q \in Proc \ {p} : Same(q)
  BY DEF CallOriginal, Goto, TypeOK, Same, ctxVars, osVars, hookVars
<1>3. ProcInv(p)'
  BY <1>1 DEF ProcInv, WindowInv, ParentInv, StageInv, SigchldInv, HookInv, MountInv,
     DeniedInv, Forks, ctxVars, osVars, hookVars
<1> QED
  BY <1>2, <1>3, OneMoves

LEMMA NewForkInv ==
    ASSUME TypeOK, IInv, NEW p \in Proc, new_fork(p)
    PROVE  IInv'
<1>1. pc[p] = "orig_fork" /\ ProcInv(p)
  BY DEF new_fork, IInv
<1>2. ASSUME UNCHANGED <<pid, ctxVars, osVars, hookVars>>,
             \/ Goto(p, "orig_parent")
             \/ Goto(p, "orig_child") /\ pid[p] = 0
      PROVE  IInv'
  <2>1. \A q \in Proc \ {p} : Same(q)
    BY <1>2 DEF Goto, TypeOK, Same, ctxVars, osVars, hookVars
  <2>2. pc'[p] \in {"orig_parent", "orig_child"} /\ (pc'[p] = "orig_child" => pid[p] = 0)
    BY <1>2 DEF Goto, TypeOK
  <2>3. ProcInv(p)'
    BY <1>1, <1>2, <2>2 DEF ProcInv, WindowInv, ParentInv, StageInv, SigchldInv, HookInv, MountInv,
       DeniedInv, Forks, ctxVars, osVars, hookVars
  <2> QED
    BY <2>1, <2>3, OneMoves
<1>3. ASSUME NEW c \in Child, old_fork(p, c), pid' = Inherit(pid, p, c), ~(pid[p] >= 0),
             pc' = [pc EXCEPT ![p] = "orig_parent", ![c] = "orig_child"]
      PROVE  IInv'
  <2>1. c \in Proc /\ c # p
    BY <1>1, <1>3, ForkCopies
  <2>2. /\ pc'[p] = "orig_parent" /\ pid'[p] = pid[p] /\ pc'[c] = "orig_child" /\ pid'[c] = pid[p]
        /\ \A q \in Proc \ {p, c} : pc'[q] = pc[q] /\ pid'[q] = pid[q]
    BY <1>3, <2>1 DEF TypeOK, Inherit
  <2>3. ~(pid[p] > 0)
    BY <1>3 DEF TypeOK
  <2>4. ASSUME NEW q \in {p, c} PROVE ProcInv(q)'
    <3>1. /\ q \in Proc /\ pc'[q] \in {"orig_parent", "orig_child"} /\ pid'[q] = pid[p]
          /\ g_ctx'[q] = g_ctx[p] /\ flags'[q] = flags[p] /\ info_flags'[q] = info_flags[p]
          /\ modules'[q] = modules[p] /\ unload'[q] = unload[p]
          /\ sigchld_blocked'[q] = sigchld_blocked[p] /\ mount'[q] = mount[p]
          /\ jni_hooked'[q] = jni_hooked[p] /\ unloader_hooked'[q] = unloader_hooked[p]
          /\ g_hook'[q] = g_hook[p]
      BY <1>3, <2>1, <2>2, ForkCopies
    <3>2. WindowInv(q)' /\ ParentInv(q)' /\ StageInv(q)' /\ SigchldInv(q)'
      BY <1>1, <2>3, <3>1 DEF ProcInv, WindowInv, ParentInv, StageInv, SigchldInv, Forks
    <3>3. HookInv(q)' /\ MountInv(q)' /\ DeniedInv(q)'
      BY <1>1, <2>3, <3>1 DEF ProcInv, HookInv, MountInv, DeniedInv
    <3> QED
      BY <3>2, <3>3 DEF ProcInv
  <2>6. ASSUME NEW q \in Proc \ {p, c} PROVE Same(q)
    <3>1. q \in Proc /\ q # c /\ pc'[q] = pc[q] /\ pid'[q] = pid[q]
      BY <2>2
    <3> QED
      BY <1>3, <3>1, ForkCopies DEF Same
  <2> QED
    BY <2>1, <2>4, <2>6, TwoMove
<1> QED
  <2>1. CASE g_ctx[p] /\ pid[p] >= 0
    BY <1>2, <2>1 DEF new_fork
  <2>2. CASE ~(g_ctx[p] /\ pid[p] >= 0)
    <3>1. ~(pid[p] >= 0)
      BY <1>1, <2>2 DEF ProcInv, WindowInv
    <3> QED
      BY <1>2, <1>3, <2>2, <3>1 DEF new_fork
  <2> QED
    BY <2>1, <2>2


LEMMA OriginalReturnsInv ==
    ASSUME TypeOK, IInv, NEW p \in Proc, OriginalReturns(p)
    PROVE  IInv'
<1>1. /\ ProcInv(p) /\ pc[p] \in {"orig_parent", "orig_child"}
      /\ g_ctx' = g_ctx /\ pid' = pid /\ info_flags' = info_flags /\ modules' = modules
      /\ unload' = unload /\ mount' = mount /\ UNCHANGED hookVars
  BY DEF OriginalReturns, IInv
<1>2. CASE is_child(p)
  <2>1. pc' = [pc EXCEPT ![p] = "post"] /\ sigchld_blocked' = sigchld_blocked
        /\ flags' = [flags EXCEPT ![p] = @ \cup {"POST_SPECIALIZE"}]
    BY <1>2 DEF OriginalReturns, Goto
  <2>2. \A q \in Proc \ {p} : Same(q)
    BY <1>1, <2>1 DEF TypeOK, Same, hookVars
  <2>3. pc'[p] = "post" /\ flags'[p] = flags[p] \cup {"POST_SPECIALIZE"} /\ ~(pid[p] > 0)
    BY <2>1, <1>2 DEF TypeOK, is_child
  <2>4. ProcInv(p)'
    BY <1>1, <2>1, <2>3 DEF ProcInv, WindowInv, ParentInv, StageInv, SigchldInv, HookInv,
       MountInv, DeniedInv, Forks, hookVars
  <2> QED
    BY <2>2, <2>4, OneMoves
<1>3. CASE ~is_child(p)
  <2>1. pc' = [pc EXCEPT ![p] = "dtor"] /\ flags' = flags /\ fork_post(p)
    BY <1>3 DEF OriginalReturns, Goto
  <2>2. \A q \in Proc \ {p} : Same(q)
    BY <1>1, <2>1 DEF TypeOK, Same, hookVars, fork_post
  <2>3. /\ pc'[p] = "dtor" /\ pid[p] > 0
        /\ sigchld_blocked'[p] = IF Forks(p) THEN FALSE ELSE sigchld_blocked[p]
    BY <2>1, <1>3 DEF TypeOK, is_child, fork_post
  <2>4. modules[p] = NoModules /\ \A m \in Module : modules[p][m] = "absent"
    BY <1>1, <2>3 DEF ProcInv, ParentInv, NoModules
  <2>5. WindowInv(p)' /\ ParentInv(p)' /\ StageInv(p)' /\ SigchldInv(p)'
    BY <1>1, <2>1, <2>3, <2>4 DEF ProcInv, WindowInv, ParentInv, StageInv, SigchldInv, Forks
  <2>6. HookInv(p)' /\ MountInv(p)' /\ DeniedInv(p)'
    BY <1>1, <2>1, <2>3 DEF ProcInv, HookInv, MountInv, DeniedInv, hookVars
  <2> QED
    BY <2>2, <2>5, <2>6, OneMoves DEF ProcInv
<1> QED
  BY <1>2, <1>3

LEMMA PostReturnsInv ==
    ASSUME TypeOK, IInv, NEW p \in Proc, PostReturns(p)
    PROVE  IInv'
<1>1. /\ ProcInv(p) /\ pc[p] = "post" /\ \A m \in Module : modules[p][m] # "pre"
      /\ pc' = [pc EXCEPT ![p] = "dtor"] /\ fork_post(p)
      /\ pid' = pid /\ mount' = mount /\ UNCHANGED <<ctxVars, hookVars>>
  BY DEF PostReturns, IInv, Goto
<1>2. \A q \in Proc \ {p} : Same(q)
  BY <1>1 DEF TypeOK, Same, ctxVars, hookVars, fork_post
<1>3. /\ pc'[p] = "dtor"
      /\ sigchld_blocked'[p] = IF Forks(p) THEN FALSE ELSE sigchld_blocked[p]
  BY <1>1 DEF TypeOK, fork_post
<1>4. WindowInv(p)' /\ ParentInv(p)' /\ StageInv(p)' /\ SigchldInv(p)'
  BY <1>1, <1>3 DEF ProcInv, WindowInv, ParentInv, StageInv, SigchldInv, Forks, ctxVars
<1>5. HookInv(p)' /\ MountInv(p)' /\ DeniedInv(p)'
  BY <1>1, <1>3 DEF ProcInv, ParentInv, HookInv, MountInv, DeniedInv, hookVars, ctxVars
<1> QED
  BY <1>2, <1>4, <1>5, OneMoves DEF ProcInv

LEMMA DestroyInv ==
    ASSUME TypeOK, IInv, NEW p \in Proc, DestroyContext(p)
    PROVE  IInv'
<1>1. /\ ProcInv(p) /\ pc[p] = "dtor" /\ pc'[p] = "java" /\ ~g_ctx'[p] /\ pid'[p] = -1
      /\ flags'[p] = {} /\ modules'[p] = NoModules /\ unload'[p] = {}
      /\ UNCHANGED <<osVars, g_hook>>
      /\ \A m \in Module : modules'[p][m] = "absent"
  BY DEF DestroyContext, IInv, Goto, TypeOK, NoModules
<1>2. \/ ~jni_hooked'[p] /\ pid[p] <= 0
      \/ pid[p] > 0 /\ UNCHANGED <<jni_hooked, unloader_hooked>>
  <2>1. CASE is_child(p)
    BY <2>1 DEF DestroyContext, restore_zygote_hook, TypeOK, is_child
  <2>2. CASE ~is_child(p)
    BY <2>2 DEF DestroyContext, TypeOK, is_child
  <2> QED
    BY <2>1, <2>2
<1>3. \A q \in Proc \ {p} : Same(q)
  <2>1. \A q \in Proc \ {p} : jni_hooked'[q] = jni_hooked[q] /\ unloader_hooked'[q] = unloader_hooked[q]
    BY DEF DestroyContext, restore_zygote_hook, hook_unloader, TypeOK
  <2> QED
    BY <2>1 DEF DestroyContext, Goto, TypeOK, Same, osVars
<1>4. WindowInv(p)' /\ ParentInv(p)' /\ StageInv(p)' /\ DeniedInv(p)'
  BY <1>1 DEF WindowInv, ParentInv, StageInv, DeniedInv
<1>5. ~sigchld_blocked[p] /\ jni_hooked[p] /\ ~unloader_hooked[p] /\ g_hook[p] # "unmapped"
      /\ (pid[p] > 0 => mount[p] = "shared")
  BY <1>1 DEF ProcInv, SigchldInv, HookInv, MountInv
<1>6. SigchldInv(p)' /\ HookInv(p)' /\ MountInv(p)'
  BY <1>1, <1>2, <1>5 DEF SigchldInv, HookInv, MountInv, osVars
<1> QED
  BY <1>3, <1>4, <1>6, OneMoves DEF ProcInv

LEMMA UnshareInv ==
    ASSUME TypeOK, IInv, NEW p \in Proc, new_unshare(p)
    PROVE  IInv'
<1>1. /\ ProcInv(p) /\ pc[p] = "orig_child" /\ UNCHANGED <<pc, pid, ctxVars, sigchld_blocked, hookVars>>
      /\ mount' = [mount EXCEPT ![p] =
           IF g_ctx[p] /\ "DO_REVERT_UNMOUNT" \in flags[p] THEN "reverted" ELSE "private"]
  BY DEF new_unshare, IInv
<1>2. \A q \in Proc \ {p} : Same(q)
  BY <1>1 DEF TypeOK, Same, ctxVars, hookVars
<1>3. "DO_REVERT_UNMOUNT" \in flags[p] => mount'[p] = "reverted"
  BY <1>1 DEF ProcInv, WindowInv, TypeOK
<1>4. ProcInv(p)'
  BY <1>1, <1>3 DEF ProcInv, WindowInv, ParentInv, StageInv, SigchldInv, HookInv,
     MountInv, DeniedInv, Forks, ctxVars, hookVars
<1> QED
  BY <1>2, <1>4, OneMoves

LEMMA UnloadInv ==
    ASSUME TypeOK, IInv, NEW p \in Proc, new_pthread_attr_destroy(p)
    PROVE  IInv'
<1>1. /\ ProcInv(p) /\ pc[p] = "java" /\ unloader_hooked[p]
      /\ UNCHANGED <<pc, pid, ctxVars, osVars, jni_hooked>>
  BY DEF new_pthread_attr_destroy, IInv
<1>2. \A q \in Proc \ {p} : unloader_hooked'[q] = unloader_hooked[q] /\ g_hook'[q] = g_hook[q]
  BY DEF new_pthread_attr_destroy, TypeOK
<1>3. g_hook'[p] = "unmapped" => ~unloader_hooked'[p]
  BY DEF new_pthread_attr_destroy, TypeOK
<1>4. \A q \in Proc \ {p} : Same(q)
  BY <1>1, <1>2 DEF Same, ctxVars, osVars
<1>5. ProcInv(p)'
  BY <1>1, <1>3 DEF ProcInv, WindowInv, ParentInv, StageInv, SigchldInv, HookInv,
     MountInv, DeniedInv, Forks, ctxVars, osVars
<1> QED
  BY <1>4, <1>5, OneMoves

LEMMA ForkUnhookedInv ==
    ASSUME TypeOK, IInv, NEW p \in Proc, ForkUnhooked(p)
    PROVE  IInv'
<1>1. PICK c \in Child : /\ old_fork(p, c)
                         /\ pc' = [pc EXCEPT ![c] = "java"]
                         /\ pid' = Inherit(pid, p, c)
  BY DEF ForkUnhooked
<1>2. c \in Proc /\ pc[p] = "java" /\ ProcInv(p)
  BY <1>1, ForkCopies DEF IInv, ForkUnhooked
<1>3. /\ pc'[c] = "java" /\ pid'[c] = pid[p]
      /\ g_ctx'[c] = g_ctx[p] /\ flags'[c] = flags[p] /\ info_flags'[c] = info_flags[p]
      /\ modules'[c] = modules[p] /\ unload'[c] = unload[p]
      /\ sigchld_blocked'[c] = sigchld_blocked[p] /\ mount'[c] = mount[p]
      /\ jni_hooked'[c] = jni_hooked[p] /\ unloader_hooked'[c] = unloader_hooked[p]
      /\ g_hook'[c] = g_hook[p]
  BY <1>1, <1>2, ForkCopies DEF TypeOK, Inherit
<1>4. ProcInv(c)'
  BY <1>2, <1>3 DEF ProcInv, WindowInv, ParentInv, StageInv, SigchldInv, HookInv,
     MountInv, DeniedInv, Forks
<1>5. ASSUME NEW q \in Proc \ {c} PROVE Same(q)
  <2>1. q \in Proc /\ q # c /\ pc'[q] = pc[q] /\ pid'[q] = pid[q]
    BY <1>1, <1>2 DEF TypeOK, Inherit
  <2> QED
    BY <1>1, <2>1, ForkCopies DEF Same
<1> QED
  BY <1>2, <1>4, <1>5, OneMoves

\* The inductive invariant holds in every state, whatever fails.
THEOREM IInvCorrect == Spec => []IInv
<1>1. Init => IInv
  BY DEF Init, IInv, ProcInv, WindowInv, ParentInv, StageInv, SigchldInv, HookInv, MountInv,
     DeniedInv, NoModules
<1>2. TypeOK /\ IInv /\ [Next]_vars => IInv'
  <2> SUFFICES ASSUME TypeOK, IInv, [Next]_vars PROVE IInv'
    OBVIOUS
  <2>1. CASE UNCHANGED vars
    BY <2>1, SameInv DEF vars, ctxVars, osVars, hookVars, IInv, Same
  <2>2. CASE Next
    BY <2>2, StepCases, ConstructInv, ForkPreInv, SpecializeInv, ModuleInv, CallOriginalInv,
       NewForkInv, OriginalReturnsInv, PostReturnsInv, DestroyInv, UnshareInv, UnloadInv,
       ForkUnhookedInv
  <2> QED
    BY <2>1, <2>2
<1> QED
  BY <1>1, <1>2, TypeCorrect, PTL DEF Spec

---------------------------------------------------------------------------
\* No app on the denylist sees a module or its mounts, even when forks and
\* commits fail.
THEOREM DeniedIsolatedCorrect == Spec => []DeniedIsolated
<1>1. IInv => DeniedIsolated
  BY DEF IInv, ProcInv, DeniedInv, DeniedIsolated
<1> QED
  BY <1>1, IInvCorrect, PTL

\* Every module that ran before the original method has run after it when the
\* context dies.
THEOREM PrePostPairedCorrect == Spec => []PrePostPaired
<1>1. IInv => PrePostPaired
  BY DEF IInv, ProcInv, StageInv, PrePostPaired
<1> QED
  BY <1>1, IInvCorrect, PTL

\* SIGCHLD is deliverable whenever a process is outside the replaced methods.
THEOREM SigchldRestoredCorrect == Spec => []SigchldRestored
<1>1. IInv => SigchldRestored
  BY DEF IInv, ProcInv, SigchldInv, SigchldRestored
<1> QED
  BY <1>1, IInvCorrect, PTL

\* Nothing that survives the unmapped library points into it.
THEOREM NothingDanglesCorrect == Spec => []NothingDangles
<1>1. IInv => NothingDangles
  BY DEF IInv, ProcInv, WindowInv, HookInv, NothingDangles
<1> QED
  BY <1>1, IInvCorrect, PTL


---------------------------------------------------------------------------
\* The rest assumes that no fork fails.  A step of p that leaves pc, pid,
\* forked and the flags of everybody else alone keeps their CachedInv.
SameResult(q) ==
    /\ pc'[q] = pc[q] /\ pid'[q] = pid[q] /\ forked'[q] = forked[q]
    /\ Forks(q)' <=> Forks(q)

LEMMA CachedFrame ==
    ASSUME NEW q \in Proc, CachedInv(q), SameResult(q) PROVE CachedInv(q)'
  BY DEF CachedInv, SameResult, Forks

LEMMA CachedStep ==
    ASSUME ~ForkMayFail, TypeOK, IInv, \A q \in Proc : CachedInv(q), [Next]_vars
    PROVE  \A q \in Proc : CachedInv(q)'
<1>1. ASSUME NEW p \in Proc, NEW fs \in {{"APP_FORK_AND_SPECIALIZE"}, {"SERVER_FORK_AND_SPECIALIZE"}},
             NativeForkPre(p, fs)
      PROVE  \A q \in Proc : CachedInv(q)'
  <2>1. /\ pc'[p] = "fork" /\ pid'[p] = -1 /\ forked'[p] = {}
        /\ \A q \in Proc \ {p} : SameResult(q)
    BY <1>1 DEF NativeForkPre, ConstructContext, Goto, TypeOK, SameResult, Forks
  <2>2. CachedInv(p)'
    BY <2>1 DEF CachedInv
  <2> QED
    BY <2>1, <2>2, CachedFrame
<1>2. ASSUME NEW p \in Proc, nativeSpecializeAppProcess_pre(p)
      PROVE  \A q \in Proc : CachedInv(q)'
  <2>1. /\ pc'[p] = "info" /\ pid'[p] = -1 /\ forked'[p] = {} /\ ~Forks(p)'
        /\ \A q \in Proc \ {p} : SameResult(q)
    BY <1>2 DEF nativeSpecializeAppProcess_pre, ConstructContext, Goto, TypeOK, SameResult, Forks
  <2>2. CachedInv(p)'
    BY <2>1 DEF CachedInv
  <2> QED
    BY <2>1, <2>2, CachedFrame
<1>3. ASSUME NEW p \in Proc, fork_pre(p) PROVE \A q \in Proc : CachedInv(q)'
  <2>1. PICK c \in Child :
            /\ old_fork(p, c)
            /\ pid' = [pid EXCEPT ![p] = c, ![c] = 0]
            /\ pc' = [pc EXCEPT ![p] = "orig_fork", ![c] = "info"]
            /\ forked' = [forked EXCEPT ![p] = {c}, ![c] = {}]
    BY <1>3 DEF fork_pre
  <2>2. c \in Proc /\ c # p /\ c \in Nat /\ c > 0
    BY <1>3, <2>1, ForkCopies, PidAssumption DEF fork_pre
  <2>3. /\ pc'[p] = "orig_fork" /\ pid'[p] = c /\ forked'[p] = {c}
        /\ pc'[c] = "info" /\ pid'[c] = 0 /\ forked'[c] = {}
    BY <2>1, <2>2 DEF TypeOK
  <2>4. ASSUME NEW q \in Proc \ {p, c} PROVE SameResult(q)
    <3>1. flags'[q] = flags[q]
      BY <2>1, ForkCopies
    <3> QED
      BY <2>1, <3>1 DEF TypeOK, SameResult, Forks
  <2>5. CachedInv(p)' /\ CachedInv(c)'
    BY <2>2, <2>3 DEF CachedInv
  <2> QED
    BY <2>2, <2>4, <2>5, CachedFrame
<1>4. ASSUME NEW p \in Proc, specialize_pre(p) PROVE \A q \in Proc : CachedInv(q)'
  <2>1. /\ pc[p] = "info" /\ pc'[p] = "modules" /\ pid' = pid /\ forked' = forked
        /\ \A q \in Proc : Forks(q)' <=> Forks(q)
        /\ \A q \in Proc \ {p} : SameResult(q)
    BY <1>4 DEF specialize_pre, Goto, TypeOK, SameResult, Forks
  <2> QED
    BY <2>1, CachedFrame DEF CachedInv
<1>5. ASSUME NEW p \in Proc, NEW m \in Module,
             onLoad(p, m) \/ preSpecialize(p, m) \/ postSpecialize(p, m)
      PROVE  \A q \in Proc : CachedInv(q)'
  <2>1. PICK opts \in SUBSET Option : setOption(p, m, opts)
    BY <1>5 DEF onLoad, preSpecialize, postSpecialize, Option
  <2>2. \A q \in Proc : SameResult(q)
    BY <1>5, <2>1 DEF onLoad, preSpecialize, postSpecialize, setOption, Module_UNCHANGED,
       TypeOK, SameResult, Forks
  <2> QED
    BY <2>2, CachedFrame
<1>6. ASSUME NEW p \in Proc, CallOriginal(p) PROVE \A q \in Proc : CachedInv(q)'
  <2>1. /\ pc[p] = "modules" /\ pid' = pid /\ forked' = forked /\ flags' = flags
        /\ pc'[p] = IF Forks(p) THEN "orig_fork" ELSE "orig_child"
        /\ \A q \in Proc \ {p} : SameResult(q)
    BY <1>6 DEF CallOriginal, Goto, TypeOK, SameResult, Forks, ctxVars
  <2>2. CachedInv(p)'
    BY <2>1 DEF CachedInv, TypeOK
  <2> QED
    BY <2>1, <2>2, CachedFrame
<1>7. ASSUME NEW p \in Proc, new_fork(p) PROVE \A q \in Proc : CachedInv(q)'
  <2>1. g_ctx[p] /\ pid[p] >= 0
    BY <1>7 DEF new_fork, IInv, ProcInv, WindowInv, CachedInv
  <2>2. /\ pid' = pid /\ forked' = forked /\ flags' = flags
        /\ pc'[p] \in {"orig_parent", "orig_child"}
        /\ \A q \in Proc \ {p} : SameResult(q)
    BY <1>7, <2>1 DEF new_fork, Goto, TypeOK, SameResult, Forks, ctxVars
  <2> QED
    BY <2>2, CachedFrame DEF CachedInv
<1>8. ASSUME NEW p \in Proc, OriginalReturns(p) \/ PostReturns(p)
      PROVE  \A q \in Proc : CachedInv(q)'
  <2>1. /\ pid' = pid /\ forked' = forked
        /\ \A q \in Proc : Forks(q)' <=> Forks(q)
    BY <1>8 DEF OriginalReturns, PostReturns, Forks, TypeOK, ctxVars
  <2>2. pc'[p] \in {"post", "dtor"} /\ \A q \in Proc \ {p} : pc'[q] = pc[q]
    BY <1>8 DEF OriginalReturns, PostReturns, Goto, TypeOK
  <2> QED
    BY <2>1, <2>2, CachedFrame DEF CachedInv, SameResult
<1>9. ASSUME NEW p \in Proc, DestroyContext(p) PROVE \A q \in Proc : CachedInv(q)'
  <2>1. /\ pc'[p] = "java" /\ pid'[p] = -1 /\ forked'[p] = {}
        /\ \A q \in Proc \ {p} : SameResult(q)
    BY <1>9 DEF DestroyContext, Goto, TypeOK, SameResult, Forks
  <2>2. CachedInv(p)'
    BY <2>1 DEF CachedInv
  <2> QED
    BY <2>1, <2>2, CachedFrame
<1>10. ASSUME NEW p \in Proc, new_unshare(p) \/ new_pthread_attr_destroy(p)
       PROVE  \A q \in Proc : CachedInv(q)'
  <2>1. \A q \in Proc : SameResult(q)
    BY <1>10 DEF new_unshare, new_pthread_attr_destroy, SameResult, Forks, ctxVars
  <2> QED
    BY <2>1, CachedFrame
<1>11. ASSUME NEW p \in Proc, ForkUnhooked(p) PROVE \A q \in Proc : CachedInv(q)'
  <2>1. PICK c \in Child : /\ old_fork(p, c)
                           /\ pc' = [pc EXCEPT ![c] = "java"]
                           /\ pid' = Inherit(pid, p, c)
    BY <1>11 DEF ForkUnhooked
  <2>2. c \in Proc /\ pc[p] = "java" /\ pc[c] = "unborn" /\ forked' = forked
    BY <1>11, <2>1, ForkCopies DEF ForkUnhooked
  <2>3. ~(pid[p] > 0) /\ ~(pid[c] > 0) /\ forked[c] = {}
    BY <2>2 DEF IInv, ProcInv, ParentInv, CachedInv
  <2>4. CachedInv(c)'
    BY <2>1, <2>2, <2>3 DEF CachedInv, Inherit, TypeOK
  <2>5. ASSUME NEW q \in Proc \ {c} PROVE SameResult(q)
    <3>1. flags'[q] = flags[q]
      BY <2>1, ForkCopies
    <3> QED
      BY <2>1, <2>2, <3>1 DEF TypeOK, SameResult, Forks, Inherit
  <2> QED
    BY <2>4, <2>5, CachedFrame
<1>12. CASE UNCHANGED vars
  BY <1>12, CachedFrame DEF vars, ctxVars, SameResult, Forks
<1>13. CASE Next
  BY <1>13, <1>1, <1>2, <1>3, <1>4, <1>5, <1>6, <1>7, <1>8, <1>9, <1>10, <1>11
     DEF Next, Step, InCall, nativeForkAndSpecialize_pre, nativeForkSystemServer_pre
<1> QED
  BY <1>12, <1>13


\* A step that leaves the zygote's part of the state alone.
LEMMA ZygoteFrame ==
    ASSUME ZygoteInv, Same(Zygote), should_unmap'[Zygote] = should_unmap[Zygote]
    PROVE  ZygoteInv'
  BY DEF ZygoteInv, ZygotePristine, Same, NoModules

LEMMA ZygoteStep ==
    ASSUME ~ForkMayFail, TypeOK, IInv, NoFailInv, [Next]_vars
    PROVE  ZygoteInv'
<1> USE PidAssumption DEF Proc
<1>0. ZygoteInv /\ ProcInv(Zygote) /\ Zygote \in Proc
  BY DEF NoFailInv, IInv
<1>1. ASSUME NEW p \in Proc, NEW fs \in {{"APP_FORK_AND_SPECIALIZE"}, {"SERVER_FORK_AND_SPECIALIZE"}},
             NativeForkPre(p, fs)
      PROVE  ZygoteInv'
  BY <1>0, <1>1 DEF NativeForkPre, ConstructContext, Goto, TypeOK, ZygoteInv, ZygotePristine,
     hookVars, NoModules
<1>2. ASSUME NEW p \in Proc, nativeSpecializeAppProcess_pre(p) PROVE ZygoteInv'
  BY <1>0, <1>2, ZygoteFrame DEF nativeSpecializeAppProcess_pre, ConstructContext, Goto, TypeOK, Same,
     osVars, hookVars
<1>3. ASSUME NEW p \in Proc, fork_pre(p) PROVE ZygoteInv'
  <2>1. PICK c \in Child :
            /\ old_fork(p, c)
            /\ pid' = [pid EXCEPT ![p] = c, ![c] = 0]
            /\ pc' = [pc EXCEPT ![p] = "orig_fork", ![c] = "info"]
    BY <1>3 DEF fork_pre
  <2>2. Zygote # c /\ c > 0 /\ should_unmap'[Zygote] = should_unmap[Zygote]
    BY <2>1 DEF old_fork, Inherit, TypeOK
  <2>3. CASE p = Zygote
    <3>1. pc'[Zygote] = "orig_fork" /\ pid'[Zygote] = c
      BY <2>1, <2>2, <2>3 DEF TypeOK
    <3> QED
      BY <1>0, <2>1, <2>2, <3>1, ForkCopies DEF ZygoteInv, ZygotePristine, NoModules
  <2>4. CASE p # Zygote
    <3>1. pc'[Zygote] = pc[Zygote] /\ pid'[Zygote] = pid[Zygote]
      BY <2>1, <2>2, <2>4 DEF TypeOK
    <3>2. Same(Zygote)
      BY <1>0, <2>1, <2>2, <3>1, ForkCopies DEF Same
    <3> QED
      BY <1>0, <2>2, <3>2, ZygoteFrame
  <2> QED
    BY <2>3, <2>4
<1>4. ASSUME NEW p \in Proc,
             \/ specialize_pre(p)
             \/ \E m \in Module : onLoad(p, m) \/ preSpecialize(p, m) \/ postSpecialize(p, m)
             \/ CallOriginal(p)
             \/ PostReturns(p)
             \/ new_unshare(p)
             \/ new_pthread_attr_destroy(p)
      PROVE  ZygoteInv'
  <2>1. p # Zygote
    BY <1>0, <1>4 DEF specialize_pre, onLoad, preSpecialize, postSpecialize, CallOriginal,
       PostReturns, new_unshare, new_pthread_attr_destroy, ZygoteInv
  <2>2. Same(Zygote) /\ should_unmap'[Zygote] = should_unmap[Zygote]
    <3>1. CASE specialize_pre(p)
      BY <1>0, <2>1, <3>1 DEF specialize_pre, Goto, TypeOK, Same, osVars, hookVars
    <3>2. ASSUME NEW m \in Module, onLoad(p, m) \/ preSpecialize(p, m) \/ postSpecialize(p, m)
          PROVE  Same(Zygote) /\ should_unmap'[Zygote] = should_unmap[Zygote]
      <4>1. PICK opts \in SUBSET Option : setOption(p, m, opts)
        BY <3>2 DEF onLoad, preSpecialize, postSpecialize, Option
      <4>2. modules'[Zygote] = modules[Zygote] /\ Module_UNCHANGED
        BY <1>0, <2>1, <3>2 DEF onLoad, preSpecialize, postSpecialize, TypeOK
      <4> QED
        BY <1>0, <2>1, <4>1, <4>2 DEF setOption, Module_UNCHANGED, TypeOK, Same, osVars, hookVars
    <3>3. CASE CallOriginal(p) \/ PostReturns(p)
      BY <1>0, <2>1, <3>3 DEF CallOriginal, PostReturns, fork_post, Goto, TypeOK, Same,
         ctxVars, osVars, hookVars
    <3>4. CASE new_unshare(p)
      BY <1>0, <2>1, <3>4 DEF new_unshare, TypeOK, Same, ctxVars, hookVars
    <3>5. CASE new_pthread_attr_destroy(p)
      BY <1>0, <2>1, <3>5 DEF new_pthread_attr_destroy, TypeOK, Same, ctxVars, osVars
    <3> QED
      BY <1>4, <3>1, <3>2, <3>3, <3>4, <3>5
  <2> QED
    BY <1>0, <2>2, ZygoteFrame
<1>5. ASSUME NEW p \in Proc, new_fork(p) PROVE ZygoteInv'
  <2>1. g_ctx[p] /\ pid[p] >= 0
    BY <1>5 DEF new_fork, IInv, ProcInv, WindowInv, CachedInv, NoFailInv
  <2>2. UNCHANGED <<pid, forked, ctxVars, osVars, hookVars>>
        /\ pc' = [pc EXCEPT ![p] = IF pid[p] = 0 THEN "orig_child" ELSE "orig_parent"]
    BY <1>5, <2>1 DEF new_fork, Goto
  <2>3. CASE p = Zygote
    <3>1. pc'[Zygote] = "orig_parent"
      BY <1>0, <1>5, <2>2, <2>3 DEF new_fork, ZygoteInv, TypeOK
    <3> QED
      BY <1>0, <1>5, <2>2, <2>3, <3>1 DEF new_fork, ZygoteInv, ZygotePristine, NoModules, ctxVars, osVars, hookVars
  <2>4. CASE p # Zygote
    BY <1>0, <2>2, <2>4, ZygoteFrame DEF Same, TypeOK, ctxVars, osVars, hookVars
  <2> QED
    BY <2>3, <2>4
<1>6. ASSUME NEW p \in Proc, OriginalReturns(p) PROVE ZygoteInv'
  <2>1. CASE p = Zygote
    <3>1. ~is_child(p)
      BY <1>0, <1>6, <2>1 DEF OriginalReturns, ZygoteInv, is_child, TypeOK
    <3>2. /\ pc'[Zygote] = "dtor" /\ pid' = pid /\ pid[Zygote] > 0 /\ modules' = modules
          /\ flags' = flags /\ mount' = mount /\ UNCHANGED hookVars
      BY <1>0, <1>6, <2>1, <3>1 DEF OriginalReturns, Goto, TypeOK, ZygoteInv
    <3> QED
      BY <1>0, <3>2 DEF ZygoteInv, ZygotePristine, NoModules, hookVars
  <2>2. CASE p # Zygote
    <3>1. flags'[Zygote] = flags[Zygote] /\ pc'[Zygote] = pc[Zygote]
          /\ sigchld_blocked'[Zygote] = sigchld_blocked[Zygote]
      BY <1>0, <1>6, <2>2 DEF OriginalReturns, fork_post, Goto, TypeOK
    <3> QED
      BY <1>0, <1>6, <3>1, ZygoteFrame DEF OriginalReturns, Same, hookVars
  <2> QED
    BY <2>1, <2>2
<1>7. ASSUME NEW p \in Proc, DestroyContext(p) PROVE ZygoteInv'
  <2>1. CASE p = Zygote
    <3>1. ~is_child(p)
      BY <1>0, <1>7, <2>1 DEF DestroyContext, ZygoteInv, is_child, TypeOK
    <3>2. /\ pc'[Zygote] = "java" /\ modules'[Zygote] = NoModules /\ flags'[Zygote] = {}
          /\ UNCHANGED <<mount, should_unmap, jni_hooked, unloader_hooked, g_hook>>
      BY <1>0, <1>7, <2>1, <3>1 DEF DestroyContext, Goto, TypeOK, osVars
    <3> QED
      BY <1>0, <3>2 DEF ZygoteInv, ZygotePristine, NoModules
  <2>2. CASE p # Zygote
    <3>1. /\ jni_hooked'[Zygote] = jni_hooked[Zygote] /\ should_unmap'[Zygote] = should_unmap[Zygote]
          /\ unloader_hooked'[Zygote] = unloader_hooked[Zygote]
      BY <1>0, <1>7, <2>2 DEF DestroyContext, restore_zygote_hook, hook_unloader, TypeOK
    <3>2. Same(Zygote)
      BY <1>0, <1>7, <2>2, <3>1 DEF DestroyContext, Goto, TypeOK, Same, osVars
    <3> QED
      BY <1>0, <3>1, <3>2, ZygoteFrame
  <2> QED
    BY <2>1, <2>2
<1>8. ASSUME NEW p \in Proc, ForkUnhooked(p) PROVE ZygoteInv'
  <2>1. PICK c \in Child : /\ old_fork(p, c)
                           /\ pc' = [pc EXCEPT ![c] = "java"]
                           /\ pid' = Inherit(pid, p, c)
    BY <1>8 DEF ForkUnhooked
  <2>2. /\ c # Zygote /\ pc'[Zygote] = pc[Zygote] /\ pid'[Zygote] = pid[Zygote]
        /\ should_unmap'[Zygote] = should_unmap[Zygote]
    BY <2>1 DEF old_fork, Inherit, TypeOK
  <2>3. Same(Zygote)
    <3>1. /\ g_ctx'[Zygote] = g_ctx[Zygote] /\ flags'[Zygote] = flags[Zygote]
          /\ info_flags'[Zygote] = info_flags[Zygote] /\ modules'[Zygote] = modules[Zygote]
          /\ unload'[Zygote] = unload[Zygote]
          /\ sigchld_blocked'[Zygote] = sigchld_blocked[Zygote]
          /\ mount'[Zygote] = mount[Zygote] /\ jni_hooked'[Zygote] = jni_hooked[Zygote]
          /\ unloader_hooked'[Zygote] = unloader_hooked[Zygote]
          /\ g_hook'[Zygote] = g_hook[Zygote]
      BY <1>0, <2>1, <2>2, ForkCopies
    <3> QED
      BY <2>2, <3>1 DEF Same
  <2> QED
    BY <1>0, <2>2, <2>3, ZygoteFrame
<1>9. CASE UNCHANGED vars
  BY <1>0, <1>9, ZygoteFrame DEF vars, ctxVars, osVars, hookVars, Same
<1>10. CASE Next
  BY <1>10, <1>1, <1>2, <1>3, <1>4, <1>5, <1>6, <1>7, <1>8
     DEF Next, Step, InCall, nativeForkAndSpecialize_pre, nativeForkSystemServer_pre
<1> QED
  BY <1>9, <1>10

\* The invariant of the runs without a failed fork.
THEOREM NoFailInvCorrect == ASSUME ~ForkMayFail PROVE Spec => []NoFailInv
<1>1. Init => NoFailInv
  <2> SUFFICES ASSUME Init PROVE ZygoteInv /\ \A p \in Proc : CachedInv(p)
    BY DEF NoFailInv
  <2>1. ZygoteInv
    BY DEF Init, ZygoteInv, ZygotePristine, NoModules, Proc
  <2>2. ASSUME NEW p \in Proc PROVE CachedInv(p)
    BY DEF Init, CachedInv
  <2> QED
    BY <2>1, <2>2
<1>2. TypeOK /\ IInv /\ NoFailInv /\ [Next]_vars => NoFailInv'
  BY CachedStep, ZygoteStep DEF NoFailInv
<1> QED
  BY <1>1, <1>2, TypeCorrect, IInvCorrect, PTL DEF Spec

\* If no fork fails, the zygote never hosts a module, never leaves its mount
\* namespace and is never unhooked.
THEOREM ZygotePristineCorrect == ASSUME ~ForkMayFail PROVE Spec => []ZygotePristine
<1>1. NoFailInv => ZygotePristine
  BY DEF NoFailInv, ZygoteInv
<1> QED
  BY <1>1, NoFailInvCorrect, PTL

\* If no fork fails, the pid returned to Java is the one child of the call.
THEOREM ReturnedPidCorrect == ASSUME ~ForkMayFail PROVE Spec => []ReturnedPidIsTheChild
<1>1. NoFailInv => ReturnedPidIsTheChild
  BY DEF NoFailInv, CachedInv, ReturnedPidIsTheChild
<1> QED
  BY <1>1, NoFailInvCorrect, PTL

-----------------------------------------------------------------------------
(***************************************************************************)
(* If no fork fails, ZygiskContext implements Injection: each step is one  *)
(* of Injection's, or changes neither the phase nor the pending modules of *)
(* any process.                                                            *)
(***************************************************************************)
APhase == [p \in Proc |-> Phase(p)]
APending == [p \in Proc |-> Pending(p)]

\* What Injection sees of process q stays as it is.
Unseen(q) == Phase(q)' = Phase(q) /\ Pending(q)' = Pending(q)

\* The phases, one by one, in a state and in the next.
LEMMA PhaseIs ==
    ASSUME NEW p \in Proc
    PROVE  /\ pc[p] = "unborn" => Phase(p) = "absent"
           /\ pc[p] # "unborn" /\ g_hook[p] = "unmapped" => Phase(p) = "gone"
           /\ pc[p] # "unborn" /\ g_hook[p] # "unmapped" /\ ~jni_hooked[p] =>
                Phase(p) = "leaving"
           /\ pc[p] # "unborn" /\ g_hook[p] # "unmapped" /\ jni_hooked[p] =>
                Phase(p) = IF Hosting(p) THEN "hosting" ELSE "armed"
  BY DEF Phase

LEMMA PhaseBecomes ==
    ASSUME NEW p \in Proc
    PROVE  /\ pc'[p] # "unborn" /\ g_hook'[p] = "unmapped" => Phase(p)' = "gone"
           /\ pc'[p] # "unborn" /\ g_hook'[p] # "unmapped" /\ ~jni_hooked'[p] =>
                Phase(p)' = "leaving"
           /\ pc'[p] # "unborn" /\ g_hook'[p] # "unmapped" /\ jni_hooked'[p] =>
                Phase(p)' = IF Hosting(p)' THEN "hosting" ELSE "armed"
  BY DEF Phase

\* A process that a step leaves alone.
LEMMA SameUnseen == ASSUME NEW q \in Proc, Same(q) PROVE Unseen(q)
  BY DEF Same, Unseen, Phase, Pending, Hosting, is_child

\* A step that Injection does not see, and one in which it sees p alone move.
LEMMA Stutters ==
    ASSUME \A q \in Proc : Unseen(q)
    PROVE  UNCHANGED Abstract!vars
  BY DEF Unseen, Abstract!vars

LEMMA AloneUnseen ==
    ASSUME NEW p \in Proc, \A q \in Proc \ {p} : Same(q), Unseen(p)
    PROVE  UNCHANGED Abstract!vars
  BY SameUnseen, Stutters

LEMMA Moves ==
    ASSUME NEW p \in Proc, \A q \in Proc \ {p} : Same(q)
    PROVE  /\ APhase' = [APhase EXCEPT ![p] = Phase(p)']
           /\ APending' = [APending EXCEPT ![p] = Pending(p)']
<1>1. \A q \in Proc \ {p} : Phase(q)' = Phase(q) /\ Pending(q)' = Pending(q)
  BY SameUnseen DEF Unseen
<1> QED
  BY <1>1 DEF APhase, APending

\* A process in a replaced method is not unhooked, and it hosts modules if it
\* is not the parent and past specialize_pre.
LEMMA InMethod ==
    ASSUME IInv, NEW p \in Proc, pc[p] \notin {"unborn", "java"}
    PROVE  /\ g_ctx[p] /\ jni_hooked[p] /\ g_hook[p] # "unmapped"
           /\ Phase(p) = IF pid[p] <= 0 /\ pc[p] \notin {"fork", "info"}
                         THEN "hosting" ELSE "armed"
<1>1. g_ctx[p] /\ jni_hooked[p] /\ g_hook[p] # "unmapped"
  BY DEF IInv, ProcInv, WindowInv, HookInv
<1> QED
  BY <1>1, PhaseIs DEF Hosting, is_child

LEMMA InMethodNext ==
    ASSUME IInv', NEW p \in Proc, pc'[p] \notin {"unborn", "java"}
    PROVE  Phase(p)' = IF pid'[p] <= 0 /\ pc'[p] \notin {"fork", "info"}
                       THEN "hosting" ELSE "armed"
<1>1. g_ctx'[p] /\ jni_hooked'[p] /\ g_hook'[p] # "unmapped"
  BY DEF IInv, ProcInv, WindowInv, HookInv
<1> QED
  BY <1>1, PhaseBecomes DEF Hosting, is_child

\* Before specialize_pre, after the method and in a parent no module is pending.
LEMMA NoPending ==
    /\ \A p \in Proc : modules[p] = NoModules => Pending(p) = {}
    /\ \A p \in Proc : modules'[p] = NoModules => Pending(p)' = {}
  BY DEF Pending, NoModules

\* Outside a replaced method a process does not host.
LEMMA InJava ==
    ASSUME IInv, NEW p \in Proc, pc[p] = "java"
    PROVE  /\ modules[p] = NoModules /\ ~g_ctx[p]
           /\ Phase(p) \in {"armed", "leaving", "gone"}
           /\ jni_hooked[p] => Phase(p) = "armed"
<1>1. modules[p] = NoModules /\ ~g_ctx[p] /\ (g_hook[p] = "unmapped" => ~jni_hooked[p])
  BY DEF IInv, ProcInv, WindowInv, HookInv
<1> QED
  BY <1>1, PhaseIs DEF Hosting

---------------------------------------------------------------------------
\* What Injection sees of a step.
Seen == [Abstract!Next]_(Abstract!vars)

LEMMA ConstructSeen ==
    ASSUME TypeOK, IInv, IInv', NEW p \in Proc,
           \/ nativeForkAndSpecialize_pre(p)
           \/ nativeForkSystemServer_pre(p)
           \/ nativeSpecializeAppProcess_pre(p)
    PROVE  Seen
<1>1. PICK fs \in { {"APP_FORK_AND_SPECIALIZE"}, {"SERVER_FORK_AND_SPECIALIZE"},
                    {"SKIP_CLOSE_LOG_PIPE"} } : ConstructContext(p, fs)
  BY DEF nativeForkAndSpecialize_pre, nativeForkSystemServer_pre, NativeForkPre,
     nativeSpecializeAppProcess_pre
<1>2. /\ pc'[p] \in {"fork", "info"}
      /\ mount' = mount
      /\ \A q \in Proc \ {p} : pc'[q] = pc[q] /\ sigchld_blocked'[q] = sigchld_blocked[q]
  BY DEF nativeForkAndSpecialize_pre, nativeForkSystemServer_pre, NativeForkPre,
     nativeSpecializeAppProcess_pre, Goto, osVars, TypeOK
<1>3. \A q \in Proc \ {p} : Same(q)
  BY <1>1, <1>2 DEF ConstructContext, TypeOK, Same, hookVars
<1>4. /\ pc[p] = "java" /\ jni_hooked[p]
      /\ modules'[p] = NoModules
  BY <1>1 DEF ConstructContext, TypeOK
<1>5. Phase(p) = "armed" /\ Phase(p)' = "armed"
  BY <1>2, <1>4, InJava, InMethodNext
<1>6. Pending(p) = {} /\ Pending(p)' = {}
  BY <1>4, InJava, NoPending
<1> QED
  BY <1>3, <1>5, <1>6, AloneUnseen DEF Seen, Unseen

\* A fork by a process that does not host, after which it hosts as little and
\* its child c is in its phase.
LEMMA ForkSeen ==
    ASSUME NEW p \in Proc, NEW c \in Proc, \A q \in Proc \ {p, c} : Same(q),
           Unseen(p), Phase(p) \in {"armed", "leaving", "gone"},
           Phase(c) = "absent", Phase(c)' = Phase(p), Pending(c)' = Pending(c)
    PROVE  Seen
<1>1. \A q \in Proc \ {c} : Phase(q)' = Phase(q) /\ Pending(q)' = Pending(q)
  BY SameUnseen DEF Unseen
<1>2. APhase' = [APhase EXCEPT ![c] = APhase[p]] /\ APending' = APending
  BY <1>1 DEF APhase, APending
<1>3. APhase[p] \in {"armed", "leaving", "gone"} /\ APhase[c] = "absent"
  BY DEF APhase
<1>4. Abstract!Fork(p, c)
  BY <1>2, <1>3 DEF Abstract!Fork, APhase, APending
<1> QED
  BY <1>4 DEF Seen, Abstract!Next

LEMMA ForkPreSeen ==
    ASSUME ~ForkMayFail, TypeOK, IInv, IInv', NEW p \in Proc, fork_pre(p)
    PROVE  Seen
<1>1. PICK c \in Child :
        /\ old_fork(p, c)
        /\ pid' = [pid EXCEPT ![p] = c, ![c] = 0]
        /\ pc' = [pc EXCEPT ![p] = "orig_fork", ![c] = "info"]
  BY DEF fork_pre
<1>2. pc[p] = "fork" /\ modules[p] = NoModules
  BY DEF fork_pre, IInv, ProcInv, WindowInv
<1>3. c \in Proc /\ pc[c] = "unborn" /\ c # p
      /\ c \in Int /\ ~(c <= 0)
  BY <1>1, <1>2, ForkCopies, PidAssumption
<1>4. /\ pc'[p] = "orig_fork" /\ pid'[p] = c /\ pc'[c] = "info" /\ pid'[c] = 0
      /\ \A q \in Proc \ {p, c} : pc'[q] = pc[q] /\ pid'[q] = pid[q]
  BY <1>1, <1>3 DEF TypeOK
<1>5. modules[c] = NoModules /\ modules'[c] = NoModules /\ modules'[p] = NoModules
  BY <1>1, <1>2, <1>3, ForkCopies DEF IInv, ProcInv, WindowInv
<1>6. ASSUME NEW q \in Proc \ {p, c} PROVE Same(q)
  <2>1. q \in Proc /\ q # c /\ pc'[q] = pc[q] /\ pid'[q] = pid[q]
    BY <1>4
  <2> QED
    BY <1>1, <2>1, ForkCopies DEF Same
<1>7. Phase(p) = "armed" /\ Phase(p)' = "armed" /\ Phase(c)' = "armed" /\ Phase(c) = "absent"
  <2>1. Phase(p) = "armed"
    BY <1>2, InMethod
  <2>2. Phase(p)' = "armed"
    <3>1. ~(pid'[p] <= 0) /\ pc'[p] \notin {"unborn", "java"}
      BY <1>3, <1>4
    <3> QED
      BY <3>1, InMethodNext
  <2>3. Phase(c)' = "armed"
    BY <1>3, <1>4, InMethodNext
  <2> QED
    BY <2>1, <2>2, <2>3, <1>3, PhaseIs
<1>8. Pending(p) = {} /\ Pending(p)' = {} /\ Pending(c) = {} /\ Pending(c)' = {}
  BY <1>2, <1>3, <1>5, NoPending
<1> QED
  BY <1>3, <1>6, <1>7, <1>8, ForkSeen DEF Unseen

LEMMA ForkUnhookedSeen ==
    ASSUME TypeOK, IInv, IInv', NEW p \in Proc, ForkUnhooked(p)
    PROVE  Seen
<1>1. PICK c \in Child : /\ old_fork(p, c)
                         /\ pc' = [pc EXCEPT ![c] = "java"]
                         /\ pid' = Inherit(pid, p, c)
  BY DEF ForkUnhooked
<1>2. c \in Proc /\ pc[p] = "java" /\ pc[c] = "unborn" /\ c # p
  BY <1>1, ForkCopies DEF ForkUnhooked
<1>3. modules[p] = NoModules /\ ~g_ctx[p] /\ Phase(p) \in {"armed", "leaving", "gone"}
  BY <1>2, InJava
<1>4. ASSUME NEW q \in Proc \ {c} PROVE Same(q)
  <2>1. q \in Proc /\ q # c /\ pc'[q] = pc[q] /\ pid'[q] = pid[q]
    BY <1>1, <1>2 DEF TypeOK, Inherit
  <2> QED
    BY <1>1, <2>1, ForkCopies DEF Same
<1>5. /\ pc'[c] = "java" /\ ~g_ctx'[c] /\ modules'[c] = NoModules
      /\ jni_hooked'[c] = jni_hooked[p] /\ g_hook'[c] = g_hook[p]
  BY <1>1, <1>2, <1>3, ForkCopies DEF TypeOK
<1>6. Phase(c) = "absent" /\ Phase(c)' = Phase(p)
  <2>1. ~Hosting(c)' /\ ~Hosting(p)
    BY <1>3, <1>5 DEF Hosting
  <2> QED
    BY <1>2, <1>5, <2>1, PhaseIs, PhaseBecomes
<1>7. Pending(c) = {} /\ Pending(c)' = {}
  BY <1>2, <1>5, NoPending DEF IInv, ProcInv, WindowInv
<1>8. Unseen(p)
  BY <1>2, <1>4, SameUnseen
<1> QED
  BY <1>2, <1>3, <1>4, <1>6, <1>7, <1>8, ForkSeen

\* The child, or a process that never forked.
LEMMA NotParent ==
    ASSUME TypeOK, IInv, NEW p \in Proc, pc[p] \in {"info", "modules", "post"}
    PROVE  pid[p] <= 0
<1>1. ParentInv(p) /\ pid[p] \in Int
  BY DEF IInv, ProcInv, TypeOK
<1>2. ~(pid[p] > 0)
  BY <1>1 DEF ParentInv
<1> QED
  BY <1>1, <1>2

LEMMA SpecializeSeen ==
    ASSUME TypeOK, IInv, IInv', ZygoteInv, NEW p \in Proc, specialize_pre(p)
    PROVE  Seen
<1>1. /\ pc[p] = "info" /\ pc'[p] = "modules" /\ pid' = pid
      /\ \A q \in Proc \ {p} : Same(q)
  BY DEF specialize_pre, Goto, osVars, hookVars, TypeOK, Same
<1>2. p # Zygote /\ pid[p] <= 0
  BY <1>1, NotParent DEF ZygoteInv
<1>3. Phase(p) = "armed" /\ Phase(p)' = "hosting"
  BY <1>1, <1>2, InMethod, InMethodNext
<1>4. Pending(p)' \in SUBSET Module
  BY DEF Pending
<1>5. Abstract!Host(p, Pending(p)')
  BY <1>1, <1>2, <1>3, Moves DEF Abstract!Host, APhase, APending
<1> QED
  BY <1>4, <1>5 DEF Seen, Abstract!Next

\* A callback of module m, run in the child: it is not its last, or m is
\* dismissed.
LEMMA CallbackSeen ==
    ASSUME TypeOK, IInv, IInv', NEW p \in Proc, NEW m \in Module,
           pc[p] \in {"modules", "post"}, pc' = pc, pid' = pid,
           \A q \in Proc \ {p} : Same(q),
           \A n \in Module \ {m} : modules'[p][n] = modules[p][n],
           modules[p][m] \in {"loaded", "valid", "pre"}
    PROVE  Seen
<1>0. pid[p] <= 0 /\ pc'[p] = pc[p] /\ pid'[p] = pid[p]
  BY NotParent
<1>1. Phase(p)' = Phase(p) /\ Phase(p) = "hosting"
  BY <1>0, InMethod, InMethodNext
<1>2. CASE modules'[p][m] \notin {"loaded", "valid", "pre"}
  <2>1. Pending(p)' = Pending(p) \ {m}
    BY <1>2 DEF Pending
  <2>2. m \in Pending(p)
    BY DEF Pending
  <2>3. Abstract!Dismiss(p, m)
    BY <1>1, <2>1, <2>2, Moves DEF Abstract!Dismiss, APhase, APending
  <2> QED
    BY <2>3 DEF Seen, Abstract!Next
<1>3. CASE modules'[p][m] \in {"loaded", "valid", "pre"}
  <2>1. Pending(p)' = Pending(p)
    BY <1>3 DEF Pending
  <2> QED
    BY <1>1, <2>1, AloneUnseen DEF Seen, Unseen
<1> QED
  BY <1>2, <1>3

LEMMA ModuleSeen ==
    ASSUME TypeOK, IInv, IInv', NEW p \in Proc, NEW m \in Module,
           onLoad(p, m) \/ preSpecialize(p, m) \/ postSpecialize(p, m)
    PROVE  Seen
<1>1. /\ pc[p] \in {"modules", "post"} /\ Module_UNCHANGED
      /\ modules[p][m] \in {"loaded", "valid", "pre"}
  BY DEF onLoad, preSpecialize, postSpecialize
<1>2. PICK s \in ModState : modules' = [modules EXCEPT ![p][m] = s]
  BY DEF onLoad, preSpecialize, postSpecialize, ModState
<1>3. \A q \in Proc \ {p} : flags'[q] = flags[q] /\ unload'[q] = unload[q]
  BY DEF onLoad, preSpecialize, postSpecialize, setOption, TypeOK
<1>4. \A q \in Proc \ {p} : Same(q)
  BY <1>1, <1>2, <1>3 DEF Module_UNCHANGED, osVars, hookVars, Same, TypeOK
<1>5. \A n \in Module \ {m} : modules'[p][n] = modules[p][n]
  BY <1>2 DEF TypeOK
<1>6. pc' = pc /\ pid' = pid
  BY <1>1 DEF Module_UNCHANGED
<1> QED
  BY <1>1, <1>4, <1>5, <1>6, CallbackSeen

\* Steps inside the method that change neither the fork result nor a module.
LEMMA InsideSeen ==
    ASSUME TypeOK, IInv, IInv', NEW p \in Proc, \A q \in Proc \ {p} : Same(q),
           pc[p] \notin {"unborn", "java", "fork", "info"},
           pc'[p] \notin {"unborn", "java", "fork", "info"},
           pid' = pid, modules' = modules
    PROVE  Seen
<1>1. Phase(p)' = Phase(p)
  BY InMethod, InMethodNext
<1>2. Pending(p)' = Pending(p)
  BY DEF Pending
<1> QED
  BY <1>1, <1>2, AloneUnseen DEF Seen, Unseen

LEMMA CallOriginalSeen ==
    ASSUME TypeOK, IInv, IInv', NEW p \in Proc, CallOriginal(p)
    PROVE  Seen
<1>1. /\ pc[p] = "modules" /\ pc'[p] \in {"orig_fork", "orig_child"}
      /\ pid' = pid /\ modules' = modules /\ \A q \in Proc \ {p} : Same(q)
  BY DEF CallOriginal, Goto, TypeOK, ctxVars, osVars, hookVars, Same
<1> QED
  BY <1>1, InsideSeen

LEMMA NewForkSeen ==
    ASSUME TypeOK, IInv, IInv', NEW p \in Proc, CachedInv(p), new_fork(p)
    PROVE  Seen
<1>1. pc[p] = "orig_fork" /\ g_ctx[p] /\ pid[p] >= 0
  BY DEF new_fork, IInv, ProcInv, WindowInv, CachedInv
<1>2. /\ Goto(p, IF pid[p] = 0 THEN "orig_child" ELSE "orig_parent")
      /\ UNCHANGED <<pid, forked, ctxVars, osVars, hookVars>>
  BY <1>1 DEF new_fork
<1>3. /\ pc'[p] \in {"orig_child", "orig_parent"} /\ pid' = pid /\ modules' = modules
      /\ \A q \in Proc \ {p} : Same(q)
  BY <1>2 DEF Goto, TypeOK, ctxVars, osVars, hookVars, Same
<1> QED
  BY <1>1, <1>3, InsideSeen

LEMMA ReturnsSeen ==
    ASSUME TypeOK, IInv, IInv', NEW p \in Proc, OriginalReturns(p) \/ PostReturns(p)
    PROVE  Seen
<1>1. /\ pc[p] \in {"orig_parent", "orig_child", "post"} /\ pc'[p] \in {"post", "dtor"}
      /\ pid' = pid /\ modules' = modules
  BY DEF OriginalReturns, PostReturns, Goto, TypeOK, ctxVars
<1>2. \A q \in Proc \ {p} : Same(q)
  <2>1. CASE OriginalReturns(p)
    BY <2>1 DEF OriginalReturns, fork_post, Goto, TypeOK, hookVars, Same
  <2>2. CASE PostReturns(p)
    BY <2>2 DEF PostReturns, fork_post, Goto, TypeOK, ctxVars, hookVars, Same
  <2> QED
    BY <2>1, <2>2
<1> QED
  BY <1>1, <1>2, InsideSeen

LEMMA DestroySeen ==
    ASSUME TypeOK, IInv, IInv', NEW p \in Proc, DestroyContext(p)
    PROVE  Seen
<1>1. /\ pc[p] = "dtor" /\ pc'[p] = "java" /\ ~g_ctx'[p]
      /\ modules'[p] = NoModules /\ g_hook' = g_hook
  BY DEF DestroyContext, Goto, TypeOK
<1>2. \A q \in Proc \ {p} : Same(q)
  <2>1. \A q \in Proc \ {p} : jni_hooked'[q] = jni_hooked[q] /\ unloader_hooked'[q] = unloader_hooked[q]
    BY DEF DestroyContext, restore_zygote_hook, hook_unloader, TypeOK
  <2> QED
    BY <2>1 DEF DestroyContext, Goto, TypeOK, Same, osVars
<1>3. g_hook'[p] # "unmapped" /\ jni_hooked[p] /\ ~Hosting(p)' /\ Pending(p)' = {}
  BY <1>1, InMethod, NoPending DEF Hosting
<1>4. CASE is_child(p)
  <2>1. Phase(p) = "hosting"
    BY <1>1, <1>4, InMethod DEF is_child
  <2>2. Phase(p)' = "leaving"
    <3>1. ~jni_hooked'[p]
      BY <1>4 DEF DestroyContext, restore_zygote_hook, TypeOK
    <3> QED
      BY <3>1, <1>1, <1>3, PhaseBecomes
  <2>3. Pending(p) = {}
    BY <1>1 DEF Pending, IInv, ProcInv, StageInv
  <2>4. APending' = APending
    BY <1>2, <1>3, <2>3, SameUnseen DEF Unseen, APending
  <2>5. Abstract!Leave(p)
    BY <1>2, <2>1, <2>2, <2>3, <2>4, Moves DEF Abstract!Leave, APhase, APending
  <2> QED
    BY <2>5 DEF Seen, Abstract!Next
<1>5. CASE ~is_child(p)
  <2>1. pid[p] > 0 /\ ~(pid[p] <= 0)
    BY <1>5 DEF is_child, TypeOK
  <2>2. Phase(p) = "armed"
    BY <1>1, <2>1, InMethod
  <2>3. Phase(p)' = "armed"
    <3>1. jni_hooked'[p]
      BY <1>3, <1>5 DEF DestroyContext
    <3> QED
      BY <3>1, <1>1, <1>3, PhaseBecomes
  <2>4. Pending(p) = {}
    BY <2>1, NoPending DEF IInv, ProcInv, ParentInv
  <2> QED
    BY <1>2, <1>3, <2>2, <2>3, <2>4, AloneUnseen DEF Seen, Unseen
<1> QED
  BY <1>4, <1>5

LEMMA UnshareSeen ==
    ASSUME TypeOK, IInv, IInv', NEW p \in Proc, new_unshare(p)
    PROVE  Seen
<1>1. /\ pc[p] = "orig_child" /\ pc' = pc /\ pid' = pid /\ modules' = modules
      /\ \A q \in Proc \ {p} : Same(q)
  BY DEF new_unshare, TypeOK, ctxVars, hookVars, Same
<1> QED
  BY <1>1, InsideSeen

LEMMA UnloadSeen ==
    ASSUME TypeOK, IInv, IInv', NEW p \in Proc, new_pthread_attr_destroy(p)
    PROVE  Seen
<1>1. /\ pc[p] = "java" /\ ~jni_hooked[p] /\ g_hook[p] = "alive"
      /\ UNCHANGED <<pc, pid, ctxVars, osVars, jni_hooked>>
  BY DEF new_pthread_attr_destroy, IInv, ProcInv, HookInv
<1>2. \A q \in Proc \ {p} : unloader_hooked'[q] = unloader_hooked[q] /\ g_hook'[q] = g_hook[q]
  BY DEF new_pthread_attr_destroy, TypeOK
<1>3. \A q \in Proc \ {p} : Same(q)
  BY <1>1, <1>2 DEF Same, ctxVars, osVars
<1>4. Phase(p) = "leaving" /\ Pending(p)' = Pending(p)
  BY <1>1, PhaseIs DEF Pending, ctxVars
<1>5. CASE g_hook'[p] = "unmapped"
  <2>1. Phase(p)' = "gone"
    BY <1>1, <1>5, PhaseBecomes
  <2>2. APhase' = [APhase EXCEPT ![p] = "gone"] /\ APending' = APending
    BY <1>3, <1>4, <2>1, Moves DEF APending
  <2>3. Abstract!Vanish(p)
    BY <1>4, <2>2 DEF Abstract!Vanish, APhase, APending
  <2> QED
    BY <2>3 DEF Seen, Abstract!Next
<1>6. CASE g_hook'[p] # "unmapped"
  <2>1. Phase(p)' = "leaving"
    BY <1>1, <1>6, PhaseBecomes
  <2> QED
    BY <1>3, <1>4, <2>1, AloneUnseen DEF Seen, Unseen
<1> QED
  BY <1>5, <1>6

---------------------------------------------------------------------------
\* If no fork fails, contexts, flags, hooks and forks of forks implement the
\* promise: the zygote stays armed for good; a process that hosts modules is
\* left when each has had its last callback, then by the library, and never
\* comes back; whatever else fails.
THEOREM ImplementsInjectionCorrect ==
    ASSUME ~ForkMayFail PROVE Spec => ImplementsInjection
<1>1. Init => Abstract!Init
  <2> SUFFICES ASSUME Init PROVE Abstract!Init
    OBVIOUS
  <2>1. ASSUME NEW p \in Proc
        PROVE  Phase(p) = (IF p = Zygote THEN "armed" ELSE "absent") /\ Pending(p) = {}
    BY DEF Init, Phase, Hosting, Pending, NoModules
  <2> QED
    BY <2>1 DEF Abstract!Init
<1>2. TypeOK /\ IInv /\ IInv' /\ NoFailInv /\ [Next]_vars => Seen
  <2> SUFFICES ASSUME TypeOK, IInv, IInv', NoFailInv, [Next]_vars, ~ForkMayFail PROVE Seen
    OBVIOUS
  <2>1. CASE UNCHANGED vars
    <3>1. \A q \in Proc : Same(q)
      BY <2>1 DEF vars, ctxVars, osVars, hookVars, Same
    <3> QED
      BY <3>1, SameUnseen, Stutters DEF Seen
  <2>2. CASE Next
    <3>1. ZygoteInv /\ \A p \in Proc : CachedInv(p)
      BY DEF NoFailInv
    <3>2. \A p \in Proc : new_fork(p) => Seen
      BY <3>1, NewForkSeen
    <3>3. \A p \in Proc : specialize_pre(p) => Seen
      BY <3>1, SpecializeSeen
    <3>4. \A p \in Proc, m \in Module :
            onLoad(p, m) \/ preSpecialize(p, m) \/ postSpecialize(p, m) => Seen
      BY ModuleSeen
    <3>5. \A p \in Proc :
            /\ nativeForkAndSpecialize_pre(p) => Seen
            /\ nativeForkSystemServer_pre(p) => Seen
            /\ nativeSpecializeAppProcess_pre(p) => Seen
      BY ConstructSeen
    <3>6. \A p \in Proc : (fork_pre(p) => Seen) /\ (ForkUnhooked(p) => Seen)
      BY ForkPreSeen, ForkUnhookedSeen
    <3>7. \A p \in Proc : /\ CallOriginal(p) => Seen
                          /\ OriginalReturns(p) => Seen
                          /\ PostReturns(p) => Seen
                          /\ new_unshare(p) => Seen
      BY CallOriginalSeen, ReturnsSeen, UnshareSeen
    <3>8. \A p \in Proc : /\ DestroyContext(p) => Seen
                          /\ new_pthread_attr_destroy(p) => Seen
      BY DestroySeen, UnloadSeen
    <3> QED
      BY <2>2, <3>2, <3>3, <3>4, <3>5, <3>6, <3>7, <3>8 DEF Next, Step, InCall
  <2> QED
    BY <2>1, <2>2
<1> QED
  BY <1>1, <1>2, TypeCorrect, IInvCorrect, NoFailInvCorrect, PTL
     DEF Spec, ImplementsInjection, Abstract!Spec, Seen

=============================================================================
