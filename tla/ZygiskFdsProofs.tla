-------------------------- MODULE ZygiskFdsProofs --------------------------
(***************************************************************************)
(* Theorems about ZygiskFds, for every number of descriptors, every set    *)
(* that is open at the fork and any calls of the modules.                  *)
(*                                                                         *)
(* That sanitize_fds leaves only known descriptors depends on which        *)
(* numbers fork_pre allowed (AllowedAtFork), and that on no number of the  *)
(* zygote being used for anything else in between (Owned).                 *)
(***************************************************************************)
EXTENDS ZygiskFds, WellFoundedInduction, TLAPS

\* The zygote's descriptors are where they were, and no other is its.
Owned ==
    /\ \A n \in Fd : fds[n] = "inherited" <=> n \in AtFork
    /\ g_sock \notin AtFork /\ info_fd \notin AtFork /\ returned \notin AtFork

\* Until sanitize_fds, what fork_pre allowed is what the zygote has open.
AllowedAtFork ==
    method # "specialize" /\ pc \notin {"fork", "original", "post", "done"}
        => allowed_fds = AtFork

\* Before fork_pre nothing else is open.
OnlyZygote == pc = "fork" => \A n \in Fd : fds[n] \in {"inherited", "closed"}

\* The methods that fork nothing sanitize nothing.
Sanitizing == method = "specialize" => pc \notin {"fork", "sanitize"}

\* zygisk_connect tries again only while attempts are left.
Retrying == g_available => attempts < MaxAttempts

IInv ==
    TypeOK /\ Retrying /\ Owned /\ AllowedAtFork /\ OnlyZygote /\ Sanitizing /\ KnownAfterSanitize

---------------------------------------------------------------------------
LEMMA FdFacts == Fd \subseteq Nat /\ AtFork \subseteq Fd /\ -1 \notin Fd /\ Fd \subseteq Number
BY FdAssumption DEF Fd, Number

\* A free number, and if there is one, the lowest, which is 0 if 0 is free.
LEMMA LowestFreeProperties ==
    ASSUME Free # {}
    PROVE  /\ LowestFree \in Free
           /\ 0 \in Free => LowestFree = 0
<1>1. Free \in SUBSET Nat
  BY FdFacts DEF Free
<1>2. \E n \in Free : \A m \in Free : n <= m
  <2>1. PICK n \in Free : \A m \in Free : <<m, n>> \notin OpToRel(<, Nat)
    BY <1>1, NatLessThanWellFounded, WFMin
  <2>2. ASSUME NEW m \in Free PROVE n <= m
    <3>1. m \in Nat /\ n \in Nat
      BY <1>1
    <3>2. ~(m < n)
      BY <2>1, <3>1 DEF OpToRel
    <3> QED BY <3>1, <3>2
  <2> QED BY <2>2
<1>3. LowestFree \in Free /\ \A m \in Free : LowestFree <= m
  BY <1>2 DEF LowestFree
<1> QED BY <1>1, <1>3

\* What fork_pre allows is what the zygote has open: the directory it reads
\* and, if nothing has number 0, the 0 it reads there, are the same number.
LEMMA ForkAllows ==
    ASSUME TypeOK, Owned, OnlyZygote, pc = "fork"
    PROVE  (Open \cup {0}) \ {LowestFree} = AtFork
<1>1. Open = AtFork
  BY FdFacts DEF Owned, OnlyZygote, Open
<1>2. Free # {}
  BY <1>1, FdAssumption DEF Free
<1>3. LowestFree \in Free /\ (0 \in Free => LowestFree = 0)
  BY <1>2, LowestFreeProperties
<1>4. 0 \in Fd
  BY FdAssumption DEF Fd
<1> QED BY <1>1, <1>3, <1>4 DEF Free

\* Closing numbers that are not the zygote's, or taking a free one.
LEMMA ClosingKeeps ==
    ASSUME TypeOK, Owned, NEW ns, ns \cap AtFork = {}, fds' = Closed(ns)
    PROVE  /\ fds' \in [Fd -> File]
           /\ \A n \in Fd : fds'[n] = "inherited" <=> n \in AtFork
BY DEF TypeOK, Owned, Closed, File

LEMMA TakingKeeps ==
    ASSUME TypeOK, Owned, Free # {}, NEW file \in File, file # "inherited",
           fds' = [fds EXCEPT ![LowestFree] = file]
    PROVE  /\ fds' \in [Fd -> File]
           /\ \A n \in Fd : fds'[n] = "inherited" <=> n \in AtFork
           /\ LowestFree \in Fd \ AtFork
<1>1. LowestFree \in Fd /\ fds[LowestFree] = "closed"
  BY LowestFreeProperties DEF Free, Open
<1> QED BY <1>1 DEF TypeOK, Owned

LEMMA IInvStep == IInv /\ [Next]_vars => IInv'
<1> SUFFICES ASSUME IInv, [Next]_vars PROVE IInv'
  OBVIOUS
<1> USE FdFacts
<1>0. TypeOK /\ Retrying /\ Owned /\ AllowedAtFork /\ OnlyZygote /\ Sanitizing /\ KnownAfterSanitize
  BY DEF IInv
<1>1. CASE fork_pre
  <2>1. allowed_fds' = AtFork
    BY <1>0, <1>1, ForkAllows DEF fork_pre
  <2>2. TypeOK'
    BY <1>0, <1>1, <2>1 DEF fork_pre, TypeOK, Step, ctxVars, sockVars
  <2> QED BY <1>0, <1>1, <2>1, <2>2 DEF IInv, fork_pre, ctxVars, sockVars, Retrying, Owned,
          AllowedAtFork, OnlyZygote, Sanitizing, KnownAfterSanitize
<1>2. CASE ConnectSucceeds
  <2>1. /\ fds' \in [Fd -> File] /\ LowestFree \in Fd \ AtFork
        /\ \A n \in Fd : fds'[n] = "inherited" <=> n \in AtFork
    BY <1>0, <1>2, TakingKeeps DEF ConnectSucceeds, File
  <2>2. TypeOK'
    BY <1>0, <1>2, <2>1 DEF ConnectSucceeds, TypeOK, Step, ctxVars
  <2> QED BY <1>0, <1>2, <2>1, <2>2 DEF IInv, ConnectSucceeds, ctxVars, Retrying, Owned,
          AllowedAtFork, OnlyZygote, Sanitizing, KnownAfterSanitize
<1>3. CASE ConnectFails
  <2>1. attempts' \in 0..MaxAttempts /\ Retrying'
    <3>1. attempts \in Nat /\ attempts < MaxAttempts /\ MaxAttempts \in Nat
      BY <1>0, <1>3, BoundAssumption DEF ConnectFails, TypeOK, Retrying
    <3>2. attempts' = attempts + 1 /\ g_available' = (attempts' < MaxAttempts)
      BY <1>3 DEF ConnectFails
    <3>3. attempts' \in 0..MaxAttempts
      BY <3>1, <3>2
    <3>4. g_available' => attempts' < MaxAttempts
      BY <3>2, Zenon
    <3> QED BY <3>3, <3>4 DEF Retrying
  <2>2. TypeOK'
    BY <1>0, <1>3, <2>1 DEF ConnectFails, TypeOK, Step, ctxVars
  <2> QED BY <1>0, <1>3, <2>1, <2>2 DEF IInv, ConnectFails, ctxVars, Owned,
          AllowedAtFork, OnlyZygote, Sanitizing, KnownAfterSanitize
<1>4. CASE NoSocket
  <2>1. TypeOK'
    BY <1>0, <1>4 DEF NoSocket, TypeOK, Step, ctxVars, sockVars
  <2> QED BY <1>0, <1>4, <2>1 DEF IInv, NoSocket, ctxVars, sockVars, Retrying, Owned,
          AllowedAtFork, OnlyZygote, Sanitizing, KnownAfterSanitize
<1>5. CASE SendGetInfo
  <2>1. TypeOK'
    BY <1>0, <1>5 DEF SendGetInfo, TypeOK, Step, ctxVars, sockVars
  <2> QED BY <1>0, <1>5, <2>1 DEF IInv, SendGetInfo, ctxVars, sockVars, Retrying, Owned,
          AllowedAtFork, OnlyZygote, Sanitizing, KnownAfterSanitize
<1>6. CASE ReadReply
  <2>1. TypeOK'
    BY <1>0, <1>6 DEF ReadReply, TypeOK, Step, sockVars
  <2> QED BY <1>0, <1>6, <2>1 DEF IInv, ReadReply, sockVars, Retrying, Owned,
          AllowedAtFork, OnlyZygote, Sanitizing, KnownAfterSanitize
<1>7. CASE ModulesReturn
  <2>1. TypeOK'
    BY <1>0, <1>7 DEF ModulesReturn, TypeOK, Step, ctxVars, sockVars
  <2> QED BY <1>0, <1>7, <2>1 DEF IInv, ModulesReturn, ctxVars, sockVars, Retrying, Owned,
          AllowedAtFork, OnlyZygote, Sanitizing, KnownAfterSanitize
<1>8. CASE SpecializePreReturns
  <2>1. fds' = Closed({info_fd} \cap Fd)
    <3>1. CASE info_fd \in Fd
      BY <1>8, <3>1 DEF SpecializePreReturns
    <3>2. CASE info_fd = -1
      <4>1. fds = Closed({})
        BY <1>0 DEF Closed, TypeOK
      <4> QED BY <1>8, <3>2, <4>1 DEF SpecializePreReturns
    <3> QED BY <1>0, <3>1, <3>2 DEF TypeOK
  <2>2. fds' \in [Fd -> File] /\ \A n \in Fd : fds'[n] = "inherited" <=> n \in AtFork
    BY <1>0, <2>1, ClosingKeeps DEF Owned
  <2>3. TypeOK'
    BY <1>0, <1>8, <2>2 DEF SpecializePreReturns, TypeOK, Step, ctxVars, sockVars
  <2> QED BY <1>0, <1>8, <2>2, <2>3 DEF IInv, SpecializePreReturns, ctxVars, sockVars,
          Retrying, Owned, AllowedAtFork, OnlyZygote, Sanitizing, KnownAfterSanitize
<1>9. CASE sanitize_fds
  <2>1. allowed_fds = AtFork
    BY <1>0, <1>9 DEF sanitize_fds, AllowedAtFork, Sanitizing
  <2>2. /\ AtFork \subseteq allowed_fds' /\ allowed_fds' \subseteq Fd
        /\ toIgnore' \subseteq Number
        /\ allowed_fds' \subseteq AtFork \cup toIgnore'
    BY <1>0, <1>9, <2>1 DEF sanitize_fds, TypeOK
  <2>3. fds' \in [Fd -> File] /\ \A n \in Fd : fds'[n] = "inherited" <=> n \in AtFork
    <3>1. fds' = Closed(Fd \ allowed_fds')
      BY <1>9 DEF sanitize_fds
    <3>2. (Fd \ allowed_fds') \cap AtFork = {}
      BY <2>2
    <3> QED BY <1>0, <3>1, <3>2, ClosingKeeps
  <2>4. TypeOK'
    BY <1>0, <1>9, <2>2, <2>3 DEF sanitize_fds, TypeOK, Step, sockVars
  <2>5. KnownAfterSanitize'
    <3>1. \A n \in Fd : n \notin allowed_fds' => fds'[n] = "closed"
      BY <1>9 DEF sanitize_fds, Closed
    <3> QED BY <2>2, <2>3, <3>1 DEF KnownAfterSanitize, Open
  <2> QED BY <1>0, <1>9, <2>3, <2>4, <2>5 DEF IInv, sanitize_fds, sockVars,
          Retrying, Owned, AllowedAtFork, OnlyZygote, Sanitizing
<1>10. CASE OriginalReturns
  <2>1. TypeOK'
    BY <1>0, <1>10 DEF OriginalReturns, TypeOK, Step, ctxVars, sockVars
  <2> QED BY <1>0, <1>10, <2>1 DEF IInv, OriginalReturns, ctxVars, sockVars, Retrying, Owned,
          AllowedAtFork, OnlyZygote, Sanitizing, KnownAfterSanitize
<1>11. CASE DaemonAnswers
  <2>1. TypeOK'
    BY <1>0, <1>11 DEF DaemonAnswers, TypeOK, Step, ctxVars, sockVars
  <2>2. UNCHANGED <<pc, method, fds, allowed_fds, toIgnore, g_sock, g_available,
                  attempts, info_fd, returned>>
    BY <1>11 DEF DaemonAnswers, ctxVars, sockVars
  <2> QED BY <1>0, <2>1, <2>2 DEF IInv, Retrying, Owned, AllowedAtFork, OnlyZygote, Sanitizing,
          KnownAfterSanitize, Open
<1>12. CASE Module
  <2>1. /\ pc \in {"modules", "post"} /\ calls > 0 /\ calls' = calls - 1
        /\ UNCHANGED <<pc, method, toIgnore, loaded, allowed_fds, g_sock, g_available,
                       attempts, peer, info_fd>>
        /\ returned' \in {returned, g_sock}
        /\ exempted_fds' \in SUBSET Number
    BY <1>0, <1>12 DEF Module, ModuleOpens, ModuleCloses, connectCompanion, getModuleDir,
       exempt_fd, InModule, moduleVars, ctxVars, sockVars, TypeOK
  <2>2. fds' \in [Fd -> File] /\ \A n \in Fd : fds'[n] = "inherited" <=> n \in AtFork
    <3>1. CASE ModuleOpens
      BY <1>0, <3>1, TakingKeeps DEF ModuleOpens, File
    <3>2. CASE ModuleCloses
      <4>1. PICK n \in Open : (fds[n] = "module" \/ n = returned) /\ fds' = Closed({n})
        BY <3>2 DEF ModuleCloses
      <4>2. {n} \cap AtFork = {}
        BY <1>0, <4>1 DEF Owned, Open
      <4> QED BY <1>0, <4>1, <4>2, ClosingKeeps
    <3>3. CASE getModuleDir
      BY <1>0, <3>3, ClosingKeeps DEF getModuleDir, Owned
    <3>4. CASE UNCHANGED fds
      BY <1>0, <3>4 DEF TypeOK, Owned
    <3> QED BY <1>12, <3>1, <3>2, <3>3, <3>4 DEF Module, connectCompanion, exempt_fd
  <2>3. calls' \in 0..MaxCalls
    BY <1>0, <2>1, BoundAssumption DEF TypeOK
  <2>4. TypeOK'
    BY <1>0, <2>1, <2>2, <2>3 DEF TypeOK
  <2> QED BY <1>0, <2>1, <2>2, <2>4 DEF IInv, Retrying, Owned, AllowedAtFork, OnlyZygote,
          Sanitizing, KnownAfterSanitize
<1>13. CASE UNCHANGED vars
  BY <1>0, <1>13 DEF vars, IInv, TypeOK, Retrying, Owned, AllowedAtFork, OnlyZygote, Sanitizing,
     KnownAfterSanitize, Open
<1> QED BY <1>1, <1>2, <1>3, <1>4, <1>5, <1>6, <1>7, <1>8, <1>9, <1>10, <1>11, <1>12,
        <1>13 DEF Next, Code

LEMMA IInvInit == Init => IInv
<1> SUFFICES ASSUME Init PROVE IInv
  OBVIOUS
<1>1. TypeOK
  <2>1. fds \in [Fd -> File]
    BY DEF Init, File
  <2>2. toIgnore \in SUBSET Number
    BY FdFacts DEF Init
  <2>3. attempts \in 0..MaxAttempts /\ calls \in 0..MaxCalls
    BY BoundAssumption DEF Init
  <2>4. pc \in Step /\ method \in Method
    BY DEF Init, Step
  <2> QED BY <2>1, <2>2, <2>3, <2>4 DEF Init, TypeOK
<1> QED BY <1>1, FdFacts, BoundAssumption DEF Retrying, Init, IInv, Retrying, Owned, AllowedAtFork, OnlyZygote, Sanitizing,
        KnownAfterSanitize

\* Only modules of an app exempt descriptors.
Exemptions == exempted_fds # {} => method = "fork"

LEMMA ExemptionsStep == IInv /\ Exemptions /\ [Next]_vars => Exemptions'
<1> SUFFICES ASSUME IInv, Exemptions, [Next]_vars PROVE Exemptions'
  OBVIOUS
<1>1. CASE exempt_fd
  BY <1>1 DEF exempt_fd, can_exempt_fd, moduleVars, ctxVars, Exemptions
<1>2. CASE UNCHANGED <<exempted_fds, method>>
  BY <1>2 DEF Exemptions
<1>3. CASE Code
  BY <1>2, <1>3 DEF Code, fork_pre, ConnectSucceeds, ConnectFails, NoSocket, SendGetInfo,
     ReadReply, ModulesReturn, SpecializePreReturns, sanitize_fds, OriginalReturns, ctxVars
<1>4. CASE DaemonAnswers \/ UNCHANGED vars
  BY <1>2, <1>4 DEF DaemonAnswers, ctxVars, vars
<1>5. CASE ModuleOpens \/ ModuleCloses \/ connectCompanion \/ getModuleDir
  BY <1>2, <1>5 DEF ModuleOpens, ModuleCloses, connectCompanion, getModuleDir, moduleVars,
     ctxVars
<1> QED BY <1>1, <1>3, <1>4, <1>5 DEF Next, Module

\* What sanitize_fds does to an accepted number: allowed_fds has, besides the
\* zygote's, what the zygote is told to ignore, and nothing else.
LEMMA SanitizeKeepsTold ==
    ASSUME IInv, Exemptions, sanitize_fds
    PROVE  /\ \A n \in exempted_fds :
                n \in Open' <=> n \in Open /\ n \in AtFork \cup toIgnore'
           /\ exempted_fds \subseteq toIgnore' \/ toIgnore' = toIgnore
<1>1. allowed_fds = AtFork
  BY DEF IInv, sanitize_fds, AllowedAtFork, Sanitizing
<1>2. ASSUME NEW n \in exempted_fds
      PROVE  n \in Open' <=> n \in Open /\ n \in AtFork \cup toIgnore'
  <2>1. can_exempt_fd /\ exempted_fds # {}
    BY <1>2 DEF Exemptions, can_exempt_fd
  <2>2. allowed_fds' = AtFork \cup (Fd \cap toIgnore')
    BY <1>1, <2>1 DEF sanitize_fds
  <2>3. fds' = Closed(Fd \ allowed_fds')
    BY DEF sanitize_fds
  <2>4. n \in Fd => fds'[n] = IF n \in Fd \ allowed_fds' THEN "closed" ELSE fds[n]
    BY <2>3 DEF Closed
  <2> QED BY <2>2, <2>4 DEF Open
<1>3. exempted_fds \subseteq toIgnore' \/ toIgnore' = toIgnore
  BY DEF sanitize_fds
<1> QED BY <1>2, <1>3

\* The connection's owner closes the number that g_sock keeps.
InfoIsSock == info_fd \in {-1, g_sock} /\ returned \in {-1, g_sock}
              /\ (pc = "connect" => g_sock = -1 /\ info_fd = -1 /\ returned = -1)
              /\ (pc = "fork" => g_sock = -1 /\ info_fd = -1 /\ returned = -1)

LEMMA InfoIsSockStep == IInv /\ InfoIsSock /\ [Next]_vars => InfoIsSock'
<1> SUFFICES ASSUME IInv, InfoIsSock, [Next]_vars PROVE InfoIsSock'
  OBVIOUS
<1>1. CASE Code
  BY <1>1 DEF InfoIsSock, Code, fork_pre, ConnectSucceeds, ConnectFails, NoSocket,
     SendGetInfo, ReadReply, ModulesReturn, SpecializePreReturns, sanitize_fds,
     OriginalReturns, ctxVars, sockVars
<1>2. CASE DaemonAnswers \/ UNCHANGED vars
  BY <1>2 DEF InfoIsSock, DaemonAnswers, ctxVars, sockVars, vars
<1>3. CASE Module
  BY <1>3 DEF InfoIsSock, Module, ModuleOpens, ModuleCloses, connectCompanion, getModuleDir,
     exempt_fd, InModule, moduleVars, ctxVars, sockVars
<1> QED BY <1>1, <1>2, <1>3 DEF Next

\* Who closes a descriptor.
LEMMA ClosesOnlyItsOwn ==
    ASSUME IInv, InfoIsSock, [Next]_vars,
           NEW n \in Open, n \notin Open', ~sanitize_fds, ~ModuleCloses
    PROVE  n = g_sock
<1>1. n \in Fd /\ fds[n] # "closed" /\ fds \in [Fd -> File]
  BY DEF Open, IInv, TypeOK
<1>2. fds'[n] = "closed"
  BY <1>1 DEF Open
<1>3. CASE ConnectSucceeds \/ ModuleOpens
  <2>1. Free # {} /\ fds' = [fds EXCEPT ![LowestFree] = fds'[LowestFree]]
        /\ fds'[LowestFree] # "closed"
    <3>1. Free # {} => LowestFree \in Fd
      BY LowestFreeProperties DEF Free
    <3> QED BY <1>1, <1>3, <3>1 DEF ConnectSucceeds, ModuleOpens
  <2> QED BY <1>1, <1>2, <2>1
<1>4. CASE SpecializePreReturns
  <2>1. info_fd >= 0 /\ fds' = Closed({info_fd})
    BY <1>1, <1>2, <1>4 DEF SpecializePreReturns
  <2>2. n = info_fd /\ info_fd # -1
    BY <1>1, <1>2, <2>1 DEF Closed
  <2> QED BY <2>2 DEF InfoIsSock
<1>5. CASE getModuleDir
  BY <1>1, <1>2, <1>5 DEF getModuleDir, Closed
<1>6. CASE UNCHANGED fds
  BY <1>1, <1>2, <1>6
<1>7. CASE Code
  BY <1>3, <1>4, <1>6, <1>7 DEF Code, fork_pre, ConnectFails, NoSocket, SendGetInfo,
     ReadReply, ModulesReturn, OriginalReturns, ctxVars
<1>8. CASE Module
  BY <1>3, <1>5, <1>6, <1>8 DEF Module, connectCompanion, exempt_fd
<1>9. CASE DaemonAnswers \/ UNCHANGED vars
  BY <1>6, <1>9 DEF DaemonAnswers, vars
<1> QED BY <1>7, <1>8, <1>9 DEF Next

THEOREM IInvCorrect == Spec => []IInv
<1> QED BY IInvInit, IInvStep, PTL DEF Spec

\* Whatever modules do, a forked process starts the original method with no
\* descriptor open that the zygote would abort on.
THEOREM KnownAfterSanitizeCorrect == Spec => []KnownAfterSanitize
<1>1. IInv => KnownAfterSanitize
  BY DEF IInv
<1> QED BY <1>1, IInvCorrect, PTL

\* Whatever modules do, Zygisk closes no descriptor of the zygote.
THEOREM InheritedSurviveCorrect == Spec => []InheritedSurvive
<1>1. IInv => InheritedSurvive
  BY FdFacts DEF IInv, Owned, InheritedSurvive
<1> QED BY <1>1, IInvCorrect, PTL

\* Every variable keeps its type, whatever modules and zygiskd do.
THEOREM TypeCorrect == Spec => []TypeOK
<1>1. IInv => TypeOK
  BY DEF IInv
<1> QED BY <1>1, IInvCorrect, PTL

\* Whatever numbers modules exempt, sanitize_fds leaves open those that the
\* zygote knows or was told of, tells it of all or none, also if they are closed
\* by then, and nobody else closes one but a module and the owners of g_sock's
\* number.
THEOREM ExemptedIffToldCorrect == Spec => ExemptedIffTold
<1>1. Init => Exemptions /\ InfoIsSock
  BY DEF Init, Exemptions, InfoIsSock
<1>2. Spec => [](Exemptions /\ InfoIsSock)
  BY <1>1, IInvCorrect, ExemptionsStep, InfoIsSockStep, PTL DEF Spec
<1> DEFINE Promise ==
       /\ sanitize_fds =>
            /\ \A n \in exempted_fds :
                 n \in Open' <=> n \in Open /\ n \in AtFork \cup toIgnore'
            /\ exempted_fds \subseteq toIgnore' \/ toIgnore' = toIgnore
       /\ \A n \in exempted_fds : n \in Open /\ n \notin Open' =>
            sanitize_fds \/ ModuleCloses \/ n = g_sock
<1>3. IInv /\ Exemptions /\ InfoIsSock /\ [Next]_vars => [Promise]_vars
  <2> SUFFICES ASSUME IInv, Exemptions, InfoIsSock, [Next]_vars PROVE Promise
    OBVIOUS
  <2>1. sanitize_fds =>
            /\ \A n \in exempted_fds :
                 n \in Open' <=> n \in Open /\ n \in AtFork \cup toIgnore'
            /\ exempted_fds \subseteq toIgnore' \/ toIgnore' = toIgnore
    BY SanitizeKeepsTold
  <2>2. ASSUME NEW n \in exempted_fds, n \in Open, n \notin Open'
        PROVE  sanitize_fds \/ ModuleCloses \/ n = g_sock
    BY <2>2, ClosesOnlyItsOwn
  <2> QED BY <2>1, <2>2
<1> QED BY <1>2, <1>3, IInvCorrect, PTL DEF Spec, ExemptedIffTold
=============================================================================
