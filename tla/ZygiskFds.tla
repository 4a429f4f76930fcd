----------------------------- MODULE ZygiskFds -----------------------------
(***************************************************************************)
(* The file descriptors of one process while it is specialised: those the  *)
(* zygote had open, the connection to zygiskd (ipc_client.cpp), and those  *)
(* of the modules.  fork_pre notes what is open at the fork; sanitize_fds  *)
(* closes everything else, for the zygote refuses to go on with a          *)
(* descriptor it does not know.  Open numbers are reused, the lowest       *)
(* first, as by POSIX.                                                     *)
(*                                                                         *)
(* A module is any code that opens, closes and calls the API.              *)
(* Directories and library files opened and closed within one step are     *)
(* not seen. A mutant, <definition>_M<fault>, precedes the definition it   *)
(* is a fault of.                                                          *)
(***************************************************************************)
EXTENDS Integers, FiniteSets

CONSTANTS
    MaxFd,        \* bound on descriptor numbers
    AtFork,       \* the numbers in use when the method is called
    Method,       \* the replaced methods that are called
    MaxCalls,     \* bound on the calls a module makes
    MaxAttempts,  \* delays 100, 200, 400, 800, 1600 of zygisk_connect
    ArrayMayFail  \* may NewIntArray return null?

Fd == 0..MaxFd

\* What a module may say is a descriptor: any int, here one below and one
\* above allowed_fds.
Number == Fd \cup {-1, MaxFd + 1}

ASSUME FdAssumption == MaxFd \in Nat /\ AtFork \subseteq Fd /\ AtFork # Fd
ASSUME MethodAssumption == Method \subseteq {"fork", "server", "specialize"}
ASSUME BoundAssumption ==
    MaxCalls \in Nat /\ MaxAttempts \in Nat \ {0} /\ ArrayMayFail \in BOOLEAN

VARIABLES
    pc,           \* the step of the method that comes next
    method,       \* which of the methods runs
    fds,          \* what each number refers to
    allowed_fds,
    exempted_fds, \* as a set
    toIgnore,     \* *args.app->fds_to_ignore, as a set
    g_sock,
    g_available,
    attempts,     \* failed calls of connect(2)
    peer,         \* zygiskd's end of the connection
    info_fd,      \* the owned_fd that get_module_info's result is kept in
    loaded,       \* are there modules?
    returned,     \* what zygisk_request_fd last returned
    calls         \* calls left to the module (bound)

vars == <<pc, method, fds, allowed_fds, exempted_fds, toIgnore, g_sock,
          g_available, attempts, peer, info_fd, loaded, returned, calls>>

File == {"closed", "inherited", "daemon", "module"}
Step == {"fork", "connect", "request", "reply", "modules", "closing",
         "sanitize", "original", "post", "done"}

TypeOK ==
    /\ pc \in Step
    /\ method \in Method
    /\ fds \in [Fd -> File]
    /\ allowed_fds \in SUBSET Fd
    /\ exempted_fds \in SUBSET Number
    /\ toIgnore \in SUBSET Number
    /\ g_sock \in Fd \cup {-1}
    /\ g_available \in BOOLEAN
    /\ attempts \in 0..MaxAttempts
    /\ peer \in {"none", "accepted", "asked", "dropped"}
    /\ info_fd \in Fd \cup {-1}
    /\ loaded \in BOOLEAN
    /\ returned \in Fd \cup {-1}
    /\ calls \in 0..MaxCalls

Init ==
    /\ method \in Method
    /\ pc = IF method = "specialize" THEN "connect" ELSE "fork"
    /\ fds = [n \in Fd |-> IF n \in AtFork THEN "inherited" ELSE "closed"]
    /\ allowed_fds = {}
    /\ exempted_fds = {}
    /\ toIgnore \in IF method = "fork" THEN {{}, AtFork} ELSE {{}}
    /\ g_sock = -1
    /\ g_available = TRUE
    /\ attempts = 0
    /\ peer = "none"
    /\ info_fd = -1
    /\ loaded = FALSE
    /\ returned = -1
    /\ calls = MaxCalls

Open == {n \in Fd : fds[n] # "closed"}
Free == Fd \ Open
LowestFree == CHOOSE n \in Free : \A m \in Free : n <= m
Closed(ns) == [n \in Fd |-> IF n \in ns THEN "closed" ELSE fds[n]]
ctxVars == <<method, toIgnore, loaded>>
sockVars == <<g_sock, g_available, attempts>>

---------------------------------------------------------------------------
\* fork_pre, in the child.  The directory that is read has a descriptor too;
\* its entries "." and ".." are read as 0.
fork_pre_MUnmarked ==
    /\ pc = "fork"
    /\ allowed_fds' = {}
    /\ pc' = "connect"
    /\ UNCHANGED <<ctxVars, fds, exempted_fds, sockVars, peer, info_fd, returned, calls>>
fork_pre ==
    /\ pc = "fork"
    /\ allowed_fds' = (Open \cup {0}) \ {LowestFree}
    /\ pc' = "connect"
    /\ UNCHANGED <<ctxVars, fds, exempted_fds, sockVars, peer, info_fd, returned, calls>>

\* zygisk_connect, called by get_module_info: one attempt.
ConnectSucceeds ==
    /\ pc = "connect" /\ g_available
    /\ Free # {}
    /\ g_sock' = LowestFree
    /\ fds' = [fds EXCEPT ![LowestFree] = "daemon"]
    /\ peer' = "accepted"
    /\ pc' = "request"
    /\ UNCHANGED <<ctxVars, allowed_fds, exempted_fds, g_available, attempts,
                   info_fd, returned, calls>>

\* The attempt fails and, unless it was the last, is repeated after a delay.
\* Without a connection there is no get_module_info and no module.
ConnectFails_MForever ==
    /\ pc = "connect" /\ g_available
    /\ attempts' = (attempts + 1) % MaxAttempts
    /\ UNCHANGED <<pc, ctxVars, fds, allowed_fds, exempted_fds, g_sock, g_available,
                   peer, info_fd, returned, calls>>
ConnectFails_MUncounted ==
    /\ pc = "connect" /\ g_available
    /\ attempts' = attempts + 1
    /\ UNCHANGED <<pc, ctxVars, fds, allowed_fds, exempted_fds, g_sock, g_available,
                   peer, info_fd, returned, calls>>
ConnectFails ==
    /\ pc = "connect" /\ g_available
    /\ Free # {}
    /\ attempts' = attempts + 1
    /\ g_available' = (attempts' < MaxAttempts)
    /\ pc' = IF g_available' THEN "connect" ELSE "closing"
    /\ UNCHANGED <<ctxVars, fds, allowed_fds, exempted_fds, g_sock, peer,
                   info_fd, returned, calls>>

\* socket(2) fails, for want of a descriptor or otherwise: no retry.
NoSocket ==
    /\ pc = "connect" /\ g_available
    /\ pc' = "closing"
    /\ UNCHANGED <<ctxVars, fds, allowed_fds, exempted_fds, sockVars, peer,
                   info_fd, returned, calls>>

\* zygisk_request_fd(GetInfo) writes the header.
SendGetInfo ==
    /\ pc = "request"
    /\ peer' = "asked"
    /\ returned' = g_sock
    /\ pc' = "reply"
    /\ UNCHANGED <<ctxVars, fds, allowed_fds, exempted_fds, sockVars, info_fd, calls>>

\* zygiskd answers a connection's first request and drops the connection,
\* or dies and leaves the reply that is read undefined.
DaemonAnswers ==
    /\ peer = "asked"
    /\ peer' = "dropped"
    /\ UNCHANGED <<pc, ctxVars, fds, allowed_fds, exempted_fds, sockVars,
                   info_fd, returned, calls>>

\* get_module_info ends, and its descriptor is kept.  The denylist, or a
\* system server without libraries, leaves no module to run.
ReadReply ==
    /\ pc = "reply" /\ peer = "dropped"
    /\ info_fd' = returned
    /\ returned' = -1
    /\ loaded' \in BOOLEAN
    /\ pc' = IF loaded' THEN "modules" ELSE "closing"
    /\ UNCHANGED <<method, toIgnore, fds, allowed_fds, exempted_fds, sockVars,
                   peer, calls>>

---------------------------------------------------------------------------
InModule == pc \in {"modules", "post"} /\ calls > 0

moduleVars == <<pc, ctxVars, allowed_fds, sockVars, peer, info_fd>>

ModuleOpens ==
    /\ InModule /\ Free # {}
    /\ fds' = [fds EXCEPT ![LowestFree] = "module"]
    /\ calls' = calls - 1
    /\ UNCHANGED <<moduleVars, exempted_fds, returned>>

\* A module closes what it opened or was given by connectCompanion.
ModuleCloses ==
    /\ InModule
    /\ \E n \in Open :
         /\ fds[n] = "module" \/ n = returned
         /\ fds' = Closed({n})
    /\ calls' = calls - 1
    /\ UNCHANGED <<moduleVars, exempted_fds, returned>>

\* zygisk_connect returns the descriptor it keeps, in whatever state it is.
connectCompanion ==
    /\ InModule
    /\ returned' = g_sock
    /\ calls' = calls - 1
    /\ UNCHANGED <<moduleVars, fds, exempted_fds>>

\* The owned_fd of getModuleDir closes the descriptor that zygisk_connect
\* keeps.  zygiskd sends no descriptor back, so -1 is returned.
getModuleDir ==
    /\ InModule
    /\ returned' = g_sock
    /\ fds' = Closed({g_sock})
    /\ calls' = calls - 1
    /\ UNCHANGED <<moduleVars, exempted_fds>>

can_exempt_fd == method = "fork"

\* Any number is accepted.  Elsewhere exempt_fd changes nothing.
exempt_fd ==
    /\ InModule /\ pc # "post"
    /\ can_exempt_fd
    /\ \E n \in Number : exempted_fds' = exempted_fds \cup {n}
    /\ calls' = calls - 1
    /\ UNCHANGED <<moduleVars, fds, returned>>

ModulesReturn ==
    /\ pc \in {"modules", "post"}
    /\ pc' = IF pc = "modules" THEN "closing" ELSE "done"
    /\ UNCHANGED <<ctxVars, fds, allowed_fds, exempted_fds, sockVars, peer,
                   info_fd, returned, calls>>

---------------------------------------------------------------------------
\* The owned_fd in app_specialize_pre and server_specialize_pre goes out of
\* scope.
SpecializePreReturns ==
    /\ pc = "closing"
    /\ fds' = IF info_fd >= 0 THEN Closed({info_fd}) ELSE fds
    /\ info_fd' = -1
    /\ pc' = IF method = "specialize" THEN "original" ELSE "sanitize"
    /\ UNCHANGED <<ctxVars, allowed_fds, exempted_fds, sockVars, peer, returned, calls>>

\* sanitize_fds tells the zygote of the exempted descriptors, if the new array
\* can be made, and closes what is not allowed.
sanitize_fds_MUntold ==
    /\ pc = "sanitize"
    /\ allowed_fds' = allowed_fds \cup (Fd \cap toIgnore) \cup
         (IF can_exempt_fd THEN Fd \cap exempted_fds ELSE {})
    /\ fds' = Closed(Fd \ allowed_fds')
    /\ pc' = "original"
    /\ UNCHANGED <<ctxVars, exempted_fds, sockVars, peer, info_fd, returned, calls>>
sanitize_fds_MForgotten ==
    /\ pc = "sanitize"
    /\ LET tell == can_exempt_fd /\ exempted_fds # {} IN
       /\ toIgnore' = IF tell THEN toIgnore \cup exempted_fds ELSE toIgnore
       /\ allowed_fds' = IF tell THEN allowed_fds \cup (Fd \cap toIgnore) ELSE allowed_fds
    /\ fds' = Closed(Fd \ allowed_fds')
    /\ pc' = "original"
    /\ UNCHANGED <<method, loaded, exempted_fds, sockVars, peer, info_fd, returned,
                   calls>>
sanitize_fds ==
    /\ pc = "sanitize"
    /\ IF can_exempt_fd /\ exempted_fds # {}
       THEN /\ \/ toIgnore' = toIgnore \cup exempted_fds
               \/ ArrayMayFail /\ UNCHANGED toIgnore
            /\ allowed_fds' = allowed_fds \cup (Fd \cap toIgnore')
       ELSE UNCHANGED <<toIgnore, allowed_fds>>
    /\ fds' = Closed(Fd \ allowed_fds')
    /\ pc' = "original"
    /\ UNCHANGED <<method, loaded, exempted_fds, sockVars, peer, info_fd, returned,
                   calls>>

\* The original method runs; then run_modules_post, if modules were loaded.
OriginalReturns ==
    /\ pc = "original"
    /\ pc' = IF loaded THEN "post" ELSE "done"
    /\ UNCHANGED <<ctxVars, fds, allowed_fds, exempted_fds, sockVars, peer,
                   info_fd, returned, calls>>

Code ==
    \/ fork_pre
    \/ ConnectSucceeds
    \/ ConnectFails
    \/ NoSocket
    \/ SendGetInfo
    \/ ReadReply
    \/ ModulesReturn
    \/ SpecializePreReturns
    \/ sanitize_fds
    \/ OriginalReturns

Module ==
    \/ ModuleOpens
    \/ ModuleCloses
    \/ connectCompanion
    \/ getModuleDir
    \/ exempt_fd

Next == Code \/ DaemonAnswers \/ Module

Spec == Init /\ [][Next]_vars

\* The method's own code runs on, and zygiskd, which serves one connection at
\* a time, gets to answer this one, unless a silent program holds it (Zygiskd);
\* a module need not do anything.
FairSpec == Spec /\ WF_vars(Code) /\ WF_vars(DaemonAnswers)

---------------------------------------------------------------------------
\* When the original method starts in a forked process, every descriptor that
\* is open was open before the fork or is one the zygote was told to ignore:
\* it would abort on any other.
KnownAfterSanitize ==
    pc = "original" /\ method # "specialize" =>
        \A n \in Open : fds[n] = "inherited" \/ n \in toIgnore

\* Zygisk never closes a descriptor of the zygote, whatever numbers modules,
\* the connection and the directory reads had in between.
InheritedSurvive == \A n \in AtFork : fds[n] = "inherited"

\* Of the numbers that exempt_fd accepted, sanitize_fds leaves open exactly
\* those that are still open and that the zygote knows or is told to ignore,
\* and it tells it of all or of none, of those that are closed or out of range
\* like of the others.  Else an accepted descriptor is closed only by a module,
\* or if it has the number that g_sock keeps, by the owners of that number
\* (module.cpp:376-422).
ExemptedIffTold ==
    [][/\ sanitize_fds =>
            /\ \A n \in exempted_fds :
                 n \in Open' <=> n \in Open /\ n \in AtFork \cup toIgnore'
            /\ exempted_fds \subseteq toIgnore' \/ toIgnore' = toIgnore
       /\ \A n \in exempted_fds : n \in Open /\ n \notin Open' =>
            sanitize_fds \/ ModuleCloses \/ n = g_sock]_vars

\* module.cpp:100: zygisk_request_fd returns the connection to zygiskd.
ReturnsTheConnection ==
    [][SendGetInfo \/ connectCompanion \/ getModuleDir =>
           fds[returned'] = "daemon"]_vars

\* With or without a daemon to connect to, the specialisation ends.
SpecialisationEnds == <>(pc = "done")
=============================================================================
