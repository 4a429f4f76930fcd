----------------------------- MODULE Injection -----------------------------
(***************************************************************************)
(* What Zygisk promises about its presence in a process, without           *)
(* contexts, forks of forks, flags or hooks: the zygote is armed and       *)
(* stays armed; a process that is being specialised hosts modules, and     *)
(* does so until each of them has had its last callback; then it is left   *)
(* for good, and in the end without the library.  A child starts in its    *)
(* parent's phase.  The modules' own libraries are another matter: they    *)
(* stay mapped unless they asked to be closed.                             *)
(***************************************************************************)
CONSTANTS Proc, Zygote, Module

VARIABLES
    phase,   \* "absent", "armed", "hosting", "leaving" or "gone"
    pending  \* the modules that Zygisk has yet to call in the process

vars == <<phase, pending>>

Phase == {"absent", "armed", "hosting", "leaving", "gone"}

Init ==
    /\ phase = [p \in Proc |-> IF p = Zygote THEN "armed" ELSE "absent"]
    /\ pending = [p \in Proc |-> {}]

\* A process that is not hosting anybody forks.
Fork(p, c) ==
    /\ phase[p] \in {"armed", "leaving", "gone"}
    /\ phase[c] = "absent"
    /\ phase' = [phase EXCEPT ![c] = phase[p]]
    /\ UNCHANGED pending

\* Any process but the zygote starts its specialisation, with some modules.
Host(p, ms) ==
    /\ p # Zygote
    /\ phase[p] = "armed"
    /\ phase' = [phase EXCEPT ![p] = "hosting"]
    /\ pending' = [pending EXCEPT ![p] = ms]

\* A module has had its last callback, or is found not to be valid.
Dismiss(p, m) ==
    /\ phase[p] = "hosting"
    /\ m \in pending[p]
    /\ pending' = [pending EXCEPT ![p] = @ \ {m}]
    /\ UNCHANGED phase

\* Nobody is left to be called.
Leave(p) ==
    /\ phase[p] = "hosting"
    /\ pending[p] = {}
    /\ phase' = [phase EXCEPT ![p] = "leaving"]
    /\ UNCHANGED pending

Vanish(p) ==
    /\ phase[p] = "leaving"
    /\ phase' = [phase EXCEPT ![p] = "gone"]
    /\ UNCHANGED pending

Next ==
    \E p \in Proc :
        \/ \E c \in Proc : Fork(p, c)
        \/ \E ms \in SUBSET Module : Host(p, ms)
        \/ \E m \in Module : Dismiss(p, m)
        \/ Leave(p)
        \/ Vanish(p)

Spec == Init /\ [][Next]_vars
=============================================================================
