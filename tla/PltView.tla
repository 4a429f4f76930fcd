------------------------------ MODULE PltView ------------------------------
(***************************************************************************)
(* What LSPlt promises to a caller through the PLT, who knows nothing of   *)
(* memory regions: the slots of a loaded library change only when a        *)
(* registered hook is committed, one slot at a time, to the callback that  *)
(* was registered and in the order of the registrations.                   *)
(***************************************************************************)
EXTENDS Sequences

CONSTANTS Lib, Base, Slot, Fn, NoLib, Loaded, InFile, NoPages

VARIABLES
    library,   \* the library at each address
    view,      \* what each slot of each library points to
    queue      \* for each library, the redirections asked for and not done

vars == <<library, view, queue>>

Init ==
    /\ library = [b \in Base |-> NoLib]
    /\ view = [b \in Base |-> NoPages]
    /\ queue = [l \in Lib |-> <<>>]

Load(l, b) ==
    /\ library[b] = NoLib
    /\ library' = [library EXCEPT ![b] = l]
    /\ view' = [view EXCEPT ![b] = Loaded[l]]
    /\ UNCHANGED queue

\* All slots of a library that one symbol is bound to, to be redirected to f.
Request(l, slots, f) ==
    /\ queue' = [queue EXCEPT ![l] = Append(@, [slots |-> slots, callback |-> f])]
    /\ UNCHANGED <<library, view>>

\* The first request of a library leaves the queue when no slot is left.
Finish(l) ==
    /\ queue[l] # <<>>
    /\ Head(queue[l]).slots = {}
    /\ queue' = [queue EXCEPT ![l] = Tail(@)]
    /\ UNCHANGED <<library, view>>

\* A slot of the first request is redirected, or cannot be; or the attempt
\* costs the library its pages, or what the linker wrote into them.
Redirect(b, s) ==
    LET l == library[b]
        first == Head(queue[l])
    IN
    /\ l # NoLib
    /\ queue[l] # <<>>
    /\ s \in first.slots
    /\ queue' = [queue EXCEPT ![l] =
                   <<[first EXCEPT !.slots = first.slots \ {s}]>> \o Tail(queue[l])]
    /\ \/ UNCHANGED view
       \/ view[b] # NoPages /\ view' = [view EXCEPT ![b][s] = first.callback]
       \/ \E pages \in {NoPages, InFile[l]} : view' = [view EXCEPT ![b] = pages]
    /\ UNCHANGED library

Next ==
    \/ \E l \in Lib, b \in Base : Load(l, b)
    \/ \E l \in Lib, slots \in SUBSET Slot, f \in Fn : Request(l, slots, f)
    \/ \E l \in Lib : Finish(l)
    \/ \E b \in Base, s \in Slot : Redirect(b, s)

Spec == Init /\ [][Next]_vars
=============================================================================
