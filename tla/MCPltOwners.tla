---------------------------- MODULE MCPltOwners ----------------------------
(***************************************************************************)
(* Instances of PltOwners for TLC: one symbol bound to both slots of the   *)
(* library; each owner's callback goes by the owner's name.                *)
(***************************************************************************)
EXTENDS PltOwners

MCPlt == [l \in Lib |-> [y \in Sym |-> Slot]]
MCLoaded == [l \in Lib |-> [s \in Slot |-> "original"]]
MCInFile == [l \in Lib |-> [s \in Slot |-> "unlinked"]]
MCFn == Ptr \cup {"original", "unlinked"}
MCCallback == [o \in Ptr |-> o]

ASSUME OwnersApart /\ NoneLost
=============================================================================
