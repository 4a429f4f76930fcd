------------------------------ MODULE MCLsplt ------------------------------
(***************************************************************************)
(* Instances of Lsplt for TLC: libraries of two slots, one bound to        *)
(* symbol fork alone, both to symbol close.  What the file has in a slot   *)
(* can be registered like a callback, and is not what the linker writes.   *)
(***************************************************************************)
EXTENDS Lsplt

MCPlt == [l \in Lib |-> [y \in Sym |-> IF y = "fork" THEN {1} ELSE {1, 2}]]
MCLoaded == [l \in Lib |-> [s \in Slot |-> "original"]]
MCInFile == [l \in Lib |-> [s \in Slot |-> "g"]]
MCFn == {"original", "f", "g"}
=============================================================================
