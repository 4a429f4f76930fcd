------------------------------ MODULE MCPltApi ------------------------------
(***************************************************************************)
(* Instances of PltApi for TLC: the module m4 has version 4, the others    *)
(* use expressions; each callback goes by its owner's name.  LSPlt finds   *)
(* no slot of dlopen in the last library.  Either every callback is        *)
(* registered at most once, or one twice and no other.                     *)
(***************************************************************************)
EXTENDS PltApi

MCVersion == [m \in Module |-> IF m = "m4" THEN 4 ELSE 3]
MCFound == (Lib \X Sym) \ {<<Max(Lib), "dlopen">>}
MCOwner == [f \in Fn |-> f]
MCRegex == {Lib}
MCExclusion == {[match |-> {1}, symbol |-> NoSymbol], [match |-> Lib, symbol |-> "read"]}

Most == {[m1 |-> 1, m2 |-> 1, m4 |-> 1], [m1 |-> 2, m2 |-> 0, m4 |-> 0]}
MCMade == {c \in [Fn -> 0 .. 2] : \E most \in Most : \A f \in Fn : c[f] <= most[f]}
=============================================================================
