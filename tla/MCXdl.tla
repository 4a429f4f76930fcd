------------------------------- MODULE MCXdl -------------------------------
(***************************************************************************)
(* Instances of Xdl for TLC: Android 5, 7, 8 and 9, where the linker and   *)
(* the library of the application keep their symbols, and whether that     *)
(* library is loaded from the start.                                       *)
(***************************************************************************)
EXTENDS Xdl

Plain == [lib |-> "plain", liblzma |-> "none", linker |-> "plain"]
Packed == [Plain EXCEPT !.lib = "packed"]

Phone(api, where, loaded) ==
    [api |-> api, auxv |-> TRUE, ext |-> FALSE, symtab |-> where, loaded |-> loaded,
     opens |-> [lib |-> {"sphal"}, liblzma |-> {"default"}],
     anchors |-> [default |-> {"libc"}, sphal |-> {"lib"}]]

MCDevice ==
    {Phone(21, Packed, {"lib"}), Phone(24, Packed, {}), Phone(28, Packed, {}),
     Phone(26, [Packed EXCEPT !.linker = "packed"], {}),
     [Phone(25, Plain, {}) EXCEPT !.ext = TRUE],
     [Phone(26, Plain, {}) EXCEPT !.auxv = FALSE]}
=============================================================================
