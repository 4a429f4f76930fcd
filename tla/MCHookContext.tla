--------------------------- MODULE MCHookContext ---------------------------
(***************************************************************************)
(* Register files for TLC: the callbacks alone, behind another pointer     *)
(* into libart's pages, in front of one, and nowhere.                      *)
(***************************************************************************)
EXTENDS HookContext

CONSTANTS t1, t2

RegisterFiles == {<<"elsewhere", "callbacks">>, <<"libart", "callbacks">>,
                  <<"callbacks", "libart">>, <<"elsewhere", "elsewhere">>}
=============================================================================
