----------------------------- MODULE MCJniHooks -----------------------------
(***************************************************************************)
(* Instances of JniHooks for TLC: two signatures of                        *)
(* nativeForkAndSpecialize and one of nativeForkSystemServer in the        *)
(* lists, one of each name that is not, and a method that has nothing to   *)
(* do with them.                                                           *)
(***************************************************************************)
EXTENDS JniHooks

MCMethod == {"app_l", "app_o", "app_new", "server_l", "server_new", "other"}
MCNameOf == [m \in MCMethod |->
    CASE m \in {"app_l", "app_o", "app_new"} -> "forkApp"
      [] m \in {"server_l", "server_new"} -> "forkServer"
      [] OTHER -> "other"]
\* Classes that have each of the names once, or not at all.
MCClass == {c \in SUBSET MCMethod : \A m, k \in c :
    MCNameOf[m] = MCNameOf[k] => m = k}
=============================================================================
