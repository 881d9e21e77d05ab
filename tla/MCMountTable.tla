---------------------------- MODULE MCMountTable ----------------------------
(***************************************************************************)
(* A small virtual tree for checking MountTable: the root, a directory     *)
(* that is mounted over it, and the path of that directory itself, which   *)
(* the root matches and the mounted directory does not.                    *)
(***************************************************************************)
EXTENDS MountTable

MCMountPoints == {<<>>, <<"a", "f">>}
MCPaths == {<<"a", "f">>}
=============================================================================
