---------------------------- MODULE MCAtomicWrite ----------------------------
(***************************************************************************)
(* AtomicWrite with a unit file's write, at the default permissions, and   *)
(* credential writes, at tighter ones.                                     *)
(***************************************************************************)
EXTENDS AtomicWrite

CONSTANTS unit, cred1, cred2

MCMode == [w \in Writers |-> IF w = unit THEN "0644" ELSE "0600"]
=============================================================================
