----------------------------- MODULE MCBuildLock -----------------------------
(* Small instances of BuildLock for TLC: builds of two modes, of which one  *)
(* has no shim.                                                             *)
EXTENDS BuildLock

CONSTANTS p2, shim

MCEntries == [p \in Proc |-> IF p = p2 THEN Name \ {shim} ELSE Name]
=============================================================================
