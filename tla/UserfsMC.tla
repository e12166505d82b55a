------------------------------ MODULE UserfsMC ------------------------------
(* Small instances of Userfs: two directories under the mount point, with two *)
(* files in one of them, and a pair of names one of which begins the other.   *)
EXTENDS Userfs

CONSTANTS dirA, dirB, dirAB, fileF, fileG, mnt

MCPaths == { <<dirA, fileF>>, <<dirA, dirB, fileG>>, <<fileG>> }
MCPrefixPaths == { <<dirA, fileF>>, <<dirAB, fileG>> }
MCPrefixes == { <<dirA, dirAB>> }
=============================================================================
