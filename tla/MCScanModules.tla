--------------------------- MODULE MCScanModules ---------------------------
(* Small instances of ScanModules for TLC.                                 *)
EXTENDS ScanModules
=============================================================================
