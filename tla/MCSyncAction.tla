---------------------------- MODULE MCSyncAction ----------------------------
(***************************************************************************)
(* Three goroutines calling RunTask on a SyncAction with taskBufSize 1.   *)
(***************************************************************************)
EXTENDS SyncAction

CONSTANTS r1, r2, r3

MCCallers == {r1, r2, r3}
=============================================================================
