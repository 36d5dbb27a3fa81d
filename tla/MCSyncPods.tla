----------------------------- MODULE MCSyncPods -----------------------------
(* TLC instances of SyncPods.                                              *)
EXTENDS SyncPods
=============================================================================
