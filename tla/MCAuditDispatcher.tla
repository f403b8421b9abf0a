-------------------------- MODULE MCAuditDispatcher --------------------------
(* AuditDispatcher on a small instance: with a channel of two, one event in *)
(* the worker's hands and one more handler, an event can be dropped.        *)
EXTENDS AuditDispatcher

CONSTANTS r1, r2, r3, r4

FourRequests == {r1, r2, r3, r4}
=============================================================================
