--------------------------- MODULE MCSendService ---------------------------
(* A task that picks its mailbox early and a request that may name no lead. *)
EXTENDS SendService

CONSTANTS a1, r1, task, request
=============================================================================
