--------------------------- MODULE LogRefinement ----------------------------
(* The cloud's log, its sync requests and the device implement LogContract. *)
EXTENDS EventSync

Contract == INSTANCE LogContract WITH
    settled <- acknowledged,
    read    <- received

\* Transactions that are opened, rolled back and committed, requests sent again and
\* answers that come late or never are steps of LogContract, or none at all:
\* record_cloud_event, sync_device and the runtime's outbox together.
KeepsLogContract == Contract!Spec
=============================================================================
