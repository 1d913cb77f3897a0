----------------------------- MODULE MCOidIoctl -----------------------------
(* Instances of OidIoctl for TLC.                                          *)
EXTENDS OidIoctl

\* A handler that answers, one that leaves it to the firmware, and a request of
\* main_thread itself that does so as well.
MCRequests == {"mode", "key", "own"}
MCDirect == {"own"}

MCKind == [r \in MCRequests |-> IF r = "mode" THEN "answers" ELSE "firmware"]
=============================================================================
