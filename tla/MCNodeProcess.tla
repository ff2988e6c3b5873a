--------------------------- MODULE MCNodeProcess ---------------------------
(* Small instances of NodeProcess for TLC. *)
EXTENDS NodeProcess

CONSTANTS Life, Conf    \* calls of the two threads
MCCallers == {"life", "conf"}
MCMaxCalls == [t \in Callers |-> IF t = "life" THEN Life ELSE Conf]
=============================================================================
