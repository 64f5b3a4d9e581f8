--------------------------- MODULE MCIntegrityCheck ---------------------------
(* IntegrityCheck for TLC.  The slaves of an end meet only their own master:   *)
(* one slave, at the server end, is enough, and the runs about the two queues  *)
(* have none.                                                                  *)
EXTENDS IntegrityCheck

CONSTANTS s1, ClientFills, ServerFills

MCSlavesOf == [e \in Ends |-> IF e = "server" THEN Slaves ELSE {}]
MCMaxFills == [e \in Ends |-> IF e = "client" THEN ClientFills ELSE ServerFills]
=============================================================================
