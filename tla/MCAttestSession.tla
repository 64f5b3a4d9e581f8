---------------------------- MODULE MCAttestSession ----------------------------
(* Every combination of options and of present, absent, empty and oversized    *)
(* files; a session has no other bound.                                        *)
EXTENDS AttestSession

MCOptions == SUBSET {"ima", "firmware", "dump", "fde"}
=============================================================================
