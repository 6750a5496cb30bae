------------------------ MODULE MCRuntimeConnection ------------------------
(* Three calls of connect() and as many links, more than which are never    *)
(* in use.                                                                  *)
EXTENDS RuntimeConnection

MCLink == 1 .. MaxConnects
=============================================================================
