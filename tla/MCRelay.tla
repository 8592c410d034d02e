-------------------------------- MODULE MCRelay --------------------------------
(* Three requests for two files and an index, one fetch at a time and one  *)
(* file in the cache: two handlers, so that the third request has to wait. *)
EXTENDS Relay

CONSTANT r1

(* Every request ends (ServeHTTP, awaitFile, runFetch, Close): with the    *)
(* handlers, the slots and the shared fetches none waits for ever.         *)
EveryRequestEnds == RequestEnds(r1)
=============================================================================
