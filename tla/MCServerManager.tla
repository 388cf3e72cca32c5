-------------------------- MODULE MCServerManager --------------------------
(* ServerManager for TLC: sm:, one thread and a deferral event, and bsdsocket, *)
(* additional threads and none.                                              *)
EXTENDS ServerManager

CONSTANTS t1, t2

TwoThreads == {t1, t2}

SmAndSockets ==
    {[threads |-> {t1}, deferral |-> TRUE, connects |-> 2, requests |-> 2],
     [threads |-> {t1, t2}, deferral |-> FALSE, connects |-> 1, requests |-> 2]}
============================================================================
