-------------------------- MODULE RequestService --------------------------
(***************************************************************************)
(* What a server promises its clients, whatever its threads and lists do: a *)
(* request takes effect at one moment between being sent and being answered, *)
(* or, when the server closes the session, it may be given up before it took *)
(* effect.  A GetService takes effect only while the service is registered.  *)
(***************************************************************************)
CONSTANTS Clients, Services, Requests, NoRequest

VARIABLES
    asked,      \* the request each client waits for the answer of
    done,       \* the clients whose request has taken effect
    registered  \* the services that are registered

vars == <<asked, done, registered>>

Init ==
    /\ asked = [c \in Clients |-> NoRequest]
    /\ done = {}
    /\ registered = {}

Ask(c, r) ==
    /\ asked[c] = NoRequest
    /\ asked' = [asked EXCEPT ![c] = r]
    /\ UNCHANGED <<done, registered>>

\* An error (registering a name that is taken, unregistering one that is not) changes nothing.
TakeEffect(c) ==
    /\ asked[c] # NoRequest
    /\ c \notin done
    /\ asked[c].op = "get" => asked[c].name \in registered
    /\ done' = done \cup {c}
    /\ registered' = IF asked[c].op = "register" THEN registered \cup {asked[c].name}
                     ELSE IF asked[c].op = "unregister" THEN registered \ {asked[c].name}
                     ELSE registered
    /\ UNCHANGED asked

Answer(c) ==
    /\ c \in done
    /\ asked' = [asked EXCEPT ![c] = NoRequest]
    /\ done' = done \ {c}
    /\ UNCHANGED registered

\* The server closes the session: the requests of C end without having taken effect.
GiveUp(C) ==
    /\ C \cap done = {}
    /\ asked' = [c \in Clients |-> IF c \in C THEN NoRequest ELSE asked[c]]
    /\ UNCHANGED <<done, registered>>

Register(n) ==
    /\ registered' = registered \cup {n}
    /\ UNCHANGED <<asked, done>>

Next ==
    \/ \E c \in Clients, r \in Requests : Ask(c, r)
    \/ \E c \in Clients : TakeEffect(c) \/ Answer(c)
    \/ \E C \in SUBSET Clients : GiveUp(C)
    \/ \E n \in Services : Register(n)

Spec == Init /\ [][Next]_vars
============================================================================
