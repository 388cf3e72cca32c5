------------------------ MODULE ServerManagerProofs ------------------------
(* The invariants of ServerManager, and that it implements RequestService: for any sets of
   threads, sessions, clients and services.

   The first part says what each step keeps of what a thread's locals mean at each label, of the
   types, of what a thread that serves a request has received, and of where a client waits.

   The second is about places: a session, and the holder of the port, are in one place at a
   time.  The places are seven sets: the positions in the three lists, the deferred sessions, and
   the threads that took the session out of the wait, are to retry it, or are about to link it.
   A step leaves a holder where it is, though its position in a list may change, or moves it from
   one of the seven to another.  Placed says that one of them has one element and the others
   none.

   The inductive invariant adds three things to these: what the two events announce (Woken,
   Announced), what a handler decided and what a selected holder still is (Decided, Ready), and
   that the port comes last among the holders a thread links (PortLast, PortReady).

   The default prover is Zenon; a leaf that needs arithmetic or sequences names SMT. *)
EXTENDS ServerManager, Integers, TLAPS

USE Zenon


\* Where a thread holds m_selection_mutex.
Holding == {"link", "stopping", "wait", "asleep", "clear"}

\* Where it has taken a session, out of the wait or out of the deferrals.
Working == {"receive", "handle", "defer", "reply", "destroy"}

\* Where it is inside LinkToDeferredList.
Linking == {"relink", "signal"}

\* The thread has received a request it has not answered.
Serving(t) == pc[t] \in {"handle", "defer", "reply"} \/ (pc[t] \in Linking /\ result[t] # None)

\* What a thread's locals mean: the holders it links, the session it serves, what its handler
\* returned, the deferrals it took; and who holds the mutex.
Local(t) ==
    /\ pc[t] \in Linking <=> links[t] # << >>
    /\ completing[t] # None <=> pc[t] \in Working \/ (pc[t] \in Linking /\ result[t] # None)
    /\ result[t] # None => pc[t] \in Linking \cup {"defer", "reply"}
    /\ pc[t] \in {"defer", "reply"} => result[t] # None
    /\ retry[t] # {} => pc[t] \in Linking \cup {"loop", "handle", "defer", "reply", "destroy"}
    /\ \A i \in DOMAIN links[t] : i > 1 => links[t][i] \notin Sessions
    /\ stop = "gone" => pc[t] = "done"
    /\ t \notin server.threads => pc[t] = "done"
    /\ pc[t] \in Holding <=> selection_mutex = t

\* A request that is served, retried or put off is its session's current one.
Received ==
    stop # "gone" =>
        /\ \A t \in Threads : Serving(t) => current[completing[t]] # None
        /\ \A t \in Threads : \A s \in retry[t] : current[s] # None
        /\ \A s \in deferred : current[s] # None

\* The thread has the session, in one of three ways: it serves it, it is to retry it, or it is
\* about to put it into the deferred list.
Links(t, s) == s \in Elements(links[t]) /\ ~(pc[t] = "signal" /\ Head(links[t]) = s)

Has(t, s) == completing[t] = s \/ s \in retry[t] \/ Links(t, s)

\* Whoever has a session has it alone, and does not retry what it serves.
Exclusive ==
    stop # "gone" =>
        \A t \in Threads : \A s \in Sessions : Has(t, s) =>
            /\ s \notin deferred /\ (completing[t] = s => s \notin retry[t])
            /\ \A u \in Threads \ {t} : ~Has(u, s)

SInv ==
    /\ TypeOK
    /\ \A t \in Threads : Local(t)
    /\ Received
    /\ Exclusive

(* Nobody but t has changed its locals. *)
OnlyThread(t) ==
    \A u \in Threads \ {t} :
        /\ pc'[u] = pc[u] /\ completing'[u] = completing[u] /\ retry'[u] = retry[u]
        /\ links'[u] = links[u]

-----------------------------------------------------------------------------
(* The types. *)

LEMMA AnyOfIn ==
    ASSUME NEW S, NEW x \in AnyOf(S)
    PROVE  x \in S
BY DEF AnyOf

LEMMA InitTypes ==
    ASSUME Init
    PROVE  TypeOK
<1>0. <<Wakeup, Deferral, Port>> \in Seq(Holders) /\ <<Wakeup, Port>> \in Seq(Holders)
  <2>1. Wakeup \in Holders /\ Deferral \in Holders /\ Port \in Holders
      BY DEF Holders
  <2> QED
      BY <2>1, SMT
<1>1. pending \in Seq(Sessions) /\ multi_wait \in Seq(Holders) /\ deferred_list \in Seq(Holders)
    BY <1>0, SMT DEF Init
<1>2. budget \in [connects : Nat, requests : Nat] /\ server \in Servers
    BY ServersAssumption DEF Init
<1>3. pc \in [Threads -> {"loop", "done"}] /\ links \in [Threads -> Seq(Holders)]
    BY SMT DEF Init
<1>4. requests \in [Sessions -> Seq(Clients)]
    BY SMT DEF Init
<1> QED
    BY <1>1, <1>2, <1>3, <1>4 DEF Init, TypeOK, Labels, Results

LEMMA GuestTypes ==
    ASSUME SInv
    PROVE  /\ \A s \in Sessions : CreateSession(s) => TypeOK'
           /\ \A c \in Clients, s \in Sessions, r \in Requests : OnRequest(c, s, r) => TypeOK'
           /\ \A s \in Sessions : CloseClientSession(s) => TypeOK'
           /\ \A n \in Services : RegisterService(n) => TypeOK'
           /\ RequestStop => TypeOK'
           /\ SignalStop => TypeOK'
           /\ Destroy => TypeOK'
<1>1. ASSUME NEW s \in Sessions, CreateSession(s) PROVE TypeOK'
  <2>1. pending' \in Seq(Sessions)
      BY <1>1, SMT DEF SInv, TypeOK, kernelVars, listVars, threadVars, CreateSession
  <2>2. budget' \in [connects : Nat, requests : Nat]
    <3>1. budget.connects \in Nat /\ budget.connects > 0 /\ budget' = [budget EXCEPT !.connects = budget.connects - 1]
        BY <1>1 DEF SInv, TypeOK, kernelVars, listVars, threadVars, CreateSession
    <3>2. budget.connects - 1 \in Nat
        BY <3>1, SMT
    <3> QED
        BY <3>1, <3>2 DEF SInv, TypeOK
  <2>3. session' \in [Sessions -> {"Free", "Normal", "ClientClosed", "ServerClosed"}]
      BY <1>1 DEF SInv, TypeOK, kernelVars, listVars, threadVars, CreateSession
  <2> QED
      BY <1>1, <2>1, <2>2, <2>3 DEF SInv, TypeOK, kernelVars, listVars, threadVars, CreateSession
<1>2. ASSUME NEW c \in Clients, NEW s \in Sessions, NEW r \in Requests, OnRequest(c, s, r) PROVE TypeOK'
  <2>1. requests' \in [Sessions -> Seq(Clients)]
      BY <1>2, SMT DEF SInv, TypeOK, kernelVars, listVars, threadVars, OnRequest
  <2>2. budget' \in [connects : Nat, requests : Nat]
    <3>1. budget.requests \in Nat /\ budget.requests > 0 /\ budget' = [budget EXCEPT !.requests = budget.requests - 1]
        BY <1>2 DEF SInv, TypeOK, kernelVars, listVars, threadVars, OnRequest
    <3>2. budget.requests - 1 \in Nat
        BY <3>1, SMT
    <3> QED
        BY <3>1, <3>2 DEF SInv, TypeOK
  <2>3. asked' \in [Clients -> Requests \cup {NoRequest}]
      BY <1>2 DEF SInv, TypeOK, kernelVars, listVars, threadVars, OnRequest
  <2> QED
      BY <1>2, <2>1, <2>2, <2>3 DEF SInv, TypeOK, kernelVars, listVars, threadVars, OnRequest
<1>3. ASSUME NEW s \in Sessions, CloseClientSession(s) PROVE TypeOK'
    BY <1>3 DEF SInv, TypeOK, kernelVars, listVars, threadVars, CloseClientSession
<1>4. ASSUME NEW n \in Services, RegisterService(n) PROVE TypeOK'
    BY <1>4 DEF SInv, TypeOK, kernelVars, listVars, threadVars, RegisterService
<1>5. ASSUME RequestStop PROVE TypeOK'
    BY <1>5 DEF SInv, TypeOK, kernelVars, listVars, threadVars, RequestStop
<1>6. ASSUME SignalStop PROVE TypeOK'
    BY <1>6 DEF SInv, TypeOK, kernelVars, listVars, threadVars, SignalStop
<1>7. ASSUME Destroy PROVE TypeOK'
    BY <1>7, SMT DEF SInv, TypeOK, kernelVars, listVars, threadVars, Destroy, CloseServerSessions
<1> QED
    BY <1>1, <1>2, <1>3, <1>4, <1>5, <1>6, <1>7

(* The holder that is selected leaves the list. *)
LEMMA SelectedTypes ==
    ASSUME SInv, NEW t \in Threads, NEW i \in DOMAIN multi_wait, Selected(t, i)
    PROVE  TypeOK'
<1> DEFINE h == multi_wait[i]
<1>1. multi_wait \in Seq(Holders) /\ h \in Holders
    BY SMT DEF SInv, TypeOK
<1>2. Unlink(multi_wait, i) \in Seq(Holders)
    BY <1>1, SMT DEF Unlink
<1>3. multi_wait' \in Seq(Holders) /\ selection_mutex' \in Threads \cup {None}
    BY <1>1, <1>2 DEF Selected, SInv, TypeOK
<1>4. completing' \in [Threads -> Sessions \cup {None}]
    BY DEF Selected, SInv, TypeOK
<1>5. pc' = [pc EXCEPT ![t] = IF h = Wakeup THEN "clear" ELSE IF h \in Sessions THEN "receive" ELSE h]
    BY DEF Selected, Goto
<1>6. h \notin Sessions => h \in {Wakeup, Deferral, Port}
    BY <1>1 DEF Holders
<1> HIDE DEF h
<1>7. TypeOK!16'
    BY <1>5, <1>6 DEF SInv, TypeOK, Labels
<1> QED
    BY <1>3, <1>4, <1>7 DEF Selected, SInv, TypeOK, kernelVars

LEMMA LoopTypes ==
    ASSUME SInv, NEW t \in Threads
    PROVE  /\ LeaveLoop(t) \/ LockSelection(t) \/ LinkDeferred(t) \/ TestStop(t) => TypeOK'
           /\ WaitAny(t) \/ NotifyAvailable(t) \/ ClearWakeup(t) => TypeOK'
           /\ LinkToDeferredList(t) \/ SignalWakeup(t) => TypeOK'
<1>1. ASSUME LeaveLoop(t) PROVE TypeOK'
    BY <1>1 DEF SInv, TypeOK, Labels, kernelVars, listVars, Goto, LeaveLoop
<1>2. ASSUME LockSelection(t) PROVE TypeOK'
    BY <1>2 DEF SInv, TypeOK, Labels, kernelVars, listVars, Goto, LockSelection
<1>3. ASSUME LinkDeferred(t) PROVE TypeOK'
    BY <1>3, SMT DEF SInv, TypeOK, Labels, kernelVars, listVars, Goto, LinkDeferred
<1>4. ASSUME TestStop(t) PROVE TypeOK'
    BY <1>4 DEF SInv, TypeOK, Labels, kernelVars, listVars, Goto, TestStop
<1>5. ASSUME WaitAny(t) PROVE TypeOK'
  <2>1. CASE \E i \in DOMAIN multi_wait : Selected(t, i)
      BY <2>1, SelectedTypes
  <2>2. CASE pc' = [pc EXCEPT ![t] = "asleep"] /\ UNCHANGED <<kernelVars, asked, registered, listVars, wakeup_event,
                         deferral_event, selection_mutex, server, completing, result, retry,
                         links, stop, budget>>
      BY <2>2 DEF SInv, TypeOK, Labels, kernelVars, listVars
  <2> QED
      BY <1>5, <2>1, <2>2 DEF SInv, TypeOK, kernelVars, listVars, Goto, WaitAny
<1>6. ASSUME NotifyAvailable(t) PROVE TypeOK'
    BY <1>6, SelectedTypes DEF SInv, TypeOK, kernelVars, listVars, Goto, NotifyAvailable
<1>7. ASSUME ClearWakeup(t) PROVE TypeOK'
    BY <1>7 DEF SInv, TypeOK, Labels, kernelVars, listVars, Goto, ClearWakeup
<1>8. ASSUME LinkToDeferredList(t) PROVE TypeOK'
  <2>1. links[t] \in Seq(Holders) /\ links[t] # << >>
      BY <1>8 DEF SInv, TypeOK, kernelVars, listVars, Goto, LinkToDeferredList, Local, Linking
  <2>2. Head(links[t]) \in Holders
      BY <2>1, SMT
  <2> QED
      BY <1>8, <2>2, SMT DEF SInv, TypeOK, Labels, kernelVars, listVars, Goto, LinkToDeferredList
<1>9. ASSUME SignalWakeup(t) PROVE TypeOK'
  <2>1. links[t] \in Seq(Holders) /\ links[t] # << >>
      BY <1>9 DEF SInv, TypeOK, kernelVars, listVars, Goto, SignalWakeup, Local, Linking
  <2>2. Tail(links[t]) \in Seq(Holders)
      BY <2>1, SMT
  <2> QED
      BY <1>9, <2>2 DEF SInv, TypeOK, Labels, kernelVars, listVars, Goto, SignalWakeup
<1> QED
    BY <1>1, <1>2, <1>3, <1>4, <1>5, <1>6, <1>7, <1>8, <1>9

(* The request a handler works on is there, and is a request. *)
LEMMA HandlerRequest ==
    ASSUME SInv, NEW t \in Threads, pc[t] = "handle"
    PROVE  /\ stop # "gone" /\ completing[t] \in Sessions /\ current[completing[t]] \in Clients
           /\ asked[current[completing[t]]] \in Requests \cup {NoRequest}
<1>1. stop # "gone" /\ completing[t] # None
    BY DEF SInv, Local, Working
<1>2. completing[t] \in Sessions
    BY <1>1 DEF SInv, TypeOK
<1>3. current[completing[t]] # None
    BY <1>1 DEF SInv, Received, Serving
<1>4. current[completing[t]] \in Clients
    BY <1>2, <1>3 DEF SInv, TypeOK
<1> QED
    BY <1>1, <1>2, <1>4 DEF SInv, TypeOK

(* A request of the registry names a service. *)
LEMMA RegistryRequestName ==
    ASSUME NEW r \in Requests \cup {NoRequest}, r.op \in {"get", "register", "unregister"}
    PROVE  r \in RegistryRequests /\ r.name \in Services
<1>1. CASE r \in RegistryRequests
    BY <1>1 DEF RegistryRequests
<1>2. CASE r \in [op : {"plain", "close", "open"}]
    BY <1>2
<1>3. CASE r = NoRequest
    BY <1>3 DEF NoRequest
<1> QED
    BY <1>1, <1>2, <1>3 DEF Requests

(* The session a handler works on. *)
LEMMA WorkerSession ==
    ASSUME SInv, NEW t \in Threads, pc[t] \in Working
    PROVE  stop # "gone" /\ completing[t] \in Sessions
<1>1. completing[t] # None /\ stop # "gone"
    BY DEF SInv, Local, Working
<1> QED
    BY <1>1 DEF SInv, TypeOK

(* What a handler does, in its two ways: it returns a result, or opens a session first. *)
HandlerFrame(t) ==
    /\ pc[t] = "handle" /\ registered' \subseteq Services /\ deferral_event' \in BOOLEAN
    /\ UNCHANGED <<requests, current, pending, port, asked, multi_wait, deferred_list, deferred,
                   wakeup_event, selection_mutex, server, completing, retry, stop, budget>>

Returns(t, x) ==
    /\ result' = [result EXCEPT ![t] = x]
    /\ pc' = [pc EXCEPT ![t] = IF x = "deferred" THEN "defer" ELSE "reply"]
    /\ UNCHANGED <<session, sessions, links>>

Opens(t, new) ==
    /\ session[new] = "Free"
    /\ session' = [session EXCEPT ![new] = "Normal"]
    /\ sessions' = sessions \cup {new}
    /\ links' = [links EXCEPT ![t] = <<new>>]
    /\ result' = [result EXCEPT ![t] = new]
    /\ pc' = [pc EXCEPT ![t] = "relink"]

LEMMA HandlerSteps ==
    ASSUME SInv, NEW t \in Threads, HandleSyncRequest(t)
    PROVE  /\ HandlerFrame(t)
           /\ \/ \E x \in {"ok", "error", "closed", "deferred"} : Returns(t, x)
              \/ \E new \in Sessions : Opens(t, new)
<1> DEFINE r == asked[current[completing[t]]]
<1>1. pc[t] = "handle"
    BY DEF HandleSyncRequest
<1>2. r \in Requests \cup {NoRequest}
    BY <1>1, HandlerRequest
<1>3. /\ r.op \in {"get", "register", "unregister"} => r.name \in Services
      /\ registered \subseteq Services /\ deferral_event \in BOOLEAN
    BY <1>2, RegistryRequestName DEF SInv, TypeOK
<1>4. UNCHANGED <<requests, current, pending, port, asked, multi_wait, deferred_list, deferred,
                  wakeup_event, selection_mutex, server, completing, retry, stop, budget>>
    BY DEF HandleSyncRequest
<1>5. \/ /\ r.op \in {"plain", "close"}
         /\ result' = [result EXCEPT ![t] = IF r.op = "close" THEN "closed" ELSE "ok"]
         /\ Goto(t, "reply")
         /\ UNCHANGED <<session, registered, deferral_event, sessions, links>>
      \/ /\ \E new \in AnyOf({x \in Sessions : session[x] = "Free"}) :
               /\ session' = [session EXCEPT ![new] = "Normal"]
               /\ sessions' = sessions \cup {new}
               /\ links' = [links EXCEPT ![t] = <<new>>]
               /\ result' = [result EXCEPT ![t] = new]
         /\ Goto(t, "relink")
         /\ UNCHANGED <<registered, deferral_event>>
      \/ /\ r.op \in {"get", "register", "unregister"}
         /\ result' = [result EXCEPT ![t] = RegistryResult(r)]
         /\ registered' = IF RegistryResult(r) # "ok" \/ r.op = "get" THEN registered
                          ELSE IF r.op = "register" THEN registered \cup {r.name}
                          ELSE registered \ {r.name}
         /\ deferral_event' = (deferral_event \/ (r.op = "register" /\ RegistryResult(r) = "ok"))
         /\ Goto(t, IF RegistryResult(r) = "deferred" THEN "defer" ELSE "reply")
         /\ UNCHANGED <<session, sessions, links>>
    BY DEF HandleSyncRequest
<1>6. RegistryResult(r) \in {"ok", "error", "deferred"}
    BY DEF RegistryResult
<1> HIDE DEF r
<1>7. CASE r.op \in {"plain", "close"} /\ <1>5!1
  <2>1. Returns(t, IF r.op = "close" THEN "closed" ELSE "ok")
      BY <1>7 DEF Returns, Goto
  <2> QED
      BY <1>1, <1>3, <1>4, <1>7, <2>1 DEF HandlerFrame
<1>8. CASE <1>5!2
  <2>1. PICK new \in AnyOf({x \in Sessions : session[x] = "Free"}) :
            /\ session' = [session EXCEPT ![new] = "Normal"]
            /\ sessions' = sessions \cup {new}
            /\ links' = [links EXCEPT ![t] = <<new>>]
            /\ result' = [result EXCEPT ![t] = new]
      BY <1>8
  <2>2. new \in Sessions /\ session[new] = "Free"
      BY AnyOfIn
  <2>3. Opens(t, new)
      BY <1>8, <2>1, <2>2 DEF Opens, Goto
  <2> QED
      BY <1>1, <1>3, <1>4, <1>8, <2>2, <2>3 DEF HandlerFrame
<1>9. CASE <1>5!3
  <2>1. Returns(t, RegistryResult(r))
      BY <1>9 DEF Returns, Goto
  <2>2. registered' \subseteq Services
      BY <1>3, <1>9
  <2>3. deferral_event' \in BOOLEAN
      BY <1>9
  <2> QED
      BY <1>1, <1>4, <1>6, <2>1, <2>2, <2>3 DEF HandlerFrame
<1> QED
    BY <1>5, <1>7, <1>8, <1>9

LEMMA HandlerTypes ==
    ASSUME SInv, NEW t \in Threads, HandleSyncRequest(t)
    PROVE  TypeOK'
<1>1. HandlerFrame(t)
    BY HandlerSteps
<1>2. CASE \E x \in {"ok", "error", "closed", "deferred"} : Returns(t, x)
  <2>1. PICK x \in {"ok", "error", "closed", "deferred"} : Returns(t, x)
      BY <1>2
  <2>2. x \in Results
      BY DEF Results
  <2>3. result' \in [Threads -> Results \cup {None}]
      BY <2>1, <2>2 DEF Returns, SInv, TypeOK
  <2> QED
      BY <1>1, <2>1, <2>3 DEF HandlerFrame, Returns, SInv, TypeOK, Labels
<1>3. CASE \E new \in Sessions : Opens(t, new)
  <2>1. PICK new \in Sessions : Opens(t, new)
      BY <1>3
  <2>2. new \in Holders /\ new \in Results
      BY DEF Holders, Results
  <2>3. <<new>> \in Seq(Holders)
      BY <2>2, SMT
  <2>4. links' \in [Threads -> Seq(Holders)]
      BY <2>1, <2>3 DEF Opens, SInv, TypeOK
  <2>5. result' \in [Threads -> Results \cup {None}]
      BY <2>1, <2>2 DEF Opens, SInv, TypeOK
  <2>6. /\ session' \in [Sessions -> {"Free", "Normal", "ClientClosed", "ServerClosed"}]
        /\ sessions' \subseteq Sessions
      BY <2>1 DEF Opens, SInv, TypeOK
  <2> QED
      BY <1>1, <2>1, <2>4, <2>5, <2>6 DEF HandlerFrame, Opens, SInv, TypeOK, Labels
<1> QED
    BY <1>2, <1>3, HandlerSteps

LEMMA EventTypes ==
    ASSUME SInv, NEW t \in Threads
    PROVE  /\ OnPortEvent(t) \/ OnSessionEvent(t) \/ Defer(t) \/ SendReply(t) => TypeOK'
           /\ DestroySession(t) \/ ClearDeferral(t) \/ GrabDeferrals(t) => TypeOK'
           /\ \A s \in Sessions : CompleteDeferred(t, s) => TypeOK'
<1>1. ASSUME OnPortEvent(t) PROVE TypeOK'
  <2>1. pending # << >> /\ Head(pending) \in Sessions /\ Tail(pending) \in Seq(Sessions)
      BY <1>1, SMT DEF SInv, TypeOK, kernelVars, listVars, Goto, OnPortEvent
  <2>2. <<Head(pending), Port>> \in Seq(Holders)
    <3>1. Head(pending) \in Holders /\ Port \in Holders
        BY <2>1 DEF Holders
    <3> QED
        BY <3>1, SMT
  <2> QED
      BY <1>1, <2>1, <2>2 DEF SInv, TypeOK, Labels, kernelVars, listVars, Goto, OnPortEvent
<1>2. ASSUME OnSessionEvent(t) PROVE TypeOK'
  <2>1. completing[t] \in Sessions
      BY <1>2, WorkerSession DEF SInv, TypeOK, kernelVars, listVars, Goto, OnSessionEvent, Working
  <2>2. CASE session[completing[t]] = "ClientClosed"
      BY <1>2, <2>2 DEF SInv, TypeOK, Labels, kernelVars, listVars, Goto, OnSessionEvent
  <2>3. CASE session[completing[t]] # "ClientClosed"
    <3> DEFINE s == completing[t]
    <3>1. requests[s] \in Seq(Clients) /\ requests[s] # << >>
        BY <1>2, <2>1, <2>3 DEF SInv, TypeOK, kernelVars, listVars, Goto, OnSessionEvent
    <3>2. Head(requests[s]) \in Clients /\ Tail(requests[s]) \in Seq(Clients)
        BY <3>1, SMT
    <3>3. requests' \in [Sessions -> Seq(Clients)] /\ current' \in [Sessions -> Clients \cup {None}]
        BY <1>2, <2>3, <3>2 DEF SInv, TypeOK, OnSessionEvent
    <3>4. pc' = [pc EXCEPT ![t] = "handle"]
        BY <1>2, <2>3 DEF Goto, OnSessionEvent
    <3>5. pc' \in [Threads -> Labels]
        BY <3>4 DEF SInv, TypeOK, Labels
    <3> QED
        BY <1>2, <2>3, <3>3, <3>5 DEF SInv, TypeOK, listVars, OnSessionEvent
  <2> QED
      BY <2>2, <2>3
<1>3. ASSUME Defer(t) PROVE TypeOK'
  <2>1. completing[t] \in Sessions
      BY <1>3, WorkerSession DEF SInv, TypeOK, kernelVars, listVars, Goto, Defer, Working
  <2> QED
      BY <1>3, <2>1 DEF SInv, TypeOK, Labels, kernelVars, listVars, Goto, Defer
<1>4. ASSUME SendReply(t) PROVE TypeOK'
  <2>1. completing[t] \in Sessions
      BY <1>4, WorkerSession DEF SInv, TypeOK, kernelVars, listVars, Goto, SendReply, Working
  <2>2. <<completing[t]>> \in Seq(Holders)
    <3>1. completing[t] \in Holders
        BY <2>1 DEF Holders
    <3> QED
        BY <3>1, SMT
  <2>3. /\ completing' \in [Threads -> Sessions \cup {None}] /\ links' \in [Threads -> Seq(Holders)]
        /\ pc' \in [Threads -> Labels]
      BY <1>4, <2>2 DEF SInv, TypeOK, Labels, kernelVars, listVars, Goto, SendReply
  <2> QED
      BY <1>4, <2>3 DEF SInv, TypeOK, kernelVars, listVars, Goto, SendReply
<1>5. ASSUME DestroySession(t) PROVE TypeOK'
  <2>1. pc' \in [Threads -> Labels] /\ completing' \in [Threads -> Sessions \cup {None}]
      BY <1>5 DEF SInv, TypeOK, Labels, Goto, DestroySession
  <2>2. /\ session' \in [Sessions -> {"Free", "Normal", "ClientClosed", "ServerClosed"}]
        /\ requests' \in [Sessions -> Seq(Clients)] /\ current' \in [Sessions -> Clients \cup {None}]
        /\ asked' \in [Clients -> Requests \cup {NoRequest}] /\ sessions' \subseteq Sessions
      BY <1>5, SMT DEF SInv, TypeOK, DestroySession, CloseServerSessions
  <2> QED
      BY <1>5, <2>1, <2>2 DEF SInv, TypeOK, DestroySession
<1>6. ASSUME ClearDeferral(t) PROVE TypeOK'
    BY <1>6 DEF SInv, TypeOK, Labels, kernelVars, listVars, Goto, ClearDeferral
<1>7. ASSUME GrabDeferrals(t) PROVE TypeOK'
  <2>1. <<Deferral>> \in Seq(Holders)
    <3>1. Deferral \in Holders
        BY DEF Holders
    <3> QED
        BY <3>1, SMT
  <2> QED
      BY <1>7, <2>1 DEF SInv, TypeOK, Labels, kernelVars, listVars, Goto, GrabDeferrals
<1>8. ASSUME NEW s \in Sessions, CompleteDeferred(t, s) PROVE TypeOK'
    BY <1>8 DEF SInv, TypeOK, Labels, kernelVars, listVars, Goto, CompleteDeferred
<1> QED
    BY <1>1, <1>2, <1>3, <1>4, <1>5, <1>6, <1>7, <1>8

LEMMA NextTypes ==
    ASSUME SInv, [Next]_vars
    PROVE  TypeOK'
<1>1. ASSUME UNCHANGED vars PROVE TypeOK'
    BY <1>1 DEF vars, kernelVars, listVars, threadVars, SInv, TypeOK
<1>2. ASSUME NEW t \in Threads, ThreadStep(t) PROVE TypeOK'
    BY <1>2, LoopTypes, HandlerTypes, EventTypes DEF ThreadStep
<1>3. ASSUME NEW s \in AnyOf({x \in Sessions : session[x] = "Free"}), CreateSession(s) PROVE TypeOK'
    BY <1>3, AnyOfIn, GuestTypes
<1>4. ASSUME NEW c \in AnyOf({x \in Clients : asked[x] = NoRequest}), NEW s \in Sessions,
             NEW r \in Requests, OnRequest(c, s, r)
      PROVE  TypeOK'
    BY <1>4, AnyOfIn, GuestTypes
<1> QED
    BY <1>1, <1>2, <1>3, <1>4, GuestTypes DEF Next

-----------------------------------------------------------------------------
(* The locals of a thread. *)

(* A step of t leaves the other threads alone. *)
StepOf(t) ==
    /\ OnlyThread(t)
    /\ \A u \in Threads \ {t} : result'[u] = result[u] /\ (selection_mutex' = u <=> selection_mutex = u)
    /\ server' = server /\ stop' = stop

LEMMA LocalOthers ==
    ASSUME NEW t \in Threads, StepOf(t), \A u \in Threads : Local(u), Local(t)'
    PROVE  \A u \in Threads : Local(u)'
<1>1. ASSUME NEW u \in Threads, u # t PROVE Local(u)'
  <2>1. /\ pc'[u] = pc[u] /\ completing'[u] = completing[u] /\ retry'[u] = retry[u]
        /\ links'[u] = links[u] /\ result'[u] = result[u]
        /\ (selection_mutex' = u <=> selection_mutex = u)
        /\ server' = server /\ stop' = stop
      BY <1>1 DEF StepOf, OnlyThread
  <2>2. Local(u)
      OBVIOUS
  <2> QED
      BY <2>1, <2>2 DEF Local
<1> QED
    BY <1>1

(* Nobody else holds m_selection_mutex. *)
LEMMA Mutex ==
    ASSUME SInv, NEW t \in Threads
    PROVE  /\ pc[t] \in Holding => selection_mutex = t
           /\ t # None
BY NoneAssumption DEF SInv, Local

LEMMA SelectedStep ==
    ASSUME SInv, NEW t \in Threads, NEW i \in DOMAIN multi_wait, pc[t] \in {"wait", "asleep"},
           Selected(t, i)
    PROVE  /\ StepOf(t) /\ Local(t)'
           /\ multi_wait[i] \in Holders
<1> DEFINE h == multi_wait[i]
<1>1. h \in Holders /\ (h \in Sessions => h # None /\ h # Wakeup)
    BY NoneAssumption, HoldersAssumption, SMT DEF SInv, TypeOK, Results
<1>2. selection_mutex = t /\ t # None /\ pc[t] \in Holding
    BY Mutex DEF Holding
<1>3. /\ completing[t] = None /\ result[t] = None /\ retry[t] = {} /\ links[t] = << >>
      /\ stop # "gone" /\ t \in server.threads
    BY <1>2 DEF SInv, Local, Holding, Working, Linking
<1>4. /\ pc \in [Threads -> Labels]
      /\ completing \in [Threads -> Sessions \cup {None}]
    BY DEF SInv, TypeOK
<1>5. /\ result' = result /\ retry' = retry /\ links' = links /\ server' = server /\ stop' = stop
    BY DEF Selected
<1>9. \A u \in Threads : u # None
    BY NoneAssumption
<1>6. CASE h = Wakeup
  <2>1. pc' = [pc EXCEPT ![t] = "clear"] /\ selection_mutex' = selection_mutex /\ completing' = completing
      BY <1>6 DEF Selected, Goto
  <2> HIDE DEF h
  <2>2. StepOf(t)
      BY <1>2, <1>4, <1>5, <1>9, <2>1 DEF StepOf, OnlyThread
  <2>3. pc'[t] = "clear" /\ completing'[t] = None
      BY <1>3, <1>4, <2>1
  <2>4. Local(t)'
      BY <1>2, <1>3, <1>5, <2>1, <2>3, SMT DEF Local, Holding, Working, Linking
  <2> QED
      BY <1>1, <2>2, <2>4 DEF h
<1>7. CASE h \in Sessions
  <2>1. /\ pc' = [pc EXCEPT ![t] = "receive"] /\ selection_mutex' = None
        /\ completing' = [completing EXCEPT ![t] = h]
      BY <1>1, <1>7 DEF Selected, Goto
  <2> HIDE DEF h
  <2>2. StepOf(t)
      BY <1>2, <1>4, <1>5, <1>9, <2>1 DEF StepOf, OnlyThread
  <2>3. pc'[t] = "receive" /\ completing'[t] # None
      BY <1>1, <1>4, <1>7, <2>1
  <2>4. selection_mutex' = None
      BY <2>1
  <2>5. Local(t)'
      BY <1>2, <1>3, <1>5, <2>3, <2>4, SMT DEF Local, Holding, Working, Linking
  <2> QED
      BY <1>1, <2>2, <2>5 DEF h
<1>8. CASE h \in {Deferral, Port}
  <2>1. /\ pc' = [pc EXCEPT ![t] = h] /\ selection_mutex' = None /\ completing' = completing
      BY <1>8, HoldersAssumption DEF Selected, Goto, Wakeup, Deferral, Port
  <2> HIDE DEF h
  <2>2. StepOf(t)
      BY <1>2, <1>4, <1>5, <1>9, <2>1 DEF StepOf, OnlyThread
  <2>3. pc'[t] \in {Deferral, Port} /\ completing'[t] = None
      BY <1>3, <1>4, <1>8, <2>1
  <2>4. selection_mutex' = None
      BY <2>1
  <2>5. Local(t)'
      BY <1>2, <1>3, <1>5, <2>3, <2>4, SMT DEF Local, Holding, Working, Linking, Deferral, Port
  <2> QED
      BY <1>1, <2>2, <2>5 DEF h
<1> QED
    BY <1>1, <1>6, <1>7, <1>8 DEF Holders

(* The steps of the loop. *)
LEMMA LoopLocal ==
    ASSUME SInv, NEW t \in Threads
    PROVE  /\ LeaveLoop(t) \/ LockSelection(t) \/ LinkDeferred(t) \/ TestStop(t) => StepOf(t) /\ Local(t)'
           /\ WaitAny(t) \/ NotifyAvailable(t) \/ ClearWakeup(t) => StepOf(t) /\ Local(t)'
<1>0. /\ t # None /\ Local(t) /\ (pc[t] \in Holding => selection_mutex = t)
      /\ \A u \in Threads : u # None
    BY Mutex DEF SInv
<1>1. pc \in [Threads -> Labels]
    BY DEF SInv, TypeOK
<1>2. ASSUME LeaveLoop(t) PROVE StepOf(t) /\ Local(t)'
    BY <1>0, <1>1, <1>2 DEF LeaveLoop, Goto, StepOf, OnlyThread, Local, Holding, Working, Linking
<1>3. ASSUME LockSelection(t) PROVE StepOf(t) /\ Local(t)'
    BY <1>0, <1>1, <1>3 DEF LockSelection, Goto, StepOf, OnlyThread, Local, Holding, Working, Linking
<1>4. ASSUME LinkDeferred(t) PROVE StepOf(t) /\ Local(t)'
    BY <1>0, <1>1, <1>4 DEF LinkDeferred, Goto, StepOf, OnlyThread, Local, Holding, Working, Linking
<1>5. ASSUME TestStop(t) PROVE StepOf(t) /\ Local(t)'
  <2>1. \/ pc' = [pc EXCEPT ![t] = "wait"] /\ selection_mutex' = selection_mutex
        \/ pc' = [pc EXCEPT ![t] = "loop"] /\ selection_mutex' = None
      BY <1>5 DEF TestStop, Goto
  <2> QED
      BY <1>0, <1>1, <1>5, <2>1 DEF TestStop, StepOf, OnlyThread, Local, Holding, Working, Linking
<1>6. ASSUME WaitAny(t) PROVE StepOf(t) /\ Local(t)'
  <2>1. CASE \E i \in DOMAIN multi_wait : Selected(t, i)
      BY <1>6, <2>1, SelectedStep DEF WaitAny
  <2>2. CASE pc' = [pc EXCEPT ![t] = "asleep"] /\ UNCHANGED <<selection_mutex, server, completing,
                                                              result, retry, links, stop>>
      BY <1>0, <1>1, <1>6, <2>2 DEF WaitAny, StepOf, OnlyThread, Local, Holding, Working, Linking
  <2> QED
      BY <1>6, <2>1, <2>2 DEF WaitAny, Goto
<1>7. ASSUME NotifyAvailable(t) PROVE StepOf(t) /\ Local(t)'
    BY <1>7, SelectedStep DEF NotifyAvailable
<1>8. ASSUME ClearWakeup(t) PROVE StepOf(t) /\ Local(t)'
    BY <1>0, <1>1, <1>8 DEF ClearWakeup, Goto, StepOf, OnlyThread, Local, Holding, Working, Linking
<1> QED
    BY <1>2, <1>3, <1>4, <1>5, <1>6, <1>7, <1>8

(* The tail of a sequence. *)
LEMMA TailElements ==
    ASSUME NEW S, NEW q \in Seq(S), q # << >>
    PROVE  /\ Tail(q) # << >> <=> Len(q) > 1
           /\ \A i \in DOMAIN Tail(q) : i + 1 \in DOMAIN q /\ Tail(q)[i] = q[i + 1] /\ i \in Nat
<1>1. /\ Tail(q) \in Seq(S) /\ Len(Tail(q)) = Len(q) - 1 /\ Len(q) \in Nat /\ Len(q) # 0
      /\ \A i \in 1 .. Len(Tail(q)) : Tail(q)[i] = q[i + 1]
    BY SMT
<1>2. DOMAIN Tail(q) = 1 .. Len(Tail(q)) /\ DOMAIN q = 1 .. Len(q)
    BY <1>1, SMT
<1>3. Tail(q) = << >> <=> Len(Tail(q)) = 0
  <2>1. \A r \in Seq(S) : r = << >> <=> Len(r) = 0
      BY SMT
  <2> QED
      BY <1>1, <2>1
<1>4. Tail(q) # << >> <=> Len(q) > 1
  <2>1. \A m, n \in Nat : m = n - 1 /\ n # 0 => (m # 0 <=> n > 1)
      BY SMT
  <2>2. Len(Tail(q)) \in Nat
      BY <1>1, SMT
  <2> QED
      BY <1>1, <1>3, <2>1, <2>2
<1>5. ASSUME NEW i \in DOMAIN Tail(q)
      PROVE  i + 1 \in DOMAIN q /\ Tail(q)[i] = q[i + 1] /\ i \in Nat
  <2>1. i \in 1 .. Len(Tail(q))
      BY <1>2
  <2>2. i \in Nat /\ i + 1 \in 1 .. Len(q)
      BY <1>1, <2>1, SMT
  <2> QED
      BY <1>1, <1>2, <2>1, <2>2
<1> QED
    BY <1>4, <1>5

(* The steps between the loop and the list. *)
LEMMA LinkLocal ==
    ASSUME SInv, NEW t \in Threads
    PROVE  LinkToDeferredList(t) \/ SignalWakeup(t) => StepOf(t) /\ Local(t)'
<1>1. Local(t) /\ pc \in [Threads -> Labels] /\ links \in [Threads -> Seq(Holders)]
    BY DEF SInv, TypeOK
<1>2. ASSUME LinkToDeferredList(t) PROVE StepOf(t) /\ Local(t)'
    BY <1>1, <1>2 DEF LinkToDeferredList, Goto, StepOf, OnlyThread, Local, Holding, Working, Linking
<1>3. ASSUME SignalWakeup(t) PROVE StepOf(t) /\ Local(t)'
  <2>1. /\ pc[t] = "signal" /\ links' = [links EXCEPT ![t] = Tail(links[t])]
        /\ UNCHANGED <<selection_mutex, server, completing, result, retry, stop>>
        /\ pc' = [pc EXCEPT ![t] = IF Len(links[t]) > 1 THEN "relink"
                                   ELSE IF result[t] # None THEN "reply" ELSE "loop"]
      BY <1>3 DEF SignalWakeup, Goto
  <2>2. StepOf(t)
      BY <1>1, <2>1 DEF StepOf, OnlyThread
  <2>3. links[t] \in Seq(Holders) /\ links[t] # << >> /\ links'[t] = Tail(links[t])
      BY <1>1, <2>1 DEF Local, Linking
  <2>4. /\ (links'[t] # << >> <=> Len(links[t]) > 1)
        /\ \A i \in DOMAIN links'[t] : i + 1 \in DOMAIN links[t] /\ links'[t][i] = links[t][i + 1] /\ i \in Nat
      BY <2>3, TailElements
  <2>5. \A i \in DOMAIN links'[t] : i > 1 => links'[t][i] \notin Sessions
    <3>1. \A i \in DOMAIN links[t] : i > 1 => links[t][i] \notin Sessions
        BY <1>1 DEF Local
    <3>2. SUFFICES ASSUME NEW i \in DOMAIN links'[t], i > 1 PROVE links'[t][i] \notin Sessions
        OBVIOUS
    <3>3. i \in Nat /\ i + 1 \in DOMAIN links[t] /\ links'[t][i] = links[t][i + 1]
        BY <2>4
    <3>4. i + 1 > 1
        BY <3>2, <3>3, SMT
    <3> QED
        BY <3>1, <3>3, <3>4
  <2>6. pc'[t] = IF Len(links[t]) > 1 THEN "relink" ELSE IF result[t] # None THEN "reply" ELSE "loop"
      BY <1>1, <2>1
  <2>7. Local(t)'
      BY <1>1, <2>1, <2>4, <2>5, <2>6 DEF Local, Holding, Working, Linking
  <2> QED
      BY <2>2, <2>7
<1> QED
    BY <1>2, <1>3

(* The handlers. *)
LEMMA HandlerLocal ==
    ASSUME SInv, NEW t \in Threads, HandleSyncRequest(t)
    PROVE  StepOf(t) /\ Local(t)'
<1>1. /\ Local(t) /\ pc \in [Threads -> Labels]
      /\ links \in [Threads -> Seq(Holders)] /\ result \in [Threads -> Results \cup {None}]
    BY DEF SInv, TypeOK
<1>2. HandlerFrame(t)
    BY HandlerSteps
<1>3. /\ pc[t] = "handle" /\ UNCHANGED <<selection_mutex, server, completing, retry, stop>>
    BY <1>2 DEF HandlerFrame
<1>4. CASE \E x \in {"ok", "error", "closed", "deferred"} : Returns(t, x)
  <2>1. PICK x \in {"ok", "error", "closed", "deferred"} : Returns(t, x)
      BY <1>4
  <2>2. StepOf(t)
      BY <1>1, <1>3, <2>1 DEF Returns, StepOf, OnlyThread
  <2>3. links' = links /\ pc'[t] \in {"defer", "reply"} /\ result'[t] # None
      BY <1>1, <2>1, NoneAssumption DEF Returns, Results
  <2>4. links[t] = << >> /\ completing[t] # None /\ stop # "gone" /\ t \in server.threads
        /\ selection_mutex # t
      BY <1>1, <1>3 DEF Local, Holding, Working, Linking
  <2>5. Local(t)'
      BY <1>3, <2>3, <2>4, SMT DEF Local, Holding, Working, Linking
  <2> QED
      BY <2>2, <2>5
<1>5. CASE \E new \in Sessions : Opens(t, new)
  <2>1. PICK new \in Sessions : Opens(t, new)
      BY <1>5
  <2>2. StepOf(t)
      BY <1>1, <1>3, <2>1 DEF Opens, StepOf, OnlyThread
  <2>3. links'[t] = <<new>> /\ pc'[t] = "relink" /\ result'[t] # None
      BY <1>1, <2>1, NoneAssumption DEF Opens, Results
  <2>4. /\ completing[t] # None /\ stop # "gone" /\ t \in server.threads
        /\ selection_mutex # t
      BY <1>1, <1>3 DEF Local, Holding, Working, Linking
  <2>5. links'[t] # << >> /\ \A i \in DOMAIN links'[t] : ~(i > 1)
      BY <2>3, SMT
  <2>6. Local(t)'
      BY <1>3, <2>3, <2>4, <2>5 DEF Local, Holding, Working, Linking
  <2> QED
      BY <2>2, <2>6
<1> QED
    BY <1>4, <1>5, HandlerSteps

LEMMA EventLocal ==
    ASSUME SInv, NEW t \in Threads
    PROVE  /\ OnPortEvent(t) \/ OnSessionEvent(t) \/ Defer(t) \/ SendReply(t) => StepOf(t) /\ Local(t)'
           /\ DestroySession(t) \/ ClearDeferral(t) \/ GrabDeferrals(t) => StepOf(t) /\ Local(t)'
           /\ \A s \in Sessions : CompleteDeferred(t, s) => StepOf(t) /\ Local(t)'
<1>0. /\ Local(t) /\ pc \in [Threads -> Labels]
      /\ links \in [Threads -> Seq(Holders)] /\ result \in [Threads -> Results \cup {None}]
      /\ completing \in [Threads -> Sessions \cup {None}] /\ retry \in [Threads -> SUBSET Sessions]
    BY DEF SInv, TypeOK
<1>1. ASSUME OnPortEvent(t) PROVE StepOf(t) /\ Local(t)'
  <2>1. StepOf(t)
      BY <1>0, <1>1 DEF OnPortEvent, Goto, StepOf, OnlyThread
  <2>2. /\ pc[t] = Port /\ pc'[t] = "relink" /\ links'[t] = <<Head(pending), Port>>
        /\ UNCHANGED <<selection_mutex, server, completing, result, retry, stop>>
      BY <1>0, <1>1 DEF OnPortEvent, Goto
  <2>3. \A i \in DOMAIN links'[t] : i > 1 => links'[t][i] \notin Sessions
      BY <2>2, HoldersAssumption, SMT
  <2>4. /\ completing[t] = None /\ result[t] = None /\ retry[t] = {} /\ stop # "gone"
        /\ t \in server.threads /\ selection_mutex # t
      BY <1>0, <2>2 DEF Local, Holding, Working, Linking, Port
  <2>5. links'[t] # << >>
      BY <2>2, SMT
  <2>6. Local(t)'
      BY <2>2, <2>3, <2>4, <2>5 DEF Local, Holding, Working, Linking
  <2> QED
      BY <2>1, <2>6
<1>2. ASSUME OnSessionEvent(t) PROVE StepOf(t) /\ Local(t)'
  <2>1. /\ pc[t] = "receive" /\ UNCHANGED <<selection_mutex, server, completing, result, retry, links, stop>>
        /\ \/ pc' = [pc EXCEPT ![t] = "destroy"]
           \/ pc' = [pc EXCEPT ![t] = "handle"]
      BY <1>2 DEF OnSessionEvent, Goto
  <2> QED
      BY <1>0, <2>1 DEF StepOf, OnlyThread, Local, Holding, Working, Linking
<1>3. ASSUME Defer(t) PROVE StepOf(t) /\ Local(t)'
    BY <1>0, <1>3 DEF Defer, Goto, StepOf, OnlyThread, Local, Holding, Working, Linking
<1>4. ASSUME SendReply(t) PROVE StepOf(t) /\ Local(t)'
  <2>1. /\ pc[t] = "reply" /\ UNCHANGED <<selection_mutex, server, retry, stop>>
        /\ result' = [result EXCEPT ![t] = None]
        /\ \/ pc' = [pc EXCEPT ![t] = "destroy"] /\ UNCHANGED <<completing, links>>
           \/ /\ completing' = [completing EXCEPT ![t] = None]
              /\ links' = [links EXCEPT ![t] = <<completing[t]>>]
              /\ pc' = [pc EXCEPT ![t] = "relink"]
      BY <1>4 DEF SendReply, Goto
  <2>2. StepOf(t)
      BY <1>0, <2>1 DEF StepOf, OnlyThread
  <2>3. CASE pc' = [pc EXCEPT ![t] = "destroy"] /\ UNCHANGED <<completing, links>>
      BY <1>0, <2>1, <2>2, <2>3 DEF Local, Holding, Working, Linking
  <2>4. CASE <2>1!3!2
    <3>1. /\ completing'[t] = None /\ links'[t] = <<completing[t]>> /\ pc'[t] = "relink"
          /\ result'[t] = None
        BY <1>0, <2>1, <2>4
    <3>2. links'[t] # << >> /\ \A i \in DOMAIN links'[t] : ~(i > 1)
        BY <3>1, SMT
    <3>3. stop # "gone" /\ t \in server.threads /\ selection_mutex # t
        BY <1>0, <2>1 DEF Local, Holding
    <3>4. Local(t)'
        BY <2>1, <3>1, <3>2, <3>3 DEF Local, Holding, Working, Linking
    <3> QED
        BY <2>2, <3>4
  <2> QED
      BY <2>1, <2>3, <2>4
<1>5. ASSUME DestroySession(t) PROVE StepOf(t) /\ Local(t)'
    BY <1>0, <1>5 DEF DestroySession, Goto, StepOf, OnlyThread, Local, Holding, Working, Linking
<1>6. ASSUME ClearDeferral(t) PROVE StepOf(t) /\ Local(t)'
    BY <1>0, <1>6 DEF ClearDeferral, Goto, StepOf, OnlyThread, Local, Holding, Working, Linking, Deferral
<1>7. ASSUME GrabDeferrals(t) PROVE StepOf(t) /\ Local(t)'
  <2>1. StepOf(t)
      BY <1>0, <1>7 DEF GrabDeferrals, Goto, StepOf, OnlyThread
  <2>2. /\ pc[t] = "grab" /\ pc'[t] = "relink" /\ links'[t] = <<Deferral>>
        /\ UNCHANGED <<selection_mutex, server, completing, result, stop>>
      BY <1>0, <1>7 DEF GrabDeferrals, Goto
  <2>3. links'[t] # << >> /\ \A i \in DOMAIN links'[t] : ~(i > 1)
      BY <2>2, SMT
  <2>4. /\ completing[t] = None /\ result[t] = None /\ stop # "gone"
        /\ t \in server.threads /\ selection_mutex # t
      BY <1>0, <2>2 DEF Local, Holding, Working, Linking
  <2>5. Local(t)'
      BY <2>2, <2>3, <2>4 DEF Local, Holding, Working, Linking
  <2> QED
      BY <2>1, <2>5
<1>8. ASSUME NEW s \in Sessions, CompleteDeferred(t, s) PROVE StepOf(t) /\ Local(t)'
    BY <1>0, <1>8, NoneAssumption
    DEF CompleteDeferred, Goto, StepOf, OnlyThread, Local, Holding, Working, Linking, Results
<1> QED
    BY <1>1, <1>2, <1>3, <1>4, <1>5, <1>6, <1>7, <1>8

LEMMA GuestLocal ==
    ASSUME SInv, threadVars' = threadVars, selection_mutex' = selection_mutex, server' = server,
           stop' = "gone" => \A t \in server.threads : pc[t] = "done"
    PROVE  /\ \A t \in Threads : Local(t)'
           /\ OnlyThread(Main)
<1>1. UNCHANGED <<pc, completing, result, retry, links>>
    BY DEF threadVars
<1>2. ASSUME NEW t \in Threads PROVE Local(t)'
  <2>1. Local(t)
      BY DEF SInv
  <2>2. stop' = "gone" => pc[t] = "done"
      BY <2>1 DEF Local
  <2> QED
      BY <1>1, <2>1, <2>2 DEF Local
<1> QED
    BY <1>1, <1>2 DEF OnlyThread

LEMMA NextLocal ==
    ASSUME SInv, [Next]_vars
    PROVE  \A t \in Threads : Local(t)'
<1>1. ASSUME NEW t \in Threads, ThreadStep(t) PROVE \A u \in Threads : Local(u)'
  <2>1. StepOf(t) /\ Local(t)'
      BY <1>1, LoopLocal, LinkLocal, HandlerLocal, EventLocal DEF ThreadStep
  <2> QED
      BY <2>1, LocalOthers DEF SInv
<1>2. ASSUME \/ \E s \in Sessions : CreateSession(s) \/ CloseClientSession(s)
             \/ \E c \in Clients, s \in Sessions, r \in Requests : OnRequest(c, s, r)
             \/ \E n \in Services : RegisterService(n)
             \/ RequestStop \/ SignalStop \/ Destroy \/ UNCHANGED vars
      PROVE  \A t \in Threads : Local(t)'
  <2>1. /\ threadVars' = threadVars /\ selection_mutex' = selection_mutex /\ server' = server
        /\ stop' = "gone" => \A t \in server.threads : pc[t] = "done"
    <3>1. \A t \in Threads : stop = "gone" => pc[t] = "done"
        BY DEF SInv, Local
    <3>2. server.threads \subseteq Threads
        BY ServersAssumption DEF SInv, TypeOK
    <3>3. ASSUME NEW s \in Sessions, CreateSession(s) \/ CloseClientSession(s) PROVE <2>1!1 /\ stop' = stop
        BY <3>3 DEF CreateSession, CloseClientSession
    <3>4. ASSUME NEW c \in Clients, NEW s \in Sessions, NEW r \in Requests, OnRequest(c, s, r)
          PROVE  <2>1!1 /\ stop' = stop
        BY <3>4 DEF OnRequest
    <3>5. ASSUME NEW n \in Services, RegisterService(n) PROVE <2>1!1 /\ stop' = stop
        BY <3>5 DEF RegisterService
    <3>6. ASSUME RequestStop \/ SignalStop PROVE <2>1!1 /\ stop' # "gone"
        BY <3>6 DEF RequestStop, SignalStop
    <3>7. ASSUME Destroy PROVE <2>1
        BY <3>7 DEF Destroy
    <3>8. ASSUME UNCHANGED vars PROVE <2>1!1 /\ stop' = stop
        BY <3>8 DEF vars
    <3> QED
        BY <1>2, <3>1, <3>2, <3>3, <3>4, <3>5, <3>6, <3>7, <3>8
  <2> QED
      BY <2>1, GuestLocal
<1> QED
    BY <1>1, <1>2, AnyOfIn DEF Next

-----------------------------------------------------------------------------
(* What a thread has received. *)

(* Others keep theirs whatever a thread does with the request of its own session. *)
LEMMA KeptReceived ==
    ASSUME SInv, NEW t \in Threads, StepOf(t),
           \A s \in Sessions \ {completing[t]} : current[s] # None => current'[s] # None,
           stop # "gone" => /\ Serving(t)' => current'[completing'[t]] # None
                            /\ \A s \in retry'[t] : current'[s] # None
                            /\ \A s \in deferred' : current'[s] # None
    PROVE  Received'
<1>1. SUFFICES ASSUME stop # "gone", NEW u \in Threads, u # t
               PROVE  /\ Serving(u)' => current'[completing'[u]] # None
                      /\ \A s \in retry'[u] : current'[s] # None
    BY DEF Received, StepOf
<1>2. /\ completing'[u] = completing[u] /\ retry'[u] = retry[u] /\ (Serving(u)' <=> Serving(u))
    BY <1>1 DEF StepOf, OnlyThread, Serving
<1>3. ASSUME Serving(u) PROVE current'[completing[u]] # None
  <2>1. completing[u] \in Sessions
    <3>1. completing \in [Threads -> Sessions \cup {None}]
        BY DEF SInv, TypeOK
    <3>2. completing[u] # None
        BY <1>3 DEF SInv, Local, Serving, Working
    <3> QED
        BY <3>1, <3>2
  <2>2. completing[t] # completing[u]
      BY <1>1, <2>1 DEF SInv, Exclusive, Has
  <2>3. current[completing[u]] # None
      BY <1>1, <1>3 DEF SInv, Received
  <2> QED
      BY <2>1, <2>2, <2>3
<1>4. ASSUME NEW s \in retry[u] PROVE current'[s] # None
  <2>1. s \in Sessions
      BY DEF SInv, TypeOK
  <2>2. completing[t] # s
      BY <1>1, <2>1 DEF SInv, Exclusive, Has
  <2>3. current[s] # None
      BY <1>1 DEF SInv, Received
  <2> QED
      BY <2>1, <2>2, <2>3
<1> QED
    BY <1>2, <1>3, <1>4

(* Steps that receive nothing and answer nothing. *)
LEMMA QuietReceived ==
    ASSUME SInv, NEW t \in Threads, StepOf(t), current' = current, deferred' = deferred,
           retry' = retry, completing'[t] = completing[t], Serving(t)' => Serving(t)
    PROVE  Received'
<1>1. stop # "gone" => /\ Serving(t)' => current'[completing'[t]] # None
                       /\ \A s \in retry'[t] : current'[s] # None
                       /\ \A s \in deferred' : current'[s] # None
    BY DEF SInv, Received
<1> QED
    BY <1>1, KeptReceived

LEMMA ThreadReceived ==
    ASSUME SInv, NEW t \in Threads, ThreadStep(t)
    PROVE  Received'
<1>0. StepOf(t) /\ Local(t)' /\ Local(t)
    BY LoopLocal, LinkLocal, HandlerLocal, EventLocal DEF ThreadStep, SInv
<1>1. /\ pc \in [Threads -> Labels] /\ result \in [Threads -> Results \cup {None}]
      /\ completing \in [Threads -> Sessions \cup {None}] /\ retry \in [Threads -> SUBSET Sessions]
      /\ current \in [Sessions -> Clients \cup {None}] /\ deferred \subseteq Sessions
      /\ requests \in [Sessions -> Seq(Clients)]
    BY DEF SInv, TypeOK
<1>2. /\ Serving(t) /\ stop # "gone" => current[completing[t]] # None
      /\ stop # "gone" => /\ \A s \in retry[t] : current[s] # None
                          /\ \A s \in deferred : current[s] # None
    BY DEF SInv, Received
<1>3. ASSUME LeaveLoop(t) \/ LockSelection(t) \/ LinkDeferred(t) \/ TestStop(t) \/ ClearWakeup(t)
             \/ ClearDeferral(t)
      PROVE  Received'
  <2>1. /\ UNCHANGED <<current, deferred, retry, completing>>
        /\ pc'[t] \in {"done", "link", "stopping", "wait", "loop", "grab"}
      BY <1>1, <1>3 DEF LeaveLoop, LockSelection, LinkDeferred, TestStop, ClearWakeup, ClearDeferral,
                   Goto, kernelVars, listVars
  <2> QED
      BY <1>0, <2>1, QuietReceived DEF Serving, Linking
<1>4. ASSUME NEW i \in DOMAIN multi_wait, Selected(t, i), pc[t] \in {"wait", "asleep"} PROVE Received'
  <2>1. UNCHANGED <<current, deferred, retry>> /\ result' = result
      BY <1>4 DEF Selected, kernelVars
  <2>2. pc'[t] \in {"clear", "receive", Deferral, Port}
    <3>1. multi_wait[i] \in Holders
        BY SMT DEF SInv, TypeOK
    <3> QED
        BY <1>1, <1>4, <3>1 DEF Selected, Goto, Holders
  <2>3. ~Serving(t)'
      BY <2>2 DEF Serving, Linking, Deferral, Port
  <2> QED
      BY <1>0, <1>2, <2>1, <2>3, KeptReceived
<1>5. ASSUME WaitAny(t) \/ NotifyAvailable(t) PROVE Received'
  <2>1. CASE \E i \in DOMAIN multi_wait : Selected(t, i)
      BY <1>4, <1>5, <2>1 DEF WaitAny, NotifyAvailable
  <2>2. CASE Goto(t, "asleep") /\ UNCHANGED <<kernelVars, listVars, completing, retry>>
    <3>1. pc'[t] = "asleep" /\ UNCHANGED <<current, deferred, retry, completing>>
        BY <1>1, <2>2 DEF Goto, kernelVars, listVars
    <3> QED
        BY <1>0, <3>1, QuietReceived DEF Serving, Linking
  <2> QED
      BY <1>5, <2>1, <2>2 DEF WaitAny, NotifyAvailable
<1>6. ASSUME LinkToDeferredList(t) \/ SignalWakeup(t) PROVE Received'
  <2>1. /\ UNCHANGED <<current, deferred, retry, completing, result>>
        /\ pc[t] \in Linking /\ pc'[t] \in {"relink", "signal", "reply", "loop"}
        /\ pc'[t] = "reply" => result[t] # None
      BY <1>1, <1>6 DEF LinkToDeferredList, SignalWakeup, Goto, kernelVars, listVars, Linking
  <2>2. Serving(t)' => Serving(t)
      BY <2>1 DEF Serving, Linking
  <2> QED
      BY <1>0, <2>1, <2>2, QuietReceived
<1>7. ASSUME OnPortEvent(t) PROVE Received'
  <2>1. /\ UNCHANGED <<current, deferred, retry, completing, result>>
        /\ pc[t] = Port /\ pc'[t] = "relink"
      BY <1>1, <1>7 DEF OnPortEvent, Goto
  <2>2. result[t] = None
      BY <1>0, <2>1 DEF Local, Linking, Port
  <2> QED
      BY <1>0, <2>1, <2>2, QuietReceived DEF Serving, Linking
<1>8. ASSUME OnSessionEvent(t) PROVE Received'
  <2>1. completing[t] \in Sessions
      BY <1>8, WorkerSession DEF OnSessionEvent, Working
  <2>2. /\ UNCHANGED <<deferred, retry, completing, result>>
        /\ \/ pc'[t] = "destroy" /\ current' = current
           \/ /\ requests[completing[t]] # << >>
              /\ current' = [current EXCEPT ![completing[t]] = Head(requests[completing[t]])]
      BY <1>1, <1>8 DEF OnSessionEvent, Goto, listVars
  <2>3. CASE pc'[t] = "destroy" /\ current' = current
      BY <1>0, <2>2, <2>3, QuietReceived DEF Serving, Linking
  <2>4. CASE /\ requests[completing[t]] # << >>
             /\ current' = [current EXCEPT ![completing[t]] = Head(requests[completing[t]])]
    <3>1. requests[completing[t]] \in Seq(Clients)
        BY <1>1, <2>1
    <3>2. Head(requests[completing[t]]) \in Clients
        BY <2>4, <3>1, SMT
    <3>3. Head(requests[completing[t]]) # None
        BY <3>2, NoneAssumption
    <3>4. /\ current'[completing[t]] # None
          /\ \A s \in Sessions : current[s] # None => current'[s] # None
        BY <1>1, <2>1, <2>4, <3>3
    <3> QED
        BY <1>0, <1>1, <1>2, <2>2, <3>4, KeptReceived
  <2> QED
      BY <2>2, <2>3, <2>4
<1>9. ASSUME HandleSyncRequest(t) PROVE Received'
  <2>1. pc[t] = "handle" /\ UNCHANGED <<current, deferred, completing, retry>>
      BY <1>9, HandlerSteps DEF HandlerFrame
  <2> QED
      BY <1>0, <2>1, QuietReceived DEF Serving
<1>10. ASSUME Defer(t) PROVE Received'
  <2>1. /\ pc[t] = "defer" /\ pc'[t] = "loop" /\ deferred' = deferred \cup {completing[t]}
        /\ UNCHANGED <<current, retry>>
      BY <1>1, <1>10 DEF Defer, Goto, kernelVars
  <2> QED
      BY <1>0, <1>2, <2>1, KeptReceived DEF Serving, Linking
<1>11. ASSUME SendReply(t) \/ DestroySession(t) PROVE Received'
  <2>1. /\ pc[t] \in Working /\ pc'[t] \in {"destroy", "relink", "loop"}
        /\ UNCHANGED <<deferred, retry>>
        /\ pc'[t] = "relink" => result'[t] = None
        /\ \A s \in Sessions \ {completing[t]} : current'[s] = current[s]
      BY <1>1, <1>11 DEF SendReply, DestroySession, CloseServerSessions, Goto, listVars, Working
  <2>2. stop # "gone" /\ completing[t] \in Sessions
      BY <2>1, WorkerSession
  <2>3. completing[t] \notin deferred
      BY <2>2 DEF SInv, Exclusive, Has
  <2>4. completing[t] \notin retry[t]
      BY <2>2 DEF SInv, Exclusive, Has
  <2>5. ~Serving(t)'
      BY <2>1 DEF Serving, Linking
  <2>6. /\ \A s \in retry[t] : s \in Sessions \ {completing[t]}
        /\ \A s \in deferred : s \in Sessions \ {completing[t]}
      BY <1>1, <2>3, <2>4
  <2> QED
      BY <1>0, <1>2, <2>1, <2>5, <2>6, KeptReceived
<1>12. ASSUME GrabDeferrals(t) PROVE Received'
  <2>1. /\ pc[t] = "grab" /\ pc'[t] = "relink" /\ deferred' = {} /\ retry'[t] = deferred
        /\ UNCHANGED <<current, completing, result>>
      BY <1>1, <1>12 DEF GrabDeferrals, Goto, kernelVars
  <2>2. result[t] = None
      BY <1>0, <2>1 DEF Local, Linking
  <2> QED
      BY <1>0, <1>2, <2>1, <2>2, KeptReceived DEF Serving, Linking
<1>13. ASSUME NEW s \in Sessions, CompleteDeferred(t, s) PROVE Received'
  <2>1. /\ s \in retry[t] /\ completing'[t] = s /\ retry'[t] = retry[t] \ {s}
        /\ UNCHANGED <<current, deferred>>
      BY <1>1, <1>13 DEF CompleteDeferred, Goto, kernelVars, listVars
  <2> QED
      BY <1>0, <1>2, <2>1, KeptReceived
<1> QED
    BY <1>3, <1>5, <1>6, <1>7, <1>8, <1>9, <1>10, <1>11, <1>12, <1>13 DEF ThreadStep

LEMMA NextReceived ==
    ASSUME SInv, [Next]_vars
    PROVE  Received'
<1>1. ASSUME UNCHANGED <<current, deferred, threadVars>>, stop' # "gone" => stop # "gone"
      PROVE  Received'
    BY <1>1 DEF threadVars, SInv, Received, Serving
<1>2. ASSUME NEW s \in Sessions, CreateSession(s) \/ CloseClientSession(s) PROVE Received'
    BY <1>1, <1>2 DEF CreateSession, CloseClientSession, listVars
<1>3. ASSUME NEW c \in Clients, NEW s \in Sessions, NEW r \in Requests, OnRequest(c, s, r) PROVE Received'
    BY <1>1, <1>3 DEF OnRequest, listVars
<1>4. ASSUME NEW n \in Services, RegisterService(n) PROVE Received'
    BY <1>1, <1>4 DEF RegisterService, kernelVars, listVars
<1>5. ASSUME RequestStop \/ SignalStop PROVE Received'
    BY <1>1, <1>5 DEF RequestStop, SignalStop, kernelVars, listVars
<1>6. ASSUME Destroy PROVE Received'
    BY <1>6 DEF Destroy, Received
<1>7. ASSUME UNCHANGED vars PROVE Received'
    BY <1>1, <1>7 DEF vars, kernelVars, listVars
<1> QED
    BY <1>2, <1>3, <1>4, <1>5, <1>6, <1>7, ThreadReceived, AnyOfIn DEF Next

-----------------------------------------------------------------------------
(* A client waits in one place: it is the current request of a session or one of those a session
   has queued, and only while it has asked. *)
Once ==
    /\ \A s \in Sessions : current[s] # None => asked[current[s]] # NoRequest
    /\ \A s, r \in Sessions : current[s] # None /\ current[s] = current[r] => s = r
    /\ \A s, r \in Sessions : \A i \in DOMAIN requests[s] :
          asked[requests[s][i]] # NoRequest /\ current[r] # requests[s][i]
    /\ \A s, r \in Sessions : \A i \in DOMAIN requests[s], j \in DOMAIN requests[r] :
          requests[s][i] = requests[r][j] => s = r /\ i = j

(* A request has an operation. *)
LEMMA RequestsAreOperations ==
    ASSUME NEW r \in Requests
    PROVE  r # NoRequest /\ r.op # "none"
BY SMT DEF Requests, RegistryRequests, NoRequest

(* Appending to the requests of one session. *)
LEMMA OnRequestOnce ==
    ASSUME TypeOK, Once, NEW c \in Clients, NEW s \in Sessions, NEW r \in Requests, OnRequest(c, s, r)
    PROVE  Once'
<1>1. /\ asked[c] = NoRequest /\ asked' = [asked EXCEPT ![c] = r] /\ current' = current
      /\ requests' = [requests EXCEPT ![s] = Append(requests[s], c)]
    BY DEF OnRequest
<1>2. /\ asked \in [Clients -> Requests \cup {NoRequest}] /\ requests \in [Sessions -> Seq(Clients)]
      /\ current \in [Sessions -> Clients \cup {None}]
    BY DEF TypeOK
<1>3. r # NoRequest
    BY RequestsAreOperations
<1>4. \A d \in Clients : asked[d] # NoRequest => asked'[d] # NoRequest
    BY <1>1, <1>2, <1>3
<1>5. /\ \A x \in Sessions : current[x] # c
      /\ \A x \in Sessions : \A i \in DOMAIN requests[x] : requests[x][i] # c
    BY <1>1, NoneAssumption DEF Once
<1>6. ASSUME NEW x \in Sessions, NEW i \in DOMAIN requests'[x]
      PROVE  \/ i \in DOMAIN requests[x] /\ requests'[x][i] = requests[x][i] /\ requests[x][i] \in Clients
             \/ x = s /\ i = Len(requests[s]) + 1 /\ requests'[x][i] = c
  <2>1. CASE x # s
      BY <1>1, <1>2, <2>1, SMT
  <2>2. CASE x = s
    <3>1. requests[s] \in Seq(Clients) /\ requests'[s] = Append(requests[s], c)
        BY <1>1, <1>2
    <3> QED
        BY <2>2, <3>1, SMT
  <2> QED
      BY <2>1, <2>2
<1>7. Len(requests[s]) + 1 \notin DOMAIN requests[s] /\ asked'[c] # NoRequest
  <2>1. requests[s] \in Seq(Clients)
      BY <1>2
  <2>2. Len(requests[s]) + 1 \notin DOMAIN requests[s]
      BY <2>1, SMT
  <2> QED
      BY <1>1, <1>2, <1>3, <2>2
<1>8. \A x \in Sessions : current'[x] # None => asked'[current'[x]] # NoRequest
    BY <1>1, <1>2, <1>4 DEF Once
<1>9. \A x, y \in Sessions : current'[x] # None /\ current'[x] = current'[y] => x = y
    BY <1>1 DEF Once
<1>10. ASSUME NEW x \in Sessions, NEW y \in Sessions, NEW i \in DOMAIN requests'[x]
       PROVE  asked'[requests'[x][i]] # NoRequest /\ current'[y] # requests'[x][i]
  <2>1. CASE i \in DOMAIN requests[x] /\ requests'[x][i] = requests[x][i] /\ requests[x][i] \in Clients
    <3>1. asked[requests[x][i]] # NoRequest /\ current[y] # requests[x][i]
        BY <2>1, SMT DEF Once
    <3>2. asked'[requests[x][i]] # NoRequest
        BY <1>4, <2>1, <3>1
    <3> QED
        BY <1>1, <2>1, <3>1, <3>2
  <2>2. CASE requests'[x][i] = c
      BY <1>1, <1>5, <1>7, <2>2
  <2> QED
      BY <1>6, <2>1, <2>2
<1>11. ASSUME NEW x \in Sessions, NEW y \in Sessions, NEW i \in DOMAIN requests'[x],
              NEW j \in DOMAIN requests'[y], requests'[x][i] = requests'[y][j]
       PROVE  x = y /\ i = j
    BY <1>5, <1>6, <1>11, SMT DEF Once
<1> QED
    BY <1>8, <1>9, <1>10, <1>11 DEF Once

(* The first of the requests becomes the current one. *)
LEMMA ReceivedOnce ==
    ASSUME TypeOK, Once, NEW s \in Sessions, requests[s] # << >>, current[s] = None,
           current' = [current EXCEPT ![s] = Head(requests[s])],
           requests' = [requests EXCEPT ![s] = Tail(requests[s])], asked' = asked
    PROVE  Once'
<1>1. requests \in [Sessions -> Seq(Clients)] /\ current \in [Sessions -> Clients \cup {None}]
    BY DEF TypeOK
<1>2. /\ 1 \in DOMAIN requests[s] /\ Head(requests[s]) = requests[s][1]
      /\ requests[s] \in Seq(Clients)
    BY <1>1, SMT
<1>3. \A i \in DOMAIN Tail(requests[s]) :
          i + 1 \in DOMAIN requests[s] /\ Tail(requests[s])[i] = requests[s][i + 1] /\ i \in Nat
    BY <1>2, TailElements
<1>4. \A x \in Sessions : current'[x] = IF x = s THEN requests[s][1] ELSE current[x]
    BY <1>1, <1>2
<1>5. ASSUME NEW x \in Sessions, NEW i \in DOMAIN requests'[x]
      PROVE  \/ x # s /\ i \in DOMAIN requests[x] /\ requests'[x][i] = requests[x][i]
             \/ /\ x = s /\ i \in Nat /\ i + 1 \in DOMAIN requests[s] /\ i + 1 # 1
                /\ requests'[x][i] = requests[s][i + 1]
  <2>1. CASE x # s
      BY <1>1, <2>1
  <2>2. CASE x = s
    <3>1. i \in Nat /\ i + 1 \in DOMAIN requests[s] /\ requests'[s][i] = requests[s][i + 1]
        BY <1>1, <1>3, <2>2
    <3>2. i # 0
        BY <1>1, <1>2, <2>2, SMT
    <3> QED
        BY <2>2, <3>1, <3>2, SMT
  <2> QED
      BY <2>1, <2>2
<1>6. \A x \in Sessions : current'[x] # None => asked'[current'[x]] # NoRequest
    BY <1>2, <1>4, SMT DEF Once
<1>7. \A x, y \in Sessions : current'[x] # None /\ current'[x] = current'[y] => x = y
    BY <1>2, <1>4, SMT DEF Once
<1>8. ASSUME NEW x \in Sessions, NEW y \in Sessions, NEW i \in DOMAIN requests'[x]
      PROVE  asked'[requests'[x][i]] # NoRequest /\ current'[y] # requests'[x][i]
    BY <1>2, <1>4, <1>5, SMT DEF Once
<1>9. ASSUME NEW x \in Sessions, NEW y \in Sessions, NEW i \in DOMAIN requests'[x],
             NEW j \in DOMAIN requests'[y], requests'[x][i] = requests'[y][j]
      PROVE  x = y /\ i = j
    BY <1>5, <1>9, SMT DEF Once
<1> QED
    BY <1>6, <1>7, <1>8, <1>9 DEF Once

(* Requests of some sessions end, answered or not: their clients wait no more. *)
LEMMA EndedOnce ==
    ASSUME TypeOK, Once, NEW C, NEW S \in SUBSET Sessions,
           asked' = [c \in Clients |-> IF c \in C THEN NoRequest ELSE asked[c]],
           \A s \in Sessions \ S : current'[s] = current[s] /\ requests'[s] = requests[s],
           \A s \in S : /\ current'[s] = None
                        /\ requests'[s] = << >> \/ requests'[s] = requests[s],
           \A s \in Sessions : current'[s] # None => current[s] \notin C,
           \A s \in Sessions : \A i \in DOMAIN requests'[s] : requests[s][i] \notin C
    PROVE  Once'
<1>1. requests \in [Sessions -> Seq(Clients)] /\ current \in [Sessions -> Clients \cup {None}]
    BY DEF TypeOK
<1>2. \A s \in Sessions : current'[s] # None => current'[s] = current[s] /\ s \notin S
    OBVIOUS
<1>3. ASSUME NEW s \in Sessions, NEW i \in DOMAIN requests'[s]
      PROVE  /\ i \in DOMAIN requests[s] /\ requests'[s][i] = requests[s][i]
             /\ requests[s][i] \in Clients /\ requests[s][i] \notin C
  <2>1. requests'[s] = requests[s]
      BY <1>3, SMT
  <2> QED
      BY <1>1, <2>1, SMT
<1>4. \A s \in Sessions : current'[s] # None => asked'[current'[s]] # NoRequest
    BY <1>1, <1>2 DEF Once
<1>5. \A s, r \in Sessions : current'[s] # None /\ current'[s] = current'[r] => s = r
    BY <1>2, SMT DEF Once
<1>6. ASSUME NEW s \in Sessions, NEW r \in Sessions, NEW i \in DOMAIN requests'[s]
      PROVE  asked'[requests'[s][i]] # NoRequest /\ current'[r] # requests'[s][i]
  <2>1. /\ i \in DOMAIN requests[s] /\ requests'[s][i] = requests[s][i]
        /\ requests[s][i] \in Clients /\ requests[s][i] \notin C
      BY <1>3
  <2>2. asked[requests[s][i]] # NoRequest /\ current[r] # requests[s][i]
      BY <2>1, SMT DEF Once
  <2>3. asked'[requests[s][i]] # NoRequest
      BY <2>1, <2>2
  <2>4. current'[r] # requests[s][i]
      BY <1>2, <2>1, <2>2, NoneAssumption
  <2> QED
      BY <2>1, <2>3, <2>4
<1>7. ASSUME NEW s \in Sessions, NEW r \in Sessions, NEW i \in DOMAIN requests'[s],
             NEW j \in DOMAIN requests'[r], requests'[s][i] = requests'[r][j]
      PROVE  s = r /\ i = j
    BY <1>3, <1>7, SMT DEF Once
<1> QED
    BY <1>4, <1>5, <1>6, <1>7 DEF Once

(* The clients that a session's end leaves without an answer. *)
Waiting(S) == (UNION {Elements(requests[s]) : s \in S}) \cup ({current[s] : s \in S} \ {None})

LEMMA WaitingIs ==
    ASSUME NEW S, NEW c
    PROVE  c \in Waiting(S) <=> \/ \E s \in S : \E i \in DOMAIN requests[s] : c = requests[s][i]
                                \/ c # None /\ \E s \in S : c = current[s]
<1> DEFINE A == UNION {Elements(requests[s]) : s \in S}
           B == {current[s] : s \in S} \ {None}
<1>1. c \in A <=> \E s \in S : c \in Elements(requests[s])
    OBVIOUS
<1>2. \A s : c \in Elements(requests[s]) <=> \E i \in DOMAIN requests[s] : c = requests[s][i]
    BY DEF Elements
<1>3. c \in B <=> c # None /\ \E s \in S : c = current[s]
    OBVIOUS
<1>4. Waiting(S) = A \cup B
    BY DEF Waiting
<1> HIDE DEF A, B
<1> QED
    BY <1>1, <1>2, <1>3, <1>4

LEMMA ClosedOnce ==
    ASSUME TypeOK, Once, NEW S \in SUBSET Sessions, CloseServerSessions(S)
    PROVE  Once'
<1>1. /\ asked' = [c \in Clients |-> IF c \in Waiting(S) THEN NoRequest ELSE asked[c]]
      /\ \A s \in Sessions \ S : current'[s] = current[s] /\ requests'[s] = requests[s]
      /\ \A s \in S : current'[s] = None /\ requests'[s] = << >>
    BY DEF CloseServerSessions, Waiting
<1>2. ASSUME NEW s \in Sessions, current'[s] # None PROVE current[s] \notin Waiting(S)
  <2>1. s \notin S /\ current[s] # None
      BY <1>1, <1>2
  <2> QED
      BY <2>1, WaitingIs, SMT DEF Once
<1>3. ASSUME NEW s \in Sessions, NEW i \in DOMAIN requests'[s] PROVE requests[s][i] \notin Waiting(S)
  <2>1. s \notin S /\ i \in DOMAIN requests[s]
      BY <1>1, SMT
  <2> QED
      BY <2>1, WaitingIs, SMT DEF Once
<1> QED
    BY <1>1, <1>2, <1>3, EndedOnce

LEMMA SendReplyOnce ==
    ASSUME SInv, Once, NEW t \in Threads, SendReply(t)
    PROVE  Once'
<1> DEFINE s == completing[t]
           c == current[s]
<1>1. pc[t] = "reply"
    BY DEF SendReply
<1>2. stop # "gone" /\ s \in Sessions
    BY <1>1, WorkerSession DEF Working
<1>3. c # None
    BY <1>1, <1>2 DEF SInv, Received, Serving
<1>4. /\ current' = [current EXCEPT ![s] = None] /\ asked' = [asked EXCEPT ![c] = NoRequest]
      /\ requests' = requests
    BY DEF SendReply
<1>5. /\ asked \in [Clients -> Requests \cup {NoRequest}] /\ current \in [Sessions -> Clients \cup {None}]
      /\ TypeOK
    BY DEF SInv, TypeOK
<1>6. asked' = [d \in Clients |-> IF d \in {c} THEN NoRequest ELSE asked[d]]
    BY <1>4, <1>5
<1>7. ASSUME NEW x \in Sessions PROVE current'[x] = IF x = s THEN None ELSE current[x]
    BY <1>4, <1>5
<1> HIDE DEF s, c
<1>8. \A x \in Sessions : current'[x] # None => current[x] \notin {c}
  <2>1. \A x \in Sessions : current[x] = c => x = s
      BY <1>2, <1>3 DEF Once, c
  <2> QED
      BY <1>7, <2>1
<1>9. \A x \in Sessions : \A i \in DOMAIN requests'[x] : requests[x][i] \notin {c}
  <2>1. \A x \in Sessions : \A i \in DOMAIN requests[x] : current[s] # requests[x][i]
      BY <1>2, SMT DEF Once
  <2> QED
      BY <1>4, <2>1 DEF c
<1>10. /\ \A x \in Sessions \ {s} : current'[x] = current[x] /\ requests'[x] = requests[x]
       /\ \A x \in {s} : current'[x] = None /\ (requests'[x] = << >> \/ requests'[x] = requests[x])
    BY <1>2, <1>4, <1>7
<1>11. {s} \in SUBSET Sessions /\ TypeOK
    BY <1>2, <1>5
<1> QED
    BY <1>6, <1>8, <1>9, <1>10, <1>11, EndedOnce

LEMMA ThreadOnce ==
    ASSUME SInv, Once, NEW t \in Threads, ThreadStep(t)
    PROVE  Once'
<1>1. ASSUME UNCHANGED <<current, requests, asked>> PROVE Once'
    BY <1>1, SMT DEF Once
<1>2. ASSUME LeaveLoop(t) \/ LockSelection(t) \/ LinkDeferred(t) \/ TestStop(t) \/ ClearWakeup(t)
      PROVE  Once'
    BY <1>1, <1>2 DEF LeaveLoop, LockSelection, LinkDeferred, TestStop, ClearWakeup, kernelVars
<1>3. ASSUME WaitAny(t) \/ NotifyAvailable(t) PROVE Once'
    BY <1>1, <1>3 DEF WaitAny, NotifyAvailable, Selected, kernelVars
<1>4. ASSUME LinkToDeferredList(t) \/ SignalWakeup(t) \/ OnPortEvent(t) \/ Defer(t) PROVE Once'
    BY <1>1, <1>4 DEF LinkToDeferredList, SignalWakeup, OnPortEvent, Defer, kernelVars
<1>5. ASSUME \/ ClearDeferral(t) \/ GrabDeferrals(t) \/ \E s \in Sessions : CompleteDeferred(t, s)
      PROVE  Once'
    BY <1>1, <1>5 DEF ClearDeferral, GrabDeferrals, CompleteDeferred, kernelVars
<1>6. ASSUME HandleSyncRequest(t) PROVE Once'
    BY <1>1, <1>6, HandlerSteps DEF HandlerFrame
<1>7. ASSUME OnSessionEvent(t) PROVE Once'
  <2>1. completing[t] \in Sessions
      BY <1>7, WorkerSession DEF OnSessionEvent, Working
  <2>2. CASE session[completing[t]] = "ClientClosed"
      BY <1>1, <1>7, <2>2 DEF OnSessionEvent
  <2>3. CASE session[completing[t]] # "ClientClosed"
    <3> DEFINE s == completing[t]
    <3>1. /\ requests[s] # << >> /\ current[s] = None /\ asked' = asked
          /\ current' = [current EXCEPT ![s] = Head(requests[s])]
          /\ requests' = [requests EXCEPT ![s] = Tail(requests[s])]
        BY <1>7, <2>3 DEF OnSessionEvent
    <3> HIDE DEF s
    <3> QED
        BY <2>1, <3>1, ReceivedOnce DEF SInv, s
  <2> QED
      BY <2>2, <2>3
<1>8. ASSUME DestroySession(t) PROVE Once'
  <2>1. completing[t] \in Sessions
      BY <1>8, WorkerSession DEF DestroySession, Working
  <2>2. {completing[t]} \in SUBSET Sessions /\ CloseServerSessions({completing[t]})
      BY <1>8, <2>1 DEF DestroySession
  <2> QED
      BY <2>2, ClosedOnce DEF SInv
<1> QED
    BY <1>2, <1>3, <1>4, <1>5, <1>6, <1>7, <1>8, SendReplyOnce DEF ThreadStep

LEMMA NextOnce ==
    ASSUME SInv, Once, [Next]_vars
    PROVE  Once'
<1>1. ASSUME UNCHANGED <<current, requests, asked>> PROVE Once'
    BY <1>1, SMT DEF Once
<1>2. ASSUME NEW s \in Sessions, CreateSession(s) \/ CloseClientSession(s) PROVE Once'
    BY <1>1, <1>2 DEF CreateSession, CloseClientSession
<1>3. ASSUME NEW c \in Clients, NEW s \in Sessions, NEW r \in Requests, OnRequest(c, s, r) PROVE Once'
    BY <1>3, OnRequestOnce DEF SInv
<1>4. ASSUME NEW n \in Services, RegisterService(n) PROVE Once'
    BY <1>1, <1>4 DEF RegisterService, kernelVars
<1>5. ASSUME RequestStop \/ SignalStop \/ UNCHANGED vars PROVE Once'
    BY <1>1, <1>5 DEF RequestStop, SignalStop, vars, kernelVars
<1>6. ASSUME Destroy PROVE Once'
  <2>1. pending \in Seq(Sessions) /\ sessions \in SUBSET Sessions
      BY DEF SInv, TypeOK
  <2>2. sessions \cup Elements(pending) \in SUBSET Sessions
    <3>1. \A i \in DOMAIN pending : pending[i] \in Sessions
        BY <2>1, SMT
    <3> QED
        BY <2>1, <3>1 DEF Elements
  <2>3. TypeOK /\ CloseServerSessions(sessions \cup Elements(pending))
      BY <1>6 DEF Destroy, SInv
  <2> QED
      BY <2>2, <2>3, ClosedOnce
<1> QED
    BY <1>2, <1>3, <1>4, <1>5, <1>6, ThreadOnce, AnyOfIn DEF Next

-----------------------------------------------------------------------------
(* The places. *)

One(A) == \E x : A = {x}

ExactlyOne(P, M, D, F, C, R, L) ==
    \/ One(P) /\ M = {} /\ D = {} /\ F = {} /\ C = {} /\ R = {} /\ L = {}
    \/ P = {} /\ One(M) /\ D = {} /\ F = {} /\ C = {} /\ R = {} /\ L = {}
    \/ P = {} /\ M = {} /\ One(D) /\ F = {} /\ C = {} /\ R = {} /\ L = {}
    \/ P = {} /\ M = {} /\ D = {} /\ One(F) /\ C = {} /\ R = {} /\ L = {}
    \/ P = {} /\ M = {} /\ D = {} /\ F = {} /\ One(C) /\ R = {} /\ L = {}
    \/ P = {} /\ M = {} /\ D = {} /\ F = {} /\ C = {} /\ One(R) /\ L = {}
    \/ P = {} /\ M = {} /\ D = {} /\ F = {} /\ C = {} /\ R = {} /\ One(L)

NoneOf(P, M, D, F, C, R, L) ==
    P = {} /\ M = {} /\ D = {} /\ F = {} /\ C = {} /\ R = {} /\ L = {}

\* The port's holder is linked again by the thread that took it: its label is the port's.
Takers(h) == {t \in Threads : IF h = Port THEN pc[t] = Port ELSE completing[t] = h}

Exists(h) == h = Port \/ session[h] \in {"Normal", "ClientClosed"}

Placed(h) ==
    /\ Exists(h) => ExactlyOne(At(pending, h), At(multi_wait, h), At(deferred_list, h),
                               deferred \cap {h}, Takers(h), Retriers(h), Linkers(h))
    /\ ~Exists(h) => NoneOf(At(pending, h), At(multi_wait, h), At(deferred_list, h),
                            deferred \cap {h}, Takers(h), Retriers(h), Linkers(h))

Movable == Sessions \cup {Port}

PInv == stop # "gone" => \A h \in Movable : Placed(h)

(* A thread links the port last, after the session it accepted. *)
PortLast == \A t \in Threads : \A i \in DOMAIN links[t] : links[t][i] = Port => i = Len(links[t])

-----------------------------------------------------------------------------
(* Positions in a list. *)

\* Moved about in a list, and still there as often.
Same(A, B) == (A = {} <=> B = {}) /\ (One(A) => One(B))

LEMMA AtAppend ==
    ASSUME NEW S, NEW q \in Seq(S), NEW e \in S, NEW h
    PROVE  /\ e # h => At(Append(q, e), h) = At(q, h)
           /\ e = h /\ At(q, h) = {} => One(At(Append(q, e), h))
<1> DEFINE n == Len(q) + 1
<1>1. /\ DOMAIN q = 1 .. Len(q) /\ Len(q) \in Nat /\ DOMAIN Append(q, e) = (1 .. Len(q)) \cup {n}
      /\ n \notin 1 .. Len(q) /\ Append(q, e)[n] = e /\ \A i \in 1 .. Len(q) : Append(q, e)[i] = q[i]
    BY SMT
<1> HIDE DEF n
<1>2. e # h => At(Append(q, e), h) = At(q, h)
    BY <1>1 DEF At
<1>3. e = h /\ At(q, h) = {} => At(Append(q, e), h) = {n}
    BY <1>1 DEF At
<1> QED
    BY <1>2, <1>3 DEF One

LEMMA AtTail ==
    ASSUME NEW S, NEW q \in Seq(S), q # << >>, NEW h
    PROVE  /\ Head(q) # h => Same(At(q, h), At(Tail(q), h))
           /\ Head(q) = h => At(q, h) # {} /\ (One(At(q, h)) => At(Tail(q), h) = {})
<1> DEFINE r == Tail(q)
<1>1. /\ DOMAIN q = 1 .. Len(q) /\ Len(q) \in Nat \ {0} /\ DOMAIN r = 1 .. (Len(q) - 1)
      /\ Head(q) = q[1] /\ \A i \in 1 .. (Len(q) - 1) : r[i] = q[i + 1]
    BY SMT
<1> HIDE DEF r
<1>2. \A i \in At(r, h) : i \in Nat /\ i # 0 /\ i + 1 \in At(q, h)
    BY <1>1, SMT DEF At
<1>3. \A i \in At(q, h) : i # 1 => i \in Nat /\ i - 1 \in At(r, h)
  <2>1. SUFFICES ASSUME NEW i \in 1 .. Len(q), q[i] = h, i # 1
                 PROVE  i \in Nat /\ i - 1 \in 1 .. (Len(q) - 1) /\ r[i - 1] = h
      BY <1>1 DEF At
  <2>2. i - 1 \in 1 .. (Len(q) - 1) /\ (i - 1) + 1 = i
      BY <1>1, <2>1, SMT
  <2> QED
      BY <1>1, <2>1, <2>2, SMT
<1>4. 1 \in At(q, h) <=> Head(q) = h
    BY <1>1, SMT DEF At
<1>5. ASSUME Head(q) # h PROVE Same(At(q, h), At(r, h))
  <2>1. At(q, h) = {} <=> At(r, h) = {}
      BY <1>2, <1>3, <1>4, <1>5
  <2>2. ASSUME NEW x, At(q, h) = {x} PROVE At(r, h) = {x - 1}
    <3>1. x \in Nat /\ x - 1 \in At(r, h)
        BY <1>3, <1>4, <1>5, <2>2
    <3>2. \A i \in At(r, h) : i = x - 1
        BY <1>2, <2>2, SMT
    <3> QED
        BY <3>1, <3>2
  <2> QED
      BY <2>1, <2>2 DEF Same, One
<1>6. ASSUME Head(q) = h, NEW x, At(q, h) = {x} PROVE At(r, h) = {}
  <2>1. x = 1
      BY <1>4, <1>6
  <2>2. \A i \in At(r, h) : i \in Nat /\ i # 0 /\ i + 1 = 1
      BY <1>2, <1>6, <2>1
  <2> QED
      BY <2>2, SMT
<1> QED
    BY <1>4, <1>5, <1>6 DEF One, r

LEMMA AtUnlink ==
    ASSUME NEW S, NEW q \in Seq(S), NEW k \in DOMAIN q, NEW h
    PROVE  /\ q[k] # h => Same(At(q, h), At(Unlink(q, k), h))
           /\ q[k] = h => At(q, h) # {} /\ (One(At(q, h)) => At(Unlink(q, k), h) = {})
<1> DEFINE r == Unlink(q, k)
           n == Len(q)
<1>1. DOMAIN q = 1 .. n /\ n \in Nat /\ k \in 1 .. n
    BY SMT
<1>2. /\ SubSeq(q, 1, k - 1) \in Seq(S) /\ Len(SubSeq(q, 1, k - 1)) = k - 1
      /\ \A i \in 1 .. (k - 1) : SubSeq(q, 1, k - 1)[i] = q[i]
    BY <1>1, SMT
<1>3. /\ SubSeq(q, k + 1, n) \in Seq(S) /\ Len(SubSeq(q, k + 1, n)) = n - k
      /\ \A i \in 1 .. (n - k) : SubSeq(q, k + 1, n)[i] = q[k + i]
    BY <1>1, SMT
<1>4. /\ DOMAIN r = 1 .. (n - 1)
      /\ \A i \in 1 .. (n - 1) : r[i] = IF i < k THEN q[i] ELSE q[i + 1]
  <2>1. Len(r) = n - 1 /\ DOMAIN r = 1 .. Len(r)
      BY <1>1, <1>2, <1>3, SMT DEF Unlink
  <2>2. ASSUME NEW i \in 1 .. (n - 1), i < k PROVE r[i] = q[i]
      BY <1>1, <1>2, <1>3, <2>2, SMT DEF Unlink
  <2>3. ASSUME NEW i \in 1 .. (n - 1), ~(i < k) PROVE r[i] = q[i + 1]
    <3> DEFINE a == SubSeq(q, 1, k - 1)
               b == SubSeq(q, k + 1, n)
    <3>0. r = a \o b /\ a \in Seq(S) /\ b \in Seq(S) /\ Len(a) = k - 1 /\ Len(b) = n - k
        BY <1>2, <1>3 DEF Unlink
    <3> HIDE DEF a, b, r, n
    <3>3. i \in 1 .. (Len(a) + Len(b)) /\ ~(i <= Len(a)) /\ Len(a) = k - 1
        BY <1>1, <2>3, <3>0, SMT
    <3>4. r[i] = b[i - Len(a)]
      <4>1. \A u \in Seq(S), v \in Seq(S) : \A j \in 1 .. (Len(u) + Len(v)) :
                ~(j <= Len(u)) => (u \o v)[j] = v[j - Len(u)]
          BY SMT
      <4> QED
          BY <3>0, <3>3, <4>1
    <3>1. r[i] = SubSeq(q, k + 1, n)[i - (k - 1)]
        BY <3>0, <3>4 DEF b
    <3>2. i - (k - 1) \in 1 .. (n - k) /\ k + (i - (k - 1)) = i + 1
        BY <1>1, <2>3, SMT
    <3> QED
        BY <1>3, <3>1, <3>2
  <2> QED
      BY <2>1, <2>2, <2>3
<1> HIDE DEF r, n
<1>5. \A i \in At(r, h) : (i < k /\ i \in At(q, h)) \/ (~(i < k) /\ i \in Int /\ i + 1 \in At(q, h))
    BY <1>1, <1>4, SMT DEF At
<1>6. \A i \in At(q, h) : i # k => (i < k /\ i \in At(r, h)) \/ (i > k /\ i \in Int /\ i - 1 \in At(r, h))
  <2> SUFFICES ASSUME NEW i \in 1 .. n, q[i] = h, i # k
               PROVE  (i < k /\ i \in At(r, h)) \/ (i > k /\ i \in Int /\ i - 1 \in At(r, h))
      BY <1>1 DEF At
  <2>1. CASE i < k
      BY <1>1, <1>4, <2>1, SMT DEF At
  <2>2. CASE i > k
    <3>1. i - 1 \in 1 .. (n - 1) /\ ~(i - 1 < k) /\ (i - 1) + 1 = i
        BY <1>1, <2>2, SMT
    <3> QED
        BY <1>1, <1>4, <2>2, <3>1, SMT DEF At
  <2> QED
      BY <1>1, <2>1, <2>2, SMT
<1>7. k \in At(q, h) <=> q[k] = h
    BY DEF At
<1>8. At(q, h) \subseteq Int /\ At(r, h) \subseteq Int
    BY <1>1, <1>4, SMT DEF At
<1>9. ASSUME q[k] # h PROVE Same(At(q, h), At(r, h))
  <2>1. At(q, h) = {} <=> At(r, h) = {}
      BY <1>5, <1>6, <1>7, <1>9
  <2>2. ASSUME NEW x, At(q, h) = {x} PROVE One(At(r, h))
    <3>1. (x < k /\ x \in At(r, h)) \/ (x > k /\ x \in Int /\ x - 1 \in At(r, h))
        BY <1>6, <1>7, <1>9, <2>2
    <3>2. \A i \in At(r, h) : (i < k /\ i = x) \/ (~(i < k) /\ i \in Int /\ i + 1 = x)
        BY <1>5, <2>2
    <3>3. CASE x < k
      <4>1. At(r, h) = {x}
          BY <1>1, <1>8, <2>2, <3>1, <3>2, <3>3, SMT
      <4> QED
          BY <4>1 DEF One
    <3>4. CASE ~(x < k)
      <4>1. At(r, h) = {x - 1}
          BY <1>1, <1>8, <2>2, <3>1, <3>2, <3>4, SMT
      <4> QED
          BY <4>1 DEF One
    <3> QED
        BY <3>3, <3>4
  <2> QED
      BY <2>1, <2>2 DEF Same, One
<1>10. ASSUME q[k] = h, NEW x, At(q, h) = {x} PROVE At(r, h) = {}
  <2>1. x = k
      BY <1>7, <1>10
  <2>2. \A i \in At(r, h) : (i < k /\ i = k) \/ (~(i < k) /\ i + 1 = k /\ i \in Int)
      BY <1>5, <1>10, <2>1
  <2> QED
      BY <1>1, <2>2, SMT
<1> QED
    BY <1>7, <1>9, <1>10 DEF One, r

LEMMA AtConcat ==
    ASSUME NEW S, NEW p \in Seq(S), NEW q \in Seq(S), NEW h
    PROVE  /\ At(q, h) = {} => At(p \o q, h) = At(p, h)
           /\ At(p, h) = {} => Same(At(q, h), At(p \o q, h))
<1> DEFINE r == p \o q
           n == Len(p)
           m == Len(q)
<1>1. /\ n \in Nat /\ m \in Nat /\ DOMAIN p = 1 .. n /\ DOMAIN q = 1 .. m /\ DOMAIN r = 1 .. (n + m)
      /\ \A i \in 1 .. (n + m) : r[i] = IF i <= n THEN p[i] ELSE q[i - n]
    BY SMT
<1> HIDE DEF r, n, m
<1>2. \A i \in At(r, h) : i \in Int /\ (i \in At(p, h) \/ i - n \in At(q, h))
    BY <1>1, SMT DEF At
<1>3. \A i \in At(p, h) : i \in At(r, h)
    BY <1>1, SMT DEF At
<1>4. \A i \in At(q, h) : i \in Int /\ n + i \in At(r, h)
  <2> SUFFICES ASSUME NEW i \in 1 .. m, q[i] = h PROVE i \in Int /\ n + i \in At(r, h)
      BY <1>1 DEF At
  <2>1. n + i \in 1 .. (n + m) /\ ~(n + i <= n) /\ (n + i) - n = i
      BY <1>1, SMT
  <2> QED
      BY <1>1, <2>1, SMT DEF At
<1>5. ASSUME At(q, h) = {} PROVE At(r, h) = At(p, h)
    BY <1>2, <1>3, <1>5
<1>6. ASSUME At(p, h) = {} PROVE Same(At(q, h), At(r, h))
  <2>1. At(q, h) = {} <=> At(r, h) = {}
      BY <1>2, <1>4, <1>6
  <2>2. ASSUME NEW x, At(q, h) = {x} PROVE At(r, h) = {n + x}
    <3>1. x \in Int /\ n + x \in At(r, h)
        BY <1>4, <2>2
    <3>2. \A i \in At(r, h) : i = n + x
        BY <1>1, <1>2, <1>6, <2>2, <3>1, SMT
    <3> QED
        BY <3>1, <3>2
  <2> QED
      BY <2>1, <2>2 DEF Same, One
<1> QED
    BY <1>5, <1>6 DEF r

-----------------------------------------------------------------------------
(* The threads that have a holder, when one thread t takes a step. *)

Taking(t, h) == IF h = Port THEN pc[t] = Port ELSE completing[t] = h

(* A set of threads that changes in t at most. *)
LEMMA ThreadSet ==
    ASSUME NEW A, NEW B, NEW t, A \ {t} = B \ {t}
    PROVE  /\ (t \in A <=> t \in B) => B = A
           /\ t \in A => A # {}
           /\ A = {} /\ t \in B => One(B)
           /\ One(A) /\ t \in A /\ t \notin B => B = {}
<1>1. A = {} /\ t \in B => B = {t}
    OBVIOUS
<1>2. ASSUME NEW x, A = {x}, t \in A, t \notin B PROVE B = {}
    BY <1>2
<1>3. (t \in A <=> t \in B) => B = A
    BY SMT
<1> QED
    BY <1>1, <1>2, <1>3 DEF One

LEMMA TakerSets ==
    ASSUME NEW t \in Threads, NEW h, OnlyThread(t)
    PROVE  /\ (Taking(t, h) <=> Taking(t, h)') => Takers(h)' = Takers(h)
           /\ Taking(t, h) => Takers(h) # {}
           /\ Takers(h) = {} /\ Taking(t, h)' => One(Takers(h)')
           /\ One(Takers(h)) /\ Taking(t, h) /\ ~Taking(t, h)' => Takers(h)' = {}
<1> DEFINE A == Takers(h)
           B == Takers(h)'
<1>1. A \ {t} = B \ {t} /\ (t \in A <=> Taking(t, h)) /\ (t \in B <=> Taking(t, h)')
    BY DEF Takers, Taking, OnlyThread
<1> HIDE DEF A, B
<1>2. /\ (t \in A <=> t \in B) => B = A
      /\ t \in A => A # {}
      /\ A = {} /\ t \in B => One(B)
      /\ One(A) /\ t \in A /\ t \notin B => B = {}
    BY <1>1, ThreadSet
<1> QED
    BY <1>1, <1>2 DEF A, B

LEMMA RetrierSets ==
    ASSUME NEW t \in Threads, NEW h, OnlyThread(t)
    PROVE  /\ (h \in retry[t] <=> h \in retry'[t]) => Retriers(h)' = Retriers(h)
           /\ h \in retry[t] => Retriers(h) # {}
           /\ Retriers(h) = {} /\ h \in retry'[t] => One(Retriers(h)')
           /\ One(Retriers(h)) /\ h \in retry[t] /\ h \notin retry'[t] => Retriers(h)' = {}
<1> DEFINE A == Retriers(h)
           B == Retriers(h)'
<1>1. A \ {t} = B \ {t} /\ (t \in A <=> h \in retry[t]) /\ (t \in B <=> h \in retry'[t])
    BY DEF Retriers, OnlyThread
<1> HIDE DEF A, B
<1>2. /\ (t \in A <=> t \in B) => B = A
      /\ t \in A => A # {}
      /\ A = {} /\ t \in B => One(B)
      /\ One(A) /\ t \in A /\ t \notin B => B = {}
    BY <1>1, ThreadSet
<1> QED
    BY <1>1, <1>2 DEF A, B

LEMMA LinkerSets ==
    ASSUME NEW t \in Threads, NEW h, OnlyThread(t)
    PROVE  /\ (Links(t, h) <=> Links(t, h)') => Linkers(h)' = Linkers(h)
           /\ Links(t, h) => Linkers(h) # {}
           /\ Linkers(h) = {} /\ Links(t, h)' => One(Linkers(h)')
           /\ One(Linkers(h)) /\ Links(t, h) /\ ~Links(t, h)' => Linkers(h)' = {}
<1> DEFINE A == Linkers(h)
           B == Linkers(h)'
<1>1. A \ {t} = B \ {t} /\ (t \in A <=> Links(t, h)) /\ (t \in B <=> Links(t, h)')
    BY DEF Linkers, Links, OnlyThread
<1> HIDE DEF A, B
<1>2. /\ (t \in A <=> t \in B) => B = A
      /\ t \in A => A # {}
      /\ A = {} /\ t \in B => One(B)
      /\ One(A) /\ t \in A /\ t \notin B => B = {}
    BY <1>1, ThreadSet
<1> QED
    BY <1>1, <1>2 DEF A, B

(* A step that leaves a holder where it is. *)
LEMMA Stays ==
    ASSUME NEW t \in Threads, NEW h \in Movable, OnlyThread(t), Placed(h),
           Exists(h)' <=> Exists(h), h \in deferred' <=> h \in deferred,
           Same(At(pending, h), At(pending', h)), Same(At(multi_wait, h), At(multi_wait', h)),
           Same(At(deferred_list, h), At(deferred_list', h)),
           Taking(t, h) <=> Taking(t, h)', h \in retry[t] <=> h \in retry'[t],
           Links(t, h) <=> Links(t, h)'
    PROVE  Placed(h)'
<1>1. /\ Takers(h)' = Takers(h) /\ Retriers(h)' = Retriers(h) /\ Linkers(h)' = Linkers(h)
      /\ deferred' \cap {h} = deferred \cap {h}
    BY TakerSets, RetrierSets, LinkerSets
<1> QED
    BY <1>1 DEF Placed, ExactlyOne, NoneOf, Same

LEMMA SameSet ==
    ASSUME NEW A
    PROVE  Same(A, A)
BY DEF Same

(* A thread that has a holder has it alone, and a holder in a list is nowhere else. *)
LEMMA Alone ==
    ASSUME NEW t \in Threads, NEW h \in Movable, Placed(h)
    PROVE  /\ Taking(t, h) \/ h \in retry[t] \/ Links(t, h) =>
                  /\ Exists(h)
                  /\ At(pending, h) = {} /\ At(multi_wait, h) = {} /\ At(deferred_list, h) = {}
                  /\ h \notin deferred /\ deferred \cap {h} = {}
           /\ Taking(t, h) => One(Takers(h)) /\ Retriers(h) = {} /\ Linkers(h) = {}
           /\ h \in retry[t] => One(Retriers(h)) /\ Takers(h) = {} /\ Linkers(h) = {}
           /\ Links(t, h) => One(Linkers(h)) /\ Takers(h) = {} /\ Retriers(h) = {}
<1>1. /\ Taking(t, h) => t \in Takers(h)
      /\ h \in retry[t] => t \in Retriers(h)
      /\ Links(t, h) => t \in Linkers(h)
    BY DEF Taking, Takers, Retriers, Links, Linkers
<1>2. /\ Taking(t, h) => Takers(h) # {}
      /\ h \in retry[t] => Retriers(h) # {}
      /\ Links(t, h) => Linkers(h) # {}
    BY <1>1
<1>3. deferred \cap {h} = {} => h \notin deferred
    OBVIOUS
<1> QED
    BY <1>2, <1>3 DEF Placed, ExactlyOne, NoneOf

-----------------------------------------------------------------------------
(* The steps that move no holder. *)

(* The lists are as they were. *)
LEMMA SameLists ==
    ASSUME NEW h, UNCHANGED <<pending, multi_wait, deferred_list>>
    PROVE  /\ Same(At(pending, h), At(pending', h)) /\ Same(At(multi_wait, h), At(multi_wait', h))
           /\ Same(At(deferred_list, h), At(deferred_list', h))
BY SameSet

LEMMA Quiet ==
    ASSUME NEW t \in Threads, NEW h \in Movable, OnlyThread(t), Placed(h), Exists(h)' <=> Exists(h),
           UNCHANGED <<pending, multi_wait, deferred_list, deferred>>,
           completing'[t] = completing[t], retry'[t] = retry[t], links'[t] = links[t],
           pc[t] = Port <=> pc'[t] = Port, pc[t] = "signal" <=> pc'[t] = "signal"
    PROVE  Placed(h)'
<1>1. Taking(t, h) <=> Taking(t, h)'
    BY DEF Taking
<1>2. Links(t, h) <=> Links(t, h)'
    BY DEF Links
<1> QED
    BY <1>1, <1>2, SameLists, Stays

LEMMA QuietPlaces ==
    ASSUME SInv, NEW t \in Threads, NEW h \in Movable, Placed(h), StepOf(t),
           \/ LeaveLoop(t) \/ LockSelection(t) \/ TestStop(t) \/ ClearWakeup(t)
           \/ OnSessionEvent(t) \/ ClearDeferral(t)
           \/ pc[t] = "wait" /\ Goto(t, "asleep") /\ UNCHANGED <<kernelVars, listVars, completing, retry, links>>
    PROVE  Placed(h)'
<1>1. pc \in [Threads -> Labels]
    BY DEF SInv, TypeOK
<1>2. UNCHANGED <<session, pending, multi_wait, deferred_list, deferred, completing, retry, links>>
    BY DEF LeaveLoop, LockSelection, TestStop, ClearWakeup, OnSessionEvent, ClearDeferral,
                 kernelVars, listVars
<1>3. pc[t] \notin {Port, "signal"} /\ pc'[t] \notin {Port, "signal"}
    BY <1>1 DEF LeaveLoop, LockSelection, TestStop, ClearWakeup, OnSessionEvent, ClearDeferral,
                Goto, Port, Deferral
<1>4. Exists(h)' <=> Exists(h)
    BY <1>2 DEF Exists
<1> QED
    BY <1>2, <1>3, <1>4, Quiet DEF StepOf

(* The steps that are not a thread's: all but CreateSession leave the lists alone, and of the
   sessions only the client's end is closed. *)
LEMMA GuestPlaces ==
    ASSUME SInv, NEW t \in Threads, NEW h \in Movable, Placed(h),
           \/ \E c \in Clients, s \in Sessions, r \in Requests : OnRequest(c, s, r)
           \/ \E s \in Sessions : CloseClientSession(s)
           \/ \E n \in Services : RegisterService(n)
           \/ RequestStop \/ SignalStop \/ UNCHANGED vars
    PROVE  Placed(h)'
<1>1. UNCHANGED <<pending, multi_wait, deferred_list, deferred, threadVars>>
  <2>1. ASSUME NEW c \in Clients, NEW s \in Sessions, NEW r \in Requests, OnRequest(c, s, r) PROVE <1>1
      BY <2>1 DEF OnRequest, listVars
  <2>2. ASSUME NEW s \in Sessions, CloseClientSession(s) PROVE <1>1
      BY <2>2 DEF CloseClientSession, listVars
  <2>3. ASSUME NEW n \in Services, RegisterService(n) PROVE <1>1
      BY <2>3 DEF RegisterService, kernelVars, listVars
  <2>4. ASSUME RequestStop \/ SignalStop \/ UNCHANGED vars PROVE <1>1
      BY <2>4 DEF RequestStop, SignalStop, vars, kernelVars, listVars
  <2> QED
      BY <2>1, <2>2, <2>3, <2>4
<1>2. OnlyThread(t) /\ UNCHANGED <<pc, completing, retry, links>>
    BY <1>1 DEF threadVars, OnlyThread
<1>3. Exists(h)' <=> Exists(h)
  <2>1. ASSUME NEW s \in Sessions, CloseClientSession(s) PROVE <1>3
      BY <2>1 DEF CloseClientSession, HasHandle, Exists, Movable, SInv, TypeOK
  <2>2. ASSUME NEW c \in Clients, NEW s \in Sessions, NEW r \in Requests, OnRequest(c, s, r) PROVE session' = session
      BY <2>2 DEF OnRequest
  <2>3. ASSUME NEW n \in Services, RegisterService(n) PROVE session' = session
      BY <2>3 DEF RegisterService, kernelVars
  <2>4. ASSUME RequestStop \/ SignalStop \/ UNCHANGED vars PROVE session' = session
      BY <2>4 DEF RequestStop, SignalStop, vars, kernelVars
  <2>5. session' = session => <1>3
      BY DEF Exists
  <2> QED
      BY <2>1, <2>2, <2>3, <2>4, <2>5
<1> QED
    BY <1>1, <1>2, <1>3, Quiet

-----------------------------------------------------------------------------
(* The steps that move one. *)

LEMMA Kinds ==
    ASSUME NEW s \in Sessions
    PROVE  s \in Movable /\ s # Port /\ s # None /\ s \in Holders /\ s # Wakeup /\ s # Deferral
BY HoldersAssumption, NoneAssumption DEF Movable, Holders, Results

LEMMA CreatePlaces ==
    ASSUME SInv, NEW t \in Threads, NEW h \in Movable, Placed(h), NEW s \in Sessions, CreateSession(s)
    PROVE  Placed(h)'
<1>1. /\ pending' = Append(pending, s) /\ session[s] = "Free"
      /\ session' = [session EXCEPT ![s] = "Normal"]
      /\ UNCHANGED <<multi_wait, deferred_list, deferred, pc, completing, retry, links>>
    BY DEF CreateSession, listVars, threadVars
<1>2. pending \in Seq(Sessions) /\ OnlyThread(t)
    BY <1>1 DEF SInv, TypeOK, OnlyThread
<1>3. /\ Takers(h)' = Takers(h) /\ Retriers(h)' = Retriers(h) /\ Linkers(h)' = Linkers(h)
    BY <1>1 DEF Takers, Retriers, Linkers
<1>4. /\ s # h => At(pending', h) = At(pending, h)
      /\ s = h /\ At(pending, h) = {} => One(At(pending', h))
    BY <1>1, <1>2, AtAppend
<1>5. s # Port
    BY Kinds
<1>6. /\ s = h => ~Exists(h) /\ Exists(h)'
      /\ s # h => (Exists(h)' <=> Exists(h))
    BY <1>1, <1>5 DEF Exists, SInv, TypeOK, Movable
<1> QED
    BY <1>1, <1>3, <1>4, <1>6 DEF Placed, ExactlyOne, NoneOf

LEMMA SelectedPlaces ==
    ASSUME SInv, NEW t \in Threads, NEW h \in Movable, Placed(h), StepOf(t),
           NEW i \in DOMAIN multi_wait, Selected(t, i), pc[t] \in {"wait", "asleep"}
    PROVE  Placed(h)'
<1> DEFINE w == multi_wait[i]
<1>1. /\ UNCHANGED <<session, pending, deferred_list, deferred, retry, links>> /\ OnlyThread(t)
      /\ multi_wait \in Seq(Holders) /\ w \in Holders /\ pc \in [Threads -> Labels]
      /\ completing \in [Threads -> Sessions \cup {None}]
    BY SMT DEF Selected, kernelVars, SInv, TypeOK, StepOf
<1>2. completing[t] = None /\ pc[t] # "signal" /\ pc[t] # Port
  <2>1. Local(t)
      BY DEF SInv
  <2> QED
      BY <2>1 DEF Local, Working, Linking, Port
<1>3. (Exists(h)' <=> Exists(h)) /\ (h # Port <=> h \in Sessions) /\ (h \in Sessions => h # None)
  <2>1. Exists(h)' <=> Exists(h)
      BY <1>1 DEF Exists
  <2>2. h \in Sessions => h # Port /\ h # None
      BY Kinds
  <2> QED
      BY <2>1, <2>2 DEF Movable
<1>4. CASE w = Wakeup
  <2>1. UNCHANGED <<multi_wait, completing>> /\ pc'[t] = "clear"
      BY <1>1, <1>4 DEF Selected, Goto
  <2>2. pc'[t] # "signal" /\ pc'[t] # Port
      BY <2>1 DEF Port
  <2> QED
      BY <1>1, <1>2, <1>3, <2>1, <2>2, Quiet
<1>5. CASE w # Wakeup
  <2>1. /\ multi_wait' = Unlink(multi_wait, i)
        /\ IF w \in Sessions THEN pc'[t] = "receive" /\ completing'[t] = w
                             ELSE pc'[t] = w /\ completing'[t] = completing[t]
      BY <1>1, <1>5 DEF Selected, Goto
  <2>2. /\ w # h => Same(At(multi_wait, h), At(multi_wait', h))
        /\ w = h => At(multi_wait, h) # {} /\ (One(At(multi_wait, h)) => At(multi_wait', h) = {})
      BY <1>1, <2>1, AtUnlink
  <2>3. pc'[t] # "signal" /\ (Links(t, h) <=> Links(t, h)')
    <3>1. w \in Sessions \cup {Port, Deferral}
        BY <1>1, <1>5 DEF Holders
    <3>2. pc'[t] # "signal"
        BY <2>1, <3>1 DEF Port, Deferral
    <3> QED
        BY <1>1, <1>2, <3>2 DEF Links
  <2>4. ~Taking(t, h) /\ (Taking(t, h)' <=> w = h)
    <3>1. ~Taking(t, h)
        BY <1>2, <1>3 DEF Taking
    <3>2. CASE w \in Sessions
      <4>1. pc'[t] # Port /\ w # Port
          BY <2>1, <3>2, Kinds DEF Port
      <4> QED
          BY <1>3, <2>1, <3>1, <3>2, <4>1 DEF Taking
    <3>3. CASE w \notin Sessions
        BY <1>2, <1>3, <2>1, <3>3 DEF Taking
    <3> QED
        BY <3>1, <3>2, <3>3
  <2> HIDE DEF w
  <2>5. CASE w # h
      BY <1>1, <1>3, <2>2, <2>3, <2>4, <2>5, SameSet, Stays
  <2>6. CASE w = h
    <3>1. /\ Retriers(h)' = Retriers(h) /\ Linkers(h)' = Linkers(h)
          /\ Takers(h) = {} => One(Takers(h)')
        BY <1>1, <2>3, <2>4, <2>6, TakerSets, RetrierSets, LinkerSets
    <3> QED
        BY <1>1, <1>3, <2>2, <2>6, <3>1 DEF Placed, ExactlyOne, NoneOf
  <2> QED
      BY <2>5, <2>6
<1> QED
    BY <1>4, <1>5

LEMMA LinkDeferredPlaces ==
    ASSUME SInv, NEW t \in Threads, NEW h \in Movable, Placed(h), StepOf(t), LinkDeferred(t)
    PROVE  Placed(h)'
<1>1. /\ multi_wait' = multi_wait \o deferred_list /\ deferred_list' = << >>
      /\ UNCHANGED <<session, pending, deferred, completing, retry, links>>
      /\ multi_wait \in Seq(Holders) /\ deferred_list \in Seq(Holders)
    BY DEF LinkDeferred, kernelVars, SInv, TypeOK
<1>2. pc[t] \notin {Port, "signal"} /\ pc'[t] \notin {Port, "signal"} /\ OnlyThread(t)
    BY DEF LinkDeferred, Goto, SInv, TypeOK, Port, StepOf
<1>3. (Taking(t, h) <=> Taking(t, h)') /\ (Links(t, h) <=> Links(t, h)') /\ (Exists(h)' <=> Exists(h))
    BY <1>1, <1>2 DEF Taking, Links, Exists
<1>4. Takers(h)' = Takers(h) /\ Retriers(h)' = Retriers(h) /\ Linkers(h)' = Linkers(h)
    BY <1>1, <1>2, <1>3, TakerSets, RetrierSets, LinkerSets
<1>5. /\ At(deferred_list, h) = {} => At(multi_wait', h) = At(multi_wait, h)
      /\ At(multi_wait, h) = {} => Same(At(deferred_list, h), At(multi_wait', h))
    BY <1>1, AtConcat
<1>6. At(deferred_list', h) = {}
    BY <1>1, SMT DEF At
<1> QED
    BY <1>1, <1>3, <1>4, <1>5, <1>6 DEF Placed, ExactlyOne, NoneOf, Same

(* The holders behind the first of those a thread links. *)
LEMMA TailHas ==
    ASSUME NEW q \in Seq(Holders), q # << >>, NEW h \in Movable,
           \A i \in DOMAIN q : i > 1 => q[i] \notin Sessions,
           \A i \in DOMAIN q : q[i] = Port => i = Len(q)
    PROVE  h \in Elements(Tail(q)) <=> h \in Elements(q) /\ h # Head(q)
<1>1. /\ DOMAIN q = 1 .. Len(q) /\ Len(q) \in Nat \ {0} /\ DOMAIN Tail(q) = 1 .. (Len(q) - 1)
      /\ Head(q) = q[1] /\ \A i \in 1 .. (Len(q) - 1) : Tail(q)[i] = q[i + 1]
    BY SMT
<1>2. ASSUME NEW i \in 1 .. Len(q), q[i] = h, h # q[1] PROVE h \in Elements(Tail(q))
  <2>1. i - 1 \in 1 .. (Len(q) - 1) /\ (i - 1) + 1 = i
      BY <1>1, <1>2, SMT
  <2> QED
      BY <1>1, <1>2, <2>1 DEF Elements
<1>3. ASSUME NEW i \in 1 .. (Len(q) - 1), Tail(q)[i] = h PROVE h \in Elements(q) /\ h # q[1]
  <2>1. i + 1 \in 1 .. Len(q) /\ i + 1 > 1 /\ q[i + 1] = h
      BY <1>1, <1>3, SMT
  <2>2. h = Port /\ 1 # Len(q) /\ 1 \in 1 .. Len(q)
      BY <1>1, <2>1, SMT DEF Movable
  <2> QED
      BY <1>1, <2>1, <2>2 DEF Elements
<1> QED
    BY <1>1, <1>2, <1>3 DEF Elements

LEMMA LinkingHolders ==
    ASSUME SInv, PortLast, NEW t \in Threads, pc[t] \in Linking
    PROVE  /\ links[t] \in Seq(Holders) /\ links[t] # << >>
           /\ \A i \in DOMAIN links[t] : i > 1 => links[t][i] \notin Sessions
           /\ \A i \in DOMAIN links[t] : links[t][i] = Port => i = Len(links[t])
BY DEF SInv, TypeOK, Local, PortLast

LEMMA LinkPlaces ==
    ASSUME SInv, NEW t \in Threads, NEW h \in Movable, Placed(h), StepOf(t), LinkToDeferredList(t)
    PROVE  Placed(h)'
<1> DEFINE e == Head(links[t])
<1>1. /\ pc[t] = "relink" /\ deferred_list' = Append(deferred_list, e)
      /\ UNCHANGED <<session, pending, multi_wait, deferred, completing, retry, links>>
      /\ OnlyThread(t)
    BY DEF LinkToDeferredList, kernelVars, StepOf
<1>2. pc'[t] = "signal"
    BY DEF LinkToDeferredList, Goto, SInv, TypeOK
<1>3. links[t] \in Seq(Holders) /\ links[t] # << >>
    BY <1>1 DEF SInv, TypeOK, Local, Linking
<1>4. e \in Holders /\ e \in Elements(links[t]) /\ deferred_list \in Seq(Holders)
    BY <1>3, SMT DEF Elements, SInv, TypeOK
<1>5. /\ Links(t, h) <=> h \in Elements(links[t])
      /\ Links(t, h)' <=> h \in Elements(links[t]) /\ h # e
    BY <1>1, <1>2 DEF Links
<1>6. (Taking(t, h) <=> Taking(t, h)') /\ (Exists(h)' <=> Exists(h))
    BY <1>1, <1>2 DEF Taking, Exists, Port
<1> HIDE DEF e
<1>7. /\ e # h => At(deferred_list', h) = At(deferred_list, h)
      /\ e = h /\ At(deferred_list, h) = {} => One(At(deferred_list', h))
    BY <1>1, <1>4, AtAppend
<1>8. CASE e # h
    BY <1>1, <1>5, <1>6, <1>7, <1>8, SameSet, Stays
<1>9. CASE e = h
  <2>1. /\ Links(t, h) /\ ~Links(t, h)'
      BY <1>4, <1>5, <1>9
  <2>2. /\ Retriers(h)' = Retriers(h) /\ Takers(h)' = Takers(h)
        /\ One(Linkers(h)) => Linkers(h)' = {}
      BY <1>1, <1>6, <2>1, TakerSets, RetrierSets, LinkerSets
  <2> QED
      BY <1>1, <1>6, <1>7, <1>9, <2>1, <2>2, Alone DEF Placed, ExactlyOne, NoneOf
<1> QED
    BY <1>8, <1>9

LEMMA SignalPlaces ==
    ASSUME SInv, PortLast, NEW t \in Threads, NEW h \in Movable, Placed(h), StepOf(t), SignalWakeup(t)
    PROVE  Placed(h)'
<1>1. /\ pc[t] = "signal" /\ UNCHANGED <<session, pending, multi_wait, deferred_list, deferred, completing, retry>>
      /\ OnlyThread(t)
    BY DEF SignalWakeup, kernelVars, listVars, StepOf
<1>2. pc'[t] \notin {Port, "signal"} /\ links'[t] = Tail(links[t])
    BY DEF SignalWakeup, Goto, SInv, TypeOK, Port
<1>3. (Taking(t, h) <=> Taking(t, h)') /\ (Exists(h)' <=> Exists(h))
    BY <1>1, <1>2 DEF Taking, Exists, Port
<1>4. h \in Elements(Tail(links[t])) <=> h \in Elements(links[t]) /\ h # Head(links[t])
    BY <1>1, LinkingHolders, TailHas DEF Linking
<1>5. Links(t, h) <=> Links(t, h)'
    BY <1>1, <1>2, <1>4 DEF Links
<1> QED
    BY <1>1, <1>3, <1>5, SameLists, Stays

(* A thread outside LinkToDeferredList links nothing, and one that enters it links all it has. *)
LEMMA LinksNone ==
    ASSUME SInv, NEW t \in Threads, pc[t] \notin Linking, NEW h
    PROVE  ~Links(t, h)
<1>1. links[t] = << >>
    BY DEF SInv, Local
<1> QED
    BY <1>1, SMT DEF Links, Elements

LEMMA OnPortPlaces ==
    ASSUME SInv, NEW t \in Threads, NEW h \in Movable, Placed(h), StepOf(t), OnPortEvent(t)
    PROVE  Placed(h)'
<1> DEFINE s == Head(pending)
<1>1. /\ pc[t] = Port /\ pending # << >> /\ pending' = Tail(pending)
      /\ UNCHANGED <<session, multi_wait, deferred_list, deferred, completing, retry>> /\ OnlyThread(t)
    BY DEF OnPortEvent, StepOf
<1>2. pc'[t] = "relink" /\ links'[t] = <<s, Port>>
    BY DEF OnPortEvent, Goto, SInv, TypeOK
<1>3. pending \in Seq(Sessions) /\ s \in Sessions /\ s # Port
    BY <1>1, Kinds, SMT DEF SInv, TypeOK
<1>4. ~Links(t, h)
    BY <1>1, LinksNone DEF Linking, Port
<1>5. Links(t, h)' <=> h \in {s, Port}
  <2>1. Elements(<<s, Port>>) = {s, Port}
      BY SMT DEF Elements
  <2> QED
      BY <1>2, <2>1 DEF Links
<1>6. /\ s # h => Same(At(pending, h), At(pending', h))
      /\ s = h => At(pending, h) # {} /\ (One(At(pending, h)) => At(pending', h) = {})
    BY <1>1, <1>3, AtTail
<1>7. Exists(h)' <=> Exists(h)
    BY <1>1 DEF Exists
<1>8. (h = Port => Taking(t, h) /\ ~Taking(t, h)') /\ (h # Port => (Taking(t, h) <=> Taking(t, h)'))
    BY <1>1, <1>2 DEF Taking, Port
<1>9. /\ h # Port => Takers(h)' = Takers(h)
      /\ h = Port /\ One(Takers(h)) => Takers(h)' = {}
      /\ Retriers(h)' = Retriers(h)
      /\ Linkers(h) = {} /\ h \in {s, Port} => One(Linkers(h)')
    BY <1>1, <1>4, <1>5, <1>8, TakerSets, RetrierSets, LinkerSets
<1> HIDE DEF s
<1>10. CASE h \notin {s, Port}
    BY <1>1, <1>4, <1>5, <1>6, <1>7, <1>8, <1>10, SameSet, Stays
<1>11. CASE h = s
    BY <1>1, <1>3, <1>6, <1>7, <1>9, <1>11 DEF Placed, ExactlyOne, NoneOf
<1>12. CASE h = Port
  <2>1. /\ Exists(h) /\ At(pending, h) = {} /\ At(multi_wait, h) = {} /\ At(deferred_list, h) = {}
        /\ deferred \cap {h} = {} /\ One(Takers(h)) /\ Retriers(h) = {} /\ Linkers(h) = {}
      BY <1>8, <1>12, Alone
  <2> QED
      BY <1>1, <1>3, <1>6, <1>7, <1>9, <1>12, <2>1 DEF Placed, ExactlyOne, NoneOf, Same
<1> QED
    BY <1>10, <1>11, <1>12

LEMMA HandlePlaces ==
    ASSUME SInv, NEW t \in Threads, NEW h \in Movable, Placed(h), StepOf(t), HandleSyncRequest(t)
    PROVE  Placed(h)'
<1>1. /\ pc[t] = "handle" /\ UNCHANGED <<pending, multi_wait, deferred_list, deferred, completing, retry>>
      /\ OnlyThread(t) /\ pc \in [Threads -> Labels] /\ links \in [Threads -> Seq(Holders)]
    BY HandlerSteps DEF HandlerFrame, StepOf, SInv, TypeOK
<1>2. CASE \E x \in {"ok", "error", "closed", "deferred"} : Returns(t, x)
  <2>1. PICK x \in {"ok", "error", "closed", "deferred"} : Returns(t, x)
      BY <1>2
  <2>2. UNCHANGED <<session, links>> /\ pc'[t] \notin {Port, "signal"} /\ pc[t] # Port
      BY <1>1, <2>1 DEF Returns, Port
  <2>3. Exists(h)' <=> Exists(h)
      BY <2>2 DEF Exists
  <2> QED
      BY <1>1, <2>2, <2>3, Quiet
<1>3. CASE \E new \in Sessions : Opens(t, new)
  <2>1. PICK new \in Sessions : Opens(t, new)
      BY <1>3
  <2>2. /\ session[new] = "Free" /\ session' = [session EXCEPT ![new] = "Normal"]
        /\ links'[t] = <<new>> /\ pc'[t] = "relink"
      BY <1>1, <2>1 DEF Opens
  <2>3. Links(t, h)' <=> h = new
    <3>1. Elements(<<new>>) = {new}
        BY SMT DEF Elements
    <3> QED
        BY <2>2, <3>1 DEF Links
  <2>4. ~Links(t, h) /\ (Taking(t, h) <=> Taking(t, h)')
      BY <1>1, <2>2, LinksNone DEF Linking, Port, Taking
  <2>5. /\ new = h => ~Exists(h) /\ Exists(h)'
        /\ new # h => (Exists(h)' <=> Exists(h))
      BY <2>2, Kinds DEF Exists, SInv, TypeOK, Movable
  <2>6. CASE h # new
      BY <1>1, <2>3, <2>4, <2>5, <2>6, SameLists, Stays
  <2>7. CASE h = new
    <3>1. /\ Retriers(h)' = Retriers(h) /\ Takers(h)' = Takers(h)
          /\ Linkers(h) = {} => One(Linkers(h)')
        BY <1>1, <2>3, <2>4, <2>7, TakerSets, RetrierSets, LinkerSets
    <3> QED
        BY <1>1, <2>5, <2>7, <3>1 DEF Placed, ExactlyOne, NoneOf
  <2> QED
      BY <2>6, <2>7
<1> QED
    BY <1>2, <1>3, HandlerSteps

(* What a step does to the session its thread works on. *)
LEMMA Worker ==
    ASSUME SInv, NEW t \in Threads, pc[t] \in Working, NEW h \in Movable, Placed(h)
    PROVE  /\ completing[t] \in Sessions /\ completing[t] # Port
           /\ Taking(t, h) <=> h = completing[t]
           /\ ~Links(t, h)
           /\ h = completing[t] =>
                  /\ Exists(h) /\ At(pending, h) = {} /\ At(multi_wait, h) = {} /\ At(deferred_list, h) = {}
                  /\ deferred \cap {h} = {} /\ One(Takers(h)) /\ Retriers(h) = {} /\ Linkers(h) = {}
                  /\ h \notin retry[t]
<1>1. completing[t] \in Sessions /\ completing[t] # Port
    BY WorkerSession, Kinds
<1>2. Taking(t, h) <=> h = completing[t]
    BY <1>1 DEF Taking, Working, Port
<1>3. ~Links(t, h)
    BY LinksNone DEF Working, Linking
<1>4. Retriers(h) = {} => h \notin retry[t]
    BY DEF Retriers
<1> QED
    BY <1>1, <1>2, <1>3, <1>4, Alone

LEMMA DeferPlaces ==
    ASSUME SInv, NEW t \in Threads, NEW h \in Movable, Placed(h), StepOf(t), Defer(t)
    PROVE  Placed(h)'
<1>1. /\ pc[t] = "defer" /\ deferred' = deferred \cup {completing[t]} /\ OnlyThread(t)
      /\ UNCHANGED <<session, pending, multi_wait, deferred_list, retry, links>>
    BY DEF Defer, kernelVars, StepOf
<1>2. completing'[t] = None /\ pc'[t] = "loop"
    BY DEF Defer, Goto, SInv, TypeOK
<1>3. ~Taking(t, h)' /\ ~Links(t, h)' /\ (Exists(h)' <=> Exists(h))
  <2>1. ~Links(t, h)
      BY <1>1, LinksNone DEF Linking
  <2>2. h \in Sessions => h # None
      BY Kinds
  <2> QED
      BY <1>1, <1>2, <2>1, <2>2 DEF Taking, Links, Port, Exists, Movable
<1>4. CASE h # completing[t]
    BY <1>1, <1>3, <1>4, Worker, SameLists, Stays DEF Working
<1>5. CASE h = completing[t]
  <2>1. /\ Taking(t, h) /\ Exists(h) /\ At(pending, h) = {} /\ At(multi_wait, h) = {}
        /\ At(deferred_list, h) = {} /\ One(Takers(h)) /\ Retriers(h) = {} /\ Linkers(h) = {} /\ ~Links(t, h)
      BY <1>1, <1>5, Worker DEF Working
  <2>2. Takers(h)' = {} /\ Retriers(h)' = {} /\ Linkers(h)' = {}
      BY <1>1, <1>3, <2>1, TakerSets, RetrierSets, LinkerSets
  <2>3. deferred' \cap {h} = {h}
      BY <1>1, <1>5
  <2>4. One(deferred' \cap {h})
      BY <2>3 DEF One
  <2> QED
      BY <1>1, <1>3, <2>1, <2>2, <2>4 DEF Placed, ExactlyOne
<1> QED
    BY <1>4, <1>5

LEMMA ReplyPlaces ==
    ASSUME SInv, NEW t \in Threads, NEW h \in Movable, Placed(h), StepOf(t), SendReply(t)
    PROVE  Placed(h)'
<1> DEFINE s == completing[t]
<1>1. /\ pc[t] = "reply" /\ OnlyThread(t)
      /\ UNCHANGED <<session, pending, multi_wait, deferred_list, deferred, retry>>
      /\ \/ pc' = [pc EXCEPT ![t] = "destroy"] /\ UNCHANGED <<completing, links>>
         \/ /\ completing' = [completing EXCEPT ![t] = None]
            /\ links' = [links EXCEPT ![t] = <<s>>]
            /\ pc' = [pc EXCEPT ![t] = "relink"]
    BY DEF SendReply, Goto, listVars, StepOf
<1>2. Exists(h)' <=> Exists(h)
    BY <1>1 DEF Exists
<1>3. pc \in [Threads -> Labels] /\ completing \in [Threads -> Sessions \cup {None}] /\ links \in [Threads -> Seq(Holders)]
    BY DEF SInv, TypeOK
<1>4. CASE pc' = [pc EXCEPT ![t] = "destroy"] /\ UNCHANGED <<completing, links>>
  <2>1. pc[t] \notin {Port, "signal"} /\ pc'[t] \notin {Port, "signal"}
      BY <1>1, <1>3, <1>4 DEF Port
  <2> QED
      BY <1>1, <1>2, <1>4, <2>1, Quiet
<1>5. CASE <1>1!3!2
  <2>1. completing'[t] = None /\ links'[t] = <<s>> /\ pc'[t] = "relink"
      BY <1>3, <1>5
  <2>2. Links(t, h)' <=> h = s
    <3>1. Elements(<<s>>) = {s}
        BY SMT DEF Elements
    <3> QED
        BY <2>1, <3>1 DEF Links
  <2>3. ~Taking(t, h)'
    <3>1. h \in Sessions => h # None
        BY Kinds
    <3> QED
        BY <2>1, <3>1 DEF Taking, Port, Movable
  <2>4. CASE h # s
      BY <1>1, <1>2, <2>2, <2>3, <2>4, Worker, SameLists, Stays DEF Working
  <2>5. CASE h = s
    <3>1. /\ Taking(t, h) /\ Exists(h) /\ At(pending, h) = {} /\ At(multi_wait, h) = {}
          /\ At(deferred_list, h) = {} /\ One(Takers(h)) /\ Retriers(h) = {} /\ Linkers(h) = {}
          /\ deferred \cap {h} = {}
        BY <1>1, <2>5, Worker DEF Working
    <3>2. Takers(h)' = {} /\ Retriers(h)' = {} /\ One(Linkers(h)')
        BY <1>1, <2>2, <2>3, <2>5, <3>1, TakerSets, RetrierSets, LinkerSets
    <3> QED
        BY <1>1, <1>2, <3>1, <3>2 DEF Placed, ExactlyOne
  <2> QED
      BY <2>4, <2>5
<1> QED
    BY <1>1, <1>4, <1>5

LEMMA DestroyPlaces ==
    ASSUME SInv, NEW t \in Threads, NEW h \in Movable, Placed(h), StepOf(t), DestroySession(t)
    PROVE  Placed(h)'
<1> DEFINE s == completing[t]
<1>1. /\ pc[t] = "destroy" /\ OnlyThread(t)
      /\ UNCHANGED <<pending, multi_wait, deferred_list, deferred, retry, links>>
    BY DEF DestroySession, StepOf
<1>2. completing'[t] = None /\ pc'[t] = "loop"
    BY DEF DestroySession, Goto, SInv, TypeOK
<1>3. s \in Sessions /\ s # Port
    BY <1>1, WorkerSession, Kinds DEF Working
<1>4. /\ h = s => ~Exists(h)'
      /\ h # s => (Exists(h)' <=> Exists(h))
    BY <1>3 DEF DestroySession, CloseServerSessions, Exists, Movable
<1>5. ~Taking(t, h)' /\ ~Links(t, h) /\ ~Links(t, h)'
  <2>1. ~Links(t, h)
      BY <1>1, LinksNone DEF Linking
  <2>2. h \in Sessions => h # None
      BY Kinds
  <2> QED
      BY <1>1, <1>2, <2>1, <2>2 DEF Taking, Links, Port, Movable
<1>6. CASE h # s
    BY <1>1, <1>4, <1>5, <1>6, Worker, SameLists, Stays DEF Working
<1>7. CASE h = s
  <2>1. /\ Taking(t, h) /\ At(pending, h) = {} /\ At(multi_wait, h) = {}
        /\ At(deferred_list, h) = {} /\ One(Takers(h)) /\ Retriers(h) = {} /\ Linkers(h) = {}
        /\ deferred \cap {h} = {}
      BY <1>1, <1>7, Worker DEF Working
  <2>2. Takers(h)' = {} /\ Retriers(h)' = {} /\ Linkers(h)' = {}
      BY <1>1, <1>5, <2>1, TakerSets, RetrierSets, LinkerSets
  <2> QED
      BY <1>1, <1>4, <1>7, <2>1, <2>2 DEF Placed, NoneOf
<1> QED
    BY <1>6, <1>7

LEMMA GrabPlaces ==
    ASSUME SInv, NEW t \in Threads, NEW h \in Movable, Placed(h), StepOf(t), GrabDeferrals(t)
    PROVE  Placed(h)'
<1>1. /\ pc[t] = "grab" /\ deferred' = {} /\ OnlyThread(t)
      /\ UNCHANGED <<session, pending, multi_wait, deferred_list, completing>>
    BY DEF GrabDeferrals, kernelVars, StepOf
<1>2. pc'[t] = "relink" /\ links'[t] = <<Deferral>> /\ retry'[t] = deferred
    BY DEF GrabDeferrals, Goto, SInv, TypeOK
<1>3. retry[t] = {}
    BY <1>1 DEF SInv, Local, Linking
<1>4. (Taking(t, h) <=> Taking(t, h)') /\ (Exists(h)' <=> Exists(h))
    BY <1>1, <1>2 DEF Taking, Exists, Port
<1>5. ~Links(t, h) /\ ~Links(t, h)'
  <2>1. ~Links(t, h)
      BY <1>1, LinksNone DEF Linking
  <2>2. Elements(<<Deferral>>) = {Deferral}
      BY SMT DEF Elements
  <2>3. h # Deferral
      BY Kinds DEF Movable, Port, Deferral
  <2> QED
      BY <1>2, <2>1, <2>2, <2>3 DEF Links
<1>6. CASE h \notin deferred
    BY <1>1, <1>2, <1>3, <1>4, <1>5, <1>6, SameLists, Stays
<1>7. CASE h \in deferred
  <2>1. Takers(h)' = Takers(h) /\ Linkers(h)' = Linkers(h) /\ (Retriers(h) = {} => One(Retriers(h)'))
      BY <1>1, <1>2, <1>4, <1>5, <1>7, TakerSets, RetrierSets, LinkerSets
  <2>2. deferred \cap {h} # {} /\ deferred' \cap {h} = {}
      BY <1>1, <1>7
  <2> QED
      BY <1>1, <1>4, <2>1, <2>2 DEF Placed, ExactlyOne, NoneOf
<1> QED
    BY <1>6, <1>7

LEMMA CompletePlaces ==
    ASSUME SInv, NEW t \in Threads, NEW h \in Movable, Placed(h), StepOf(t), NEW s \in Sessions,
           CompleteDeferred(t, s)
    PROVE  Placed(h)'
<1>1. /\ pc[t] = "loop" /\ s \in retry[t] /\ OnlyThread(t)
      /\ UNCHANGED <<session, pending, multi_wait, deferred_list, deferred, links>>
    BY DEF CompleteDeferred, kernelVars, listVars, StepOf
<1>2. pc'[t] = "handle" /\ completing'[t] = s /\ retry'[t] = retry[t] \ {s}
  <2>1. /\ pc \in [Threads -> Labels] /\ completing \in [Threads -> Sessions \cup {None}]
        /\ retry \in [Threads -> SUBSET Sessions]
      BY DEF SInv, TypeOK
  <2> QED
      BY <2>1 DEF CompleteDeferred, Goto
<1>3. completing[t] = None /\ ~Links(t, h)
  <2>1. Local(t)
      BY DEF SInv
  <2>2. completing[t] = None
      BY <1>1, <2>1 DEF Local, Linking, Working
  <2> QED
      BY <1>1, <2>2, LinksNone DEF Linking
<1>4. ~Links(t, h)' /\ (Exists(h)' <=> Exists(h))
    BY <1>1, <1>2, <1>3 DEF Links, Exists
<1>5. ~Taking(t, h) /\ (Taking(t, h)' <=> h = s)
  <2>1. h \in Sessions => h # None
      BY Kinds
  <2>2. s # Port
      BY Kinds
  <2> QED
      BY <1>1, <1>2, <1>3, <2>1, <2>2 DEF Taking, Port, Movable
<1>6. CASE h # s
    BY <1>1, <1>2, <1>3, <1>4, <1>5, <1>6, SameLists, Stays
<1>7. CASE h = s
  <2>1. /\ Exists(h) /\ At(pending, h) = {} /\ At(multi_wait, h) = {} /\ At(deferred_list, h) = {}
        /\ deferred \cap {h} = {} /\ One(Retriers(h)) /\ Takers(h) = {} /\ Linkers(h) = {}
      BY <1>1, <1>7, Alone
  <2>2. Retriers(h)' = {} /\ One(Takers(h)') /\ Linkers(h)' = {}
      BY <1>1, <1>2, <1>3, <1>4, <1>5, <1>7, <2>1, TakerSets, RetrierSets, LinkerSets
  <2> QED
      BY <1>1, <1>4, <2>1, <2>2 DEF Placed, ExactlyOne
<1> QED
    BY <1>6, <1>7

-----------------------------------------------------------------------------
(* All the steps, and what the places mean. *)

LEMMA ThreadPlaces ==
    ASSUME SInv, PortLast, NEW t \in Threads, NEW h \in Movable, Placed(h), ThreadStep(t)
    PROVE  Placed(h)'
<1>1. StepOf(t)
    BY LoopLocal, LinkLocal, HandlerLocal, EventLocal DEF ThreadStep
<1>2. ASSUME WaitAny(t) PROVE Placed(h)'
  <2>1. pc[t] = "wait"
      BY <1>2 DEF WaitAny
  <2>2. CASE \E i \in DOMAIN multi_wait : Selected(t, i)
      BY <1>1, <2>1, <2>2, SelectedPlaces
  <2>3. CASE Goto(t, "asleep") /\ UNCHANGED <<kernelVars, listVars, completing, retry, links>>
      BY <1>1, <2>1, <2>3, QuietPlaces
  <2> QED
      BY <1>2, <2>2, <2>3 DEF WaitAny
<1>3. ASSUME NotifyAvailable(t) PROVE Placed(h)'
    BY <1>1, <1>3, SelectedPlaces DEF NotifyAvailable
<1>4. ASSUME NEW s \in Sessions, CompleteDeferred(t, s) PROVE Placed(h)'
    BY <1>1, <1>4, CompletePlaces
<1>5. ASSUME \/ LeaveLoop(t) \/ LockSelection(t) \/ TestStop(t) \/ ClearWakeup(t)
             \/ OnSessionEvent(t) \/ ClearDeferral(t)
      PROVE  Placed(h)'
    BY <1>1, <1>5, QuietPlaces
<1>6. ASSUME LinkDeferred(t) \/ LinkToDeferredList(t) \/ SignalWakeup(t) PROVE Placed(h)'
    BY <1>1, <1>6, LinkDeferredPlaces, LinkPlaces, SignalPlaces
<1>7. ASSUME OnPortEvent(t) \/ HandleSyncRequest(t) \/ Defer(t) PROVE Placed(h)'
    BY <1>1, <1>7, OnPortPlaces, HandlePlaces, DeferPlaces
<1>8. ASSUME SendReply(t) \/ DestroySession(t) \/ GrabDeferrals(t) PROVE Placed(h)'
    BY <1>1, <1>8, ReplyPlaces, DestroyPlaces, GrabPlaces
<1> QED
    BY <1>2, <1>3, <1>4, <1>5, <1>6, <1>7, <1>8 DEF ThreadStep

(* No step brings a server that is gone back, so the places are kept. *)
LEMMA NextPlaces ==
    ASSUME SInv, PortLast, PInv, [Next]_vars
    PROVE  PInv'
<1>1. Main \in Threads
    BY ServersAssumption DEF SInv, TypeOK
<1>2. SUFFICES ASSUME stop' # "gone", NEW h \in Movable PROVE Placed(h)'
    BY DEF PInv, Movable
<1>3. stop # "gone"
  <2>1. ASSUME NEW t \in Threads, ThreadStep(t) PROVE stop' = stop
    <3>1. StepOf(t)
        BY <2>1, LoopLocal, LinkLocal, HandlerLocal, EventLocal DEF ThreadStep
    <3> QED
        BY <3>1 DEF StepOf
  <2>2. ASSUME NEW s \in Sessions, CreateSession(s) \/ CloseClientSession(s) PROVE stop' = stop
      BY <2>2 DEF CreateSession, CloseClientSession
  <2>3. ASSUME NEW c, NEW s \in Sessions, NEW r \in Requests, OnRequest(c, s, r) PROVE stop' = stop
      BY <2>3 DEF OnRequest
  <2>4. ASSUME NEW n \in Services, RegisterService(n) PROVE stop' = stop
      BY <2>4 DEF RegisterService
  <2>5. ASSUME RequestStop \/ SignalStop PROVE stop # "gone"
      BY <2>5 DEF RequestStop, SignalStop
  <2>6. ASSUME UNCHANGED vars PROVE stop' = stop
      BY <2>6 DEF vars
  <2>7. ~Destroy
      BY <1>2 DEF Destroy
  <2> QED
      BY <1>2, <2>1, <2>2, <2>3, <2>4, <2>5, <2>6, <2>7, AnyOfIn DEF Next
<1>4. Placed(h)
    BY <1>3 DEF PInv
<1>5. ASSUME NEW t \in Threads, ThreadStep(t) PROVE Placed(h)'
    BY <1>4, <1>5, ThreadPlaces
<1>6. ASSUME NEW s \in Sessions, CreateSession(s) PROVE Placed(h)'
    BY <1>1, <1>4, <1>6, CreatePlaces
<1>7. ASSUME \/ \E c \in Clients, s \in Sessions, r \in Requests : OnRequest(c, s, r)
             \/ \E s \in Sessions : CloseClientSession(s)
             \/ \E n \in Services : RegisterService(n)
             \/ RequestStop \/ SignalStop \/ UNCHANGED vars
      PROVE  Placed(h)'
    BY <1>1, <1>4, <1>7, GuestPlaces
<1>8. ~Destroy
    BY <1>2 DEF Destroy
<1> QED
    BY <1>5, <1>6, <1>7, <1>8, AnyOfIn DEF Next

(* At first the port's holder waits to be added to the list, and there is no session. *)
LEMMA InitPlaces == Init => PInv
<1> SUFFICES ASSUME Init, NEW h \in Movable PROVE Placed(h)
    BY DEF PInv
<1>1. At(pending, h) = {} /\ At(multi_wait, h) = {} /\ deferred \cap {h} = {}
    BY SMT DEF Init, At
<1>2. Retriers(h) = {} /\ Linkers(h) = {}
    BY SMT DEF Init, Retriers, Linkers, Elements
<1>3. Takers(h) = {}
  <2>1. h \in Sessions => h # None /\ h # Port
      BY Kinds
  <2>2. \A t \in Threads : pc[t] # Port /\ completing[t] = None
      BY DEF Init, Port
  <2> QED
      BY <2>1, <2>2 DEF Takers, Movable
<1>4. CASE h \in Sessions
  <2>1. h # Port /\ h # Wakeup /\ h # Deferral
      BY <1>4, Kinds
  <2>2. At(deferred_list, h) = {}
    <3>1. At(<<Wakeup, Deferral, Port>>, h) = {}
        BY <2>1, SMT DEF At
    <3>2. At(<<Wakeup, Port>>, h) = {}
        BY <2>1, SMT DEF At
    <3> QED
        BY <3>1, <3>2 DEF Init
  <2>3. ~Exists(h)
      BY <1>4, <2>1 DEF Init, Exists
  <2> QED
      BY <1>1, <1>2, <1>3, <2>2, <2>3 DEF Placed, NoneOf
<1>5. CASE h = Port
  <2>1. One(At(deferred_list, h))
    <3>1. At(<<Wakeup, Deferral, Port>>, Port) = {3} /\ At(<<Wakeup, Port>>, Port) = {2}
        BY SMT DEF At, Wakeup, Deferral, Port
    <3> QED
        BY <1>5, <3>1 DEF Init, One
  <2> QED
      BY <1>1, <1>2, <1>3, <1>5, <2>1 DEF Placed, ExactlyOne, Exists
<1> QED
    BY <1>4, <1>5 DEF Movable

LEMMA Labelled ==
    ASSUME NEW l, NEW A
    PROVE  /\ A = {} => {l} \X A = {}
           /\ One(A) => One({l} \X A)
<1>1. ASSUME NEW x, A = {x} PROVE {l} \X A = {<<l, x>>}
    BY <1>1, SMT
<1> QED
    BY <1>1 DEF One

(* So every session whose server end is open is in one place, and a closed one in none. *)
LEMMA SessionPlaces == PInv => EverySessionIsInOnePlace
<1> SUFFICES ASSUME PInv, stop # "gone", NEW s \in Sessions
             PROVE  IF session[s] \in {"Normal", "ClientClosed"}
                    THEN \E p \in Places(s) : Places(s) = {p}
                    ELSE Places(s) = {}
    BY DEF EverySessionIsInOnePlace
<1>1. Placed(s) /\ s # Port
    BY Kinds DEF PInv
<1>2. (Exists(s) <=> session[s] \in {"Normal", "ClientClosed"}) /\ Takers(s) = Completers(s)
    BY <1>1 DEF Exists, Takers, Completers
<1> DEFINE P == {"pending"} \X At(pending, s)
           M == {"multi_wait"} \X At(multi_wait, s)
           D == {"deferred_list"} \X At(deferred_list, s)
           F == {"deferred"} \X (deferred \cap {s})
           C == {"completing"} \X Completers(s)
           R == {"retry"} \X Retriers(s)
           L == {"links"} \X Linkers(s)
<1>3. /\ At(pending, s) = {} => P = {}
      /\ One(At(pending, s)) => One(P)
    BY Labelled
<1>4. /\ At(multi_wait, s) = {} => M = {}
      /\ One(At(multi_wait, s)) => One(M)
    BY Labelled
<1>5. /\ At(deferred_list, s) = {} => D = {}
      /\ One(At(deferred_list, s)) => One(D)
    BY Labelled
<1>6. /\ deferred \cap {s} = {} => F = {}
      /\ One(deferred \cap {s}) => One(F)
    BY Labelled
<1>7. /\ Completers(s) = {} => C = {}
      /\ One(Completers(s)) => One(C)
    BY Labelled
<1>8. /\ Retriers(s) = {} => R = {}
      /\ One(Retriers(s)) => One(R)
    BY Labelled
<1>9. /\ Linkers(s) = {} => L = {}
      /\ One(Linkers(s)) => One(L)
    BY Labelled
<1>10. Places(s) = P \cup M \cup D \cup F \cup C \cup R \cup L
    BY DEF Places
<1> HIDE DEF P, M, D, F, C, R, L
<1>11. /\ Exists(s) => ExactlyOne(P, M, D, F, C, R, L)
       /\ ~Exists(s) => NoneOf(P, M, D, F, C, R, L)
    BY <1>1, <1>2, <1>3, <1>4, <1>5, <1>6, <1>7, <1>8, <1>9 DEF Placed, ExactlyOne, NoneOf
<1>12. ASSUME NEW A, A \in {P, M, D, F, C, R, L}, \A B \in {P, M, D, F, C, R, L} : B = {} \/ B = A
       PROVE  Places(s) = A
    BY <1>10, <1>12
<1>13. ASSUME ExactlyOne(P, M, D, F, C, R, L)
       PROVE  \E A \in {P, M, D, F, C, R, L} :
                  One(A) /\ \A B \in {P, M, D, F, C, R, L} : B = {} \/ B = A
    BY <1>13 DEF ExactlyOne
<1>14. Exists(s) => One(Places(s))
    BY <1>11, <1>12, <1>13
<1>15. ~Exists(s) => Places(s) = {}
    BY <1>10, <1>11 DEF NoneOf
<1> QED
    BY <1>2, <1>14, <1>15 DEF One

(* Two threads are never at one holder. *)
LEMMA OneOwner ==
    ASSUME NEW h \in Movable, Placed(h), NEW t \in Threads, NEW u \in Threads, u # t
    PROVE  ~((Taking(t, h) \/ h \in retry[t] \/ Links(t, h)) /\ (Taking(u, h) \/ h \in retry[u] \/ Links(u, h)))
<1>1. \A v \in Threads : /\ Taking(v, h) => v \in Takers(h)
                         /\ h \in retry[v] => v \in Retriers(h)
                         /\ Links(v, h) => v \in Linkers(h)
    BY DEF Taking, Takers, Retriers, Links, Linkers
<1>2. ASSUME NEW A, One(A) PROVE ~(t \in A /\ u \in A)
    BY <1>2 DEF One
<1>3. ~(t \in Takers(h) /\ u \in Takers(h)) /\ ~(t \in Retriers(h) /\ u \in Retriers(h))
      /\ ~(t \in Linkers(h) /\ u \in Linkers(h))
    BY <1>2 DEF Placed, ExactlyOne, NoneOf
<1>4. \/ Takers(h) = {} /\ Retriers(h) = {}
      \/ Takers(h) = {} /\ Linkers(h) = {}
      \/ Retriers(h) = {} /\ Linkers(h) = {}
    BY DEF Placed, ExactlyOne, NoneOf
<1> QED
    BY <1>1, <1>3, <1>4

(* Which is what the other steps of the proof need of it. *)
LEMMA PlacesExclude == PInv => Exclusive
<1> SUFFICES ASSUME PInv, stop # "gone", NEW t \in Threads, NEW s \in Sessions, Has(t, s)
             PROVE  /\ s \notin deferred /\ (completing[t] = s => s \notin retry[t])
                    /\ \A u \in Threads \ {t} : ~Has(u, s)
    BY DEF Exclusive
<1>1. Placed(s) /\ s \in Movable /\ s # Port
    BY Kinds DEF PInv
<1>2. \A u \in Threads : Has(u, s) <=> Taking(u, s) \/ s \in retry[u] \/ Links(u, s)
    BY <1>1 DEF Has, Taking
<1>3. s \notin deferred /\ (completing[t] = s => Retriers(s) = {})
    BY <1>1, <1>2, Alone DEF Taking
<1>4. Retriers(s) = {} => s \notin retry[t]
    BY DEF Retriers
<1> QED
    BY <1>1, <1>2, <1>3, <1>4, OneOwner

LEMMA PlacesExcludeNext == PInv' => Exclusive'
BY PlacesExclude, PTL

-----------------------------------------------------------------------------
(* The two events.  A holder that waits to be added is announced until the thread that has the
   selection mutex is about to add it; a deferred request, from the moment its handler has
   returned, is announced while its service is registered. *)
Woken ==
    deferred_list # << >> => wakeup_event \/ \E t \in Threads : pc[t] \in {"signal", "link"}

PutOff(s) == s \in deferred \/ \E t \in Threads : pc[t] = "defer" /\ completing[t] = s

Registered(s) == Awaits(s).op = "get" /\ Awaits(s).name \in registered

Announced ==
    \A s \in Sessions : PutOff(s) /\ Registered(s) =>
        deferral_event \/ \E t \in Threads : pc[t] = "grab"

(* Only a server with a deferral event is asked for services. *)
AskedOfManager == \A c \in Clients : asked[c] \in RegistryRequests => server.deferral

LEMMA AwaitsGet ==
    ASSUME TypeOK, NEW s \in Sessions, Awaits(s).op = "get"
    PROVE  /\ current[s] \in Clients /\ Awaits(s) = asked[current[s]]
           /\ asked[current[s]] \in RegistryRequests
<1>1. current[s] # None /\ Awaits(s) = asked[current[s]]
    BY DEF Awaits, NoRequest
<1>2. current[s] \in Clients /\ asked[current[s]] \in Requests \cup {NoRequest}
    BY <1>1 DEF TypeOK
<1> QED
    BY <1>1, <1>2, SMT DEF Requests, NoRequest

(* Requests end. *)
LEMMA EndedRequests ==
    ASSUME TypeOK, server' = server, \A c \in Clients : asked'[c] \in {asked[c], NoRequest}
    PROVE  /\ AskedOfManager => AskedOfManager'
           /\ \A s \in Sessions : current'[s] \in {current[s], None} /\ Awaits(s)'.op = "get" =>
                  Awaits(s)' = Awaits(s)
<1>1. NoRequest \notin RegistryRequests
    BY DEF NoRequest, RegistryRequests
<1>2. AskedOfManager => AskedOfManager'
    BY <1>1 DEF AskedOfManager
<1>3. ASSUME NEW s \in Sessions, current'[s] \in {current[s], None}, Awaits(s)'.op = "get"
      PROVE  Awaits(s)' = Awaits(s)
  <2>1. current'[s] # None /\ Awaits(s)' = asked'[current'[s]]
      BY <1>3 DEF Awaits, NoRequest
  <2>2. current'[s] = current[s] /\ current[s] \in Clients
      BY <1>3, <2>1 DEF TypeOK
  <2>3. asked'[current[s]] # NoRequest
      BY <1>3, <2>1, <2>2, SMT DEF NoRequest
  <2> QED
      BY <2>1, <2>2, <2>3 DEF Awaits
<1> QED
    BY <1>2, <1>3

(* A step of t that announces nothing and has nothing to announce. *)
LEMMA NothingAnnounced ==
    ASSUME TypeOK, Announced, NEW t \in Threads, StepOf(t), pc[t] # "grab",
           \A c \in Clients : asked'[c] \in {asked[c], NoRequest},
           \A s \in Sessions : PutOff(s)' => current'[s] \in {current[s], None},
           deferral_event => deferral_event', registered' \subseteq registered \/ deferral_event',
           \A s \in Sessions : s \in deferred' => PutOff(s),
           pc'[t] # "defer"
    PROVE  Announced'
<1>1. SUFFICES ASSUME NEW s \in Sessions, PutOff(s)', Registered(s)', ~deferral_event'
               PROVE  \E u \in Threads : pc'[u] = "grab"
    BY DEF Announced
<1>2. PutOff(s)
    BY <1>1 DEF PutOff, StepOf, OnlyThread
<1>3. Awaits(s)' = Awaits(s)
    BY <1>1, EndedRequests DEF Registered, StepOf
<1>4. Registered(s)
    BY <1>1, <1>3 DEF Registered
<1>5. PICK u \in Threads : pc[u] = "grab"
    BY <1>1, <1>2, <1>4 DEF Announced
<1> QED
    BY <1>5 DEF StepOf, OnlyThread

LEMMA ThreadWoken ==
    ASSUME SInv, Woken, NEW t \in Threads, ThreadStep(t), StepOf(t)
    PROVE  Woken'
<1>1. pc \in [Threads -> Labels]
    BY DEF SInv, TypeOK
<1>2. ASSUME pc[t] \notin {"signal", "link"}, UNCHANGED <<deferred_list, wakeup_event>> PROVE Woken'
    BY <1>2 DEF Woken, StepOf, OnlyThread
<1>3. ASSUME LeaveLoop(t) \/ LockSelection(t) \/ TestStop(t) \/ WaitAny(t) \/ NotifyAvailable(t)
      PROVE  Woken'
    BY <1>2, <1>3 DEF LeaveLoop, LockSelection, TestStop, WaitAny, NotifyAvailable, Selected, listVars
<1>4. ASSUME LinkDeferred(t) PROVE Woken'
    BY <1>4 DEF LinkDeferred, Woken
<1>5. ASSUME ClearWakeup(t) PROVE Woken'
  <2>1. pc'[t] = "link"
      BY <1>1, <1>5 DEF ClearWakeup, Goto
  <2> QED
      BY <2>1 DEF Woken
<1>6. ASSUME LinkToDeferredList(t) PROVE Woken'
  <2>1. pc'[t] = "signal"
      BY <1>1, <1>6 DEF LinkToDeferredList, Goto
  <2> QED
      BY <2>1 DEF Woken
<1>7. ASSUME SignalWakeup(t) PROVE Woken'
    BY <1>7 DEF SignalWakeup, Woken
<1>8. ASSUME HandleSyncRequest(t) PROVE Woken'
    BY <1>2, <1>8, HandlerSteps DEF HandlerFrame
<1>9. ASSUME OnPortEvent(t) \/ OnSessionEvent(t) \/ Defer(t) \/ SendReply(t) \/ DestroySession(t)
      PROVE  Woken'
    BY <1>2, <1>9 DEF OnPortEvent, OnSessionEvent, Defer, SendReply, DestroySession, listVars, Port
<1>10. ASSUME \/ ClearDeferral(t) \/ GrabDeferrals(t) \/ \E s \in Sessions : CompleteDeferred(t, s)
       PROVE  Woken'
    BY <1>2, <1>10 DEF ClearDeferral, GrabDeferrals, CompleteDeferred, listVars, Deferral
<1> QED
    BY <1>3, <1>4, <1>5, <1>6, <1>7, <1>8, <1>9, <1>10 DEF ThreadStep

(* What a handler does to the registry. *)
LEMMA HandlerRegistry ==
    ASSUME SInv, NEW t \in Threads, HandleSyncRequest(t)
    PROVE  LET r == asked[current[completing[t]]] IN
           /\ deferral_event => deferral_event'
           /\ registered' \subseteq registered \/ deferral_event'
           /\ result'[t] # None
           /\ result'[t] = "deferred" => /\ pc'[t] = "defer" /\ UNCHANGED <<registered, links, session>>
                                         /\ r.op = "get" /\ r.name \notin registered
           /\ result'[t] # "deferred" =>
                  /\ pc'[t] \in {"reply", "relink"}
                  /\ r.op = "get" => r.name \in registered
                  /\ registered' = IF r.op = "register" THEN registered \cup {r.name}
                                   ELSE IF r.op = "unregister" THEN registered \ {r.name}
                                   ELSE registered
<1> DEFINE r == asked[current[completing[t]]]
<1>1. /\ pc \in [Threads -> Labels] /\ result \in [Threads -> Results \cup {None}]
      /\ deferral_event \in BOOLEAN
    BY DEF SInv, TypeOK
<1>2. CASE /\ r.op \in {"plain", "close"}
           /\ result' = [result EXCEPT ![t] = IF r.op = "close" THEN "closed" ELSE "ok"]
           /\ Goto(t, "reply")
           /\ UNCHANGED <<session, registered, deferral_event, sessions, links>>
  <2>1. result'[t] \in {"ok", "closed"} /\ pc'[t] = "reply" /\ r.op \in {"plain", "close"}
        /\ UNCHANGED <<registered, deferral_event>>
      BY <1>1, <1>2 DEF Goto
  <2>2. result'[t] # None
      BY <2>1, NoneAssumption DEF Results
  <2> HIDE DEF r
  <2> QED
      BY <2>1, <2>2 DEF r
<1>3. CASE /\ r.op = "open"
           /\ \E new \in AnyOf({x \in Sessions : session[x] = "Free"}) :
                 /\ session' = [session EXCEPT ![new] = "Normal"]
                 /\ sessions' = sessions \cup {new}
                 /\ links' = [links EXCEPT ![t] = <<new>>]
                 /\ result' = [result EXCEPT ![t] = new]
           /\ Goto(t, "relink")
           /\ UNCHANGED <<registered, deferral_event>>
  <2>1. PICK new \in Sessions : result' = [result EXCEPT ![t] = new]
      BY <1>3, AnyOfIn
  <2>2. /\ result'[t] \in Sessions /\ pc'[t] = "relink" /\ r.op = "open"
        /\ UNCHANGED <<registered, deferral_event>>
      BY <1>1, <1>3, <2>1 DEF Goto
  <2>3. result'[t] # None /\ result'[t] # "deferred"
      BY <2>2, NoneAssumption, ResultsAssumption DEF Results
  <2> HIDE DEF r
  <2> QED
      BY <2>2, <2>3 DEF r
<1>4. CASE /\ r.op \in {"get", "register", "unregister"}
           /\ LET answered == RegistryResult(r) IN
              /\ result' = [result EXCEPT ![t] = answered]
              /\ registered' = IF answered # "ok" \/ r.op = "get" THEN registered
                               ELSE IF r.op = "register" THEN registered \cup {r.name}
                               ELSE registered \ {r.name}
              /\ deferral_event' = (deferral_event \/ (r.op = "register" /\ answered = "ok"))
              /\ Goto(t, IF answered = "deferred" THEN "defer" ELSE "reply")
           /\ UNCHANGED <<session, sessions, links>>
  <2> DEFINE answered == RegistryResult(r)
  <2>1. /\ result'[t] = answered /\ pc'[t] = IF answered = "deferred" THEN "defer" ELSE "reply"
        /\ registered' = IF answered # "ok" \/ r.op = "get" THEN registered
                         ELSE IF r.op = "register" THEN registered \cup {r.name}
                         ELSE registered \ {r.name}
        /\ deferral_event' = (deferral_event \/ (r.op = "register" /\ answered = "ok"))
        /\ UNCHANGED <<session, links>>
      BY <1>1, <1>4 DEF Goto
  <2>2. /\ r.op = "get" => answered = IF r.name \in registered THEN "ok" ELSE "deferred"
        /\ r.op = "register" => answered = IF r.name \in registered THEN "error" ELSE "ok"
        /\ r.op = "unregister" => answered = IF r.name \in registered THEN "ok" ELSE "error"
    <3>1. r.op = "get" => answered = IF r.name \in registered THEN "ok" ELSE "deferred"
        BY DEF RegistryResult
    <3>2. ASSUME r.op = "register" PROVE answered = IF r.name \in registered THEN "error" ELSE "ok"
      <4>1. CASE r.name \in registered
          BY <3>2, <4>1 DEF RegistryResult
      <4>2. CASE r.name \notin registered
          BY <3>2, <4>2 DEF RegistryResult
      <4> QED
          BY <4>1, <4>2
    <3>3. ASSUME r.op = "unregister" PROVE answered = IF r.name \in registered THEN "ok" ELSE "error"
      <4>1. CASE r.name \in registered
          BY <3>3, <4>1 DEF RegistryResult
      <4>2. CASE r.name \notin registered
          BY <3>3, <4>2, SMT DEF RegistryResult
      <4> QED
          BY <4>1, <4>2
    <3> QED
        BY <3>1, <3>2, <3>3
  <2>3. answered \in {"ok", "error", "deferred"} /\ answered # None
      BY <1>4, <2>2, NoneAssumption DEF Results
  <2> HIDE DEF r, answered
  <2>4. CASE r.op = "get"
      BY <2>1, <2>2, <2>3, <2>4 DEF r
  <2>5. CASE r.op = "register"
      BY <1>1, <2>1, <2>2, <2>3, <2>5 DEF r
  <2>6. CASE r.op = "unregister"
      BY <1>1, <2>1, <2>2, <2>3, <2>6 DEF r
  <2> QED
      BY <1>4, <2>4, <2>5, <2>6 DEF r
<1> QED
    BY <1>2, <1>3, <1>4 DEF HandleSyncRequest

LEMMA QuietAnnounced ==
    ASSUME TypeOK, Announced, NEW t \in Threads, StepOf(t), pc[t] # "grab", pc'[t] # "defer",
           UNCHANGED <<asked, current, registered, deferral_event, deferred>>
    PROVE  Announced'
BY NothingAnnounced DEF PutOff

LEMMA LoopAnnounced ==
    ASSUME SInv, Announced, NEW t \in Threads, StepOf(t), Local(t)',
           \/ LeaveLoop(t) \/ LockSelection(t) \/ LinkDeferred(t) \/ TestStop(t) \/ ClearWakeup(t)
           \/ WaitAny(t) \/ NotifyAvailable(t)
    PROVE  Announced'
<1>1. /\ UNCHANGED <<asked, current, registered, deferral_event, deferred>> /\ result' = result
      /\ pc[t] \in {"loop", "link", "stopping", "clear", "wait", "asleep"}
  <2>1. CASE LeaveLoop(t) \/ LockSelection(t) \/ LinkDeferred(t) \/ TestStop(t) \/ ClearWakeup(t)
      BY <2>1 DEF LeaveLoop, LockSelection, LinkDeferred, TestStop, ClearWakeup, kernelVars, listVars
  <2>2. CASE WaitAny(t) \/ NotifyAvailable(t)
      BY <2>2 DEF WaitAny, NotifyAvailable, Selected, kernelVars, listVars
  <2> QED
      BY <2>1, <2>2
<1>2. result[t] = None
    BY <1>1 DEF SInv, Local, Linking
<1>3. pc'[t] # "defer"
    BY <1>1, <1>2 DEF Local
<1> QED
    BY <1>1, <1>3, QuietAnnounced DEF SInv

LEMMA OnSessionEventAnnounced ==
    ASSUME SInv, Announced, NEW t \in Threads, StepOf(t), OnSessionEvent(t)
    PROVE  Announced'
<1>1. /\ UNCHANGED <<asked, registered, deferral_event, deferred, completing>>
      /\ pc[t] = "receive" /\ pc' \in {[pc EXCEPT ![t] = "destroy"], [pc EXCEPT ![t] = "handle"]}
    BY DEF OnSessionEvent, Goto, listVars
<1>2. pc'[t] \in {"destroy", "handle"}
    BY <1>1 DEF SInv, TypeOK
<1>3. stop # "gone" /\ completing[t] \in Sessions
    BY <1>1, WorkerSession DEF Working
<1>4. completing[t] \notin deferred /\ \A u \in Threads \ {t} : completing[u] # completing[t]
    BY <1>3 DEF SInv, Exclusive, Has
<1>5. \A s \in Sessions : PutOff(s)' => s # completing[t]
    BY <1>1, <1>2, <1>4 DEF PutOff
<1>6. \A s \in Sessions \ {completing[t]} : current'[s] = current[s]
    BY DEF OnSessionEvent, SInv, TypeOK
<1>7. \A s \in Sessions : PutOff(s)' => current'[s] \in {current[s], None}
    BY <1>5, <1>6
<1> QED
    BY <1>1, <1>2, <1>7, NothingAnnounced DEF SInv, PutOff

LEMMA HandlerAnnounced ==
    ASSUME SInv, Announced, NEW t \in Threads, StepOf(t), HandleSyncRequest(t)
    PROVE  Announced'
<1> DEFINE d == completing[t]
<1>1. /\ pc[t] = "handle" /\ UNCHANGED <<asked, current, deferred, completing>>
    BY HandlerSteps DEF HandlerFrame
<1>2. CASE result'[t] # "deferred"
  <2>1. pc'[t] # "defer" /\ (deferral_event => deferral_event')
        /\ (registered' \subseteq registered \/ deferral_event')
      BY <1>2, HandlerRegistry
  <2> QED
      BY <1>1, <2>1, NothingAnnounced DEF SInv, PutOff
<1>3. CASE result'[t] = "deferred"
  <2>1. /\ registered' = registered /\ (deferral_event => deferral_event')
        /\ asked[current[d]].name \notin registered
      BY <1>3, HandlerRegistry
  <2>2. SUFFICES ASSUME NEW s \in Sessions, PutOff(s)', Registered(s)', ~deferral_event'
                 PROVE  \E u \in Threads : pc'[u] = "grab"
      BY DEF Announced
  <2>3. Registered(s)
      BY <1>1, <2>1, <2>2 DEF Registered, Awaits
  <2>4. s # d
    <3>1. Awaits(s) = asked[current[s]]
        BY <2>3, AwaitsGet DEF SInv, Registered
    <3> QED
        BY <2>1, <2>3, <3>1 DEF Registered
  <2>5. PutOff(s)
      BY <1>1, <2>2, <2>4 DEF PutOff, StepOf, OnlyThread
  <2>6. PICK u \in Threads : pc[u] = "grab"
      BY <2>1, <2>2, <2>3, <2>5 DEF Announced
  <2> QED
      BY <1>1, <2>6 DEF StepOf, OnlyThread
<1> QED
    BY <1>2, <1>3

LEMMA RestAnnounced ==
    ASSUME SInv, Announced, AskedOfManager, NEW t \in Threads, StepOf(t), Local(t)',
           \/ LinkToDeferredList(t) \/ SignalWakeup(t) \/ OnPortEvent(t) \/ Defer(t)
           \/ ClearDeferral(t) \/ GrabDeferrals(t) \/ \E s \in Sessions : CompleteDeferred(t, s)
    PROVE  Announced'
<1>0. pc \in [Threads -> Labels]
    BY DEF SInv, TypeOK
<1>1. CASE LinkToDeferredList(t) \/ SignalWakeup(t) \/ OnPortEvent(t)
  <2>1. /\ UNCHANGED <<asked, current, registered, deferral_event, deferred>> /\ pc[t] # "grab"
      BY <1>1 DEF LinkToDeferredList, SignalWakeup, OnPortEvent, kernelVars, listVars, Port
  <2>2. pc'[t] # "defer"
      BY <1>0, <1>1 DEF LinkToDeferredList, SignalWakeup, OnPortEvent, Goto
  <2> QED
      BY <2>1, <2>2, QuietAnnounced DEF SInv
<1>2. CASE \E s \in Sessions : CompleteDeferred(t, s)
  <2>1. UNCHANGED <<asked, current, registered, deferral_event, deferred>> /\ pc[t] # "grab"
      BY <1>2 DEF CompleteDeferred, kernelVars, listVars
  <2>2. pc'[t] # "defer"
      BY <1>0, <1>2 DEF CompleteDeferred, Goto
  <2> QED
      BY <2>1, <2>2, QuietAnnounced DEF SInv
<1>3. CASE ClearDeferral(t)
  <2>1. pc'[t] = "grab"
      BY <1>0, <1>3 DEF ClearDeferral, Goto
  <2> QED
      BY <2>1 DEF Announced
<1>4. CASE Defer(t)
  <2>1. /\ UNCHANGED <<asked, current, registered, deferral_event>> /\ pc[t] = "defer"
        /\ deferred' = deferred \cup {completing[t]}
      BY <1>4 DEF Defer, kernelVars
  <2>2. pc'[t] # "defer"
      BY <1>0, <1>4 DEF Defer, Goto
  <2>3. \A s \in Sessions : s \in deferred' => PutOff(s)
      BY <2>1 DEF PutOff
  <2> QED
      BY <2>1, <2>2, <2>3, NothingAnnounced DEF SInv
<1>5. CASE GrabDeferrals(t)
  <2>1. /\ UNCHANGED <<asked, current, registered, completing>> /\ deferred' = {} /\ pc[t] = "grab"
      BY <1>5 DEF GrabDeferrals, kernelVars
  <2>2. pc'[t] # "defer"
      BY <1>0, <1>5 DEF GrabDeferrals, Goto
  <2>3. ASSUME NEW s \in Sessions, PutOff(s)', Registered(s)' PROVE FALSE
    <3>1. PICK u \in Threads : pc'[u] = "defer"
        BY <2>1, <2>3 DEF PutOff
    <3>2. u # t /\ pc[u] = "defer"
        BY <2>2, <3>1 DEF StepOf, OnlyThread
    <3>3. Registered(s)
        BY <2>1, <2>3 DEF Registered, Awaits
    <3>4. server.deferral
        BY <3>3, AwaitsGet DEF SInv, AskedOfManager, Registered
    <3>5. server.threads = {Main}
        BY <3>4, ServersAssumption DEF SInv, TypeOK
    <3> QED
        BY <2>1, <3>2, <3>5 DEF SInv, Local
  <2> QED
      BY <2>3 DEF Announced
<1> QED
    BY <1>1, <1>2, <1>3, <1>4, <1>5

(* The requests that a session's end or an answer ends. *)
LEMMA ClosedRequests ==
    ASSUME NEW S \in SUBSET Sessions, CloseServerSessions(S)
    PROVE  /\ \A c \in Clients : asked'[c] \in {asked[c], NoRequest}
           /\ \A s \in Sessions : current'[s] \in {current[s], None}
<1>1. asked' = [c \in Clients |-> IF c \in Waiting(S) THEN NoRequest ELSE asked[c]]
    BY DEF CloseServerSessions, Waiting
<1>2. current' = [s \in Sessions |-> IF s \in S THEN None ELSE current[s]]
    BY DEF CloseServerSessions
<1> QED
    BY <1>1, <1>2

LEMMA AnsweredRequests ==
    ASSUME SInv, NEW t \in Threads, SendReply(t) \/ DestroySession(t)
    PROVE  /\ \A c \in Clients : asked'[c] \in {asked[c], NoRequest}
           /\ \A s \in Sessions : current'[s] \in {current[s], None}
<1>1. CASE SendReply(t)
  <2>1. /\ asked' = [asked EXCEPT ![current[completing[t]]] = NoRequest]
        /\ current' = [current EXCEPT ![completing[t]] = None]
      BY <1>1 DEF SendReply
  <2>2. /\ asked \in [Clients -> Requests \cup {NoRequest}]
        /\ current \in [Sessions -> Clients \cup {None}]
      BY DEF SInv, TypeOK
  <2> QED
      BY <2>1, <2>2
<1>2. CASE DestroySession(t)
  <2>1. completing[t] \in Sessions
      BY <1>2, WorkerSession DEF DestroySession, Working
  <2> QED
      BY <1>2, <2>1, ClosedRequests DEF DestroySession
<1> QED
    BY <1>1, <1>2

LEMMA ThreadAnnounced ==
    ASSUME SInv, Announced, AskedOfManager, NEW t \in Threads, ThreadStep(t), StepOf(t), Local(t)'
    PROVE  Announced' /\ AskedOfManager'
<1>1. CASE SendReply(t) \/ DestroySession(t)
  <2>1. /\ \A c \in Clients : asked'[c] \in {asked[c], NoRequest}
        /\ \A s \in Sessions : current'[s] \in {current[s], None}
      BY <1>1, AnsweredRequests
  <2>2. UNCHANGED <<registered, deferral_event, deferred>> /\ pc[t] # "grab"
      BY <1>1 DEF SendReply, DestroySession, listVars
  <2>3. pc'[t] # "defer"
      BY <1>1 DEF SendReply, DestroySession, Goto, SInv, TypeOK
  <2> QED
      BY <2>1, <2>2, <2>3, NothingAnnounced, EndedRequests DEF SInv, StepOf, PutOff
<1>2. CASE ~(SendReply(t) \/ DestroySession(t))
  <2>1. asked' = asked
    <3>1. ASSUME HandleSyncRequest(t) PROVE asked' = asked
        BY <3>1 DEF HandleSyncRequest
    <3>2. ASSUME ~HandleSyncRequest(t) PROVE asked' = asked
        BY <1>2, <3>2 DEF ThreadStep, LeaveLoop, LockSelection, LinkDeferred, TestStop, WaitAny,
           NotifyAvailable, Selected, ClearWakeup, LinkToDeferredList, SignalWakeup, OnPortEvent,
           OnSessionEvent, Defer, ClearDeferral, GrabDeferrals, CompleteDeferred
    <3> QED
        BY <3>1, <3>2
  <2>2. AskedOfManager'
      BY <2>1 DEF AskedOfManager, StepOf
  <2>3. Announced'
      BY <1>2, LoopAnnounced, RestAnnounced, OnSessionEventAnnounced, HandlerAnnounced DEF ThreadStep
  <2> QED
      BY <2>2, <2>3
<1> QED
    BY <1>1, <1>2

(* The steps that are not a thread's. *)
GuestStep ==
    \/ \E s \in Sessions : CreateSession(s) \/ CloseClientSession(s)
    \/ \E c \in Clients, s \in Sessions, r \in Requests :
          (r.op = "close" \/ server.deferral = (r \in RegistryRequests)) /\ OnRequest(c, s, r)
    \/ \E n \in Services : RegisterService(n)
    \/ RequestStop \/ SignalStop \/ Destroy \/ UNCHANGED vars

LEMMA NextSteps ==
    ASSUME [Next]_vars
    PROVE  GuestStep \/ \E t \in Threads : ThreadStep(t)
BY AnyOfIn DEF Next, GuestStep

LEMMA GuestsWaiting ==
    ASSUME SInv, GuestStep
    PROVE  /\ UNCHANGED <<multi_wait, deferred_list, deferred, server, pc, completing, result, links>>
           /\ wakeup_event => wakeup_event'
           /\ deferral_event => deferral_event'
<1>1. /\ wakeup_event \in BOOLEAN /\ deferral_event \in BOOLEAN
    BY DEF SInv, TypeOK
<1>2. ASSUME NEW s \in Sessions, CreateSession(s) \/ CloseClientSession(s)
      PROVE  /\ UNCHANGED <<multi_wait, deferred_list, deferred, server, pc, completing, result, links>>
             /\ UNCHANGED <<wakeup_event, deferral_event>>
    BY <1>2 DEF CreateSession, CloseClientSession, listVars, threadVars
<1>3. ASSUME NEW c \in Clients, NEW s \in Sessions, NEW r \in Requests, OnRequest(c, s, r)
      PROVE  /\ UNCHANGED <<multi_wait, deferred_list, deferred, server, pc, completing, result, links>>
             /\ UNCHANGED <<wakeup_event, deferral_event>>
    BY <1>3 DEF OnRequest, listVars, threadVars
<1>4. ASSUME NEW n \in Services, RegisterService(n)
      PROVE  /\ UNCHANGED <<multi_wait, deferred_list, deferred, server, pc, completing, result, links>>
             /\ wakeup_event' = wakeup_event /\ (deferral_event => deferral_event')
    BY <1>1, <1>4 DEF RegisterService, listVars, threadVars
<1>5. ASSUME RequestStop \/ SignalStop \/ UNCHANGED vars
      PROVE  /\ UNCHANGED <<multi_wait, deferred_list, deferred, server, pc, completing, result, links>>
             /\ (wakeup_event => wakeup_event') /\ deferral_event' = deferral_event
    BY <1>5, SMT DEF RequestStop, SignalStop, vars, listVars, threadVars
<1>6. ASSUME Destroy
      PROVE  /\ UNCHANGED <<multi_wait, deferred_list, deferred, server, pc, completing, result, links>>
             /\ UNCHANGED <<wakeup_event, deferral_event>>
    BY <1>6 DEF Destroy, threadVars
<1> QED
    BY <1>2, <1>3, <1>4, <1>5, <1>6, SMT DEF GuestStep

(* A step of the guest that registers nothing. *)
LEMMA GuestKeepsAnnounced ==
    ASSUME Announced, registered' = registered, UNCHANGED <<deferred, pc, completing>>,
           deferral_event => deferral_event',
           \A s \in Sessions : Awaits(s)'.op = "get" => Awaits(s)' = Awaits(s)
    PROVE  Announced'
BY DEF Announced, Registered, PutOff

LEMMA GuestAnnounced ==
    ASSUME SInv, Once, Announced, AskedOfManager, GuestStep
    PROVE  Announced' /\ AskedOfManager'
<1>0. /\ UNCHANGED <<deferred, server, pc, completing>> /\ (deferral_event => deferral_event')
    BY GuestsWaiting
<1>1. ASSUME UNCHANGED <<asked, current, registered>> PROVE Announced' /\ AskedOfManager'
    BY <1>0, <1>1, GuestKeepsAnnounced DEF Awaits, AskedOfManager
<1>2. ASSUME NEW s \in Sessions, CreateSession(s) \/ CloseClientSession(s)
      PROVE  Announced' /\ AskedOfManager'
    BY <1>1, <1>2 DEF CreateSession, CloseClientSession
<1>3. ASSUME RequestStop \/ SignalStop \/ UNCHANGED vars PROVE Announced' /\ AskedOfManager'
    BY <1>1, <1>3 DEF RequestStop, SignalStop, vars, kernelVars
<1>4. ASSUME NEW n \in Services, RegisterService(n) PROVE Announced' /\ AskedOfManager'
  <2>1. /\ UNCHANGED <<asked, current>> /\ deferral_event' = (deferral_event \/ server.deferral)
      BY <1>4 DEF RegisterService, kernelVars
  <2>2. AskedOfManager'
      BY <1>0, <2>1 DEF AskedOfManager
  <2>3. ASSUME NEW s \in Sessions, Registered(s)' PROVE deferral_event'
    <3>1. Awaits(s).op = "get"
        BY <2>1, <2>3 DEF Registered, Awaits
    <3>2. server.deferral
        BY <3>1, AwaitsGet DEF SInv, AskedOfManager
    <3> QED
        BY <2>1, <3>2
  <2> QED
      BY <2>2, <2>3 DEF Announced
<1>5. ASSUME Destroy PROVE Announced' /\ AskedOfManager'
  <2>1. pending \in Seq(Sessions) /\ sessions \in SUBSET Sessions
      BY DEF SInv, TypeOK
  <2>2. sessions \cup Elements(pending) \in SUBSET Sessions
      BY <2>1, SMT DEF Elements
  <2>3. CloseServerSessions(sessions \cup Elements(pending)) /\ registered' = registered
      BY <1>5 DEF Destroy
  <2>4. /\ \A c \in Clients : asked'[c] \in {asked[c], NoRequest}
        /\ \A s \in Sessions : current'[s] \in {current[s], None}
      BY <2>2, <2>3, ClosedRequests
  <2> QED
      BY <1>0, <2>3, <2>4, EndedRequests, GuestKeepsAnnounced DEF SInv
<1>6. ASSUME NEW c \in Clients, NEW s \in Sessions, NEW r \in Requests, OnRequest(c, s, r),
             r.op = "close" \/ server.deferral = (r \in RegistryRequests)
      PROVE  Announced' /\ AskedOfManager'
  <2>1. /\ asked[c] = NoRequest /\ asked' = [asked EXCEPT ![c] = r] /\ UNCHANGED <<current, registered>>
      BY <1>6 DEF OnRequest
  <2>2. asked \in [Clients -> Requests \cup {NoRequest}] /\ current \in [Sessions -> Clients \cup {None}]
      BY DEF SInv, TypeOK
  <2>3. r \in RegistryRequests => server.deferral
    <3>1. r \in RegistryRequests => r.op # "close"
        BY DEF RegistryRequests
    <3>2. server.deferral \in BOOLEAN
        BY ServersAssumption DEF SInv, TypeOK
    <3> QED
        BY <1>6, <3>1, <3>2
  <2>4. \A d \in Clients : asked'[d] = IF d = c THEN r ELSE asked[d]
      BY <2>1, <2>2
  <2>5. AskedOfManager'
      BY <1>0, <2>3, <2>4 DEF AskedOfManager
  <2>6. ASSUME NEW x \in Sessions PROVE Awaits(x)' = Awaits(x)
    <3>1. current[x] # None => current[x] \in Clients /\ current[x] # c
        BY <2>1, <2>2 DEF Once
    <3> QED
        BY <2>1, <2>4, <3>1 DEF Awaits
  <2> QED
      BY <1>0, <2>1, <2>5, <2>6, GuestKeepsAnnounced
<1> QED
    BY <1>2, <1>3, <1>4, <1>5, <1>6 DEF GuestStep

-----------------------------------------------------------------------------
(* What a thread has decided about its request, and what it found when it was woken. *)

Decided ==
    \A t \in Threads : /\ pc[t] \in Linking \cup {"reply"} => result[t] # "deferred"
                       /\ pc[t] = "defer" => result[t] = "deferred"

Ready == \A t \in Threads : pc[t] = "receive" => IsSignaled(completing[t])

LEMMA ThreadDecided ==
    ASSUME SInv, Decided, NEW t \in Threads, ThreadStep(t), StepOf(t), Local(t)'
    PROVE  Decided'
<1>1. SUFFICES /\ pc'[t] \in Linking \cup {"reply"} => result'[t] # "deferred"
               /\ pc'[t] = "defer" => result'[t] = "deferred"
    BY SMT DEF Decided, StepOf, OnlyThread
<1>2. /\ pc \in [Threads -> Labels] /\ result \in [Threads -> Results \cup {None}] /\ Local(t)
    BY DEF SInv, TypeOK
<1>3. ASSUME result'[t] = None PROVE <1>1!1
  <2>1. None # "deferred"
      BY NoneAssumption DEF Results
  <2> QED
      BY <1>3, <2>1 DEF Local
<1>4. CASE result' = result /\ pc[t] \notin Linking \cup {"defer", "reply"}
    BY <1>2, <1>3, <1>4 DEF Local
<1>5. CASE Defer(t) \/ SendReply(t)
    BY <1>2, <1>3, <1>5 DEF Defer, SendReply
<1>6. CASE LinkToDeferredList(t) \/ SignalWakeup(t)
  <2>1. pc[t] \in Linking /\ result' = result
      BY <1>6 DEF LinkToDeferredList, SignalWakeup, Linking
  <2>2. pc'[t] # "defer"
      BY <1>2, <1>6 DEF LinkToDeferredList, SignalWakeup, Goto
  <2> QED
      BY <2>1, <2>2 DEF Decided
<1>7. CASE HandleSyncRequest(t)
    BY <1>7, HandlerRegistry DEF Linking
<1>8. CASE LeaveLoop(t) \/ LockSelection(t) \/ LinkDeferred(t) \/ TestStop(t) \/ ClearWakeup(t)
    BY <1>4, <1>8 DEF LeaveLoop, LockSelection, LinkDeferred, TestStop, ClearWakeup, Linking
<1>9. CASE WaitAny(t) \/ NotifyAvailable(t)
    BY <1>4, <1>9 DEF WaitAny, NotifyAvailable, Selected, Linking
<1>10. CASE OnPortEvent(t) \/ OnSessionEvent(t) \/ DestroySession(t)
    BY <1>4, <1>10 DEF OnPortEvent, OnSessionEvent, DestroySession, Linking, Port
<1>11. CASE ClearDeferral(t) \/ GrabDeferrals(t) \/ \E s \in Sessions : CompleteDeferred(t, s)
    BY <1>4, <1>11 DEF ClearDeferral, GrabDeferrals, CompleteDeferred, Linking, Deferral
<1> QED
    BY <1>5, <1>6, <1>7, <1>8, <1>9, <1>10, <1>11 DEF ThreadStep

(* A thread changes no session but its own, and opens those that are free. *)
LEMMA OtherSessions ==
    ASSUME SInv, NEW t \in Threads, ThreadStep(t), NEW x \in Sessions, x # completing[t]
    PROVE  /\ requests'[x] = requests[x] /\ current'[x] = current[x]
           /\ session'[x] # session[x] => session[x] = "Free"
<1>2. CASE LeaveLoop(t) \/ LockSelection(t) \/ LinkDeferred(t) \/ TestStop(t) \/ ClearWakeup(t)
    BY <1>2 DEF LeaveLoop, LockSelection, LinkDeferred, TestStop, ClearWakeup, kernelVars
<1>3. CASE WaitAny(t) \/ NotifyAvailable(t)
    BY <1>3 DEF WaitAny, NotifyAvailable, Selected, kernelVars
<1>4. CASE LinkToDeferredList(t) \/ SignalWakeup(t) \/ OnPortEvent(t) \/ Defer(t)
    BY <1>4 DEF LinkToDeferredList, SignalWakeup, OnPortEvent, Defer, kernelVars
<1>5. CASE ClearDeferral(t) \/ GrabDeferrals(t) \/ \E s \in Sessions : CompleteDeferred(t, s)
    BY <1>5 DEF ClearDeferral, GrabDeferrals, CompleteDeferred, kernelVars
<1>6. CASE OnSessionEvent(t) \/ SendReply(t)
  <2>1. /\ session' = session
        /\ requests' = requests \/ requests' = [requests EXCEPT ![completing[t]] = Tail(@)]
        /\ current' = current \/ \E v : current' = [current EXCEPT ![completing[t]] = v]
      BY <1>6 DEF OnSessionEvent, SendReply
  <2>2. /\ requests \in [Sessions -> Seq(Clients)] /\ current \in [Sessions -> Clients \cup {None}]
      BY DEF SInv, TypeOK
  <2> QED
      BY <2>1, <2>2
<1>7. CASE DestroySession(t)
    BY <1>7 DEF DestroySession, CloseServerSessions
<1>8. CASE HandleSyncRequest(t)
  <2>1. UNCHANGED <<requests, current>>
      BY <1>8, HandlerSteps DEF HandlerFrame
  <2>2. \/ session' = session
        \/ \E new \in Sessions : session[new] = "Free" /\ session' = [session EXCEPT ![new] = "Normal"]
      BY <1>8, HandlerSteps DEF Returns, Opens
  <2>3. session \in [Sessions -> {"Free", "Normal", "ClientClosed", "ServerClosed"}]
      BY DEF SInv, TypeOK
  <2> QED
      BY <2>1, <2>2, <2>3
<1> QED
    BY <1>2, <1>3, <1>4, <1>5, <1>6, <1>7, <1>8 DEF ThreadStep

(* What a session is signaled for stays, unless it is another thread's. *)
LEMMA StaysSignaled ==
    ASSUME NEW x \in Sessions, IsSignaled(x), requests'[x] = requests[x], current'[x] = current[x],
           session'[x] # session[x] => session[x] = "Free"
    PROVE  IsSignaled(x)'
<1>1. x \notin {Wakeup, Deferral, Port}
    BY HoldersAssumption
<1>2. session[x] = "ClientClosed" \/ (requests[x] # << >> /\ current[x] = None)
    BY <1>1 DEF IsSignaled
<1> QED
    BY <1>2 DEF IsSignaled

LEMMA SelectedReady ==
    ASSUME SInv, NEW t \in Threads, NEW i \in DOMAIN multi_wait, IsSignaled(multi_wait[i]),
           Selected(t, i), pc'[t] = "receive"
    PROVE  IsSignaled(completing[t])'
<1> DEFINE h == multi_wait[i]
<1>1. /\ multi_wait \in Seq(Holders) /\ completing \in [Threads -> Sessions \cup {None}]
      /\ pc \in [Threads -> Labels]
    BY DEF SInv, TypeOK
<1>2. h \in Holders
    BY <1>1, SMT
<1>3. h \in Sessions
  <2>1. h \in Sessions \/ h \in {Wakeup, Deferral, Port}
      BY <1>2 DEF Holders
  <2>2. h = Wakeup => pc'[t] = "clear"
      BY <1>1 DEF Selected, Goto
  <2>3. h # Wakeup /\ h \notin Sessions => pc'[t] = h
      BY <1>1 DEF Selected, Goto
  <2> QED
      BY <2>1, <2>2, <2>3 DEF Wakeup, Deferral, Port
<1>4. h # Wakeup
    BY <1>3, HoldersAssumption
<1>5. completing'[t] = h /\ UNCHANGED <<session, requests, current>>
    BY <1>1, <1>3, <1>4 DEF Selected, kernelVars
<1>6. PICK x \in Sessions : x = h
    BY <1>3
<1>7. IsSignaled(x)'
    BY <1>5, <1>6, StaysSignaled
<1> QED
    BY <1>5, <1>6, <1>7 DEF IsSignaled

LEMMA ThreadReady ==
    ASSUME SInv, Ready, NEW t \in Threads, ThreadStep(t), StepOf(t), Local(t)'
    PROVE  Ready'
<1>1. ASSUME NEW u \in Threads, u # t, pc'[u] = "receive" PROVE IsSignaled(completing[u])'
  <2>1. pc[u] = "receive" /\ completing'[u] = completing[u]
      BY <1>1 DEF StepOf, OnlyThread
  <2>2. stop # "gone" /\ completing[u] \in Sessions /\ IsSignaled(completing[u])
      BY <2>1, WorkerSession DEF Working, Ready
  <2>3. completing[u] # completing[t]
      BY <1>1, <2>2 DEF SInv, Exclusive, Has
  <2>4. PICK x \in Sessions : x = completing[u]
      BY <2>2
  <2>5. /\ requests'[x] = requests[x] /\ current'[x] = current[x]
        /\ session'[x] # session[x] => session[x] = "Free"
      BY <2>3, <2>4, OtherSessions
  <2>6. IsSignaled(x)'
      BY <2>2, <2>4, <2>5, StaysSignaled
  <2> QED
      BY <2>1, <2>4, <2>6 DEF IsSignaled
<1>2. ASSUME pc'[t] = "receive" PROVE IsSignaled(completing[t])'
  <2>0. pc \in [Threads -> Labels]
      BY DEF SInv, TypeOK
  <2>1. CASE WaitAny(t)
    <3>1. \E i \in DOMAIN multi_wait : IsSignaled(multi_wait[i]) /\ Selected(t, i)
        BY <1>2, <2>0, <2>1 DEF WaitAny, Goto
    <3> QED
        BY <1>2, <3>1, SelectedReady
  <2>2. CASE NotifyAvailable(t)
      BY <1>2, <2>2, SelectedReady DEF NotifyAvailable
  <2>3. CASE HandleSyncRequest(t)
      BY <1>2, <2>3, HandlerRegistry
  <2>4. CASE \/ LeaveLoop(t) \/ LockSelection(t) \/ LinkDeferred(t) \/ TestStop(t) \/ ClearWakeup(t)
             \/ LinkToDeferredList(t) \/ SignalWakeup(t)
      BY <1>2, <2>0, <2>4 DEF LeaveLoop, LockSelection, LinkDeferred, TestStop, ClearWakeup,
         LinkToDeferredList, SignalWakeup, Goto
  <2>5. CASE \/ OnPortEvent(t) \/ OnSessionEvent(t) \/ Defer(t) \/ SendReply(t) \/ DestroySession(t)
             \/ ClearDeferral(t) \/ GrabDeferrals(t) \/ \E s \in Sessions : CompleteDeferred(t, s)
      BY <1>2, <2>0, <2>5 DEF OnPortEvent, OnSessionEvent, Defer, SendReply, DestroySession,
         ClearDeferral, GrabDeferrals, CompleteDeferred, Goto
  <2> QED
      BY <2>1, <2>2, <2>3, <2>4, <2>5 DEF ThreadStep
<1> QED
    BY <1>1, <1>2 DEF Ready

LEMMA GuestReady ==
    ASSUME SInv, Ready, GuestStep
    PROVE  Ready'
<1>0. UNCHANGED <<pc, completing>>
    BY GuestsWaiting
<1>1. SUFFICES ASSUME NEW t \in Threads, pc[t] = "receive" PROVE IsSignaled(completing[t])'
    BY <1>0 DEF Ready, IsSignaled
<1> DEFINE x == completing[t]
<1>2. x \in Sessions /\ IsSignaled(x) /\ stop # "gone" /\ x \notin {Wakeup, Deferral, Port}
    BY <1>1, WorkerSession, HoldersAssumption DEF Working, Ready
<1>3. session[x] = "ClientClosed" \/ (requests[x] # << >> /\ current[x] = None)
    BY <1>2 DEF IsSignaled
<1>4. /\ session \in [Sessions -> {"Free", "Normal", "ClientClosed", "ServerClosed"}]
      /\ requests \in [Sessions -> Seq(Clients)]
    BY DEF SInv, TypeOK
<1>5. SUFFICES session'[x] = "ClientClosed" \/ (requests'[x] # << >> /\ current'[x] = None)
    BY <1>0, <1>2 DEF IsSignaled
<1> HIDE DEF x
<1>6. ASSUME NEW s \in Sessions, CreateSession(s) PROVE <1>5!1
    BY <1>2, <1>3, <1>4, <1>6 DEF CreateSession
<1>7. ASSUME NEW s \in Sessions, CloseClientSession(s) PROVE <1>5!1
    BY <1>2, <1>3, <1>4, <1>7 DEF CloseClientSession, HasHandle
<1>8. ASSUME NEW c \in Clients, NEW s \in Sessions, NEW r \in Requests, OnRequest(c, s, r) PROVE <1>5!1
  <2>1. /\ requests' = [requests EXCEPT ![s] = Append(requests[s], c)] /\ UNCHANGED <<session, current>>
      BY <1>8 DEF OnRequest
  <2>2. Append(requests[s], c) # << >>
    <3>1. ASSUME NEW q \in Seq(Clients) PROVE Append(q, c) \in Seq(Clients) /\ Len(Append(q, c)) = Len(q) + 1
        BY SMT
    <3>2. \A q \in Seq(Clients) : Len(q) \in Nat /\ (q = << >> <=> Len(q) = 0)
        BY SMT
    <3>3. requests[s] \in Seq(Clients)
        BY <1>4
    <3>4. /\ Append(requests[s], c) \in Seq(Clients) /\ Len(requests[s]) \in Nat
          /\ Len(Append(requests[s], c)) = Len(requests[s]) + 1
        BY <3>1, <3>2, <3>3
    <3> QED
        BY <3>2, <3>4, SMT
  <2> QED
      BY <1>2, <1>3, <1>4, <2>1, <2>2
<1>9. ASSUME NEW n \in Services, RegisterService(n) PROVE <1>5!1
    BY <1>3, <1>9 DEF RegisterService, kernelVars
<1>10. ASSUME RequestStop \/ SignalStop \/ UNCHANGED vars PROVE <1>5!1
    BY <1>3, <1>10 DEF RequestStop, SignalStop, vars, kernelVars
<1>11. ASSUME Destroy PROVE FALSE
  <2>1. t \in server.threads
      BY <1>1 DEF SInv, Local
  <2> QED
      BY <1>1, <1>11, <2>1 DEF Destroy
<1> QED
    BY <1>6, <1>7, <1>8, <1>9, <1>10, <1>11 DEF GuestStep

-----------------------------------------------------------------------------
(* The port comes last. *)

(* What a thread links: as before, the rest of it, one holder, or a session and the port. *)
LEMMA ThreadLinks ==
    ASSUME SInv, NEW t \in Threads, ThreadStep(t)
    PROVE  \/ links'[t] = links[t]
           \/ links[t] # << >> /\ links'[t] = Tail(links[t])
           \/ \E x : links'[t] = <<x>>
           \/ \E s \in Sessions : links'[t] = <<s, Port>>
<1>0. links \in [Threads -> Seq(Holders)] /\ pending \in Seq(Sessions)
    BY DEF SInv, TypeOK
<1>1. CASE LeaveLoop(t) \/ LockSelection(t) \/ LinkDeferred(t) \/ TestStop(t) \/ ClearWakeup(t)
    BY <1>1 DEF LeaveLoop, LockSelection, LinkDeferred, TestStop, ClearWakeup
<1>2. CASE WaitAny(t) \/ NotifyAvailable(t)
    BY <1>2 DEF WaitAny, NotifyAvailable, Selected
<1>3. CASE \/ LinkToDeferredList(t) \/ OnSessionEvent(t) \/ Defer(t) \/ DestroySession(t)
           \/ ClearDeferral(t) \/ \E s \in Sessions : CompleteDeferred(t, s)
    BY <1>3 DEF LinkToDeferredList, OnSessionEvent, Defer, DestroySession, ClearDeferral, CompleteDeferred
<1>4. CASE SignalWakeup(t)
  <2>1. links[t] # << >>
      BY <1>4 DEF SignalWakeup, SInv, Local, Linking
  <2> QED
      BY <1>0, <1>4, <2>1 DEF SignalWakeup
<1>5. CASE OnPortEvent(t)
  <2>1. links'[t] = <<Head(pending), Port>> /\ Head(pending) \in Sessions
      BY <1>0, <1>5, SMT DEF OnPortEvent
  <2> QED
      BY <2>1
<1>6. CASE SendReply(t) \/ GrabDeferrals(t)
    BY <1>0, <1>6 DEF SendReply, GrabDeferrals
<1>7. CASE HandleSyncRequest(t)
    BY <1>0, <1>7, HandlerSteps DEF Returns, Opens
<1> QED
    BY <1>1, <1>2, <1>3, <1>4, <1>5, <1>6, <1>7 DEF ThreadStep

LEMMA ThreadPortLast ==
    ASSUME SInv, PortLast, NEW t \in Threads, ThreadStep(t), StepOf(t)
    PROVE  PortLast'
<1>1. SUFFICES ASSUME NEW i \in DOMAIN links'[t], links'[t][i] = Port PROVE i = Len(links'[t])
    BY DEF PortLast, StepOf, OnlyThread
<1>2. links[t] \in Seq(Holders)
    BY DEF SInv, TypeOK
<1>3. \A k \in DOMAIN links[t] : links[t][k] = Port => k = Len(links[t])
    BY DEF PortLast
<1>4. CASE links'[t] = links[t]
    BY <1>1, <1>3, <1>4
<1>5. CASE links[t] # << >> /\ links'[t] = Tail(links[t])
  <2>1. i + 1 \in DOMAIN links[t] /\ links[t][i + 1] = Port /\ i \in Nat
      BY <1>1, <1>2, <1>5, TailElements
  <2>2. i + 1 = Len(links[t])
      BY <1>3, <2>1
  <2>3. Len(Tail(links[t])) = Len(links[t]) - 1
      BY <1>2, <1>5, SMT
  <2> QED
      BY <1>5, <2>1, <2>2, <2>3, SMT
<1>6. CASE \E x : links'[t] = <<x>>
    BY <1>1, <1>6, SMT
<1>7. CASE \E s \in Sessions : links'[t] = <<s, Port>>
    BY <1>1, <1>7, HoldersAssumption, SMT
<1> QED
    BY <1>4, <1>5, <1>6, <1>7, ThreadLinks

-----------------------------------------------------------------------------
(* All of it. *)
AInv ==
    /\ SInv /\ Once
    /\ Woken /\ Announced /\ AskedOfManager
    /\ Decided /\ Ready
    /\ PortLast

LEMMA InitAInv == Init /\ SInv => AInv
<1> SUFFICES ASSUME Init, SInv PROVE AInv
    OBVIOUS
<1>1. /\ current = [s \in Sessions |-> None] /\ requests = [s \in Sessions |-> << >>]
      /\ asked = [c \in Clients |-> NoRequest] /\ wakeup_event = TRUE /\ deferred = {}
      /\ \A t \in Threads : pc[t] \in {"loop", "done"} /\ links[t] = << >>
    BY DEF Init
<1>2. Once
    BY <1>1, SMT DEF Once
<1>3. Woken /\ Announced
    BY <1>1 DEF Woken, Announced, PutOff
<1>4. AskedOfManager
    BY <1>1 DEF AskedOfManager, NoRequest, RegistryRequests
<1>5. Decided /\ Ready /\ PortLast
    BY <1>1, SMT DEF Decided, Ready, PortLast, Linking
<1> QED
    BY <1>2, <1>3, <1>4, <1>5 DEF AInv

(* A step keeps it, when it leaves every session in the hands of one thread. *)
LEMMA NextAInv == AInv /\ [Next]_vars /\ Exclusive' => AInv'
<1> SUFFICES ASSUME AInv, [Next]_vars, Exclusive' PROVE AInv'
    OBVIOUS
<1>0. SInv /\ Once /\ Woken /\ Announced /\ AskedOfManager /\ Decided /\ Ready /\ PortLast
    BY DEF AInv
<1>1. SInv' /\ Once'
  <2>1. TypeOK' /\ (\A t \in Threads : Local(t)') /\ Received' /\ Once'
      BY <1>0, NextTypes, NextLocal, NextReceived, NextOnce
  <2> QED
      BY <2>1 DEF SInv
<1>2. ASSUME NEW t \in Threads, ThreadStep(t) PROVE AInv'
  <2>1. StepOf(t) /\ Local(t)'
      BY <1>0, <1>2, LoopLocal, LinkLocal, HandlerLocal, EventLocal DEF ThreadStep
  <2>2. Woken' /\ Announced' /\ AskedOfManager'
      BY <1>0, <1>2, <2>1, ThreadWoken, ThreadAnnounced
  <2>3. Decided' /\ Ready'
      BY <1>0, <1>2, <2>1, ThreadDecided, ThreadReady
  <2>4. PortLast'
      BY <1>0, <1>2, <2>1, ThreadPortLast
  <2> QED
      BY <1>1, <2>2, <2>3, <2>4 DEF AInv
<1>3. ASSUME GuestStep PROVE AInv'
  <2>1. Announced' /\ AskedOfManager'
      BY <1>0, <1>3, GuestAnnounced
  <2>2. /\ UNCHANGED <<deferred_list, pc, links, result>> /\ (wakeup_event => wakeup_event')
      BY <1>0, <1>3, GuestsWaiting
  <2>3. Woken' /\ Decided' /\ PortLast'
      BY <1>0, <2>2 DEF Woken, Decided, PortLast
  <2>4. Ready'
      BY <1>0, <1>3, GuestReady
  <2> QED
      BY <1>1, <2>1, <2>3, <2>4 DEF AInv
<1> QED
    BY <1>2, <1>3, NextSteps

(* What the two events announce is what NothingIsForgotten asks. *)
LEMMA ForgetsNothing == AInv => NothingIsForgotten
<1> SUFFICES ASSUME AInv PROVE NothingIsForgotten
    OBVIOUS
<1>0. SInv /\ Woken /\ Announced
    BY DEF AInv
<1>1. ASSUME deferred_list # << >>, NEW t \in Threads, pc[t] = "asleep"
      PROVE  wakeup_event \/ \E u \in Threads : pc[u] = "signal"
  <2>1. \A u \in Threads : pc[u] \in Holding => selection_mutex = u
      BY <1>0, Mutex
  <2>2. \A u \in Threads : pc[u] # "link"
      BY <1>1, <2>1 DEF Holding
  <2> QED
      BY <1>0, <1>1, <2>2 DEF Woken
<1>2. ASSUME NEW s \in deferred, Awaits(s).op = "get", Awaits(s).name \in registered
      PROVE  deferral_event \/ \E t \in Threads : pc[t] = "grab"
  <2>1. s \in Sessions
      BY <1>0 DEF SInv, TypeOK
  <2> QED
      BY <1>0, <1>2, <2>1 DEF Announced, PutOff, Registered
<1> QED
    BY <1>1, <1>2 DEF NothingIsForgotten

(* A thread that serves a request serves its session's current one. *)
LEMMA ServesCurrent ==
    ASSUME AInv, NEW t \in Threads, pc[t] \in {"handle", "defer", "reply"}
    PROVE  current[completing[t]] # None
<1>0. SInv
    BY DEF AInv
<1>1. stop # "gone"
    BY <1>0, WorkerSession DEF Working
<1> QED
    BY <1>0, <1>1 DEF SInv, Received, Serving

-----------------------------------------------------------------------------
(* The server implements the service.  A thread whose handler has returned something else than
   "deferred" has carried its request out. *)

Carries(t) == result[t] \notin {None, "deferred"}

LEMMA CarriedIs ==
    ASSUME NEW c
    PROVE  c \in CarriedOut <=> \E t \in Threads : Carries(t) /\ c = current[completing[t]]
BY DEF CarriedOut, Carries

LEMMA CarrierIs ==
    ASSUME AInv, NEW t \in Threads, Carries(t)
    PROVE  /\ pc[t] \in Linking \cup {"reply"} /\ stop # "gone" /\ completing[t] \in Sessions
           /\ current[completing[t]] \in Clients /\ current[completing[t]] # None
           /\ \A u \in Threads \ {t} : completing[u] # completing[t]
<1>0. SInv /\ Decided /\ Local(t)
    BY DEF AInv, SInv
<1>1. result[t] # None /\ result[t] # "deferred"
    BY DEF Carries
<1>2. pc[t] \in Linking \cup {"reply"} /\ completing[t] # None
    BY <1>0, <1>1 DEF Local, Decided, Working
<1>3. stop # "gone"
    BY <1>0, <1>2 DEF Local, Linking
<1>4. /\ completing \in [Threads -> Sessions \cup {None}] /\ current \in [Sessions -> Clients \cup {None}]
    BY <1>0 DEF SInv, TypeOK
<1>5. completing[t] \in Sessions
    BY <1>2, <1>4
<1>6. current[completing[t]] # None
    BY <1>0, <1>1, <1>2, <1>3 DEF SInv, Received, Serving
<1>7. \A u \in Threads \ {t} : completing[u] # completing[t]
    BY <1>0, <1>3, <1>5 DEF SInv, Exclusive, Has
<1> QED
    BY <1>2, <1>3, <1>4, <1>5, <1>6, <1>7

(* Two threads carry out two clients' requests. *)
LEMMA CarriersDiffer ==
    ASSUME AInv, NEW t \in Threads, NEW u \in Threads, t # u, Carries(u), NEW s \in Sessions, s = completing[t]
    PROVE  /\ current[completing[u]] # current[s]
           /\ \A i \in DOMAIN requests[s] : current[completing[u]] # requests[s][i]
<1>1. /\ completing[u] \in Sessions /\ current[completing[u]] # None /\ completing[u] # s
    BY CarrierIs
<1>2. Once
    BY DEF AInv
<1> QED
    BY <1>1, <1>2, SMT DEF Once

(* What other threads carry out, they still do. *)
LEMMA OtherCarriers ==
    ASSUME AInv, NEW t \in Threads, ThreadStep(t), StepOf(t), NEW u \in Threads, u # t
    PROVE  /\ Carries(u)' <=> Carries(u)
           /\ Carries(u) => current'[completing'[u]] = current[completing[u]]
<1>1. result'[u] = result[u] /\ completing'[u] = completing[u]
    BY DEF StepOf, OnlyThread
<1>2. ASSUME Carries(u) PROVE current'[completing[u]] = current[completing[u]]
  <2>1. completing[u] \in Sessions /\ completing[u] # completing[t]
      BY <1>2, CarrierIs
  <2> QED
      BY <2>1, OtherSessions DEF AInv
<1> QED
    BY <1>1, <1>2 DEF Carries

LEMMA CarriedStays ==
    ASSUME AInv, NEW t \in Threads, ThreadStep(t), StepOf(t), Carries(t)' <=> Carries(t),
           Carries(t) => current'[completing'[t]] = current[completing[t]]
    PROVE  CarriedOut' = CarriedOut
<1>1. ASSUME NEW u \in Threads
      PROVE  /\ Carries(u)' <=> Carries(u)
             /\ Carries(u) => current'[completing'[u]] = current[completing[u]]
    BY OtherCarriers
<1>2. ASSUME NEW c PROVE c \in CarriedOut' <=> c \in CarriedOut
  <2>1. c \in CarriedOut <=> \E u \in Threads : Carries(u) /\ c = current[completing[u]]
      BY CarriedIs
  <2>2. c \in CarriedOut' <=> \E u \in Threads : Carries(u)' /\ c = current'[completing'[u]]
      BY DEF CarriedOut, Carries
  <2> QED
      BY <1>1, <2>1, <2>2
<1> QED
    BY <1>2

LEMMA HandlerTakesEffect ==
    ASSUME AInv, NEW t \in Threads, StepOf(t), HandleSyncRequest(t), ThreadStep(t)
    PROVE  Abstract!Next \/ UNCHANGED Abstract!vars
<1> DEFINE s == completing[t]
           c == current[s]
<1>0. SInv /\ Once
    BY DEF AInv
<1>1. pc[t] = "handle" /\ UNCHANGED <<asked, current, completing>>
    BY <1>0, HandlerSteps DEF HandlerFrame
<1>2. stop # "gone" /\ s \in Sessions
    BY <1>0, <1>1, WorkerSession DEF Working
<1>3. c # None /\ c \in Clients
    BY <1>0, <1>1, <1>2 DEF SInv, TypeOK, Received, Serving
<1>4. ~Carries(t)
    BY <1>0, <1>1 DEF SInv, Local, Linking, Carries
<1>5. CASE result'[t] = "deferred"
  <2>1. registered' = registered /\ ~Carries(t)'
      BY <1>0, <1>5, HandlerRegistry DEF Carries
  <2>2. CarriedOut' = CarriedOut
      BY <1>4, <2>1, CarriedStays
  <2> QED
      BY <1>1, <2>1, <2>2 DEF Abstract!vars
<1>6. CASE result'[t] # "deferred"
  <2>1. /\ Carries(t)' /\ (asked[c].op = "get" => asked[c].name \in registered)
        /\ registered' = IF asked[c].op = "register" THEN registered \cup {asked[c].name}
                         ELSE IF asked[c].op = "unregister" THEN registered \ {asked[c].name}
                         ELSE registered
      BY <1>0, <1>6, HandlerRegistry DEF Carries
  <2>2. asked[c] # NoRequest
      BY <1>0, <1>2, <1>3 DEF Once
  <2>3. c \notin CarriedOut
    <3>1. ASSUME NEW u \in Threads, Carries(u) PROVE c # current[completing[u]]
        BY <1>2, <1>4, <3>1, CarriersDiffer
    <3> QED
        BY <3>1, CarriedIs
  <2>4. ASSUME NEW d PROVE d \in CarriedOut' <=> d \in CarriedOut \/ d = c
    <3>1. d \in CarriedOut <=> \E u \in Threads : Carries(u) /\ d = current[completing[u]]
        BY CarriedIs
    <3>2. d \in CarriedOut' <=> \E u \in Threads : Carries(u)' /\ d = current'[completing'[u]]
        BY DEF CarriedOut, Carries
    <3>3. ASSUME NEW u \in Threads, u # t
          PROVE  (Carries(u)' <=> Carries(u)) /\ current'[completing'[u]] = current[completing[u]]
        BY <1>1, <3>3, OtherCarriers
    <3>4. current'[completing'[t]] = c
        BY <1>1
    <3> QED
        BY <1>4, <2>1, <3>1, <3>2, <3>3, <3>4
  <2>5. CarriedOut' = CarriedOut \cup {c}
      BY <2>4
  <2>6. Abstract!TakeEffect(c)
      BY <1>1, <2>1, <2>2, <2>3, <2>5 DEF Abstract!TakeEffect
  <2> QED
      BY <1>3, <2>6 DEF Abstract!Next
<1> QED
    BY <1>5, <1>6

LEMMA SendReplyAnswers ==
    ASSUME AInv, NEW t \in Threads, StepOf(t), SendReply(t), ThreadStep(t)
    PROVE  Abstract!Next
<1> DEFINE s == completing[t]
           c == current[s]
<1>0. SInv /\ Once /\ Decided /\ Local(t)
    BY DEF AInv, SInv
<1>1. /\ pc[t] = "reply" /\ asked' = [asked EXCEPT ![c] = NoRequest] /\ registered' = registered
      /\ result' = [result EXCEPT ![t] = None] /\ result \in [Threads -> Results \cup {None}]
    BY <1>0 DEF SendReply, SInv, TypeOK
<1>2. Carries(t) /\ ~Carries(t)'
    BY <1>0, <1>1 DEF Carries, Decided, Local
<1>3. c \in Clients /\ s \in Sessions
    BY <1>2, CarrierIs
<1>4. c \in CarriedOut
    BY <1>2, CarriedIs
<1>5. ASSUME NEW d PROVE d \in CarriedOut' <=> d \in CarriedOut /\ d # c
  <2>1. d \in CarriedOut <=> \E u \in Threads : Carries(u) /\ d = current[completing[u]]
      BY CarriedIs
  <2>2. d \in CarriedOut' <=> \E u \in Threads : Carries(u)' /\ d = current'[completing'[u]]
      BY DEF CarriedOut, Carries
  <2>3. ASSUME NEW u \in Threads, u # t
        PROVE  /\ Carries(u)' <=> Carries(u)
               /\ Carries(u) => current'[completing'[u]] = current[completing[u]] /\ current[completing[u]] # c
      BY <1>3, <2>3, OtherCarriers, CarriersDiffer
  <2> HIDE DEF c
  <2>4. c = current[completing[t]]
      BY DEF c
  <2> QED
      BY <1>2, <2>1, <2>2, <2>3, <2>4
<1>6. CarriedOut' = CarriedOut \ {c}
    BY <1>5
<1>7. Abstract!Answer(c)
    BY <1>1, <1>4, <1>6 DEF Abstract!Answer
<1> QED
    BY <1>3, <1>7 DEF Abstract!Next

(* Closing sessions gives up the requests that wait there. *)
LEMMA ClosingGivesUp ==
    ASSUME TypeOK, NEW S \in SUBSET Sessions, CloseServerSessions(S),
           UNCHANGED <<registered, CarriedOut>>, \A c \in CarriedOut : c \notin Waiting(S)
    PROVE  Abstract!Next
<1>1. asked' = [c \in Clients |-> IF c \in Waiting(S) THEN NoRequest ELSE asked[c]]
    BY DEF CloseServerSessions, Waiting
<1>2. /\ requests \in [Sessions -> Seq(Clients)] /\ current \in [Sessions -> Clients \cup {None}]
    BY DEF TypeOK
<1>3. ASSUME NEW c \in Waiting(S) PROVE c \in Clients
  <2>1. CASE \E s \in S : \E i \in DOMAIN requests[s] : c = requests[s][i]
      BY <1>2, <2>1, SMT
  <2>2. CASE c # None /\ \E s \in S : c = current[s]
      BY <1>2, <2>2
  <2> QED
      BY <2>1, <2>2, WaitingIs
<1>4. Waiting(S) \in SUBSET Clients /\ Waiting(S) \cap CarriedOut = {}
    BY <1>3
<1>5. Abstract!GiveUp(Waiting(S))
    BY <1>1, <1>4 DEF Abstract!GiveUp
<1> QED
    BY <1>4, <1>5 DEF Abstract!Next

LEMMA DestroyGivesUp ==
    ASSUME AInv, NEW t \in Threads, StepOf(t), DestroySession(t), ThreadStep(t)
    PROVE  Abstract!Next
<1> DEFINE s == completing[t]
<1>0. SInv /\ TypeOK
    BY DEF AInv, SInv
<1>1. pc[t] = "destroy" /\ CloseServerSessions({s}) /\ UNCHANGED <<registered, result>>
    BY DEF DestroySession
<1>2. s \in Sessions
    BY <1>0, <1>1, WorkerSession DEF Working
<1>3. ~Carries(t) /\ ~Carries(t)'
    BY <1>0, <1>1 DEF SInv, Local, Linking, Carries
<1>4. CarriedOut' = CarriedOut
    BY <1>3, CarriedStays
<1>5. ASSUME NEW c \in CarriedOut PROVE c \notin Waiting({s})
  <2>1. PICK u \in Threads : Carries(u) /\ c = current[completing[u]]
      BY CarriedIs
  <2>2. c # current[s] /\ \A i \in DOMAIN requests[s] : c # requests[s][i]
      BY <1>2, <1>3, <2>1, CarriersDiffer
  <2> HIDE DEF s
  <2> QED
      BY <2>2, WaitingIs, SMT
<1> HIDE DEF s
<1>6. {s} \in SUBSET Sessions
    BY <1>2
<1> QED
    BY <1>0, <1>1, <1>4, <1>5, <1>6, ClosingGivesUp

(* The other steps of a thread are not seen by the clients. *)
LEMMA ThreadImplements ==
    ASSUME AInv, NEW t \in Threads, ThreadStep(t)
    PROVE  Abstract!Next \/ UNCHANGED Abstract!vars
<1>0. SInv
    BY DEF AInv
<1>1. StepOf(t) /\ Local(t)
    BY <1>0, LoopLocal, LinkLocal, HandlerLocal, EventLocal DEF ThreadStep, SInv
<1>2. ASSUME UNCHANGED <<asked, registered>>, Carries(t)' <=> Carries(t),
             Carries(t) => current'[completing'[t]] = current[completing[t]]
      PROVE  UNCHANGED Abstract!vars
    BY <1>1, <1>2, CarriedStays DEF Abstract!vars
<1>3. ASSUME UNCHANGED <<asked, registered>>, result' = result, pc[t] \notin Linking \cup {"reply"}
      PROVE  UNCHANGED Abstract!vars
  <2>1. ~Carries(t) /\ ~Carries(t)'
      BY <1>3, CarrierIs DEF Carries
  <2> QED
      BY <1>2, <1>3, <2>1
<1>4. CASE LinkToDeferredList(t) \/ SignalWakeup(t)
  <2>1. UNCHANGED <<asked, registered, result, current, completing>>
      BY <1>4 DEF LinkToDeferredList, SignalWakeup, kernelVars
  <2> QED
      BY <1>2, <2>1 DEF Carries
<1>5. CASE Defer(t)
  <2>1. /\ UNCHANGED <<asked, registered>> /\ pc[t] = "defer"
        /\ result' = [result EXCEPT ![t] = None] /\ result \in [Threads -> Results \cup {None}]
      BY <1>0, <1>5 DEF Defer, SInv, TypeOK
  <2>2. ~Carries(t) /\ ~Carries(t)'
      BY <2>1, CarrierIs DEF Linking, Carries
  <2> QED
      BY <1>2, <2>1, <2>2
<1>6. CASE LeaveLoop(t) \/ LockSelection(t) \/ LinkDeferred(t) \/ TestStop(t) \/ ClearWakeup(t)
    BY <1>3, <1>6 DEF LeaveLoop, LockSelection, LinkDeferred, TestStop, ClearWakeup, Linking
<1>7. CASE WaitAny(t) \/ NotifyAvailable(t)
    BY <1>3, <1>7 DEF WaitAny, NotifyAvailable, Selected, Linking
<1>8. CASE OnPortEvent(t) \/ OnSessionEvent(t)
    BY <1>3, <1>8 DEF OnPortEvent, OnSessionEvent, Linking, Port
<1>9. CASE ClearDeferral(t) \/ GrabDeferrals(t) \/ \E s \in Sessions : CompleteDeferred(t, s)
    BY <1>3, <1>9 DEF ClearDeferral, GrabDeferrals, CompleteDeferred, Linking, Deferral
<1> QED
    BY <1>1, <1>4, <1>5, <1>6, <1>7, <1>8, <1>9, HandlerTakesEffect, SendReplyAnswers, DestroyGivesUp
    DEF ThreadStep

LEMMA GuestImplements ==
    ASSUME AInv, GuestStep
    PROVE  Abstract!Next \/ UNCHANGED Abstract!vars
<1>0. SInv /\ TypeOK /\ UNCHANGED <<result, completing>>
    BY GuestsWaiting DEF AInv, SInv
<1>1. ASSUME current' = current PROVE CarriedOut' = CarriedOut
    BY <1>0, <1>1 DEF CarriedOut
<1>2. ASSUME NEW s \in Sessions, CreateSession(s) \/ CloseClientSession(s) PROVE UNCHANGED Abstract!vars
  <2>1. UNCHANGED <<current, asked, registered>>
      BY <1>2 DEF CreateSession, CloseClientSession
  <2> QED
      BY <1>1, <2>1 DEF Abstract!vars
<1>3. ASSUME RequestStop \/ SignalStop \/ UNCHANGED vars PROVE UNCHANGED Abstract!vars
  <2>1. UNCHANGED <<current, asked, registered>>
      BY <1>3 DEF RequestStop, SignalStop, vars, kernelVars
  <2> QED
      BY <1>1, <2>1 DEF Abstract!vars
<1>4. ASSUME NEW c \in Clients, NEW s \in Sessions, NEW r \in Requests, OnRequest(c, s, r)
      PROVE  Abstract!Next
  <2>1. /\ asked[c] = NoRequest /\ asked' = [asked EXCEPT ![c] = r] /\ UNCHANGED <<registered, current>>
      BY <1>4 DEF OnRequest
  <2>2. Abstract!Ask(c, r)
      BY <1>1, <2>1 DEF Abstract!Ask
  <2> QED
      BY <2>2 DEF Abstract!Next
<1>5. ASSUME NEW n \in Services, RegisterService(n) PROVE Abstract!Next
  <2>1. registered' = registered \cup {n} /\ UNCHANGED <<asked, current>>
      BY <1>5 DEF RegisterService, kernelVars
  <2>2. Abstract!Register(n)
      BY <1>1, <2>1 DEF Abstract!Register
  <2> QED
      BY <2>2 DEF Abstract!Next
<1>6. ASSUME Destroy PROVE Abstract!Next
  <2>1. \A t \in Threads : result[t] = None
    <3>1. \A t \in Threads : pc[t] = "done"
        BY <1>0, <1>6 DEF Destroy, SInv, Local
    <3> QED
        BY <1>0, <3>1 DEF SInv, Local, Linking
  <2>2. CarriedOut = {} /\ CarriedOut' = {}
      BY <1>0, <2>1 DEF CarriedOut
  <2>3. /\ pending \in Seq(Sessions) /\ sessions \in SUBSET Sessions
      BY <1>0 DEF TypeOK
  <2>4. sessions \cup Elements(pending) \in SUBSET Sessions
      BY <2>3, SMT DEF Elements
  <2>5. CloseServerSessions(sessions \cup Elements(pending)) /\ registered' = registered
      BY <1>6 DEF Destroy
  <2> QED
      BY <1>0, <2>2, <2>4, <2>5, ClosingGivesUp
<1> QED
    BY <1>2, <1>3, <1>4, <1>5, <1>6 DEF GuestStep

(* Every step is one of the service, or changes nothing a client sees. *)
LEMMA StepImplements ==
    ASSUME AInv, [Next]_vars
    PROVE  Abstract!Next \/ UNCHANGED Abstract!vars
BY NextSteps, ThreadImplements, GuestImplements

-----------------------------------------------------------------------------
(* A thread that took the port's holder finds a session: no other thread is at the port. *)
PortReady == \A t \in Threads : pc[t] = Port => pending # << >>

LEMMA OneAtPort ==
    ASSUME SInv, PInv, NEW t \in Threads, NEW u \in Threads, pc[t] = Port, pc[u] = Port
    PROVE  t = u
<1>1. stop # "gone"
    BY DEF SInv, Local, Port
<1>2. Port \in Movable /\ Placed(Port)
    BY <1>1 DEF PInv, Movable
<1>3. Taking(t, Port) /\ Taking(u, Port)
    BY DEF Taking
<1> QED
    BY <1>2, <1>3, OneOwner

LEMMA ThreadPortReady ==
    ASSUME SInv, PInv, PortReady, NEW t \in Threads, ThreadStep(t), StepOf(t)
    PROVE  PortReady'
<1>0. pc \in [Threads -> Labels] /\ multi_wait \in Seq(Holders)
    BY DEF SInv, TypeOK
<1>1. CASE OnPortEvent(t)
  <2>1. pc[t] = Port /\ pc'[t] = "relink"
      BY <1>0, <1>1 DEF OnPortEvent, Goto
  <2>2. \A u \in Threads : pc'[u] # Port
      BY <2>1, OneAtPort DEF StepOf, OnlyThread, Port
  <2> QED
      BY <2>2 DEF PortReady
<1>2. ASSUME pending' = pending, pc'[t] = Port => pending # << >> PROVE PortReady'
    BY <1>2 DEF PortReady, StepOf, OnlyThread
<1>3. ASSUME NEW i \in DOMAIN multi_wait, IsSignaled(multi_wait[i]), Selected(t, i) PROVE PortReady'
  <2> DEFINE h == multi_wait[i]
  <2>1. pending' = pending
      BY <1>3 DEF Selected, kernelVars
  <2>2. h \in Holders
      BY <1>0, SMT
  <2>3. /\ h = Wakeup => pc'[t] = "clear"
        /\ h # Wakeup /\ h \in Sessions => pc'[t] = "receive"
        /\ h # Wakeup /\ h \notin Sessions => pc'[t] = h
      BY <1>0, <1>3 DEF Selected, Goto
  <2>4. pc'[t] = Port => h = Port
      BY <2>3 DEF Port
  <2>5. h = Port => pending # << >>
      BY <1>3, HoldersAssumption DEF IsSignaled, Port, Wakeup, Deferral
  <2> QED
      BY <1>2, <2>1, <2>4, <2>5
<1>4. CASE WaitAny(t)
  <2>1. CASE \E i \in DOMAIN multi_wait : IsSignaled(multi_wait[i]) /\ Selected(t, i)
      BY <1>3, <2>1
  <2>2. CASE Goto(t, "asleep") /\ UNCHANGED kernelVars
    <3>1. pending' = pending /\ pc'[t] = "asleep"
        BY <1>0, <2>2 DEF kernelVars, Goto
    <3> QED
        BY <1>2, <3>1 DEF Port
  <2> QED
      BY <1>4, <2>1, <2>2 DEF WaitAny
<1>5. CASE NotifyAvailable(t)
    BY <1>3, <1>5 DEF NotifyAvailable
<1>6. CASE \/ LeaveLoop(t) \/ LockSelection(t) \/ LinkDeferred(t) \/ TestStop(t) \/ ClearWakeup(t)
           \/ LinkToDeferredList(t) \/ SignalWakeup(t)
  <2>1. pending' = pending
      BY <1>6 DEF LeaveLoop, LockSelection, LinkDeferred, TestStop, ClearWakeup, LinkToDeferredList,
         SignalWakeup, kernelVars
  <2>2. pc'[t] # Port
      BY <1>0, <1>6 DEF LeaveLoop, LockSelection, LinkDeferred, TestStop, ClearWakeup,
         LinkToDeferredList, SignalWakeup, Goto, Port
  <2> QED
      BY <1>2, <2>1, <2>2
<1>7. CASE \/ OnSessionEvent(t) \/ Defer(t) \/ SendReply(t) \/ DestroySession(t) \/ ClearDeferral(t)
           \/ GrabDeferrals(t) \/ \E s \in Sessions : CompleteDeferred(t, s)
  <2>1. pending' = pending
      BY <1>7 DEF OnSessionEvent, Defer, SendReply, DestroySession, ClearDeferral, GrabDeferrals,
         CompleteDeferred, kernelVars
  <2>2. pc'[t] # Port
      BY <1>0, <1>7 DEF OnSessionEvent, Defer, SendReply, DestroySession, ClearDeferral,
         GrabDeferrals, CompleteDeferred, Goto, Port
  <2> QED
      BY <1>2, <2>1, <2>2
<1>8. CASE HandleSyncRequest(t)
  <2>1. pending' = pending
      BY <1>8, HandlerSteps DEF HandlerFrame
  <2>2. pc'[t] \in {"defer", "reply", "relink"}
      BY <1>8, HandlerRegistry
  <2> QED
      BY <1>2, <2>1, <2>2 DEF Port
<1> QED
    BY <1>1, <1>4, <1>5, <1>6, <1>7, <1>8 DEF ThreadStep

LEMMA GuestPort ==
    ASSUME SInv, PortReady, GuestStep
    PROVE  PortReady'
<1>0. pc' = pc /\ pending \in Seq(Sessions)
    BY GuestsWaiting DEF SInv, TypeOK
<1>2. ASSUME pending' = pending PROVE PortReady'
    BY <1>0, <1>2 DEF PortReady
<1>3. ASSUME NEW s \in Sessions, CreateSession(s) PROVE PortReady'
  <2>1. pending' = Append(pending, s) /\ Len(pending') = Len(pending) + 1 /\ Len(pending) \in Nat
      BY <1>0, <1>3, SMT DEF CreateSession
  <2>2. pending' # << >>
      BY <2>1, SMT
  <2> QED
      BY <2>2 DEF PortReady
<1>4. ASSUME Destroy PROVE PortReady'
  <2>1. \A t \in Threads : pc[t] = "done"
      BY <1>4 DEF Destroy, SInv, Local
  <2> QED
      BY <1>0, <2>1 DEF PortReady, Port
<1>5. ASSUME NEW s \in Sessions, CloseClientSession(s) PROVE PortReady'
    BY <1>2, <1>5 DEF CloseClientSession
<1>6. ASSUME NEW c \in Clients, NEW s \in Sessions, NEW r \in Requests, OnRequest(c, s, r) PROVE PortReady'
    BY <1>2, <1>6 DEF OnRequest
<1>7. ASSUME NEW n \in Services, RegisterService(n) PROVE PortReady'
    BY <1>2, <1>7 DEF RegisterService, kernelVars
<1>8. ASSUME RequestStop \/ SignalStop \/ UNCHANGED vars PROVE PortReady'
    BY <1>2, <1>8 DEF RequestStop, SignalStop, vars, kernelVars
<1> QED
    BY <1>3, <1>4, <1>5, <1>6, <1>7, <1>8 DEF GuestStep

-----------------------------------------------------------------------------
(* The inductive invariant and the theorems. *)
IInv == AInv /\ PInv /\ PortReady

LEMMA InitSInv ==
    ASSUME Init
    PROVE  SInv /\ PInv
<1>1. TypeOK
    BY InitTypes
<1>2. /\ stop = "no" /\ selection_mutex = None /\ deferred = {}
      /\ \A t \in Threads : /\ pc[t] = IF t \in server.threads THEN "loop" ELSE "done"
                            /\ completing[t] = None /\ result[t] = None /\ retry[t] = {} /\ links[t] = << >>
    BY DEF Init
<1>3. ASSUME NEW t \in Threads PROVE Local(t)
    BY <1>2, NoneAssumption, SMT DEF Local, Holding, Working, Linking
<1>4. Received
    BY <1>2 DEF Received, Serving, Linking
<1>5. PInv /\ Exclusive
    BY InitPlaces, PlacesExclude
<1> QED
    BY <1>1, <1>3, <1>4, <1>5 DEF SInv

LEMMA InitIInv == Init => IInv
<1> SUFFICES ASSUME Init PROVE IInv
    OBVIOUS
<1>1. SInv /\ PInv
    BY InitSInv
<1>2. AInv
    BY <1>1, InitAInv
<1>3. PortReady
    BY DEF Init, PortReady, Port
<1> QED
    BY <1>1, <1>2, <1>3 DEF IInv

LEMMA NextIInv == IInv /\ [Next]_vars => IInv'
<1> SUFFICES ASSUME IInv, [Next]_vars PROVE IInv'
    OBVIOUS
<1>0. AInv /\ SInv /\ PortLast /\ PInv /\ PortReady
    BY DEF IInv, AInv
<1>1. PInv' /\ Exclusive'
    BY <1>0, NextPlaces, PlacesExcludeNext
<1>2. AInv'
    BY <1>0, <1>1, NextAInv
<1>3. ASSUME NEW t \in Threads, ThreadStep(t) PROVE PortReady'
  <2>1. StepOf(t)
      BY <1>0, <1>3, LoopLocal, LinkLocal, HandlerLocal, EventLocal DEF ThreadStep
  <2> QED
      BY <1>0, <1>3, <2>1, ThreadPortReady
<1>4. ASSUME GuestStep PROVE PortReady'
    BY <1>0, <1>4, GuestPort
<1> QED
    BY <1>1, <1>2, <1>3, <1>4, NextSteps DEF IInv

LEMMA AlwaysIInv == Spec => []IInv
<1>1. Init => IInv
    BY InitIInv
<1>2. IInv /\ [Next]_vars => IInv'
    BY NextIInv
<1> QED
    BY <1>1, <1>2, PTL DEF Spec

(* Whatever the numbers of host threads, sessions and clients: a session whose server end is open
   is in exactly one place, so OnSessionEvent and CompleteSyncRequest have "exclusive access" to
   it, and no step drops it. *)
THEOREM SessionsAreInOnePlace == Spec => []EverySessionIsInOnePlace
<1>1. IInv => EverySessionIsInOnePlace
    BY SessionPlaces DEF IInv
<1> QED
    BY <1>1, AlwaysIInv, PTL

(* The lists, the sessions and the threads keep the types of what they stand for. *)
THEOREM TypeCorrect == Spec => []TypeOK
<1>1. IInv => TypeOK
    BY DEF IInv, AInv, SInv
<1> QED
    BY <1>1, AlwaysIInv, PTL

(* The two events announce what the two lists hold.  Nobody sleeps in WaitAny while a holder
   waits to be added, unless m_wakeup_event is signaled or about to be; and a deferred request
   whose service is registered by now has m_deferral_event signaled, or a thread that cleared it
   has yet to take the list.  For any number of threads, sessions, clients and services. *)
THEOREM NothingIsEverForgotten == Spec => []NothingIsForgotten
<1>1. IInv => NothingIsForgotten
    BY ForgetsNothing DEF IInv
<1> QED
    BY <1>1, AlwaysIInv, PTL

(* What the asserts of OnSessionEvent, CompleteSyncRequest and OnPortEvent say: a holder that a
   thread selected is still signaled when the thread gets to it, whatever the guest and the other
   threads did in between, and the request a thread answers is the session's current one.  For any
   number of threads. *)
THEOREM SelectedStaysReady == Spec => []SelectedIsReady
<1>1. IInv => SelectedIsReady
  <2> SUFFICES ASSUME IInv, NEW t \in Threads
               PROVE  /\ pc[t] = "receive" => IsSignaled(completing[t])
                      /\ pc[t] \in {"handle", "defer", "reply"} => current[completing[t]] # None
                      /\ pc[t] = Port => pending # << >>
      BY DEF SelectedIsReady
  <2>1. AInv /\ Ready /\ PortReady
      BY DEF IInv, AInv
  <2> QED
      BY <2>1, ServesCurrent DEF Ready, PortReady
<1> QED
    BY <1>1, AlwaysIInv, PTL

(* However a request travels through the lists, is deferred and tried again by any number of
   threads: it takes effect once, before its answer, and a GetService only while its service is
   registered.  A handler that returns is the moment the request takes effect. *)
THEOREM ServesRequests == Spec => ImplementsRequestService
<1>1. Init => Abstract!Init
  <2> SUFFICES ASSUME Init PROVE Abstract!Init
      OBVIOUS
  <2>1. CarriedOut = {} /\ asked = [c \in Clients |-> NoRequest] /\ registered = {}
      BY DEF Init, CarriedOut
  <2> QED
      BY <2>1 DEF Abstract!Init
<1>2. IInv /\ [Next]_vars => [Abstract!Next]_(Abstract!vars)
    BY StepImplements DEF IInv
<1> QED
    BY <1>1, <1>2, AlwaysIInv, PTL DEF Spec, ImplementsRequestService, Abstract!Spec
============================================================================
