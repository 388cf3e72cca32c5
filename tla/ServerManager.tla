--------------------------- MODULE ServerManager ---------------------------
(***************************************************************************)
(* The server loop of the HLE services: ServerManager (its host threads,    *)
(* the list they wait on, the list of holders to add to it, the deferred     *)
(* requests), the kernel's side of a session (KServerPort, KServerSession,   *)
(* KClientSession) and ServiceManager, whose registry decides whether a      *)
(* GetService request is answered or deferred.                               *)
(*                                                                         *)
(* Two servers of the system are the two shapes a behaviour can have: sm:,   *)
(* which has a deferral event and one thread, and bsdsocket, which has no    *)
(* deferral event and additional host threads.  A step is one critical       *)
(* section: of the scheduler lock (an event, a session, a port), of          *)
(* m_deferred_list_mutex, or of ServiceManager::lock.                        *)
(*                                                                         *)
(* Guest threads send one synchronous request at a time (SendSyncRequest     *)
(* keeps the client session open until the answer), so a session is closed   *)
(* by its client only between requests.  Thread termination, asynchronous    *)
(* requests, domains, light sessions and the contents of messages are left   *)
(* out; the ServiceReplyGate that OnSessionEvent and OnDeferralEvent hold is *)
(* the subject of QuickState.                                                *)
(***************************************************************************)
EXTENDS Naturals, Sequences, FiniteSets

CONSTANTS
    Threads,    \* host threads
    Main,       \* the thread that calls LoopProcess
    Sessions,   \* KSession objects: as many as can exist at a time
    Clients,    \* guest threads
    Services,   \* names services register under
    Servers,    \* the servers: their threads, whether they manage a deferral event, and as
                \* bounds how often the guest connects to the port and how many requests it sends
    None

ASSUME ServersAssumption ==
    \A v \in Servers :
        /\ v \in [threads : SUBSET Threads, deferral : BOOLEAN, connects : Nat, requests : Nat]
        /\ Main \in v.threads
        /\ v.deferral => v.threads = {Main}

\* The MultiWaitHolders that are not sessions.
Wakeup == "wakeup"
Deferral == "deferral"
Port == "port"
ASSUME HoldersAssumption == Sessions \cap {Wakeup, Deferral, Port} = {}

VARIABLES
    session,        \* KSession::m_state of each session, "Free" when there is no such object
    requests,       \* KServerSession::m_request_list: the clients whose requests wait
    current,        \* KServerSession::m_current_request: the client it came from
    pending,        \* KServerPort::m_session_list
    port,           \* KPort::m_state
    asked,          \* the request each client waits for the answer of
    registered,     \* ServiceManager::registered_services
    multi_wait,     \* m_multi_wait
    deferred_list,  \* m_deferred_list: holders to add to m_multi_wait
    deferred,       \* m_deferred_sessions
    sessions,       \* m_sessions
    wakeup_event,   \* m_wakeup_event is signaled
    deferral_event, \* m_deferral_event is signaled
    selection_mutex,\* who holds m_selection_mutex
    server,         \* which server this is
    pc,             \* where each thread is
    completing,     \* the session CompleteSyncRequest works on, of each thread
    result,         \* what its handler returned
    retry,          \* `deferrals` of OnDeferralEvent: sessions still to be completed
    links,          \* the holders the thread is about to pass to LinkToDeferredList
    stop,           \* m_stop_source and where ~ServerManager is
    budget          \* what is left of the bounds

kernelVars == <<session, requests, current, pending, port>>
listVars == <<multi_wait, deferred_list, deferred, sessions>>
threadVars == <<pc, completing, result, retry, links>>
vars == <<kernelVars, asked, registered, listVars, wakeup_event, deferral_event,
          selection_mutex, server, threadVars, stop, budget>>

NoRequest == [op |-> "none"]
RegistryRequests == [op : {"get", "register", "unregister"}, name : Services]
Requests == [op : {"plain", "close", "open"}] \cup RegistryRequests

\* What a handler returns: a session when its answer moves the handle of a new one.
Results == {"ok", "error", "closed", "deferred"} \cup Sessions

ASSUME ResultsAssumption == Sessions \cap {"ok", "error", "closed", "deferred"} = {}
ASSUME NoneAssumption == None \notin Results \cup Clients \cup Threads

Holders == Sessions \cup {Wakeup, Deferral, Port}

\* One of the members of a set of things that are alike.
AnyOf(S) == IF S = {} THEN {} ELSE {CHOOSE x \in S : TRUE}

Elements(q) == {q[i] : i \in DOMAIN q}

\* MultiWaitHolder::UnlinkFromMultiWait
Unlink(q, i) == SubSeq(q, 1, i - 1) \o SubSeq(q, i + 1, Len(q))

Init ==
    /\ session = [s \in Sessions |-> "Free"]
    /\ requests = [s \in Sessions |-> << >>]
    /\ current = [s \in Sessions |-> None]
    /\ pending = << >>
    /\ port = "Normal"
    /\ asked = [c \in Clients |-> NoRequest]
    /\ registered = {}
    /\ server \in Servers
    /\ multi_wait = << >>
    /\ deferred_list = IF server.deferral THEN <<Wakeup, Deferral, Port>> ELSE <<Wakeup, Port>>
    /\ deferred = {}
    /\ sessions = {}
    /\ wakeup_event = TRUE
    /\ deferral_event = FALSE
    /\ selection_mutex = None
    /\ pc = [t \in Threads |-> IF t \in server.threads THEN "loop" ELSE "done"]
    /\ completing = [t \in Threads |-> None]
    /\ result = [t \in Threads |-> None]
    /\ retry = [t \in Threads |-> {}]
    /\ links = [t \in Threads |-> << >>]
    /\ stop = "no"
    /\ budget = [connects |-> server.connects, requests |-> server.requests]

----------------------------------------------------------------------------
(* The guest and the kernel *)

\* A handler that opens a session asserts that one can be had.
SessionLeft ==
    Cardinality({s \in Sessions : session[s] = "Free"})
        > Cardinality({c \in Clients : asked[c].op = "open"})

\* svcConnectToNamedPort: KClientPort::CreateSession, KPort::EnqueueSession
CreateSession(s) ==
    /\ port = "Normal"
    /\ session[s] = "Free"
    /\ SessionLeft
    /\ budget.connects > 0
    /\ budget' = [budget EXCEPT !.connects = @ - 1]
    /\ session' = [session EXCEPT ![s] = "Normal"]
    /\ pending' = Append(pending, s)
    /\ UNCHANGED <<requests, current, port, asked, registered, listVars, wakeup_event,
                   deferral_event, selection_mutex, server, threadVars, stop>>

\* The guest has a handle of the session: not before the answer that moves it.
HasHandle(s) == session[s] \in {"Normal", "ServerClosed"} /\ \A t \in Threads : result[t] # s

\* SendSyncRequest and KServerSession::OnRequest; on a session the server has closed it fails at
\* once and changes nothing
OnRequest(c, s, r) ==
    /\ asked[c] = NoRequest
    /\ HasHandle(s)
    /\ r.op = "open" => SessionLeft
    /\ budget.requests > 0
    /\ budget' = [budget EXCEPT !.requests = @ - 1]
    /\ session[s] = "Normal"
    /\ asked' = [asked EXCEPT ![c] = r]
    /\ requests' = [requests EXCEPT ![s] = Append(@, c)]
    /\ UNCHANGED <<session, current, pending, port, registered, listVars, wakeup_event,
                   deferral_event, selection_mutex, server, threadVars, stop>>

InFlight(s) == requests[s] # << >> \/ current[s] # None

\* KClientSession::Destroy, when the last handle is closed: KSession::OnClientClosed
CloseClientSession(s) ==
    /\ HasHandle(s)
    /\ ~InFlight(s)
    /\ session' = [session EXCEPT ![s] = IF @ = "Normal" THEN "ClientClosed" ELSE "Free"]
    /\ UNCHANGED <<requests, current, pending, port, asked, registered, listVars,
                   wakeup_event, deferral_event, selection_mutex, server, threadVars, stop, budget>>

\* ServiceManager::RegisterService, called by the server of another service
RegisterService(n) ==
    /\ n \notin registered
    /\ registered' = registered \cup {n}
    /\ deferral_event' = (deferral_event \/ server.deferral)
    /\ UNCHANGED <<kernelVars, asked, listVars, wakeup_event, selection_mutex, server,
                   threadVars, stop, budget>>

\* KSynchronizationObject::IsSignaled of the object a holder waits for
IsSignaled(h) ==
    \/ h = Wakeup /\ wakeup_event
    \/ h = Deferral /\ deferral_event
    \/ h = Port /\ pending # << >>
    \/ h \in Sessions /\ (session[h] = "ClientClosed" \/ (requests[h] # << >> /\ current[h] = None))

----------------------------------------------------------------------------
(* A host thread: LoopProcessImpl, WaitSignaled *)

Goto(t, label) == pc' = [pc EXCEPT ![t] = label]

\* LoopProcessImpl: the loop ends; LoopProcess: m_stopped.Set() when it is Main's
LeaveLoop(t) ==
    /\ pc[t] = "loop"
    /\ retry[t] = {}
    /\ stop # "no"
    /\ Goto(t, "done")
    /\ UNCHANGED <<kernelVars, asked, registered, listVars, wakeup_event, deferral_event,
                   selection_mutex, server, completing, result, retry, links, stop, budget>>

\* LoopProcessImpl: the loop goes on, to WaitSignaled: std::scoped_lock lk{m_selection_mutex}
LockSelection(t) ==
    /\ pc[t] = "loop"
    /\ retry[t] = {}
    /\ stop = "no"
    /\ selection_mutex = None
    /\ selection_mutex' = t
    /\ Goto(t, "link")
    /\ UNCHANGED <<kernelVars, asked, registered, listVars, wakeup_event, deferral_event,
                   server, completing, result, retry, links, stop, budget>>

LinkDeferred(t) ==
    /\ pc[t] = "link"
    /\ multi_wait' = multi_wait \o deferred_list
    /\ deferred_list' = << >>
    /\ Goto(t, "stopping")
    /\ UNCHANGED <<kernelVars, asked, registered, deferred, sessions, wakeup_event,
                   deferral_event, selection_mutex, server, completing, result, retry, links,
                   stop, budget>>

\* WaitSignaled: the test of m_stop_source; a null holder leaves WaitAndProcessImpl
TestStop(t) ==
    /\ pc[t] = "stopping"
    /\ IF stop = "no"
       THEN Goto(t, "wait") /\ UNCHANGED selection_mutex
       ELSE Goto(t, "loop") /\ selection_mutex' = None
    /\ UNCHANGED <<kernelVars, asked, registered, listVars, wakeup_event, deferral_event,
                   server, completing, result, retry, links, stop, budget>>

\* WaitSignaled with the holder at position i of m_multi_wait, and Process: where to go with it
Selected(t, i) ==
    LET h == multi_wait[i] IN
    /\ IF h = Wakeup
       THEN Goto(t, "clear") /\ UNCHANGED <<multi_wait, selection_mutex, completing>>
       ELSE /\ multi_wait' = Unlink(multi_wait, i)
            /\ selection_mutex' = None
            /\ IF h \in Sessions
               THEN Goto(t, "receive") /\ completing' = [completing EXCEPT ![t] = h]
               ELSE Goto(t, h) /\ UNCHANGED completing
    /\ UNCHANGED <<kernelVars, asked, registered, deferred_list, deferred, sessions,
                   wakeup_event, deferral_event, server, result, retry, links, stop, budget>>

\* MultiWait::TimedWaitImpl, KSynchronizationObject::Wait: the first object that is signaled
\* already, or the thread sleeps
WaitAny(t) ==
    /\ pc[t] = "wait"
    /\ LET ready == {i \in DOMAIN multi_wait : IsSignaled(multi_wait[i])} IN
       \/ \E i \in ready : (\A j \in ready : i <= j) /\ Selected(t, i)
       \/ /\ ready = {}
          /\ Goto(t, "asleep")
          /\ UNCHANGED <<kernelVars, asked, registered, listVars, wakeup_event,
                         deferral_event, selection_mutex, server, completing, result, retry,
                         links, stop, budget>>

\* mutant: a thread is woken by an object that is not signaled
NotifyAlways(t) ==
    /\ pc[t] = "asleep"
    /\ \E i \in DOMAIN multi_wait : Selected(t, i)

\* KSynchronizationObject::NotifyAvailable: an object that was signaled since
NotifyAvailable(t) ==
    /\ pc[t] = "asleep"
    /\ \E i \in DOMAIN multi_wait : IsSignaled(multi_wait[i]) /\ Selected(t, i)

\* mutant: clear and wait again, without LinkDeferred
ClearWithoutRestart(t) ==
    /\ pc[t] = "clear"
    /\ wakeup_event' = FALSE
    /\ Goto(t, "stopping")
    /\ UNCHANGED <<kernelVars, asked, registered, listVars, deferral_event, selection_mutex,
                   server, completing, result, retry, links, stop, budget>>

ClearWakeup(t) ==
    /\ pc[t] = "clear"
    /\ wakeup_event' = FALSE
    /\ Goto(t, "link")
    /\ UNCHANGED <<kernelVars, asked, registered, listVars, deferral_event, selection_mutex,
                   server, completing, result, retry, links, stop, budget>>

----------------------------------------------------------------------------
(* LinkToDeferredList: the list first, then the event *)

LinkToDeferredList(t) ==
    /\ pc[t] = "relink"
    /\ deferred_list' = Append(deferred_list, Head(links[t]))
    /\ Goto(t, "signal")
    /\ UNCHANGED <<kernelVars, asked, registered, multi_wait, deferred, sessions,
                   wakeup_event, deferral_event, selection_mutex, server, completing, result,
                   retry, links, stop, budget>>

\* ... and what its caller does next: the next holder, the answer of a request that opened a
\* session, or the rest of OnDeferralEvent and the loop
SignalWakeup(t) ==
    /\ pc[t] = "signal"
    /\ wakeup_event' = TRUE
    /\ links' = [links EXCEPT ![t] = Tail(@)]
    /\ Goto(t, IF Len(links[t]) > 1 THEN "relink"
               ELSE IF result[t] # None THEN "reply" ELSE "loop")
    /\ UNCHANGED <<kernelVars, asked, registered, listVars, deferral_event, selection_mutex,
                   server, completing, result, retry, stop, budget>>

----------------------------------------------------------------------------
(* The handlers *)

\* OnPortEvent: AcceptSession, RegisterSession (m_sessions), then both are linked
OnPortEvent(t) ==
    /\ pc[t] = Port
    /\ pending # << >>
    /\ pending' = Tail(pending)
    /\ sessions' = sessions \cup {Head(pending)}
    /\ links' = [links EXCEPT ![t] = <<Head(pending), Port>>]
    /\ Goto(t, "relink")
    /\ UNCHANGED <<session, requests, current, port, asked, registered, multi_wait,
                   deferred_list, deferred, wakeup_event, deferral_event, selection_mutex,
                   server, completing, result, retry, stop, budget>>

\* OnSessionEvent: KServerSession::ReceiveRequestHLE
OnSessionEvent(t) ==
    LET s == completing[t] IN
    /\ pc[t] = "receive"
    /\ IF session[s] = "ClientClosed"
       THEN Goto(t, "destroy") /\ UNCHANGED <<requests, current>>
       ELSE /\ requests[s] # << >> /\ current[s] = None
            /\ current' = [current EXCEPT ![s] = Head(requests[s])]
            /\ requests' = [requests EXCEPT ![s] = Tail(@)]
            /\ Goto(t, "handle")
    /\ UNCHANGED <<session, pending, port, asked, registered, listVars, wakeup_event,
                   deferral_event, selection_mutex, server, completing, result, retry, links,
                   stop, budget>>

\* mutant: GetService does not look whether the service is there
RegistryResultEager(r) ==
    IF r.op = "get" THEN "ok"
    ELSE IF (r.op = "register") = (r.name \in registered) THEN "error" ELSE "ok"

\* A request of sm: under ServiceManager::lock (GetServicePort, RegisterService,
\* UnregisterService): what it returns
RegistryResult(r) ==
    IF r.op = "get" THEN IF r.name \in registered THEN "ok" ELSE "deferred"
    ELSE IF (r.op = "register") = (r.name \in registered) THEN "error" ELSE "ok"

\* CompleteSyncRequest of the session's handler.  "open" stands for CloneCurrentObject and for
\* an answer with a new interface (PushIpcInterface), which register a session; "get",
\* "register" and "unregister" are requests of sm:, the server with a deferral event.
HandleSyncRequest(t) ==
    LET r == asked[current[completing[t]]] IN
    /\ pc[t] = "handle"
    /\ \/ /\ r.op \in {"plain", "close"}
          /\ result' = [result EXCEPT ![t] = IF r.op = "close" THEN "closed" ELSE "ok"]
          /\ Goto(t, "reply")
          /\ UNCHANGED <<session, registered, deferral_event, sessions, links>>
       \/ /\ r.op = "open"
          /\ \E new \in AnyOf({x \in Sessions : session[x] = "Free"}) :
                /\ session' = [session EXCEPT ![new] = "Normal"]
                /\ sessions' = sessions \cup {new}
                /\ links' = [links EXCEPT ![t] = <<new>>]
                /\ result' = [result EXCEPT ![t] = new]
          /\ Goto(t, "relink")
          /\ UNCHANGED <<registered, deferral_event>>
       \/ /\ r.op \in {"get", "register", "unregister"}
          /\ LET answered == RegistryResult(r) IN
             /\ result' = [result EXCEPT ![t] = answered]
             /\ registered' = IF answered # "ok" \/ r.op = "get" THEN registered
                              ELSE IF r.op = "register" THEN registered \cup {r.name}
                              ELSE registered \ {r.name}
             /\ deferral_event' = (deferral_event \/ (r.op = "register" /\ answered = "ok"))
             /\ Goto(t, IF answered = "deferred" THEN "defer" ELSE "reply")
          /\ UNCHANGED <<session, sessions, links>>
    /\ UNCHANGED <<requests, current, pending, port, asked, multi_wait, deferred_list,
                   deferred, wakeup_event, selection_mutex, server, completing, retry,
                   stop, budget>>

\* CompleteSyncRequest: insert into the deferred session list
Defer(t) ==
    /\ pc[t] = "defer"
    /\ deferred' = deferred \cup {completing[t]}
    /\ completing' = [completing EXCEPT ![t] = None]
    /\ result' = [result EXCEPT ![t] = None]
    /\ Goto(t, "loop")
    /\ UNCHANGED <<kernelVars, asked, registered, multi_wait, deferred_list, sessions,
                   wakeup_event, deferral_event, selection_mutex, server, retry, links,
                   stop, budget>>

\* KServerSession::SendReply, and what CompleteSyncRequest does with its result
SendReply(t) ==
    LET s == completing[t]
        c == current[s]
        closed == session[s] = "ClientClosed" \/ result[t] = "closed" IN
    /\ pc[t] = "reply"
    /\ current' = [current EXCEPT ![s] = None]
    /\ asked' = [asked EXCEPT ![c] = NoRequest]
    /\ result' = [result EXCEPT ![t] = None]
    /\ IF closed
       THEN Goto(t, "destroy") /\ UNCHANGED <<completing, links>>
       ELSE /\ completing' = [completing EXCEPT ![t] = None]
            /\ links' = [links EXCEPT ![t] = <<s>>]
            /\ Goto(t, "relink")
    /\ UNCHANGED <<session, requests, pending, port, registered, listVars, wakeup_event,
                   deferral_event, selection_mutex, server, retry, stop, budget>>

\* KServerSession::Destroy of each session of S: KSession::OnServerClosed, CleanupRequests
CloseServerSessions(S) ==
    LET waiting == (UNION {Elements(requests[s]) : s \in S}) \cup ({current[s] : s \in S} \ {None}) IN
    /\ session' = [s \in Sessions |->
                     IF s \in S THEN IF session[s] = "Normal" THEN "ServerClosed" ELSE "Free"
                     ELSE session[s]]
    /\ requests' = [s \in Sessions |-> IF s \in S THEN << >> ELSE requests[s]]
    /\ current' = [s \in Sessions |-> IF s \in S THEN None ELSE current[s]]
    /\ asked' = [c \in Clients |-> IF c \in waiting THEN NoRequest ELSE asked[c]]

DestroySession(t) ==
    /\ pc[t] = "destroy"
    /\ sessions' = sessions \ {completing[t]}
    /\ CloseServerSessions({completing[t]})
    /\ completing' = [completing EXCEPT ![t] = None]
    /\ Goto(t, "loop")
    /\ UNCHANGED <<pending, port, registered, multi_wait, deferred_list, deferred, wakeup_event,
                   deferral_event, selection_mutex, server, result, retry, links, stop, budget>>

----------------------------------------------------------------------------
(* OnDeferralEvent *)

\* Clear event before grabbing the list.
ClearDeferral(t) ==
    /\ pc[t] = Deferral
    /\ deferral_event' = FALSE
    /\ Goto(t, "grab")
    /\ UNCHANGED <<kernelVars, asked, registered, listVars, wakeup_event, selection_mutex,
                   server, completing, result, retry, links, stop, budget>>

\* mutant: the deferral event is not relinked
GrabWithoutRelink(t) ==
    /\ pc[t] = "grab"
    /\ retry' = [retry EXCEPT ![t] = deferred]
    /\ deferred' = {}
    /\ Goto(t, "loop")
    /\ UNCHANGED <<kernelVars, asked, registered, multi_wait, deferred_list, sessions,
                   wakeup_event, deferral_event, selection_mutex, server, completing, result,
                   links, stop, budget>>

\* mutant: the list is copied and not moved
GrabCopy(t) ==
    /\ pc[t] = "grab"
    /\ retry' = [retry EXCEPT ![t] = deferred]
    /\ links' = [links EXCEPT ![t] = <<Deferral>>]
    /\ Goto(t, "relink")
    /\ UNCHANGED <<kernelVars, asked, registered, listVars, wakeup_event, deferral_event,
                   selection_mutex, server, completing, result, stop, budget>>

GrabDeferrals(t) ==
    /\ pc[t] = "grab"
    /\ retry' = [retry EXCEPT ![t] = deferred]
    /\ deferred' = {}
    /\ links' = [links EXCEPT ![t] = <<Deferral>>]
    /\ Goto(t, "relink")
    /\ UNCHANGED <<kernelVars, asked, registered, multi_wait, deferred_list, sessions,
                   wakeup_event, deferral_event, selection_mutex, server, completing, result,
                   stop, budget>>

CompleteDeferred(t, s) ==
    /\ pc[t] = "loop"
    /\ s \in retry[t]
    /\ retry' = [retry EXCEPT ![t] = @ \ {s}]
    /\ completing' = [completing EXCEPT ![t] = s]
    /\ Goto(t, "handle")
    /\ UNCHANGED <<kernelVars, asked, registered, listVars, wakeup_event, deferral_event,
                   selection_mutex, server, result, links, stop, budget>>

----------------------------------------------------------------------------
(* ~ServerManager *)

RequestStop ==
    /\ stop = "no"
    /\ stop' = "requested"
    /\ UNCHANGED <<kernelVars, asked, registered, listVars, wakeup_event, deferral_event,
                   selection_mutex, server, threadVars, budget>>

\* mutant: the threads are not woken
StopQuietly ==
    /\ stop = "requested"
    /\ stop' = "signaled"
    /\ UNCHANGED <<kernelVars, asked, registered, listVars, wakeup_event, deferral_event,
                   selection_mutex, server, threadVars, budget>>

SignalStop ==
    /\ stop = "requested"
    /\ stop' = "signaled"
    /\ wakeup_event' = TRUE
    /\ UNCHANGED <<kernelVars, asked, registered, listVars, deferral_event, selection_mutex,
                   server, threadVars, budget>>

\* m_stopped.Wait(), m_threads.clear(), then the ports and the sessions
Destroy ==
    /\ stop = "signaled"
    /\ \A t \in server.threads : pc[t] = "done"
    /\ stop' = "gone"
    /\ port' = "ServerClosed"
    /\ pending' = << >>
    /\ sessions' = {}
    /\ CloseServerSessions(sessions \cup Elements(pending))
    /\ UNCHANGED <<registered, multi_wait, deferred_list, deferred, wakeup_event,
                   deferral_event, selection_mutex, server, threadVars, budget>>

----------------------------------------------------------------------------
ThreadStep(t) ==
    \/ LeaveLoop(t)
    \/ LockSelection(t)
    \/ LinkDeferred(t)
    \/ TestStop(t)
    \/ WaitAny(t)
    \/ NotifyAvailable(t)
    \/ ClearWakeup(t)
    \/ LinkToDeferredList(t)
    \/ SignalWakeup(t)
    \/ OnPortEvent(t)
    \/ OnSessionEvent(t)
    \/ HandleSyncRequest(t)
    \/ Defer(t)
    \/ SendReply(t)
    \/ DestroySession(t)
    \/ ClearDeferral(t)
    \/ GrabDeferrals(t)
    \/ \E s \in Sessions : CompleteDeferred(t, s)

Next ==
    \/ \E s \in AnyOf({x \in Sessions : session[x] = "Free"}) : CreateSession(s)
    \/ \E c \in AnyOf({x \in Clients : asked[x] = NoRequest}), s \in Sessions, r \in Requests :
          (r.op = "close" \/ server.deferral = (r \in RegistryRequests)) /\ OnRequest(c, s, r)
    \/ \E s \in Sessions : CloseClientSession(s)
    \/ \E n \in Services : RegisterService(n)
    \/ \E t \in Threads : ThreadStep(t)
    \/ RequestStop
    \/ SignalStop
    \/ Destroy

Spec == Init /\ [][Next]_vars

\* A service registers by itself, a guest asks, a server is destroyed: nothing makes them.
FairSpec ==
    /\ Spec
    /\ \A t \in Threads : WF_vars(ThreadStep(t))
    /\ WF_vars(SignalStop \/ Destroy)

----------------------------------------------------------------------------
\* Where a thread may be.
Labels ==
    {"loop", "link", "stopping", "wait", "asleep", "clear", "relink", "signal", Port, Deferral,
     "grab", "receive", "handle", "defer", "reply", "destroy", "done"}

\* The lists, sessions and threads have the types of the members they stand for.
TypeOK ==
    /\ session \in [Sessions -> {"Free", "Normal", "ClientClosed", "ServerClosed"}]
    /\ requests \in [Sessions -> Seq(Clients)]
    /\ current \in [Sessions -> Clients \cup {None}]
    /\ pending \in Seq(Sessions)
    /\ port \in {"Normal", "ServerClosed"}
    /\ asked \in [Clients -> Requests \cup {NoRequest}]
    /\ registered \subseteq Services
    /\ multi_wait \in Seq(Holders)
    /\ deferred_list \in Seq(Holders)
    /\ deferred \subseteq Sessions
    /\ sessions \subseteq Sessions
    /\ wakeup_event \in BOOLEAN
    /\ deferral_event \in BOOLEAN
    /\ selection_mutex \in Threads \cup {None}
    /\ server \in Servers
    /\ pc \in [Threads -> Labels]
    /\ completing \in [Threads -> Sessions \cup {None}]
    /\ result \in [Threads -> Results \cup {None}]
    /\ retry \in [Threads -> SUBSET Sessions]
    /\ links \in [Threads -> Seq(Holders)]
    /\ stop \in {"no", "requested", "signaled", "gone"}
    /\ budget \in [connects : Nat, requests : Nat]

\* Where a holder is in a list, and the threads that work on a session, will retry it, or are
\* about to link it.
At(q, h) == {i \in DOMAIN q : q[i] = h}
Completers(s) == {t \in Threads : completing[t] = s}
Retriers(s) == {t \in Threads : s \in retry[t]}
Linkers(h) ==
    {t \in Threads : h \in Elements(links[t]) /\ ~(pc[t] = "signal" /\ Head(links[t]) = h)}

\* The places of a session: the port's queue, m_multi_wait, m_deferred_list, the deferred
\* sessions, and the threads.
Places(s) ==
    ({"pending"} \X At(pending, s)) \cup ({"multi_wait"} \X At(multi_wait, s))
    \cup ({"deferred_list"} \X At(deferred_list, s)) \cup ({"deferred"} \X (deferred \cap {s}))
    \cup ({"completing"} \X Completers(s)) \cup ({"retry"} \X Retriers(s))
    \cup ({"links"} \X Linkers(s))

\* "We have exclusive access to this session": while the server lives, a session whose server
\* end is open is in exactly one place, so no two threads receive from or answer it, and none is
\* dropped.
EverySessionIsInOnePlace ==
    stop # "gone" =>
        \A s \in Sessions :
            IF session[s] \in {"Normal", "ClientClosed"}
            THEN \E p \in Places(s) : Places(s) = {p}
            ELSE Places(s) = {}

\* R_ASSERT(res) in OnSessionEvent and CompleteSyncRequest, ASSERT(server_session != nullptr) in
\* OnPortEvent: the holder a thread selected is still signaled when the thread gets to it, and
\* the request it answers is still the session's current one.
SelectedIsReady ==
    \A t \in Threads :
        /\ pc[t] = "receive" => IsSignaled(completing[t])
        /\ pc[t] \in {"handle", "defer", "reply"} => current[completing[t]] # None
        /\ pc[t] = Port => pending # << >>

Awaits(s) == IF current[s] = None THEN NoRequest ELSE asked[current[s]]

\* The two events announce what the two lists hold.  LinkToDeferredList against WaitSignaled:
\* nobody sleeps in WaitAny while a holder waits to be added, unless the wakeup event is signaled
\* or about to be.  OnDeferralEvent against RegisterService: a deferred request whose service is
\* registered by now has the deferral event signaled, or a thread that cleared it has yet to take
\* the list.
NothingIsForgotten ==
    /\ (deferred_list # << >> /\ \E t \in Threads : pc[t] = "asleep") =>
          wakeup_event \/ \E t \in Threads : pc[t] = "signal"
    /\ \A s \in deferred :
          Awaits(s).op = "get" /\ Awaits(s).name \in registered =>
              deferral_event \/ \E t \in Threads : pc[t] = "grab"

\* The client's request, or one before it on its session, is a deferred GetService of a service
\* that is not registered.
WaitsForService(c) ==
    \E s \in deferred :
        /\ c = current[s] \/ c \in Elements(requests[s])
        /\ Awaits(s).name \notin registered

\* A request is answered, at the latest when the server is destroyed, unless it waits for a
\* service to be registered.
EveryRequestIsAnswered ==
    \A c \in Clients : asked[c] # NoRequest ~> asked[c] = NoRequest \/ WaitsForService(c)

\* The clients whose request a handler has carried out and not yet answered.
CarriedOut ==
    {current[completing[t]] : t \in {u \in Threads : result[u] \notin {None, "deferred"}}}

Abstract == INSTANCE RequestService WITH done <- CarriedOut

\* However a request travels through the lists, is deferred and tried again: it takes effect
\* once, before its answer, and a GetService only while its service is registered.
ImplementsRequestService == Abstract!Spec

\* ~ServerManager ends: every thread sees the stop request, also one that was asleep.
StopEnds == stop = "requested" ~> stop = "gone"
============================================================================
