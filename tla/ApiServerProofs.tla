--------------------------- MODULE ApiServerProofs ---------------------------
(***************************************************************************)
(* The safety of the API server's threads, for any number of connections   *)
(* and descriptors: ApiInv is inductive, and it implies that no descriptor *)
(* leaks, that stop() shuts down none of someone else's, and that it       *)
(* leaves no thread behind.                                                *)
(***************************************************************************)
EXTENDS ApiServer, TLAPS

InServe == {"top", "recv", "handle", "send", "sendlast", "finish"}

\* A step of serve() moves one thread between two places in it and leaves the list,
\* the descriptors and everyone else alone (api_server.cpp:115-136).
LEMMA ServeStep ==
    ASSUME ApiInv, NEW c \in Conns, NEW p \in InServe,
           thread[c] \in InServe, thread' = [thread EXCEPT ![c] = p],
           UNCHANGED <<peer, fdOf, clients, acceptor, new, stopper, wrong>>
    PROVE  ApiInv'
<1> USE DEF InServe
<1>1. ApiTypeOK'
  BY DEF ApiInv, ApiTypeOK
<1>2. ListHasThreads'
  BY DEF ApiInv, ApiTypeOK, ListHasThreads
<1>3. OneDescriptor'
  BY DEF ApiInv, ApiTypeOK, OneDescriptor
<1>4. (StopOrder /\ OwnDescriptorsOnly /\ NoDescriptorLeaks)'
  BY DEF ApiInv, StopOrder, OwnDescriptorsOnly, NoDescriptorLeaks
<1> QED
  BY <1>1, <1>2, <1>3, <1>4 DEF ApiInv

\* Initially there is no client, no thread and no descriptor.
LEMMA ApiInvInit == ApiInit => ApiInv
BY ApiAssumption DEF ApiInit, ApiInv, ApiTypeOK, ListHasThreads, OneDescriptor, StopOrder,
                     OwnDescriptorsOnly, NoDescriptorLeaks, Closed

\* What the clients do changes at most the peer's side of a connection.
LEMMA ClientSteps ==
    ASSUME ApiInv, NEW c \in Conns, Connect(c) \/ Hangup(c) \/ CtlFails(c)
    PROVE  ApiInv'
<1> PICK q \in {"pending", "closed", "same"} :
        /\ peer' = IF q = "same" THEN peer ELSE [peer EXCEPT ![c] = q]
        /\ q = "pending" => peer[c] = "away"
  BY DEF Connect, Hangup, CtlFails
<1> UNCHANGED <<fdOf, clients, thread, acceptor, new, stopper, wrong>>
  BY DEF Connect, Hangup, CtlFails
<1>1. ApiTypeOK'
  BY DEF ApiInv, ApiTypeOK
<1>2. OneDescriptor'
  BY DEF ApiInv, ApiTypeOK, OneDescriptor
<1>3. (ListHasThreads /\ StopOrder /\ OwnDescriptorsOnly /\ NoDescriptorLeaks)'
  BY Zenon DEF ApiInv, ListHasThreads, StopOrder, OwnDescriptorsOnly, NoDescriptorLeaks
<1> QED
  BY <1>1, <1>2, <1>3 DEF ApiInv

\* The rest of the daemon opens and closes descriptors that no client has.
LEMMA OtherSteps ==
    ASSUME ApiInv, NEW f \in Fds, OthersOpen(f) \/ OthersClose(f)
    PROVE  ApiInv'
<1> PICK x \in {"free", "other"} : fdOf' = [fdOf EXCEPT ![f] = x]
  BY DEF OthersOpen, OthersClose
<1> fdOf[f] \notin Conns
  BY ApiAssumption DEF OthersOpen, OthersClose
<1> x \notin Conns
  BY ApiAssumption
<1> UNCHANGED <<peer, clients, thread, acceptor, new, stopper, wrong>>
  BY DEF OthersOpen, OthersClose
<1>1. ApiTypeOK'
  BY DEF ApiInv, ApiTypeOK
<1>2. ListHasThreads'
  BY DEF ApiInv, ApiTypeOK, ListHasThreads
<1>3. OneDescriptor'
  BY DEF ApiInv, ApiTypeOK, OneDescriptor
<1>4. (StopOrder /\ OwnDescriptorsOnly)'
  BY DEF ApiInv, StopOrder, OwnDescriptorsOnly
<1>5. NoDescriptorLeaks'
  BY DEF ApiInv, ApiTypeOK, NoDescriptorLeaks
<1> QED
  BY <1>1, <1>2, <1>3, <1>4, <1>5 DEF ApiInv

\* accept4 gives a connection that had none a free descriptor.
LEMMA AcceptStep ==
    ASSUME ApiInv, NEW c \in Conns, NEW f \in Fds, Accept(c, f)
    PROVE  ApiInv'
<1> USE DEF Accept
<1> fdOf[f] \notin Conns
  BY ApiAssumption
<1>1. ApiTypeOK'
  BY DEF ApiInv, ApiTypeOK
<1>2. ListHasThreads'
  BY DEF ApiInv, ApiTypeOK, ListHasThreads
<1>3. OneDescriptor'
  BY DEF ApiInv, ApiTypeOK, OneDescriptor
<1>4. StopOrder' /\ OwnDescriptorsOnly'
  BY DEF ApiInv, ApiTypeOK, StopOrder, OwnDescriptorsOnly
<1>5. NoDescriptorLeaks'
  BY DEF ApiInv, ApiTypeOK, NoDescriptorLeaks
<1> QED
  BY <1>1, <1>2, <1>3, <1>4, <1>5 DEF ApiInv

\* The acceptor takes a finished client off the list: its descriptor is closed.
LEMMA ReapStep ==
    ASSUME ApiInv, NEW c \in Conns, Reap(c)
    PROVE  ApiInv'
<1> USE DEF Reap, Drop
<1>1. ApiTypeOK'
  BY DEF ApiInv, ApiTypeOK
<1>2. ListHasThreads'
  BY DEF ApiInv, ApiTypeOK, ListHasThreads
<1>3. OneDescriptor'
  BY DEF ApiInv, ApiTypeOK, OneDescriptor
<1>4. (StopOrder /\ OwnDescriptorsOnly)'
  BY DEF ApiInv, StopOrder, OwnDescriptorsOnly
<1>5. NoDescriptorLeaks'
  BY ApiAssumption DEF ApiInv, ApiTypeOK, NoDescriptorLeaks, ListHasThreads, Closed
<1> QED
  BY <1>1, <1>2, <1>3, <1>4, <1>5 DEF ApiInv

\* The acceptor hands the descriptor to the list.
LEMMA SpawnStep ==
    ASSUME ApiInv, NEW f \in Fds, Spawn(f)
    PROVE  ApiInv'
<1> USE DEF Spawn
<1>1. ApiTypeOK'
  BY DEF ApiInv, ApiTypeOK
<1>2. ListHasThreads'
  BY DEF ApiInv, ApiTypeOK, ListHasThreads, OneDescriptor
<1>3. OneDescriptor'
  BY DEF ApiInv, ApiTypeOK, OneDescriptor
<1>4. (StopOrder /\ OwnDescriptorsOnly)'
  BY DEF ApiInv, StopOrder, OwnDescriptorsOnly
<1>5. NoDescriptorLeaks'
  BY DEF ApiInv, ApiTypeOK, NoDescriptorLeaks, OneDescriptor
<1> QED
  BY <1>1, <1>2, <1>3, <1>4, <1>5 DEF ApiInv

\* A client's thread closes its own descriptor and forgets its number.
LEMMA FinishStep ==
    ASSUME ApiInv, NEW c \in Conns, Finish(c)
    PROVE  ApiInv'
<1> USE DEF Finish
<1> c \in DOMAIN clients /\ clients[c].fd \in Fds /\ fdOf[clients[c].fd] = c
  BY DEF ApiInv, ApiTypeOK, ListHasThreads
<1>1. ApiTypeOK'
  BY DEF ApiInv, ApiTypeOK
<1>2. ListHasThreads'
  <2>1. (DOMAIN clients = {k \in Conns : thread[k] \notin {"none", "gone"}})'
    BY Zenon DEF ApiInv, ApiTypeOK, ListHasThreads
  <2>2. ASSUME NEW k \in DOMAIN clients
        PROVE (IF thread[k] = "exit" THEN clients[k].fd = Closed /\ clients[k].done
               ELSE clients[k].fd \in Fds /\ fdOf[clients[k].fd] = k /\ ~clients[k].done)'
    <3>1. CASE k = c
      BY <3>1 DEF ApiInv, ApiTypeOK
    <3>2. CASE k # c
      <4>1. clients'[k] = clients[k] /\ thread'[k] = thread[k]
        BY <3>2 DEF ApiInv, ApiTypeOK
      <4>2. clients[k].fd \in Fds /\ fdOf[clients[k].fd] = k => fdOf'[clients[k].fd] = k
        BY <3>2 DEF ApiInv, ApiTypeOK
      <4> QED
        BY <4>1, <4>2 DEF ApiInv, ListHasThreads
    <3> QED
      BY <3>1, <3>2
  <2>3. DOMAIN clients' = DOMAIN clients
    OBVIOUS
  <2> QED
    BY <2>1, <2>2, <2>3 DEF ListHasThreads
<1>3. OneDescriptor'
  BY ApiAssumption DEF ApiInv, ApiTypeOK, OneDescriptor
<1>4. (StopOrder /\ OwnDescriptorsOnly)'
  BY DEF ApiInv, ApiTypeOK, StopOrder, OwnDescriptorsOnly
<1>5. NoDescriptorLeaks'
  BY ApiAssumption DEF ApiInv, ApiTypeOK, NoDescriptorLeaks, OneDescriptor
<1> QED
  BY <1>1, <1>2, <1>3, <1>4, <1>5 DEF ApiInv

\* The acceptor's loop, its end, and the steps of stop() before the joins of the clients.
LEMMA StopSteps ==
    ASSUME ApiInv, Poll \/ PollAgain \/ AcceptorEnds \/ Stop \/ JoinAcceptor
    PROVE  ApiInv'
<1> UNCHANGED <<peer, fdOf, clients, thread, new, wrong>>
  BY DEF Poll, PollAgain, AcceptorEnds, Stop, JoinAcceptor
<1>1. acceptor' \in {acceptor, "loop", "poll", "gone"} /\ (acceptor = "reap" => acceptor' = "reap")
  BY DEF Poll, PollAgain, AcceptorEnds, Stop, JoinAcceptor
<1>2. ApiTypeOK'
  BY DEF Poll, PollAgain, AcceptorEnds, Stop, JoinAcceptor, ApiInv, ApiTypeOK
<1>3. StopOrder'
  BY DEF Poll, PollAgain, AcceptorEnds, Stop, JoinAcceptor, stopping, ApiInv, StopOrder
<1>4. (ListHasThreads /\ OwnDescriptorsOnly)'
  BY DEF ApiInv, ListHasThreads, OwnDescriptorsOnly
<1>5. (OneDescriptor /\ NoDescriptorLeaks)'
  BY <1>1 DEF ApiInv, OneDescriptor, NoDescriptorLeaks
<1> QED
  BY <1>2, <1>3, <1>4, <1>5 DEF ApiInv

\* The descriptors in the list are those of the clients in it.
LEMMA ShutdownStep ==
    ASSUME ApiInv, ShutdownAll
    PROVE  ApiInv'
<1> USE DEF ShutdownAll
<1>1. OwnDescriptorsOnly'
  <2> DEFINE hit == {fdOf[clients[c].fd] : c \in {k \in DOMAIN clients : clients[k].fd # Closed}}
  <2>1. \A c \in DOMAIN clients : clients[c].fd # Closed => fdOf[clients[c].fd] = c
    BY DEF ApiInv, ListHasThreads
  <2>2. DOMAIN clients \subseteq Conns
    BY DEF ApiInv, ApiTypeOK
  <2>3. "other" \notin hit
    BY <2>1, <2>2, ApiAssumption
  <2> QED
    BY Zenon, <2>3 DEF OwnDescriptorsOnly
<1>2. (ApiTypeOK /\ ListHasThreads /\ OneDescriptor /\ StopOrder /\ NoDescriptorLeaks)'
  BY DEF ApiInv, ApiTypeOK, ListHasThreads, OneDescriptor, StopOrder, NoDescriptorLeaks
<1> QED
  BY <1>1, <1>2 DEF ApiInv

\* Every thread in the list has ended, so the list can be cleared.
LEMMA JoinStep ==
    ASSUME ApiInv, JoinClients
    PROVE  ApiInv'
<1> USE DEF JoinClients
<1>1. ApiTypeOK'
  BY DEF ApiInv, ApiTypeOK
<1>2. ListHasThreads'
  BY DEF ApiInv, ApiTypeOK, ListHasThreads
<1>3. OneDescriptor'
  BY DEF ApiInv, ApiTypeOK, OneDescriptor, ListHasThreads
<1>4. (StopOrder /\ OwnDescriptorsOnly)'
  BY DEF ApiInv, StopOrder, OwnDescriptorsOnly
<1>5. NoDescriptorLeaks'
  BY ApiAssumption DEF ApiInv, ApiTypeOK, NoDescriptorLeaks, ListHasThreads, Closed
<1> QED
  BY <1>1, <1>2, <1>3, <1>4, <1>5 DEF ApiInv

\* Every step of the server, of its clients and of the rest of the daemon keeps ApiInv.
LEMMA ApiInvNext == ApiInv /\ [ApiNext]_apvars => ApiInv'
<1> SUFFICES ASSUME ApiInv, [ApiNext]_apvars PROVE ApiInv'
  OBVIOUS
<1>1. ASSUME NEW c \in Conns, RecvData(c) \/ SendOk(c) \/ Top(c) \/ RecvEnd(c) \/ Handle(c) \/ SendFails(c)
      PROVE  ApiInv'
  <2>1. PICK p \in InServe : thread' = [thread EXCEPT ![c] = p]
    BY <1>1 DEF RecvData, SendOk, Top, RecvEnd, Handle, SendFails, Return, InServe
  <2>2. thread[c] \in InServe
    BY <1>1 DEF RecvData, SendOk, Top, RecvEnd, Handle, SendFails, InServe
  <2>3. UNCHANGED <<peer, fdOf, clients, acceptor, new, stopper, wrong>>
    BY <1>1 DEF RecvData, SendOk, Top, RecvEnd, Handle, SendFails, Return
  <2> QED
    BY Zenon, <2>1, <2>2, <2>3, ServeStep
<1>2. CASE \E c \in Conns : Connect(c) \/ Hangup(c) \/ CtlFails(c)
  BY <1>2, ClientSteps
<1>3. CASE \E f \in Fds : OthersOpen(f) \/ OthersClose(f)
  BY <1>3, OtherSteps
<1>4. CASE AcceptorSteps
  BY <1>4, AcceptStep, ReapStep, SpawnStep, StopSteps DEF AcceptorSteps
<1>5. CASE Stop \/ StopperSteps
  BY <1>5, StopSteps, ShutdownStep, JoinStep DEF StopperSteps
<1>6. CASE \E c \in Conns : Finish(c)
  BY <1>6, FinishStep
<1>7. CASE UNCHANGED apvars
  BY ZenonT(60), <1>7 DEF apvars, ApiInv, ApiTypeOK, ListHasThreads, OneDescriptor, StopOrder,
              OwnDescriptorsOnly, NoDescriptorLeaks
<1> QED
  BY <1>1, <1>2, <1>3, <1>4, <1>5, <1>6, <1>7 DEF ApiNext, Own

\* The inductive invariant holds whatever the clients, the rest of the daemon and the
\* caller of stop() do (api_server.cpp:72-136).
THEOREM ApiInvariant == ApiSpec => []ApiInv
BY ApiInvInit, ApiInvNext, PTL DEF ApiSpec

\* stop() never shuts down a descriptor that was closed and given to someone else, for
\* any number of clients and descriptors (api_server.cpp:78 against 107-110).
THEOREM DescriptorsOwn == ApiSpec => []OwnDescriptorsOnly
<1>1. ApiInv => OwnDescriptorsOnly
  BY DEF ApiInv
<1> QED
  BY <1>1, ApiInvariant, PTL

\* Every descriptor of a connection is in the list or in the acceptor's hands, so that
\* none leaks (api_server.cpp:72-113).
THEOREM DescriptorsKnown == ApiSpec => []NoDescriptorLeaks
<1>1. ApiInv => NoDescriptorLeaks
  BY DEF ApiInv
<1> QED
  BY <1>1, ApiInvariant, PTL

\* After stop() no thread of the server is left to use what Daemon destroys next
\* (daemon.cpp:80-91).
THEOREM ThreadsGone == ApiSpec => []NoThreadSurvives
<1>1. ApiInv => NoThreadSurvives
  BY DEF ApiInv, ApiTypeOK, ListHasThreads, StopOrder, NoThreadSurvives
<1> QED
  BY <1>1, ApiInvariant, PTL
==============================================================================
