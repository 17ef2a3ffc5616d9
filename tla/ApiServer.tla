------------------------------ MODULE ApiServer ------------------------------
(***************************************************************************)
(* The threads of the API server (api_server.cpp): the acceptor, one       *)
(* thread per client, and the thread in stop(). A request is what          *)
(* CommandHandler does with it (LbState's operations); here it is a line   *)
(* that takes a while to handle and gets one reply. Some of the clients    *)
(* are pbctl (client.cpp): one request, one reply, then the exit; the      *)
(* others send and read what they like.                                    *)
(*                                                                         *)
(* File descriptors are numbers that the kernel hands out again: the rest  *)
(* of the daemon (health probes, rings) opens and closes them too.         *)
(***************************************************************************)
EXTENDS Naturals, FiniteSets

CONSTANTS Conns,    \* the connections that clients make
          Ctls,     \* those that pbctl makes
          Fds,      \* file descriptors
          MaxLines  \* bound: request lines in one chunk that recv returns

\* 0 stands for a descriptor that was closed.
ASSUME ApiAssumption ==
    /\ MaxLines \in Nat \ {0} /\ Ctls \subseteq Conns
    /\ 0 \notin Fds /\ "free" \notin Conns /\ "other" \notin Conns

VARIABLES peer,     \* connection -> "away", "pending" (in the backlog), "open" or "closed"
          shut,     \* connections on which shutdown() was called
          fdOf,     \* fd -> "free", "other" (the rest of the daemon), or a connection
          clients,  \* clients_: connection -> [fd, done]
          thread,   \* connection -> pc of its thread, "none" before and "gone" after
          lines,    \* connection -> the complete lines in buf
          acceptor, \* pc: "loop", "poll", "reap" (holding clients_mu_) or "gone"
          new,      \* the connection accept4 returned, for "reap"
          stopper,  \* pc of stop(): "idle", "acceptor", "shutdown", "join" or "done"
          ctl,      \* connection of pbctl -> "none", "sent" (the request is on its way),
                    \* "taken" (by the daemon), "answered" or "failed"
          wrong     \* shutdown() was called on a descriptor of someone else

apvars == <<peer, shut, fdOf, clients, thread, lines, acceptor, new, stopper, ctl, wrong>>

stopping == stopper # "idle"
Closed == 0
Drop(f, c) == [k \in DOMAIN f \ {c} |-> f[k]]

\* clients_mu_ is held over several steps only by the acceptor while it reaps.
Locked == acceptor = "reap"

\* recv and send on the connection fail at once.
Dead(c) == c \in shut \/ peer[c] = "closed"

\* What clients do, and the rest of the daemon.
Connect(c) ==
    /\ peer[c] = "away" /\ stopper # "done"
    /\ peer' = [peer EXCEPT ![c] = "pending"]
    /\ ctl' = IF c \in Ctls THEN [ctl EXCEPT ![c] = "sent"] ELSE ctl
    /\ UNCHANGED <<shut, fdOf, clients, thread, lines, acceptor, new, stopper, wrong>>
Hangup(c) ==
    /\ peer[c] = "open" /\ peer' = [peer EXCEPT ![c] = "closed"]
    /\ c \in Ctls => ctl[c] \in {"answered", "failed"}
    /\ UNCHANGED <<shut, fdOf, clients, thread, lines, acceptor, new, stopper, ctl, wrong>>

\* call() in pbctl: read returns 0, or fails, before a reply has come. The daemon has
\* shut the connection down or closed it, or the socket on which it was still pending.
CtlFails(c) ==
    /\ c \in Ctls /\ ctl[c] \in {"sent", "taken"}
    /\ \/ c \in shut \/ thread[c] \in {"exit", "gone"}
       \/ peer[c] = "pending" /\ stopper = "done"
    /\ ctl' = [ctl EXCEPT ![c] = "failed"]
    /\ UNCHANGED <<peer, shut, fdOf, clients, thread, lines, acceptor, new, stopper, wrong>>
OthersOpen(f) ==
    /\ fdOf[f] = "free" /\ fdOf' = [fdOf EXCEPT ![f] = "other"]
    /\ UNCHANGED <<peer, shut, clients, thread, lines, acceptor, new, stopper, ctl, wrong>>
OthersClose(f) ==
    /\ fdOf[f] = "other" /\ fdOf' = [fdOf EXCEPT ![f] = "free"]
    /\ UNCHANGED <<peer, shut, clients, thread, lines, acceptor, new, stopper, ctl, wrong>>

\* accept_loop, its head: stopping_ is looked at before the poll and not after it.
Poll ==
    /\ acceptor = "loop" /\ ~stopping
    /\ acceptor' = "poll"
    /\ UNCHANGED <<peer, shut, fdOf, clients, thread, lines, new, stopper, ctl, wrong>>

\* The poll ends after 200 ms with nothing to accept, or accept4 has no descriptor left.
PollAgain ==
    /\ acceptor = "poll"
    /\ (\A c \in Conns : peer[c] # "pending") \/ (\A f \in Fds : fdOf[f] # "free")
    /\ acceptor' = "loop"
    /\ UNCHANGED <<peer, shut, fdOf, clients, thread, lines, new, stopper, ctl, wrong>>

\* A connection is ready, accept4 gives it a descriptor, and the acceptor takes
\* clients_mu_.
Accept(c, f) ==
    /\ acceptor = "poll"
    /\ peer[c] = "pending" /\ fdOf[f] = "free"
    /\ peer' = [peer EXCEPT ![c] = "open"]
    /\ fdOf' = [fdOf EXCEPT ![f] = c]
    /\ acceptor' = "reap" /\ new' = c
    /\ UNCHANGED <<shut, clients, thread, lines, stopper, ctl, wrong>>

\* The join of a finished client, with clients_mu_ held.
Reap(c) ==
    /\ acceptor = "reap"
    /\ c \in DOMAIN clients /\ clients[c].done /\ thread[c] = "exit"
    /\ clients' = Drop(clients, c)
    /\ thread' = [thread EXCEPT ![c] = "gone"]
    /\ UNCHANGED <<peer, shut, fdOf, lines, acceptor, new, stopper, ctl, wrong>>

\* The new client is put in the list and its thread starts.
Spawn(f) ==
    /\ acceptor = "reap" /\ fdOf[f] = new
    /\ \A c \in DOMAIN clients : ~clients[c].done
    /\ clients' = [c \in DOMAIN clients \cup {new} |->
                      IF c = new THEN [fd |-> f, done |-> FALSE] ELSE clients[c]]
    /\ thread' = [thread EXCEPT ![new] = "top"]
    /\ acceptor' = "loop"
    /\ UNCHANGED <<peer, shut, fdOf, lines, new, stopper, ctl, wrong>>

AcceptorEnds ==
    /\ acceptor = "loop" /\ stopping
    /\ acceptor' = "gone"
    /\ UNCHANGED <<peer, shut, fdOf, clients, thread, lines, new, stopper, ctl, wrong>>

\* Mistake: the client is marked done before its thread takes the lock.
Return_Done(c) ==
    /\ thread' = [thread EXCEPT ![c] = "finish"]
    /\ clients' = [clients EXCEPT ![c].done = TRUE]

\* serve() returns.
Return(c) ==
    /\ thread' = [thread EXCEPT ![c] = "finish"]
    /\ UNCHANGED clients

\* serve, the head of the loop.
Top(c) ==
    /\ thread[c] = "top"
    /\ IF stopping THEN Return(c) ELSE thread' = [thread EXCEPT ![c] = "recv"] /\ UNCHANGED clients
    /\ UNCHANGED <<peer, shut, fdOf, lines, acceptor, new, stopper, ctl, wrong>>

\* recv: an end of the connection, or a chunk that completes n lines (empty ones are
\* skipped and do not count), or none and makes buf too large ("sendlast": one error
\* reply, then the end). What came before a shutdown() is still received after it.
RecvEnd(c) ==
    /\ thread[c] = "recv" /\ Dead(c)
    /\ Return(c)
    /\ UNCHANGED <<peer, shut, fdOf, lines, acceptor, new, stopper, ctl, wrong>>
Chunks(c) == IF c \in Ctls THEN {1} \X {FALSE} ELSE (0 .. MaxLines) \X BOOLEAN
Sent(c) == c \in Ctls => ctl[c] = "sent"

\* Mistake: a line that ends with the chunk is left for the next one.
RecvData_KeepsLast(c) ==
    /\ thread[c] = "recv" /\ Sent(c)
    /\ \E k \in Chunks(c) :
          /\ lines' = [lines EXCEPT ![c] = IF k[1] > 0 THEN k[1] - 1 ELSE 0]
          /\ thread' = [thread EXCEPT ![c] = IF k[1] > 1 THEN "handle"
                                             ELSE IF k[2] THEN "sendlast" ELSE "top"]
    /\ ctl' = IF c \in Ctls THEN [ctl EXCEPT ![c] = "taken"] ELSE ctl
    /\ UNCHANGED <<peer, shut, fdOf, clients, acceptor, new, stopper, wrong>>

RecvData(c) ==
    /\ thread[c] = "recv" /\ Sent(c)
    /\ \E k \in Chunks(c) :
          /\ lines' = [lines EXCEPT ![c] = k[1]]
          /\ thread' = [thread EXCEPT ![c] = IF k[1] > 0 THEN "handle"
                                             ELSE IF k[2] THEN "sendlast" ELSE "top"]
    /\ ctl' = IF c \in Ctls THEN [ctl EXCEPT ![c] = "taken"] ELSE ctl
    /\ UNCHANGED <<peer, shut, fdOf, clients, acceptor, new, stopper, wrong>>

\* The handler returns.
Handle(c) ==
    /\ thread[c] = "handle"
    /\ thread' = [thread EXCEPT ![c] = "send"]
    /\ UNCHANGED <<peer, shut, fdOf, clients, lines, acceptor, new, stopper, ctl, wrong>>

\* write_all: it waits for a client that does not read. stopping_ is not looked at
\* before buf holds no more lines.
SendOk(c) ==
    /\ thread[c] \in {"send", "sendlast"} /\ ~Dead(c)
    /\ IF thread[c] = "sendlast" THEN Return(c) /\ UNCHANGED lines
       ELSE /\ lines' = [lines EXCEPT ![c] = @ - 1]
            /\ thread' = [thread EXCEPT ![c] = IF lines[c] > 1 THEN "handle" ELSE "top"]
            /\ UNCHANGED clients
    /\ ctl' = IF c \in Ctls /\ ctl[c] = "taken" THEN [ctl EXCEPT ![c] = "answered"] ELSE ctl
    /\ UNCHANGED <<peer, shut, fdOf, acceptor, new, stopper, wrong>>
SendFails(c) ==
    /\ thread[c] \in {"send", "sendlast"} /\ Dead(c)
    /\ Return(c)
    /\ UNCHANGED <<peer, shut, fdOf, lines, acceptor, new, stopper, ctl, wrong>>

\* Mistake: the number of the closed descriptor stays in the list.
Finish_KeepsFd(c) ==
    /\ thread[c] = "finish" /\ ~Locked
    /\ fdOf' = [fdOf EXCEPT ![clients[c].fd] = "free"]
    /\ clients' = [clients EXCEPT ![c].done = TRUE]
    /\ thread' = [thread EXCEPT ![c] = "exit"]
    /\ UNCHANGED <<peer, shut, lines, acceptor, new, stopper, ctl, wrong>>

\* The end of a client's thread, under clients_mu_.
Finish(c) ==
    /\ thread[c] = "finish" /\ ~Locked
    /\ fdOf' = [fdOf EXCEPT ![clients[c].fd] = "free"]
    /\ clients' = [clients EXCEPT ![c] = [fd |-> Closed, done |-> TRUE]]
    /\ thread' = [thread EXCEPT ![c] = "exit"]
    /\ UNCHANGED <<peer, shut, lines, acceptor, new, stopper, ctl, wrong>>

\* stop(): the flag.
Stop ==
    /\ stopper = "idle" /\ stopper' = "acceptor"
    /\ UNCHANGED <<peer, shut, fdOf, clients, thread, lines, acceptor, new, ctl, wrong>>

\* Mistake: the acceptor is not waited for.
JoinAcceptor_Skip ==
    /\ stopper = "acceptor" /\ stopper' = "shutdown"
    /\ UNCHANGED <<peer, shut, fdOf, clients, thread, lines, acceptor, new, ctl, wrong>>

JoinAcceptor ==
    /\ stopper = "acceptor" /\ acceptor = "gone"
    /\ stopper' = "shutdown"
    /\ UNCHANGED <<peer, shut, fdOf, clients, thread, lines, acceptor, new, ctl, wrong>>

\* shutdown() on every client's descriptor, under clients_mu_.
ShutdownAll ==
    /\ stopper = "shutdown" /\ ~Locked
    /\ LET hit == {fdOf[clients[c].fd] : c \in {k \in DOMAIN clients : clients[k].fd # Closed}}
       IN shut' = shut \cup (hit \cap Conns) /\ wrong' = ("other" \in hit)
    /\ stopper' = "join"
    /\ UNCHANGED <<peer, fdOf, clients, thread, lines, acceptor, new, ctl>>

\* The joins of the clients, without the lock, then clear, unlink and close.
JoinClients ==
    /\ stopper = "join"
    /\ \A c \in DOMAIN clients : thread[c] = "exit"
    /\ clients' = [c \in {} |-> 0]
    /\ thread' = [c \in Conns |-> IF c \in DOMAIN clients THEN "gone" ELSE thread[c]]
    /\ stopper' = "done"
    /\ UNCHANGED <<peer, shut, fdOf, lines, acceptor, new, ctl, wrong>>

ApiInit ==
    /\ peer = [c \in Conns |-> "away"] /\ shut = {}
    /\ fdOf = [f \in Fds |-> "free"]
    /\ clients = [c \in {} |-> 0]
    /\ thread = [c \in Conns |-> "none"] /\ lines = [c \in Conns |-> 0]
    /\ acceptor = "loop" /\ new \in Conns
    /\ stopper = "idle" /\ ctl = [c \in Ctls |-> "none"] /\ wrong = FALSE

\* What the scheduler runs without the help of a client.
Own(c) == \/ Top(c) \/ RecvEnd(c) \/ Handle(c) \/ SendFails(c) \/ Finish(c)
AcceptorSteps == \/ Poll \/ PollAgain \/ AcceptorEnds
                 \/ \E c \in Conns, f \in Fds : Accept(c, f)
                 \/ \E c \in Conns : Reap(c)
                 \/ \E f \in Fds : Spawn(f)
StopperSteps == JoinAcceptor \/ ShutdownAll \/ JoinClients

ApiNext ==
    \/ \E c \in Conns : Connect(c) \/ Hangup(c) \/ CtlFails(c) \/ RecvData(c) \/ SendOk(c) \/ Own(c)
    \/ \E f \in Fds : OthersOpen(f) \/ OthersClose(f)
    \/ AcceptorSteps \/ Stop \/ StopperSteps

ApiSpec == ApiInit /\ [][ApiNext]_apvars

\* Threads run; clients need not send, read or hang up, and nobody need call stop().
\* pbctl is no such client: it has sent its request, and it reads.
ApiFairSpec ==
    /\ ApiSpec
    /\ \A c \in Conns : WF_apvars(Own(c))
    /\ WF_apvars(AcceptorSteps) /\ WF_apvars(StopperSteps)
    /\ \A c \in Ctls : /\ WF_apvars(RecvData(c)) /\ WF_apvars(SendOk(c)) /\ WF_apvars(CtlFails(c))

------------------------------------------------------------------------------
\* stop() shuts down no descriptor that has been closed and given to someone else: a
\* health probe or a ring under construction (api_server.cpp:78 against 107-110).
OwnDescriptorsOnly == ~wrong

\* No descriptor leaks: one that belongs to a connection is known to the list, or is
\* in the hands of the acceptor; after stop() none is left (api_server.cpp:72-113).
NoDescriptorLeaks ==
    \A f \in Fds : LET c == fdOf[f] IN c \in Conns =>
        \/ c \in DOMAIN clients /\ clients[c].fd = f
        \/ acceptor = "reap" /\ new = c

\* After stop() has returned no thread of the server runs: the handlers use objects
\* that Daemon destroys next (daemon.cpp:80-91).
NoThreadSurvives ==
    stopper = "done" => acceptor = "gone" /\ \A c \in Conns : thread[c] \in {"none", "gone"}

\* stop() returns, whatever the clients do: silent ones, ones that do not read their
\* replies, ones that connect at the last moment (api_server.cpp:72-85). The joins
\* under clients_mu_ wait for no thread that wants clients_mu_.
StopReturns == stopping ~> stopper = "done"

\* pbctl never hangs (client.cpp has no timeout): a request that was sent is answered,
\* or pbctl is told that it will not be, also when the daemon stops while the
\* connection is in the backlog, being read or being handled; unless it is still in
\* the backlog when the daemon has run out of descriptors to accept it with
\* (api_server.cpp:91-92).
PbctlReturns ==
    \A c \in Ctls : ctl[c] = "sent" ~> \/ ctl[c] \in {"answered", "failed"}
                                       \/ peer[c] = "pending" /\ \A f \in Fds : fdOf[f] # "free"

------------------------------------------------------------------------------
\* The inductive invariant behind OwnDescriptorsOnly, NoDescriptorLeaks and
\* NoThreadSurvives.

\* Every variable has its type.
ApiTypeOK ==
    /\ peer \in [Conns -> {"away", "pending", "open", "closed"}]
    /\ fdOf \in [Fds -> Conns \cup {"free", "other"}]
    /\ DOMAIN clients \subseteq Conns
    /\ clients \in [DOMAIN clients -> [fd : Fds \cup {Closed}, done : BOOLEAN]]
    /\ thread \in [Conns -> {"none", "top", "recv", "handle", "send", "sendlast", "finish",
                            "exit", "gone"}]
    /\ acceptor \in {"loop", "poll", "reap", "gone"} /\ new \in Conns
    /\ stopper \in {"idle", "acceptor", "shutdown", "join", "done"}

\* The list has the clients whose thread has not been joined, and in it a descriptor
\* until the thread gives it up.
ListHasThreads ==
    /\ DOMAIN clients = {c \in Conns : thread[c] \notin {"none", "gone"}}
    /\ \A c \in DOMAIN clients :
          IF thread[c] = "exit" THEN clients[c].fd = Closed /\ clients[c].done
          ELSE clients[c].fd \in Fds /\ fdOf[clients[c].fd] = c /\ ~clients[c].done

\* A connection has one descriptor at most, and none before it is accepted.
OneDescriptor ==
    /\ \A f, g \in Fds : fdOf[f] \in Conns /\ fdOf[f] = fdOf[g] => f = g
    /\ \A c \in Conns : peer[c] \in {"away", "pending"} =>
                          thread[c] = "none" /\ \A f \in Fds : fdOf[f] # c
    /\ acceptor = "reap" => thread[new] = "none" /\ peer[new] \notin {"away", "pending"}

\* How far stop() has come.
StopOrder ==
    /\ stopper \in {"shutdown", "join", "done"} => acceptor = "gone"
    /\ stopper = "done" => DOMAIN clients = {}

ApiInv ==
    /\ ApiTypeOK /\ ListHasThreads /\ OneDescriptor /\ StopOrder
    /\ OwnDescriptorsOnly /\ NoDescriptorLeaks
==============================================================================
