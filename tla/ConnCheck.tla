------------------------------ MODULE ConnCheck ------------------------------
(***************************************************************************)
(* The measuring client of the experiments (tools/conncheck): one thread   *)
(* that holds connections to a VIP, sends heartbeats, and counts every     *)
(* connection that breaks. Between any two of its steps time may pass and  *)
(* the network may deliver a reply, a FIN or a RST.                        *)
(*                                                                         *)
(* The unit of time is a tick; the ramp's rate, the length of lines and    *)
(* the split of the broken connections by second are left out.             *)
(***************************************************************************)
EXTENDS Integers, FiniteSets, FiniteSetsExt

CONSTANTS N,              \* --connections
          Backends,       \* the ids that servers answer with
          MaxEvents,      \* the size of the array for epoll_wait (4096)
          Heartbeat,      \* --heartbeat-ms
          Timeout,        \* --timeout-ms
          ConnectTimeout, \* --connect-timeout-ms
          Duration        \* --duration-s; the clock is not followed beyond it

ASSUME CCAssumption ==
    /\ {N, MaxEvents, Heartbeat, Timeout, ConnectTimeout, Duration} \subseteq Nat \ {0}
    /\ Backends \subseteq Nat

VARIABLES clock, now,   \* the time, and the time the loop last read
          pc,           \* "ramp", "wait", "events", "scan" or "done"
          todo,         \* events or connections left for this part of the loop
          next_idx,     \* the connections started so far
          conn,         \* conns_
          net,          \* connection -> what the network holds for it (ids is history:
                        \* the ids the client has read)
          tally,        \* the counters of the report
          start, end,   \* start_counts_ and end_counts_; none taken yet is {}
          answered,     \* history: the connections with a reply to read at epoll_wait,
          batch         \* and the ones that it returned

ccvars == <<clock, now, pc, todo, next_idx, conn, net, tally, start, end, answered, batch>>

Conns == 1 .. N
Causes == {"rst", "eof", "timeout", "wrong_backend"}
Unknown == -1
Known == Backends \cup {Unknown}
NoHb == -1
Quiet == [syn |-> "none", hb |-> FALSE, replies |-> {}, ended |-> "no", ids |-> {}]
Fresh == [state |-> "Idle", backend |-> Unknown, sent |-> NoHb, next |-> 0, began |-> 0]
Count(state) == Cardinality({c \in Conns : conn[c].state = state})
BrokenTotal == tally.broken["rst"] + tally.broken["eof"] + tally.broken["timeout"]
                    + tally.broken["wrong_backend"]

\* take_snapshot
Snapshot == [b \in Known |->
                Cardinality({c \in Conns : conn[c].state = "Open" /\ conn[c].backend = b})]

\* The network: a handshake ends, or a peer or the path ends a connection. Nothing
\* has to happen.
Network(c) ==
    \/ /\ net[c].syn = "sent"
       /\ \E r \in {"ok", "err"} : net' = [net EXCEPT ![c].syn = r]
    \/ /\ net[c].syn = "ok" /\ net[c].ended = "no"
       /\ \E e \in {"eof", "rst", "timeout"} : net' = [net EXCEPT ![c].ended = e]

\* The event loop of conncheck-server: one reply, with the server's id, for the line of
\* the heartbeat. Which server that is, is the load balancer's choice.
ServerReplies(c) ==
    /\ net[c].hb /\ net[c].ended = "no"
    /\ \E b \in Backends : net' = [net EXCEPT ![c].hb = FALSE, ![c].replies = {b}]

Outside(c) ==
    /\ conn[c].state \in {"Connecting", "Open"} /\ pc # "done"
    /\ Network(c) \/ ServerReplies(c)
    /\ UNCHANGED <<clock, now, pc, todo, next_idx, conn, tally, start, end, answered, batch>>

\* Time passes anywhere; it is enough to let it pass before the clock is read.
Tick ==
    /\ clock < Duration /\ pc \in {"top", "wait"}
    /\ clock' = clock + 1
    /\ UNCHANGED <<now, pc, todo, next_idx, conn, net, tally, start, end, answered, batch>>

\* The next three: what becomes of connection record k and tally t.

\* fail_connect
FailConnect(k, t) ==
    [k |-> [k EXCEPT !.state = "ConnectFailed"],
     t |-> [t EXCEPT !.pending = IF k.state = "Connecting" THEN @ - 1 ELSE @, !.failed = @ + 1]]

\* Mistake: a connection that is broken already is counted again.
BreakConn_Again(k, t, cause) ==
    [k |-> [k EXCEPT !.state = "Broken"],
     t |-> [t EXCEPT !.broken[cause] = @ + 1, !.byBackend[k.backend] = @ + 1]]

\* break_conn
BreakConn(k, t, cause) ==
    IF k.state # "Open" THEN [k |-> k, t |-> t]
    ELSE [k |-> [k EXCEPT !.state = "Broken"],
          t |-> [t EXCEPT !.broken[cause] = @ + 1, !.byBackend[k.backend] = @ + 1]]

\* on_connected, without its heartbeat
Connected(k, t) ==
    [k |-> [k EXCEPT !.state = "Open", !.next = now],
     t |-> [t EXCEPT !.pending = @ - 1, !.established = @ + 1]]

\* Mistake: the first id is overwritten by a later one.
ConsumeLines_Last(k, t, replies) ==
    IF replies = {} \/ k.state # "Open" THEN [k |-> k, t |-> t]
    ELSE LET id == CHOOSE b \in replies : TRUE
             heard == [k EXCEPT !.sent = NoHb, !.next = now + Heartbeat, !.backend = id]
         IN [k |-> heard, t |-> t]

\* Mistake: a reply does not end the wait for it.
ConsumeLines_StillOut(k, t, replies) ==
    IF replies = {} \/ k.state # "Open" THEN [k |-> k, t |-> t]
    ELSE LET id == CHOOSE b \in replies : TRUE
             heard == [k EXCEPT !.next = now + Heartbeat]
         IN IF k.backend = Unknown THEN [k |-> [heard EXCEPT !.backend = id], t |-> t]
            ELSE IF id = k.backend THEN [k |-> heard, t |-> t]
            ELSE BreakConn(heard, t, "wrong_backend")

\* consume_lines: stop-and-wait, so there is at most one reply.
ConsumeLines(k, t, replies) ==
    IF replies = {} \/ k.state # "Open" THEN [k |-> k, t |-> t]
    ELSE LET id == CHOOSE b \in replies : TRUE
             heard == [k EXCEPT !.sent = NoHb, !.next = now + Heartbeat]
         IN IF k.backend = Unknown THEN [k |-> [heard EXCEPT !.backend = id], t |-> t]
            ELSE IF id = k.backend THEN [k |-> heard, t |-> t]
            ELSE BreakConn(heard, t, "wrong_backend")

\* send_heartbeat: the line goes out or is stuck in a full buffer (for the network, a
\* line that is not answered); on a connection that was reset or cannot be reached,
\* send fails.
SendHeartbeat(c, k, t) ==
    IF net[c].ended \in {"rst", "timeout"} THEN BreakConn(k, t, net[c].ended)
    ELSE [k |-> [k EXCEPT !.sent = now], t |-> t]

Set(c, r) == conn' = [conn EXCEPT ![c] = r.k] /\ tally' = r.t

\* The head of the loop, and what follows it.
Finish ==
    /\ start' = IF start = {} THEN {Snapshot} ELSE start
    /\ end' = {Snapshot} /\ pc' = "done"
Top ==
    /\ pc = "top"
    /\ now' = clock
    /\ \/ clock < Duration /\ pc' = "ramp" /\ UNCHANGED <<start, end>>
       \/ Finish   \* at the end, or on a signal
    /\ UNCHANGED <<clock, todo, next_idx, conn, net, tally, answered, batch>>

\* start_connect: it fails at once, is under way, or is through at once.
StartConnect ==
    /\ pc = "ramp" /\ next_idx < N
    /\ next_idx' = next_idx + 1
    /\ LET c == next_idx + 1
           k == [conn[c] EXCEPT !.state = "Connecting", !.began = now]
           t == [tally EXCEPT !.pending = @ + 1]
           through == Connected(k, t)
       IN \/ Set(c, FailConnect(conn[c], tally)) /\ UNCHANGED net
          \/ Set(c, [k |-> k, t |-> t]) /\ net' = [net EXCEPT ![c].syn = "sent"]
          \/ /\ Set(c, SendHeartbeat(c, through.k, through.t))
             /\ net' = [net EXCEPT ![c].syn = "ok", ![c].hb = TRUE]
    /\ UNCHANGED <<clock, now, pc, todo, start, end, answered, batch>>

\* Mistake: the snapshot does not wait for the first replies.
EndRamp_NoBackends ==
    /\ pc = "ramp"
    /\ start' = IF start = {} /\ next_idx = N /\ tally.pending = 0 THEN {Snapshot} ELSE start
    /\ pc' = "wait"
    /\ UNCHANGED <<clock, now, todo, next_idx, conn, net, tally, end, answered, batch>>

\* The batch is out. The first snapshot waits for every connect and every backend.
EndRamp ==
    /\ pc = "ramp"
    /\ start' = IF /\ start = {} /\ next_idx = N /\ tally.pending = 0
                   /\ \A c \in Conns : conn[c].state = "Open" => conn[c].backend # Unknown
                THEN {Snapshot} ELSE start
    /\ pc' = "wait"
    /\ UNCHANGED <<clock, now, todo, next_idx, conn, net, tally, end, answered, batch>>

\* epoll_wait returns MaxEvents of the ready connections, or all of them.
Ready(c) == \/ conn[c].state = "Connecting" /\ net[c].syn # "sent"
            \/ conn[c].state = "Open" /\ (net[c].replies # {} \/ net[c].ended # "no")
Wait ==
    /\ pc = "wait"
    /\ LET ready == {c \in Conns : Ready(c)}
       IN todo' \in kSubset(Min({MaxEvents, Cardinality(ready)}), ready)
    /\ answered' = {c \in Conns : conn[c].state = "Open" /\ net[c].replies # {}}
    /\ batch' = todo'
    /\ now' = clock /\ pc' = "events"
    /\ UNCHANGED <<clock, next_idx, conn, net, tally, start, end>>

\* handle_event, of one connection after the other (they have nothing in common but
\* counters, so one order stands for all): the handshake's result, then everything recv has, then its end.
HandleEvent(c) ==
    /\ pc = "events" /\ c \in todo /\ \A d \in todo : c <= d
    /\ todo' = todo \ {c}
    /\ IF conn[c].state = "Connecting" /\ net[c].syn = "err"
       THEN Set(c, FailConnect(conn[c], tally)) /\ UNCHANGED net
       ELSE LET new == conn[c].state = "Connecting"
                a == IF new THEN Connected(conn[c], tally) ELSE [k |-> conn[c], t |-> tally]
                b == IF new THEN SendHeartbeat(c, a.k, a.t) ELSE a
                r == ConsumeLines(b.k, b.t, net[c].replies)
            IN /\ Set(c, IF net[c].ended = "no" THEN r ELSE BreakConn(r.k, r.t, net[c].ended))
               /\ net' = [net EXCEPT ![c].replies = {}, ![c].ids = @ \cup net[c].replies,
                                     ![c].hb = new \/ @]
    /\ UNCHANGED <<clock, now, pc, next_idx, start, end, answered, batch>>

\* A scan is due every 5 ms, the longest that epoll_wait waits: less than a tick.
EventsDone ==
    /\ pc = "events" /\ todo = {}
    /\ pc' = "scan" /\ todo' = Conns
    /\ UNCHANGED <<clock, now, next_idx, conn, net, tally, start, end, answered, batch>>

\* scan, one connection.
Scan(c) ==
    /\ pc = "scan" /\ c \in todo /\ \A d \in todo : c <= d
    /\ todo' = todo \ {c}
    /\ pc' = IF todo = {c} THEN "top" ELSE "scan"
    /\ LET k == conn[c]
           send == k.state = "Open" /\ k.sent = NoHb /\ now >= k.next
       IN /\ Set(c, IF k.state = "Connecting" /\ now - k.began > ConnectTimeout THEN FailConnect(k, tally)
                    ELSE IF k.state = "Open" /\ k.sent # NoHb /\ now - k.sent > Timeout
                         THEN BreakConn(k, tally, "timeout")
                    ELSE IF send THEN SendHeartbeat(c, k, tally)
                    ELSE [k |-> k, t |-> tally])
          /\ net' = [net EXCEPT ![c].hb = send \/ @]
    /\ UNCHANGED <<clock, now, next_idx, start, end, answered, batch>>

CCInit ==
    /\ clock = 0 /\ now = 0 /\ pc = "top" /\ todo = {} /\ next_idx = 0
    /\ conn = [c \in Conns |-> Fresh] /\ net = [c \in Conns |-> Quiet]
    /\ tally = [pending |-> 0, established |-> 0, failed |-> 0, broken |-> [k \in Causes |-> 0],
                byBackend |-> [b \in Known |-> 0]]
    /\ start = {} /\ end = {} /\ answered = {} /\ batch = {}

CCNext ==
    \/ Tick \/ Top \/ StartConnect \/ EndRamp \/ Wait \/ EventsDone
    \/ \E c \in Conns : Outside(c) \/ HandleEvent(c) \/ Scan(c)

CCSpec == CCInit /\ [][CCNext]_ccvars

------------------------------------------------------------------------------
Conn == [state : {"Idle", "Connecting", "Open", "Broken", "ConnectFailed"}, backend : Known,
         sent : Int, next : Int, began : Int]
Net == [syn : {"none", "sent", "ok", "err"}, hb : BOOLEAN, replies : {{}} \cup {{b} : b \in Backends},
        ended : {"no", "eof", "rst", "timeout"}, ids : SUBSET Backends]
Tally == [pending : Int, established : Int, failed : Int, broken : [Causes -> Int],
          byBackend : [Known -> Int]]

\* The client's records and counters have their types; a snapshot counts by backend
\* (conncheck.cpp:61-71, 496-510).
CCTypeOK ==
    /\ clock \in Nat /\ now \in Nat /\ todo \subseteq Conns /\ next_idx \in 0 .. N
    /\ conn \in [Conns -> Conn] /\ net \in [Conns -> Net]
    /\ tally \in Tally
    /\ start \subseteq [Known -> Nat] /\ end \subseteq [Known -> Nat] 
    /\ answered \subseteq Conns /\ batch \subseteq Conns

\* The books balance in every state: each connection is counted once, in the state
\* it is in, broken ones by cause and by backend alike, so that survived = established
\* - broken in the report (conncheck.cpp:245-281, 426-432).
Ledger ==
    /\ tally.pending = Count("Connecting") /\ tally.failed = Count("ConnectFailed")
    /\ tally.established = Count("Open") + Count("Broken") /\ BrokenTotal = Count("Broken")
    /\ \A b \in Known :
          tally.byBackend[b] = Cardinality({c \in Conns : conn[c].state = "Broken" /\ conn[c].backend = b})

\* "a heartbeat is answered by a different id than the first" (conncheck.cpp:17): the
\* connections that read two ids are the ones counted as wrong_backend, also when the
\* reply comes with the end of the connection.
WrongBackendsCounted ==
    tally.broken["wrong_backend"] = Cardinality({c \in Conns : Cardinality(net[c].ids) > 1})

\* backends_at_end is what is left of backends_at_start: no connection turns up under
\* a backend after the snapshot (conncheck.cpp:177-186, 207-208).
EndWithinStart ==
    \A s \in start, e \in end : \A b \in Known : e[b] <= s[b]

\* The scan gives up on c: it counts a timeout.
TimesOut(c) == pc = "scan" /\ conn[c].state = "Open" /\ conn[c].sent # NoHb /\ conn'[c].state = "Broken"

\* "a heartbeat stays unanswered for --timeout-ms" (conncheck.cpp:15), to the letter: the
\* scan counts no timeout for a connection whose answer could be read when epoll_wait
\* returned.
TimeoutIsReal == [][\A c \in Conns : TimesOut(c) => c \notin answered]_ccvars

\* What the loop does keep of it, for any number of connections: an answer that was there
\* in time is counted as a timeout only if the array of epoll_wait was full and the
\* connection was not in it (conncheck.cpp:161, 188-205).
TimeoutOnlyLeftOut ==
    [][\A c \in Conns : TimesOut(c) /\ c \in answered =>
          c \notin batch /\ Cardinality(batch) = MaxEvents]_ccvars

------------------------------------------------------------------------------
\* Why they hold. The ids a connection has read are its backend's, or it is broken
\* and has read two; and before it is open it has read and asked for nothing.
Heard(c) ==
    /\ \/ net[c].ids = {conn[c].backend} \ {Unknown}
       \/ conn[c].state = "Broken" /\ \E a, b \in Backends : a # b /\ net[c].ids = {a, b}
    /\ conn[c].state \in {"Idle", "Connecting", "ConnectFailed"} =>
          conn[c].backend = Unknown /\ ~net[c].hb /\ net[c].replies = {}

\* The loop: connections are started in order, and the events are of connections that
\* are under way.
LoopOK ==
    \A c \in Conns : /\ c > next_idx => conn[c].state = "Idle"
                     /\ pc = "events" /\ c \in todo => conn[c].state \in {"Connecting", "Open"}

\* Once the first snapshot is taken, no connection can turn up any more, and the last
\* one is taken of the last state.
Settled ==
    /\ start # {} /\ pc # "done" =>
          /\ next_idx = N
          /\ \A c \in Conns : /\ conn[c].state # "Connecting"
                              /\ conn[c].state = "Open" => conn[c].backend # Unknown
    /\ \A s \in start : \A b \in Known : Snapshot[b] <= s[b]
    /\ end # {} => pc = "done" /\ end = {Snapshot}

\* The inductive invariant.
CCInv == CCTypeOK /\ Ledger /\ WrongBackendsCounted /\ LoopOK /\ Settled /\ \A c \in Conns : Heard(c)

\* A reply that epoll_wait reported has been read when the scan gets to its connection,
\* and epoll_wait leaves one out only for want of room.
AnswersRead ==
    \A c \in answered :
        /\ conn[c].state \in {"Open", "Broken"}
        /\ c \notin batch => Cardinality(batch) = MaxEvents
        /\ c \in batch /\ conn[c].state = "Open" =>
              /\ pc = "events" /\ conn[c].sent # NoHb => c \in todo /\ net[c].replies # {}
              /\ pc = "scan" /\ c \in todo => conn[c].sent = NoHb
==============================================================================
