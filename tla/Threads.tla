------------------------------- MODULE Threads --------------------------------
(***************************************************************************)
(* The threads of one daemon and the objects they share: Daemon::run and   *)
(* ~Daemon on the main thread (daemon.cpp), the two workers                *)
(* (PeriodicThread), the API's session threads with the hooks a command    *)
(* calls, and the single metrics thread with its scrapers                  *)
(* (metrics_server.cpp) and the walk of the connection table a scrape      *)
(* makes (map_reader.cpp) while the data plane inserts and evicts.         *)
(* What a session does to its sockets is ApiServer; what a command or a    *)
(* step does to the maps is LbState.                                       *)
(***************************************************************************)
EXTENDS PeriodicThread, Sequences, FiniteSets, FiniteSetsExt

CONSTANTS
    Sessions,     \* API connections that may be open
    Scrapers,     \* clients of the metrics port
    Prompt,       \* those that send the whole request and read the answer
    MaxIo,        \* recv or send calls that move part of a message (8192 bytes of request)
    Keys,         \* keys of the connection table, in the order of the kernel's walk
    MaxEntries    \* ct_max_entries_

ASSUME ThreadsAssumption ==
    /\ Workers = {"neighbors", "health"}
    /\ Prompt \subseteq Scrapers
    /\ Keys \subseteq Nat \ {0}
    /\ MaxEntries \in Nat \ {0}
    /\ MaxIo \in Nat \ {0}

VARIABLES
    at,        \* where the main thread is in RunPlan
    alive,     \* members of Daemon not yet destroyed
    signal,    \* *stop
    enabled,   \* config_.health.enabled
    api,       \* ApiServer: "off", "up", "stopping", "shut" or "down"
    sess,      \* session -> what its thread is in: "idle" (recv), "cmd", "params",
               \*            "assign" or "wake"
    met,       \* the metrics thread: [pc, peer: whom it serves, io: partial calls,
               \*                      key, n: the walk]
    mstop,     \* MetricsServer::stopping_
    backlog,   \* connections not yet accepted
    peers,     \* scraper -> "away", "queued", "talking", or "answered" if it reads
    table      \* keys of the connection table, during a walk

apivars == <<api, sess>>
metvars == <<met, mstop, backlog, peers, table>>
vars == <<pt, at, alive, signal, enabled, apivars, metvars>>

------------------------------------------------------------------------------
(* The main thread.                                                         *)

\* The members of Daemon that own something.
Members == {"loader", "reader", "state", "neighbors", "health", "commands", "api", "metrics"}

\* Mistake: the API server is declared ahead of the objects its commands use.
Unwind_ApiFirst ==
    << <<"stop", "metrics">>, <<"join", "metrics">>, <<"destroy", "metrics">>,
       <<"destroy", "commands">>,
       <<"stop", "health">>, <<"join", "health">>, <<"destroy", "health">>,
       <<"stop", "neighbors">>, <<"join", "neighbors">>, <<"destroy", "neighbors">>,
       <<"stop", "api">>, <<"shut", "api">>, <<"join", "api">>, <<"destroy", "api">>,
       <<"destroy", "state">>, <<"destroy", "reader">>, <<"destroy", "loader">> >>

\* ~Daemon: the members die in the reverse of the order they are declared in, and
\* every destructor stops its own thread first.
Unwind ==
    << <<"stop", "metrics">>, <<"join", "metrics">>, <<"destroy", "metrics">>,
       <<"stop", "api">>, <<"shut", "api">>, <<"join", "api">>, <<"destroy", "api">>,
       <<"destroy", "commands">>,
       <<"stop", "health">>, <<"join", "health">>, <<"destroy", "health">>,
       <<"stop", "neighbors">>, <<"join", "neighbors">>, <<"destroy", "neighbors">>,
       <<"destroy", "state">>, <<"destroy", "reader">>, <<"destroy", "loader">> >>

\* The body of run().
Run ==
    << <<"start", "neighbors">>, <<"start", "health">>, <<"start", "api">>, <<"start", "metrics">>,
       <<"log", "config">>, <<"wait", "signal">>,
       <<"stop", "metrics">>, <<"join", "metrics">>,
       <<"stop", "api">>, <<"shut", "api">>, <<"join", "api">>,
       <<"stop", "health">>, <<"join", "health">>, <<"stop", "neighbors">>, <<"join", "neighbors">> >>

\* run(), and the end of main().
RunPlan == Run \o Unwind

At(op, c) == at <= Len(RunPlan) /\ RunPlan[at] = <<op, c>>
Done == at' = at + 1

StartWorker(w) ==
    /\ At("start", w)
    /\ Done
    /\ IF w = "health" /\ ~enabled THEN UNCHANGED pt ELSE start(w)
    /\ UNCHANGED <<alive, signal, enabled, apivars, metvars>>

\* start() throws before it has made a thread; the exception leaves run() and
\* main destroys the daemon.
StartFails(c) ==
    /\ c \in {"api", "metrics"}
    /\ At("start", c)
    /\ at' = Len(Run) + 1
    /\ UNCHANGED <<pt, alive, signal, enabled, apivars, metvars>>

StartApi ==
    /\ At("start", "api")
    /\ Done
    /\ api' = "up"
    /\ UNCHANGED <<pt, alive, signal, enabled, sess, metvars>>

StartMetrics ==
    /\ At("start", "metrics")
    /\ Done
    /\ met' = [met EXCEPT !.pc = "loop"]
    /\ UNCHANGED <<pt, alive, signal, enabled, apivars, mstop, backlog, peers, table>>

\* The line that says what is running reads config_ without config_mu_.
LogConfig ==
    /\ At("log", "config")
    /\ Done
    /\ UNCHANGED <<pt, alive, signal, enabled, apivars, metvars>>

WaitSignal ==
    /\ At("wait", "signal")
    /\ signal
    /\ Done
    /\ UNCHANGED <<pt, alive, signal, enabled, apivars, metvars>>

StopWorker(w) ==
    /\ At("stop", w)
    /\ Done
    /\ stop(w)
    /\ UNCHANGED <<alive, signal, enabled, apivars, metvars>>

StopMetrics ==
    /\ At("stop", "metrics")
    /\ Done
    /\ mstop' = TRUE
    /\ UNCHANGED <<pt, alive, signal, enabled, apivars, met, backlog, peers, table>>

\* ApiServer::stop: the flag and the acceptor's join, then shutdown() on every
\* connection; a second call finds nothing to do.
StopApi ==
    /\ \/ At("stop", "api") /\ api' = IF api = "up" THEN "stopping" ELSE api
       \/ At("shut", "api") /\ api' = IF api = "stopping" THEN "shut" ELSE api
    /\ Done
    /\ UNCHANGED <<pt, alive, signal, enabled, sess, metvars>>

\* join() on a thread that was started; on every session thread for the API.
Join(c) ==
    /\ At("join", c)
    /\ c \in Workers => Joined(c)
    /\ c = "metrics" => met.pc \in {"none", "gone"}
    /\ c = "api" => \A s \in Sessions : sess[s] = "idle"
    /\ Done
    /\ api' = IF c = "api" THEN "down" ELSE api
    /\ UNCHANGED <<pt, alive, signal, enabled, sess, metvars>>

Destroy(c) ==
    /\ At("destroy", c)
    /\ Done
    /\ alive' = alive \ {c}
    /\ UNCHANGED <<pt, signal, enabled, apivars, metvars>>

Main ==
    \/ \E w \in Workers : StartWorker(w) \/ StopWorker(w)
    \/ \E c \in {"api", "metrics"} : StartFails(c)
    \/ StartApi \/ StartMetrics \/ LogConfig \/ WaitSignal \/ StopMetrics \/ StopApi
    \/ \E c \in Members : Join(c) \/ Destroy(c)

\* SIGTERM or SIGINT, at any time.
Signal ==
    /\ ~signal
    /\ signal' = TRUE
    /\ UNCHANGED <<pt, at, alive, enabled, apivars, metvars>>

------------------------------------------------------------------------------
(* The API's sessions.                                                      *)

\* A line arrives on a connection that is not shut down.
Request(s) ==
    /\ api \in {"up", "stopping"}
    /\ sess[s] = "idle"
    /\ sess' = [sess EXCEPT ![s] = "cmd"]
    /\ UNCHANGED <<pt, at, alive, signal, enabled, api, metvars>>

\* The command ends with its answer or an error, real.add goes on to the hook
\* reals_changed, and reload to set_params, the assignment of config_ and the hook.
\* config_mu_ keeps a second reload waiting.
Handle(s) ==
    /\ \E q \in CASE sess[s] = "cmd"    -> {"idle", "wake"} \cup
                        IF \E r \in Sessions : sess[r] \in {"params", "assign"} THEN {} ELSE {"params"}
                  [] sess[s] = "params" -> {"assign"}
                  [] sess[s] = "assign" -> {"wake"}
                  [] OTHER              -> {} :
        sess' = [sess EXCEPT ![s] = q]
    /\ UNCHANGED <<pt, at, alive, signal, enabled, api, metvars>>

RealsChanged(s) ==
    /\ sess[s] = "wake"
    /\ sess' = [sess EXCEPT ![s] = "idle"]
    /\ wake("neighbors")
    /\ UNCHANGED <<at, alive, signal, enabled, api, metvars>>

Session(s) == Handle(s) \/ RealsChanged(s)

------------------------------------------------------------------------------
(* The metrics thread.                                                      *)

Connect(p) ==
    /\ met.pc \notin {"none", "gone"}
    /\ peers[p] \in {"away", "answered"}
    /\ backlog' = Append(backlog, p)
    /\ peers' = [peers EXCEPT ![p] = "queued"]
    /\ UNCHANGED <<pt, at, alive, signal, enabled, apivars, met, mstop, table>>

\* loop(): the flag, then poll with its timeout of 200 ms, then accept.
Loop ==
    /\ met.pc = "loop"
    /\ met' = [met EXCEPT !.pc = IF mstop THEN "gone" ELSE "poll"]
    /\ UNCHANGED <<pt, at, alive, signal, enabled, apivars, mstop, backlog, peers, table>>

Poll ==
    /\ met.pc = "poll"
    /\ IF backlog = <<>>
       THEN met' = [met EXCEPT !.pc = "loop"] /\ UNCHANGED <<backlog, peers>>
       ELSE /\ met' = [met EXCEPT !.pc = "recv", !.peer = Head(backlog), !.io = 0]
            /\ backlog' = Tail(backlog)
            /\ peers' = [peers EXCEPT ![Head(backlog)] = "talking"]
    /\ UNCHANGED <<pt, at, alive, signal, enabled, apivars, mstop, table>>

\* recv until the blank line, too many bytes, the timeout or the end of the stream;
\* whatever has come decides between render_() and a 404.
Recv ==
    /\ met.pc = "recv"
    /\ \/ met' = [met EXCEPT !.pc = "render", !.io = 0]
       \/ met.peer \notin Prompt /\ met' = [met EXCEPT !.pc = "send", !.io = 0]
       \/ met.peer \notin Prompt /\ met.io < MaxIo /\ met' = [met EXCEPT !.io = @ + 1]
    /\ UNCHANGED <<pt, at, alive, signal, enabled, apivars, mstop, backlog, peers, table>>

\* render_metrics: the snapshot and the counters, then the walk. A failed read of
\* a map throws and becomes a 500.
Render ==
    /\ met.pc = "render"
    /\ \/ /\ met' = [met EXCEPT !.pc = "walk", !.key = 0, !.n = 0]
          /\ table' \in {t \in SUBSET Keys : Cardinality(t) <= MaxEntries}
       \/ met' = [met EXCEPT !.pc = "send"] /\ UNCHANGED table
    /\ UNCHANGED <<pt, at, alive, signal, enabled, apivars, mstop, backlog, peers>>

\* bpf_map_get_next_key: after a key that is gone the kernel starts again.
NextKeys(k) == LET after == {x \in table : x > k} IN IF k \in table THEN after ELSE table

\* Mistake: only the end of the table ends the walk.
Walk_Unbounded ==
    /\ met.pc = "walk"
    /\ IF NextKeys(met.key) # {}
       THEN /\ met' = [met EXCEPT !.key = Min(NextKeys(met.key))]
            /\ UNCHANGED table
       ELSE /\ met' = [met EXCEPT !.pc = "send", !.key = 0, !.n = 0]
            /\ table' = {}
    /\ UNCHANGED <<pt, at, alive, signal, enabled, apivars, mstop, backlog, peers>>

\* conntrack_entries().
Walk ==
    /\ met.pc = "walk"
    /\ IF met.n <= MaxEntries /\ NextKeys(met.key) # {}
       THEN /\ met' = [met EXCEPT !.key = Min(NextKeys(met.key)), !.n = @ + 1]
            /\ UNCHANGED table
       ELSE /\ met' = [met EXCEPT !.pc = "send", !.key = 0, !.n = 0]
            /\ table' = {}
    /\ UNCHANGED <<pt, at, alive, signal, enabled, apivars, mstop, backlog, peers>>

\* The answer in one or more pieces; the timeout or a closed connection drops it.
Send ==
    /\ met.pc = "send"
    /\ \/ /\ met.io < MaxIo
          /\ met' = [met EXCEPT !.io = @ + 1]
          /\ UNCHANGED peers
       \/ /\ met' = [met EXCEPT !.pc = "loop", !.peer = "nobody", !.io = 0]
          /\ peers' = [peers EXCEPT ![met.peer] = IF met.peer \in Prompt THEN "answered" ELSE "away"]
    /\ UNCHANGED <<pt, at, alive, signal, enabled, apivars, mstop, backlog, table>>

Metrics == Loop \/ Poll \/ Recv \/ Render \/ Walk \/ Send

\* The data plane inserts a flow, or the LRU evicts one, under the walk.
Flow(k) ==
    /\ met.pc = "walk"
    /\ \/ k \in table /\ table' = table \ {k}
       \/ k \notin table /\ Cardinality(table) < MaxEntries /\ table' = table \cup {k}
    /\ UNCHANGED <<pt, at, alive, signal, enabled, apivars, met, mstop, backlog, peers>>

------------------------------------------------------------------------------
Worker(w) == PTThread(w) /\ UNCHANGED <<at, alive, signal, enabled, apivars, metvars>>
Pause(w) == Timeout(w) /\ UNCHANGED <<at, alive, signal, enabled, apivars, metvars>>

ThInit ==
    /\ PTInit
    /\ at = 1
    /\ alive = Members
    /\ signal = FALSE
    /\ enabled \in BOOLEAN
    /\ api = "off"
    /\ sess = [s \in Sessions |-> "idle"]
    /\ met = [pc |-> "none", peer |-> "nobody", io |-> 0, key |-> 0, n |-> 0]
    /\ mstop = FALSE
    /\ backlog = <<>>
    /\ peers = [p \in Scrapers |-> "away"]
    /\ table = {}

\* main() has returned.
Ended == at > Len(RunPlan)
Exited == Ended /\ UNCHANGED vars

ThNext ==
    \/ Main \/ Signal \/ Metrics \/ Exited
    \/ \E w \in Workers : Worker(w) \/ Pause(w)
    \/ \E s \in Sessions : Request(s) \/ Session(s)
    \/ \E p \in Scrapers : Connect(p)
    \/ \E k \in Keys : Flow(k)

\* Every thread keeps running: a probe, a command and a write to a map end, and
\* poll, recv and send return by their timeouts. Nothing is assumed of clients, of
\* the data plane, of the pause between two steps or of the signal.
ThFairness ==
    /\ WF_vars(Main) /\ WF_vars(Metrics)
    /\ \A w \in Workers : WF_vars(Worker(w))
    /\ \A s \in Sessions : WF_vars(Session(s))

ThSpec == ThInit /\ [][ThNext]_vars /\ ThFairness

------------------------------------------------------------------------------
(* Properties                                                               *)

\* The objects each thread is using.
WorkerUses(w) ==
    CASE pt[w].pc \in {"none", "gone"} -> {}
      [] pt[w].pc = "step"             -> {w, "state"}
      [] OTHER                         -> {w}
SessionUses(s) ==
    (IF api \in {"up", "stopping", "shut"} \/ sess[s] # "idle" THEN {"api"} ELSE {}) \cup
    CASE sess[s] = "idle"   -> {}
      [] sess[s] = "cmd"    -> {"commands", "state", "reader"}
      [] sess[s] = "params" -> {"commands", "health"}
      [] sess[s] = "assign" -> {"commands"}
      [] sess[s] = "wake"   -> {"commands", "neighbors"}
MetricsUses ==
    CASE met.pc \in {"none", "gone"}   -> {}
      [] met.pc \in {"render", "walk"} -> {"metrics", "state", "reader", "loader"}
      [] OTHER                         -> {"metrics"}

\* "destruction (reverse order) stops the threads before the state and maps they use
\* go away" (daemon.h:13): no thread is ever inside an object that is destroyed, also
\* when the API is already serving and the metrics port cannot be bound, so that the
\* destructors run without the stops of run().
NothingUsedAfterItsEnd ==
    /\ \A w \in Workers : WorkerUses(w) \subseteq alive
    /\ \A s \in Sessions : SessionUses(s) \subseteq alive
    /\ MetricsUses \subseteq alive

\* After the signal the daemon ends, whatever its threads were doing: sleeping,
\* between the test and the sleep, in a command that wakes a worker, serving a slow
\* client, or walking a table that changes under the walk.
ShutdownCompletes == signal ~> Ended

\* "A slow or silent client must not wedge the only metrics thread"
\* (metrics_server.cpp:64), and "bounding it by max_entries keeps it finite"
\* (map_reader.cpp:66): a scraper that asks and reads is answered, however the other
\* clients and the connection table behave, unless the server stops first.
ScrapeAnswered == \A p \in Prompt : peers[p] = "queued" ~> peers[p] = "answered" \/ mstop

\* The main thread does not read config_ while a reload assigns it: the two are
\* never both about to touch it.
ConfigReadAlone == ~(At("log", "config") /\ \E s \in Sessions : sess[s] = "assign")

------------------------------------------------------------------------------
\* The threads' states have their types (daemon.h:48-58, metrics_server.h,
\* periodic_thread.h).
ThTypeOK ==
    /\ at \in 1 .. Len(RunPlan) + 1 /\ alive \subseteq Members
    /\ signal \in BOOLEAN /\ enabled \in BOOLEAN /\ mstop \in BOOLEAN
    /\ pt \in [Workers -> [pc : {"none", "top", "step", "check", "sleep", "gone"},
                           stopping : BOOLEAN, woken : BOOLEAN, unseen : BOOLEAN]]
    /\ api \in {"off", "up", "stopping", "shut", "down"}
    /\ sess \in [Sessions -> {"idle", "cmd", "params", "assign", "wake"}]
    /\ met \in [pc : {"none", "loop", "poll", "recv", "render", "walk", "send", "gone"},
                peer : Scrapers \cup {"nobody"}, io : Nat, key : Nat, n : Nat]
    /\ backlog \in Seq(Scrapers) /\ table \subseteq Keys
    /\ peers \in [Scrapers -> {"away", "queued", "talking", "answered"}]

\* Where the main thread destroys an object.
Dies(c) == CHOOSE i \in 1 .. Len(RunPlan) : RunPlan[i] = <<"destroy", c>>

\* Why nothing is used after its end: what is alive is what is still to be destroyed,
\* and when the main thread gets to an object, the threads that run in it are over.
ThInv ==
    /\ ThTypeOK
    /\ alive = {c \in Members : at <= Dies(c)}
    /\ at >= Dies("metrics") => met.pc \in {"none", "gone"}
    /\ at >= Dies("api") => api = "down" /\ \A s \in Sessions : sess[s] = "idle"
    /\ \A w \in Workers : at >= Dies(w) => pt[w].pc \in {"none", "gone"}
==============================================================================
