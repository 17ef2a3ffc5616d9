------------------------------- MODULE Daemon --------------------------------
(***************************************************************************)
(* The life of daemon processes and what they leave in the kernel: the     *)
(* pinned maps, the XDP program on the interface, and the API socket file. *)
(* Loader (loader.cpp), the start and stop of ApiServer (api_server.cpp),  *)
(* and Daemon's constructor and run (daemon.cpp), one system call a step,  *)
(* so that a process can die between any two of them.                      *)
(*                                                                         *)
(* What apply writes into the maps is LbState's business; here a set of    *)
(* maps is either filled by some daemon or still empty.                    *)
(***************************************************************************)
EXTENDS Naturals, FiniteSets, FiniteSetsExt

CONSTANTS Procs,     \* the processes, in the order 1, 2, ... they are started
          Commands,  \* the command lines: [mode, size, recreate, detach]
          Exclusive, \* TRUE: a service manager starts one process after another
          Faults     \* how many system calls fail for no reason of the model's

ASSUME DaemonAssumption ==
    /\ Procs = 1 .. Cardinality(Procs) /\ Cardinality(Procs) \in Nat
    /\ Commands # {}
    /\ Commands \subseteq [mode : {"auto", "native", "generic"}, size : Nat,
                           recreate : BOOLEAN, detach : BOOLEAN]
    /\ Exclusive \in BOOLEAN /\ Faults \in Nat

VARIABLES pins,   \* map name -> the map object pinned there, 0 if none
          shape,  \* the map objects made so far -> their max_entries
          xdp,    \* the program on the interface, or NoProg
          sock,   \* the process whose socket file is at the path, 0 if none
          proc,   \* the processes
          filled, \* the "state" maps some daemon has applied a configuration to
          asked,  \* history: the modes and options the commands so far named
          table,  \* history: the connection table that was last in force, 0 at first
          faults  \* system calls that failed so far

dvars == <<pins, shape, xdp, sock, proc, filled, asked, table, faults>>

\* conntrack, and the seven maps whose parameters no option changes.
Maps == {"conntrack", "state"}
Modes == {"native", "generic"}
NoProg == [mode |-> "none"]
NoFds == [m \in Maps |-> 0]
Off == [pc |-> "off", todo |-> {}, cmd |-> CHOOSE c \in Commands : TRUE, fds |-> NoFds,
        reused |-> {}, made |-> {}, first |-> "none", mode |-> "none", was |-> 0, listening |-> FALSE]

Up(p) == proc[p].pc \notin {"off", "gone", "refused"}
Wanted(p, m) == IF m = "conntrack" THEN proc[p].cmd.size ELSE 0
Other(mode) == IF mode = "native" THEN "generic" ELSE "native"
Goto(p, label, first) == proc' = [proc EXCEPT ![p].pc = label, ![p].first = first]

\* The process is no more: nothing of it matters but how it ended.
End(p, label) == proc' = [proc EXCEPT ![p] = [Off EXCEPT !.pc = label]]

\* The kernel may refuse a call.
Fault == faults < Faults /\ faults' = faults + 1

\* An exception leaves Daemon: ~ApiServer runs stop(), which unlinks the path if
\* the process had got as far as making a socket. The program stays attached.
Fail(p, label) ==
    /\ End(p, label)
    /\ sock' = IF proc[p].pc \in {"bind", "listen", "metrics"} THEN 0 ELSE sock

\* main and the first lines of the constructor. Under a service manager the
\* process before has ended.
Start(p) ==
    /\ proc[p].pc = "off"
    /\ \A q \in Procs : q < p => proc[q].pc # "off" /\ (Exclusive => ~Up(q))
    /\ \E c \in Commands :
          /\ proc' = [proc EXCEPT ![p] = [Off EXCEPT !.pc = "check", !.todo = Maps, !.cmd = c]]
          /\ asked' = asked \cup {c.mode} \cup (IF c.recreate \/ c.detach THEN {"maps"} ELSE {})
    /\ UNCHANGED <<pins, shape, xdp, sock, filled, table, faults>>

\* Mistake: a map that differs is unpinned without --recreate-maps.
CheckMap_Silent(p, m) ==
    /\ proc[p].pc = "check" /\ m \in proc[p].todo
    /\ LET fits == pins[m] # 0 /\ shape[pins[m]] = Wanted(p, m)
           differs == pins[m] # 0 /\ ~fits
       IN /\ pins' = IF differs THEN [pins EXCEPT ![m] = 0] ELSE pins
          /\ proc' = [proc EXCEPT ![p].todo = @ \ {m},
                                  ![p].reused = IF fits THEN @ \cup {m} ELSE @,
                                  ![p].pc = IF proc[p].todo = {m} THEN "load" ELSE "check"]
          /\ UNCHANGED sock
    /\ UNCHANGED <<shape, xdp, filled, asked, table, faults>>

\* check_pinned_maps, one map: a map that is not pinned or fits is left alone, one
\* that differs ends the start or, with --recreate-maps, is unpinned.
CheckMap(p, m) ==
    /\ proc[p].pc = "check" /\ m \in proc[p].todo
    /\ LET fits == pins[m] # 0 /\ shape[pins[m]] = Wanted(p, m)
           differs == pins[m] # 0 /\ ~fits
       IN \/ differs /\ ~proc[p].cmd.recreate /\ Fail(p, "gone") /\ UNCHANGED pins
          \/ /\ differs => proc[p].cmd.recreate
             /\ pins' = IF differs THEN [pins EXCEPT ![m] = 0] ELSE pins
             /\ proc' = [proc EXCEPT ![p].todo = @ \ {m},
                                     ![p].reused = IF fits THEN @ \cup {m} ELSE @,
                                     ![p].pc = IF proc[p].todo = {m} THEN "load" ELSE "check"]
             /\ UNCHANGED sock
    /\ UNCHANGED <<shape, xdp, filled, asked, table, faults>>

\* libbpf, as packetbalance_bpf__load is used: a pinned map is opened, a missing one
\* is made and pinned. todo is empty here: the maps still to open have no fd.
LoadMap(p, m) ==
    /\ proc[p].pc = "load" /\ proc[p].fds[m] = 0
    /\ LET o == IF pins[m] # 0 THEN pins[m] ELSE Cardinality(DOMAIN shape) + 1
           fds == [proc[p].fds EXCEPT ![m] = o]
       IN /\ o \in DOMAIN shape => shape[o] = Wanted(p, m)
          /\ pins' = [pins EXCEPT ![m] = o]
          /\ shape' = [i \in DOMAIN shape \cup {o} |->
                          IF i \in DOMAIN shape THEN shape[i] ELSE Wanted(p, m)]
          /\ proc' = [proc EXCEPT ![p].fds = fds,
                                  ![p].made = IF pins[m] = 0 THEN @ \cup {m} ELSE @,
                                  ![p].pc = IF \E n \in Maps : fds[n] = 0 THEN "load" ELSE "attach"]
    /\ UNCHANGED <<xdp, sock, filled, asked, table, faults>>

\* The load fails: the verifier refuses, or a pinned map does not fit after all.
\* libbpf unpins the maps that this load pinned.
LoadFails(p) ==
    /\ proc[p].pc = "load"
    /\ IF \E m \in Maps : pins[m] # 0 /\ shape[pins[m]] # Wanted(p, m)
       THEN UNCHANGED faults ELSE Fault
    /\ pins' = [m \in Maps |-> IF m \in proc[p].made THEN 0 ELSE pins[m]]
    /\ Fail(p, "gone")
    /\ UNCHANGED <<shape, xdp, filled, asked, table>>

\* Mistake: auto always means native first, whatever is attached.
Choose_NativeFirst(p) ==
    /\ proc[p].pc = "attach"
    /\ LET mode == proc[p].cmd.mode
           first == IF mode = "generic" THEN "generic" ELSE "native"
       IN Goto(p, IF xdp.mode \notin {"none", first} THEN "switch" ELSE "try", first)
    /\ UNCHANGED <<pins, shape, xdp, sock, filled, asked, table, faults>>

\* attach() up to the detach: query the interface (a failed query means nothing is
\* attached), in auto mode keep the mode that is there, else switch to the mode that
\* was asked for.
Choose(p) ==
    /\ proc[p].pc = "attach"
    /\ \E seen \in {xdp.mode, "none"} :
          /\ IF seen = xdp.mode THEN UNCHANGED faults ELSE Fault
          /\ LET mode == proc[p].cmd.mode
                 wish == IF mode = "generic" THEN "generic" ELSE "native"
                 first == IF mode = "auto" /\ seen # "none" THEN seen ELSE wish
             IN Goto(p, IF seen \notin {"none", first} THEN "switch" ELSE "try", first)
    /\ UNCHANGED <<pins, shape, xdp, sock, filled, asked, table>>

\* The detach before a switch of modes; its error is ignored.
SwitchOff(p) ==
    /\ proc[p].pc = "switch"
    /\ \/ xdp' = NoProg /\ UNCHANGED faults
       \/ UNCHANGED xdp /\ Fault
    /\ Goto(p, "try", proc[p].first)
    /\ UNCHANGED <<pins, shape, sock, filled, asked, table>>

\* Mistake: the result of the last attempt is not looked at.
TryAttach_Ignored(p) ==
    /\ proc[p].pc \in {"try", "retry"}
    /\ LET mode == IF proc[p].pc = "try" THEN proc[p].first ELSE Other(proc[p].first)
           ok == xdp.mode \in {"none", mode}
       IN /\ xdp' = IF ok THEN [mode |-> mode, maps |-> proc[p].fds, by |-> p] ELSE xdp
          /\ table' = IF ok THEN proc[p].fds["conntrack"] ELSE table
          /\ proc' = [proc EXCEPT ![p].pc = "apply", ![p].mode = mode, ![p].was = table]
    /\ UNCHANGED <<pins, shape, sock, filled, asked, faults>>

\* try_attach, of the first mode and in auto mode of the other one: the kernel swaps
\* the program in one step, and holds no program of the other mode beside it.
TryAttach(p) ==
    /\ proc[p].pc \in {"try", "retry"}
    /\ LET mode == IF proc[p].pc = "try" THEN proc[p].first ELSE Other(proc[p].first)
           ok == xdp.mode \in {"none", mode}
       IN \/ /\ ok
             /\ xdp' = [mode |-> mode, maps |-> proc[p].fds, by |-> p]
             /\ table' = proc[p].fds["conntrack"]
             /\ proc' = [proc EXCEPT ![p].pc = "apply", ![p].mode = mode, ![p].was = table]
             /\ UNCHANGED <<sock, faults>>
          \/ /\ IF ok THEN Fault ELSE UNCHANGED faults
             /\ IF proc[p].pc = "try" /\ proc[p].cmd.mode = "auto"
                THEN Goto(p, "retry", proc[p].first) /\ UNCHANGED sock
                ELSE Fail(p, "gone")
             /\ UNCHANGED <<xdp, table>>
    /\ UNCHANGED <<pins, shape, filled, asked>>

\* LbState::apply, by LbState.tla; it can throw.
Apply(p) ==
    /\ proc[p].pc = "apply"
    /\ \/ /\ filled' = filled \cup {proc[p].fds["state"]}
          /\ proc' = [proc EXCEPT ![p].pc = "live"]
          /\ UNCHANGED <<sock, faults>>
       \/ Fault /\ Fail(p, "gone") /\ UNCHANGED filled
    /\ UNCHANGED <<pins, shape, xdp, asked, table>>

\* Mistake: any file at the path counts as a live daemon.
CheckLive_AnyFile(p) ==
    /\ proc[p].pc = "live"
    /\ IF sock # 0 THEN Fail(p, "refused")
                   ELSE proc' = [proc EXCEPT ![p].pc = "unlink"] /\ UNCHANGED sock
    /\ UNCHANGED <<pins, shape, xdp, filled, asked, table, faults>>

\* ApiServer::start: refuse if a connect to the path succeeds.
CheckLive(p) ==
    /\ proc[p].pc = "live"
    /\ IF sock # 0 /\ proc[sock].listening
       THEN Fail(p, "refused")
       ELSE proc' = [proc EXCEPT ![p].pc = "unlink"] /\ UNCHANGED sock
    /\ UNCHANGED <<pins, shape, xdp, filled, asked, table, faults>>

\* The stale file of a previous run goes, whoever it belongs to by now.
UnlinkStale(p) ==
    /\ proc[p].pc = "unlink"
    /\ sock' = 0
    /\ proc' = [proc EXCEPT ![p].pc = "bind"]
    /\ UNCHANGED <<pins, shape, xdp, filled, asked, table, faults>>

\* bind fails on a path that exists.
Bind(p) ==
    /\ proc[p].pc = "bind"
    /\ \/ sock = 0 /\ sock' = p /\ proc' = [proc EXCEPT ![p].pc = "listen"] /\ UNCHANGED faults
       \/ (IF sock = 0 THEN Fault ELSE UNCHANGED faults) /\ Fail(p, "gone")
    /\ UNCHANGED <<pins, shape, xdp, filled, asked, table>>

Listen(p) ==
    /\ proc[p].pc = "listen"
    /\ \/ /\ proc' = [proc EXCEPT ![p].pc = "metrics", ![p].listening = TRUE]
          /\ UNCHANGED <<sock, faults>>
       \/ Fault /\ Fail(p, "gone")
    /\ UNCHANGED <<pins, shape, xdp, filled, asked, table>>

\* MetricsServer::start throws if its address is taken.
StartMetrics(p) ==
    /\ proc[p].pc = "metrics"
    /\ \/ proc' = [proc EXCEPT ![p].pc = "run"] /\ UNCHANGED <<sock, faults>>
       \/ Fault /\ Fail(p, "gone")
    /\ UNCHANGED <<pins, shape, xdp, filled, asked, table>>

\* The signal: run() stops its threads and unlinks the socket, and leaves the
\* program and the maps unless it was told to tear down.
Stop(p) ==
    /\ proc[p].pc = "run"
    /\ sock' = 0
    /\ IF proc[p].cmd.detach
       THEN proc' = [proc EXCEPT ![p].pc = "detach", ![p].listening = FALSE]
       ELSE End(p, "gone")
    /\ UNCHANGED <<pins, shape, xdp, filled, asked, table, faults>>

\* detach_and_unpin: a failed detach does not keep it from unpinning.
Detach(p) ==
    /\ proc[p].pc = "detach"
    /\ \/ xdp' = (IF xdp.mode = proc[p].mode THEN NoProg ELSE xdp) /\ UNCHANGED faults
       \/ UNCHANGED xdp /\ Fault
    /\ proc' = [proc EXCEPT ![p].pc = "unpin", ![p].todo = Maps]
    /\ UNCHANGED <<pins, shape, sock, filled, asked, table>>

UnpinMap(p, m) ==
    /\ proc[p].pc = "unpin" /\ m \in proc[p].todo
    /\ pins' = [pins EXCEPT ![m] = 0]
    /\ IF proc[p].todo = {m} \/ pins[m] = 0
       THEN End(p, "gone")
       ELSE proc' = [proc EXCEPT ![p].todo = @ \ {m}]
    /\ UNCHANGED <<shape, xdp, sock, filled, asked, table, faults>>

\* The process is killed: the kernel closes its sockets, and keeps the rest.
Crash(p) ==
    /\ Up(p)
    /\ End(p, "gone")
    /\ UNCHANGED <<pins, shape, xdp, sock, filled, asked, table, faults>>

DInit ==
    /\ pins = NoFds /\ shape = [o \in {} |-> 0] /\ xdp = NoProg /\ sock = 0
    /\ proc = [p \in Procs |-> Off]
    /\ filled = {} /\ asked = {} /\ table = 0 /\ faults = 0

DNext ==
    \E p \in Procs :
        \/ Start(p)
        \/ \E m \in Maps : CheckMap(p, m) \/ LoadMap(p, m) \/ UnpinMap(p, m)
        \/ LoadFails(p) \/ Choose(p) \/ SwitchOff(p) \/ TryAttach(p) \/ Apply(p)
        \/ CheckLive(p) \/ UnlinkStale(p) \/ Bind(p) \/ Listen(p) \/ StartMetrics(p)
        \/ Stop(p) \/ Detach(p) \/ Crash(p)

DSpec == DInit /\ [][DNext]_dvars

------------------------------------------------------------------------------
Started == {p \in Procs : proc[p].pc # "off"}
Forwarding == xdp # NoProg /\ xdp.maps["state"] \in filled

\* Someone asked for the maps to be replaced or torn down.
MapsGivenUp == "maps" \in asked

Labels == {"off", "check", "load", "attach", "switch", "try", "retry", "apply", "live",
           "unlink", "bind", "listen", "metrics", "run", "detach", "unpin", "gone", "refused"}
Process == [pc : Labels, todo : SUBSET Maps, cmd : Commands, fds : [Maps -> Nat],
            reused : SUBSET Maps, made : SUBSET Maps, first : Modes \cup {"none"},
            mode : Modes \cup {"none"}, was : Nat, listening : BOOLEAN]

\* The kernel's objects and the processes have their types; an attached program has a
\* map for every name (loader.cpp:201-243).
DTypeOK ==
    /\ pins \in [Maps -> Nat] /\ IsFiniteSet(DOMAIN shape)
    /\ xdp = NoProg \/ xdp \in [mode : Modes, maps : [Maps -> Nat \ {0}], by : Procs]
    /\ sock \in Procs \cup {0} /\ table \in Nat
    /\ proc \in [Procs -> Process]

\* Between a successful start and the signal, a daemon drives what is in force: the
\* program on the interface uses the daemon's maps, and those are the pinned ones,
\* which the next daemon will find (daemon.cpp:28-47, loader.cpp:90-142). It holds
\* whatever earlier daemons left half done.
RunningDrives ==
    \A p \in Procs :
        proc[p].pc \in {"live", "unlink", "bind", "listen", "metrics", "run"} =>
            /\ xdp # NoProg /\ xdp.maps = proc[p].fds /\ pins = proc[p].fds
            /\ Forwarding

\* "There is no instant with no program attached" (docs/DESIGN.md:873) and a refused
\* start leaves the old program forwarding (docs/RUNBOOK.md:268-269): a VIP that is
\* served stays served through stops, crashes, failed starts and restarts, unless
\* someone changed the mode or gave the maps up (loader.cpp:201-243).
HitlessRestart ==
    [][ Forwarding /\ ~Forwarding' =>
          MapsGivenUp \/ ~(asked \subseteq {"auto", xdp.mode}) ]_dvars

\* "We do not do that silently: recreating the connection table drops every tracked
\* flow" (loader.cpp:153-154): the table in force changes only after someone asked
\* for that, also over a switch of modes.
TableKept == [][ table # 0 /\ table' # table => MapsGivenUp ]_dvars

\* One daemon after another: the socket file that a dead daemon left never stops the
\* next one, and a running daemon is the one the path leads to (api_server.cpp:55-85).
SocketLeadsToDaemon ==
    \A p \in Procs : /\ proc[p].pc # "refused"
                     /\ proc[p].pc = "run" => sock = p /\ proc[p].listening

------------------------------------------------------------------------------
\* Why the four hold when a service manager starts one process after another. At
\* most one process is up, and those after the last one started are off.
OneAtATime ==
    \A p, q \in Procs : /\ Up(p) /\ Up(q) => p = q
                        /\ q < p /\ proc[p].pc # "off" => proc[q].pc # "off"

\* What the process that is up has got hold of, by how far it is (loader.cpp:90-243,
\* api_server.cpp:49-110).
Holds(p) ==
    LET r == proc[p] IN
    /\ r.cmd.mode \in asked /\ (r.cmd.recreate \/ r.cmd.detach => MapsGivenUp)
    /\ r.pc = "check" => r.fds = NoFds /\ r.made = {}
    /\ r.pc # "unpin" => \A m \in Maps : r.fds[m] \in {0, pins[m]}
    /\ r.pc \notin {"check", "load", "unpin"} => \A m \in Maps : r.fds[m] # 0
    /\ r.pc = "load" /\ ~MapsGivenUp =>
          \A m \in r.made : xdp = NoProg /\ (m = "conntrack" => table = 0)
    /\ r.pc \in {"switch", "try", "retry"} => r.first \in Modes
    /\ r.pc = "switch" => r.first = r.cmd.mode /\ r.first # xdp.mode
    /\ r.pc \in {"apply", "live", "unlink", "bind", "listen", "metrics", "run"} =>
          xdp # NoProg /\ xdp.maps = r.fds
    /\ r.pc \in {"live", "unlink", "bind", "listen", "metrics", "run"} => r.fds["state"] \in filled
    /\ r.pc \in {"listen", "metrics", "run"} => sock = p
    /\ r.pc \in {"detach", "unpin"} => r.cmd.detach

\* Only a server that is up listens, and nobody is refused.
Serving(p) == /\ proc[p].listening <=> proc[p].pc \in {"metrics", "run"}
              /\ proc[p].pc # "refused"

\* Until someone gives the maps up, the names lead to the maps of the program that is
\* attached and to the connection table that was last in force.
NamesLead ==
    ~MapsGivenUp => /\ xdp # NoProg => xdp.maps = pins
                    /\ table # 0 => pins["conntrack"] = table

\* The inductive invariant.
DInv == /\ DTypeOK /\ OneAtATime /\ NamesLead
        /\ \A p \in Procs : Serving(p) /\ (Up(p) => Holds(p))

\* "another daemon is serving ...; refusing to take it over" (api_server.cpp:57): a
\* daemon that refuses has not replaced the other one's program.
RefusedTookNothing == \A p \in Procs : proc[p].pc = "refused" => xdp.mode = "none" \/ xdp.by # p

\* "reusing pinned maps ...: tracked flows are preserved" (daemon.cpp:35-38; "An
\* operator reads these lines during an incident, so they have to be exact",
\* docs/BUGS.md:184): the table that a daemon says it kept is the one that was in
\* force before.
PreservedIsTrue ==
    \A p \in Procs : proc[p].pc = "apply" /\ "conntrack" \in proc[p].reused /\ proc[p].was # 0
                        => proc[p].fds["conntrack"] = proc[p].was
==============================================================================
