# Verification of PacketBalance

TLA+ modules that model the PacketBalance load balancer, TLC configurations that
check them on small instances, and TLAPS proofs of the properties of the table of
reals, of the promise that the daemon makes to the data plane, of the packets that rely
on it, of the API server, of the daemon's start, stop and threads, and of conncheck.

    tlc -config LbReload.cfg MCLbState       model-check one run
    tlapm DataPlaneProofs.tla                check the proofs of one module

`PROJECT.json` lists the components, the runs, the source lines behind every
definition, the hazards, the findings and the theorems.

## The system

PacketBalance is a layer-4 load balancer. An XDP program (`bpf/packetbalance.bpf.c`)
picks a real server for every packet to a VIP and sends the packet on in an IPIP
tunnel. A daemon (`src/daemon`) decides what the program's maps say.

| Part | State | Operations | Interacts with |
| --- | --- | --- | --- |
| `RealTable` | real_id -> address, MAC, references; cursor | adopt, acquire, release, set_mac, drop_unreferenced | the pinned arrays `reals` and `neigh`; called by `LbState` under its mutex |
| `LbState` | VIPs, members, health and drain state, adopted vip_ids | apply, add/del VIP, add/del real, set_weight, set_draining, report_health, neighbor_resolved | `RealTable`, `vip_map`, `rings`, `config` |
| XDP program | per-CPU LRU `conntrack`, counters | one run per packet, on every CPU, without locks | reads the maps that the daemon writes |
| `Maglev` | none (pure) | build_ring in two hash modes | called by `LbState` |
| `HealthChecker`, `NeighborResolver` | the targets of the round | a step every so often, on a `PeriodicThread` | report to `LbState` what they saw some time ago |
| `Loader` | pins, the attached program | check and recreate maps, load, attach, detach | what an earlier daemon left in the kernel |
| `ApiServer`, `CommandHandler` | clients, their threads | accept, serve, stop | calls `LbState` from many threads; the socket file |
| `pbctl` | none | one request, one reply | the API server, without a timeout |
| `MetricsServer`, `MapReader` | its one client | accept, render, send | reads `LbState` and walks `conntrack` |
| `Config`, `Options` | none | load, validate, override | read by every start and reload |
| `Daemon`, `main` | options, configuration | start, reload, stop, destructors | all of the above |
| `conncheck` | connections, counters | one event loop | measures the whole from outside |

What makes it hard:

- the data plane reads several maps for one packet and nothing holds them still;
- an operation of the daemon is a series of map updates, any of which the kernel
  may refuse, and the daemon may die after any of them; the next daemon starts from
  the maps, not from memory;
- ids are reused while connection-table entries still name them, and one entry has
  a value per CPU;
- health and neighbour results are applied long after they were asked for;
- one real can serve several VIPs, and one MAC change can concern several rings;
- six or more threads share the objects of a daemon, and some commands read several of
  them under different locks or none.

## Modules

    RealIds        what a real_id promises                  (abstract)
      ^ implemented by
    RealTable      real_table.cpp                           RealTableProofs
      ^ extended by
    ControlPlane   what the daemon promises the data plane  (abstract)   ControlPlaneProofs
      ^ implemented by        ^ extended by
    LbState (MCLbState)       DataPlane (MCDataPlane)       DataPlaneProofs
      ^ extended by
    Commands (MCCommands)

    PeriodicThread            ApiServer             ApiServerProofs
      ^ extended by           Daemon (MCDaemon)     DaemonProofs
    Threads   ThreadsProofs   ConnCheck             ConnCheckProofs
                              Maglev

**RealIds** is the meaning of an id: an id stands for one real until it is given up,
and a change of meaning takes two steps, give up and give.

**RealTable** has the table in memory (`slots`, `by_addr`, `cursor`) and the two
pinned arrays. `write_slot` leaves two updates in `writes`, which are made one by one,
so that the data plane, or a new daemon after a crash, sees the arrays in between.
`Restart` loses the memory and keeps the arrays; `Adopt` reads them back.

**ControlPlane** adds one VIP entry and one ring of any size to the table: a ring
is swapped in as a whole and names only reals with an address and a MAC, and an id
is freed only when no ring in force names it. It is all that DataPlane knows of the daemon.

**LbState** has every call of `LbState` that changes state. A call is a plan: the
steps it will make are put in `todo` when it takes the mutex, and are made one at a
time. A step may be refused by the kernel; then the plan is dropped, an API call
answers with the error, and any other caller ends the process. A ring is represented
by what it is a function of: the eligible ids, their weights and the hash mode.
Health rounds and resolver passes take their targets first and report later, one at a
time, between other calls; `probe_all` says what each answer of the kernel counts as.

**Commands** runs the commands that take more than one lock beside the calls of
LbState: `reload`, which reads the file (any text of `Texts`, which is edited
meanwhile), validates it with and without the command-line options, takes `config_mu_`,
calls `apply`, `set_params` and assigns `config_`; and `ring.show`, which calls `find`,
then `real_addrs`, then reads the ring from the maps. `StateStep` is a step of LbState;
the one that ends `apply` hands back to the session that called it.

**DataPlane** runs packets on several CPUs against ControlPlane. Every read of a map
that someone else may write is a step. A packet is a shape (what the parser would find
out) and a flow; the connection table has one value per CPU and entry.

**Maglev** is the fill of the ring, one probe of a permutation a step, for all hash
values. `RingIsPapers` compares it with the algorithm of the Maglev paper as a
recursive function over turns.

**Daemon** has the system calls of a start and a stop: check a pinned map, unpin it,
open or make and pin it, query, detach, attach, apply, and the five steps around the
socket file. Processes are killed between any two. The maps are two, `conntrack`
(whose size an option changes) and `state` (the other seven). libbpf's part is
external, as the code uses it.

**ApiServer** has the acceptor, one thread per client and the thread in `stop()`, with
`clients_mu_` and file descriptors that are reused by the rest of the daemon. The
connections in `Ctls` are pbctl's: they send one request and read until it is answered
or the connection ends.

**PeriodicThread** is the loop on the condition variable, for a set of workers.

**Threads** is one daemon with all its threads: the main thread goes through `RunPlan`
(`Run`, the body of `run()`, then `Unwind`, the destructors in the reverse order of the
members of `Daemon`), or leaves
`run()` by an exception when a port or the socket cannot be bound; the workers are
PeriodicThread's; a session is in a command or one of its hooks; the metrics thread
polls, receives, renders, walks a connection table that the data plane changes, and
sends.

**ConnCheck** is conncheck's event loop with a clock and a network that may answer,
be silent, or end a connection at any moment.

## Runs

Each run takes between a second and two minutes on two cores.

| Run | Checks | Shows |
| --- | --- | --- |
| commands | ConfigIsTruth, RingShown, ValidConfigFits | two calls, reloads of a file that is edited or calls that free and give out ids, and `ring.show`, interleaved at every lock; a configuration that validates also fits |
| lb_reload | VipHasRing, RingIdsLive, RefsCountUsers, MembersKeepIds, MapsMatchConfig, MacOfItsReal, RestartKeepsTraffic, DrivesDataPlane, MacOutlivesAddress, IdsKeepTheirMeaning | calls and reloads with one crash and one refusal by the kernel at any of their map updates, a start with another configuration; the daemon implements ControlPlane for every vip_id, and RealIds |
| lb_health | MapsFollowModel, OwnProbesOnly, RealsGetTraffic | health rounds and resolver passes against deletes, re-adds and a crash; reals get traffic in the end |
| lb_shared | RealsGetTraffic (violated) | a real on two VIPs, see below |
| dp_flow | EveryPacketCounted, SynFollowsRing, FrameToItsReal, NoRealOnlyWhenFreed | packets that take every way through the program; a packet's reads against every change of the maps |
| dp_cpus | ConnectionsStay | a flow over two CPUs |
| maglev | FairShares, RingIsPapers, RingIsBuilt | shares at every step; the ring does not depend on the order of the list; the walk ends |
| daemon_restart | RunningDrives, SocketLeadsToDaemon, HitlessRestart, TableKept | three daemons in a row, killed or refused anywhere |
| api_server | OwnDescriptorsOnly, NoThreadSurvives, StopReturns, PbctlReturns | stop() against clients that do anything or nothing; pbctl is answered or told that it will not be |
| threads | NothingUsedAfterItsEnd, WakeIsSeen, ShutdownCompletes, ScrapeAnswered | start, failed start and end of the daemon against its sessions, scrapers and workers: no object is used after its end, no wake-up is lost, the end is reached, a prompt scraper is answered |
| conncheck | Ledger, WrongBackendsCounted, EndWithinStart, TimeoutOnlyLeftOut | the books balance with more ready sockets than `epoll_wait` returns; a timeout of an answered heartbeat is one of a connection that a full array left out |
| conncheck_events | TimeoutIsReal (violated) | such timeouts happen, see below |

The type invariants, and the inductive invariants of the proofs (`RTInv`, `CPInv`, `DpInv`,
`ApiInv`, `DInv`, `CCInv`, `ThInv`), are not among the properties of the runs; they hold when they are added to the
configurations. `ControlPlane.cfg` checks ControlPlane by itself (`RingServes` and `CPInv`), which
`CPInvariant` proves in general.

### Where code and documents disagree

`lb_shared`: `add_member_locked` (`lb_state.cpp:227`) learns the MAC of a shared real
while it is added to a second VIP, and `neighbor_resolved` then sees no change and does
not rebuild the first VIP's ring. The real stays out of that ring for good.

`conncheck_events`: a timeout is "a heartbeat [that] stays unanswered"
(`conncheck.cpp:15`). `epoll_wait` returns at most 4096 ready sockets (`conncheck.cpp:161`),
and the scan after it breaks connections whose answer waits in a socket that was left
out. The usage line (`conncheck.cpp:5`) and the measurements of the repository's README
have 10,000 connections. `TimeoutOnlyLeftOut` says that nothing else makes a false timeout.

Thirteen more configurations each check one statement of a document, comment, message or declaration
and end in a counterexample. They are not in the list of runs.

| Configuration (module) | Statement | What the code does |
| --- | --- | --- |
| RealTableReuse (RealTable) | `real_table.h:12-14`, a freed id is not reused immediately: ReuseAfterFullTurn | `adopt()` puts the cursor after the highest live id, so a restart can give a freed id out at once |
| LbHalfCreated (MCLbState) | `lb_state.cpp:160-161`, the data plane never matches a VIP without a ring: NeverWithoutRing | a create that fails leaves the VIP in `vips_`; a reload with other flags then writes its entry |
| LbFullTable (MCLbState) | `lb_state.h:85`, apply makes the maps match the configuration: MapsMatchConfig | new reals get ids before old ones are released, so a valid reload is refused half way near the table's limit |
| DpZeroMac (MCDataPlane) | `real_table.cpp:141-142`, a real with a zero MAC is dropped as no_real: NoFrameWithoutMac | `encap_ipip` copies the MAC after `forward` checked it; the slot may be freed in between |
| DpStaleCpu (MCDataPlane) | `DESIGN.md:579-581, 620-621`, a reused 5-tuple inherits no placement: PlacedFlowsStay | a SYN writes the value of its own CPU; another CPU keeps that of an earlier connection |
| DpIcmp (MCDataPlane) | `abi.h:185`, frag-needed goes to the real that owns the flow: IcmpReachesOwner | on a CPU without a value the error follows the ring |
| MaglevModulo (Maglev) | `maglev.h:40-41`, shares within one slot per backend: ModuloShares | the cut-off last turn gives a backend up to its whole weight more |
| DaemonTwo (MCDaemon) | `api_server.cpp:57`, refusing to take over a live daemon: RefusedTookNothing | the check comes after the program is replaced and the configuration applied |
| DaemonPreserved (MCDaemon) | `daemon.cpp:37`, tracked flows are preserved: PreservedIsTrue | it is said whenever a fitting table was pinned, also when another one was in force |
| CommandsOldText (MCCommands) | `API.md:48`, reload re-reads the YAML configuration: NeverOlder | the file is read before the lock is taken; of two reloads the one with the older text may apply last |
| CommandsHalf (MCCommands) | `daemon.cpp:112`, so that `config` reports the truth: ConfigIsTruth | an `apply` that the kernel refuses half way has already changed the hash mode; `config_` keeps the old one |
| CommandsOtherVip (MCCommands) | `commands.cpp:225-226`, ids only change under real.del: RingOfItsVip | that is so of real ids; a vip_id can go to another VIP between `find` and the read of the ring |
| ThreadsConfigRace (Threads) | `daemon.h:49`, the mutex of `config_`, which `reload` and `config_json` take: ConfigReadAlone | `run()` reads `config_.interface` for its log line when the API already serves and may be assigning it |

`MapsFollowModel` and `MapsMatchConfig` excuse reals that were on two VIPs (lb_shared).
`VipHasRing`, `RingIdsLive`, `RestartKeepsTraffic` and `DrivesDataPlane` excuse the VIPs of
`half`: a history variable with the VIPs whose creation was refused before they had a ring,
until they get one (LbHalfCreated). `RefsCountUsers` and `MapsMatchConfig` are about a daemon
to which the kernel refused nothing; `MembersKeepIds` is what a refusal leaves of the first.

### Bounds

- Two or three addresses and three or four ids: enough to free an id and give it to
  another real, and for the cursor to go round the table.
- Two VIPs, of which both may have the same real, so that references are shared; two
  calls on top of the start, since a call can only be disturbed by one before it
  (half-done) or one after it. `Configs` are chosen so that a reload adds, removes and
  moves reals and VIPs and changes flags, weights and hash mode at once.
- One crash and one refusal, each at any step, in lb_reload, and the two in either order;
  one crash in lb_health; daemon_restart has three daemons. Rise and Fall are 1, so that two rounds take a real
  down and up again.
- One flow and one ring slot in DataPlane: packets of different flows meet only in
  maps that one flow exercises already. Two packets and three changes of the control
  plane on one CPU (dp_flow); three packets and one change on two CPUs, which are
  interchangeable (dp_cpus).
- Maglev: ring sizes have to be prime; 5 with three backends of weights 0 to 2 fills,
  collides and goes round. The hashes take every value.
- Three clients, one of them pbctl, and two descriptors in ApiServer, so that a descriptor
  is reused while another client lives, and pbctl may find none free.
- Four texts in Commands: as many reals as there are ids, one too many, one real, another
  real with every setting changed. One viewer and two calls in all, each of which is a reload
  or another call; three ids, so that two calls do not bring the cursor round. The option `--no-health-check` overrides
  the texts.
- One session in Threads, since the main thread waits for all of them in the same way; a
  prompt and a slow scraper; a table of one entry and two keys, so that the key of the walk is
  evicted and the walk starts again.
- Two connections and a timeout of one tick in ConnCheck.
- `MaxEvents` is 4096 in the code; 1 of 2 connections stands for a number of ready sockets
  above it, and a round in which one is ready for a number that fits.

Deadlock is checked in threads, where the daemon always ends or serves. It is not checked where a model may really stop: an idle daemon waits for calls,
and the budgets of calls, packets and faults end.

### Fairness

`LbFairSpec` lets every step of a call that holds the mutex happen, and the resolver
pass over every address that needs a MAC again and again: it runs on a periodic thread
that never stops (`daemon.cpp:67`), and the ARP table has the answer in the end. Nothing
is assumed of API clients or health rounds. `ApiFairSpec` lets threads run that are not
blocked: no client has to send, read or hang up, except that pbctl, whose code sends
at once and then reads, does both, and that the acceptor goes round its loop, whose
poll returns when a connection waits. `ThSpec` lets every thread of the daemon run;
a receive and a send of the metrics thread return because of their two-second timeouts
(`metrics_server.cpp:65-67`), and nothing is assumed of clients, the data plane, the
pause between two steps or the signal. `MgFairSpec` runs the loop.

## Proofs

`RealTableProofs` proves for every set of addresses and MACs and every number of ids:

- `RTInvariant`: `RTSpec => []RTInv`. RTInv is the inductive strengthening. To know
  that a MAC in `neigh` belongs to the address in `reals` at every instant
  (`MacOfItsReal`), one needs the order of the two pending updates (`WritesShape`), that
  `by_addr` and the slots are inverse (`TablesAgree`, `OneIdPerAddress`), that an address
  is not shown before its MAC is settled (`FillInProgress`), that the MACs in memory were
  learned for their address (`KnownMacsLearned`), and that a process that has not adopted
  knows nothing (`NotAdopted`).
- `RTTypes`, `MapsMirror`, `MacsBelong` follow from it; `MacsOutlive` is an action property from
  the same invariant.
- `RealTableKeepsIds`: RealTable implements RealIds. Every step leaves `reals` alone,
  or is one map update, which gives an id or takes it back.

`ControlPlaneProofs` proves `CPInvariant` and from it `RingAlwaysServes`, for rings of
any size. The strengthening is `RingKnown`: a process that has adopted the maps also has
the ring's reals in its table; without it nothing keeps `Release` from freeing them.
The proof has one lemma per table operation, on what it does to the ids of a ring.
`CPUsesTable` says that ControlPlane only uses the table's own operations, so that all
theorems on `RTSpec` hold of it.

`DataPlaneProofs` proves for any number of CPUs, flows, packets, ring slots and reals that
`DpInv` is inductive (`DpInvariant`), and from it `SynsFollowRing`, `ConnectionsAlwaysStay`,
`FramesToTheirReal` and `NoRealIsFreed`. A packet holds an id that it read some steps ago,
and the argument is about what that id still stands for. Every step of DpSpec is a step of
ControlPlane or leaves it alone, so `CPInv` comes from ControlPlaneProofs. `PacketKnows`
says which rings a packet may have seen; `PacketServed`, that as long as none of the reals
it may use is freed, each has its address and MAC, since ControlPlane never frees an id
that is in the ring; `HomeHasEntry` and `PacketGoesHome`, that the entry of a connection,
and a packet on its way, name the connection's real. The history variables `offered`, `freed`
and `home` are what makes it inductive.

`ApiServerProofs` proves for any number of clients and descriptors that `ApiInv` is
inductive (`ApiInvariant`), and from it `DescriptorsOwn`, `DescriptorsKnown` and `ThreadsGone`.
`ListHasThreads` ties the list to the threads: a client's entry has its descriptor until
the thread gives it up, in one step under `clients_mu_`; `OneDescriptor` keeps the
descriptors apart, and `StopOrder` says that nothing is accepted once `stop()` has
joined the acceptor.

`DaemonProofs` proves for any number of daemons, any command lines and any number of
refused system calls that `DInv` is inductive (`DInvariant`), and from it
`RunningDrivesAlways`, `SocketLeadsToDaemonAlways`, `TableKeptAlways` and
`HitlessRestartAlways`. All have the hypothesis `Exclusive`: a service manager starts one
daemon after another, as the unit file does; with two at once RefusedTookNothing and more
fail (DaemonTwo). What a daemon drives is settled by what the daemons before it left, so
the invariant is about both: `Holds` says, by how far the process that is up has got, which
maps it has hold of and that they are still the pinned ones, `NamesLead` that the pinned
names lead to the maps of the attached program as long as nobody gave the maps up, `OneAtATime`
that nobody else changes either.

`ConnCheckProofs` proves for any number of connections, backends and ticks that `CCInv` is
inductive (`CCInvariant`), and from it `LedgerAlways`, `WrongBackendsCountedAlways` and
`EndWithinStartAlways`. The counters are compared with cardinalities of sets of
connections, so each step has to say which of the sets its connection enters or leaves.
`Heard` ties the ids a connection has read to the backend it is booked under; `LoopOK` says
that an event is of a connection under way, so that none is counted twice; `Settled`, that
after the first snapshot no connection is unresolved. `TimeoutOnlyLeftOutAlways`
holds for any size of the array: `AnswersRead` says that during the scan every connection
that the last wait returned has had its answer read, and that one with an answer was left
out only by a wait that filled its array.

`ThreadsProofs` proves for any number of sessions, scrapers, keys and table entries that
`ThInv` is inductive (`ThInvariant`), and from it `NothingUsedAfterItsEndAlways`. The
argument is one of order: an object is alive until the main thread passes its destructor
(`Dies`), and by then the thread that could use it has been joined, or was never started.
The lemmas `PlaceOf` and `DiesIs` say where each operation is in the plan.

The assumptions are those of the constants: addresses and MACs are non-zero numbers,
there are at least two ids, references have a bound of at least one, the packets of an
instance have known shapes and flows, the names of connections are not those of the
descriptors' other states, processes and connections are numbered from 1, the periods and
timeouts of conncheck are not zero, and the workers are the resolver and the health checker.

Only model-checked: everything about LbState (that it implements ControlPlane included),
Commands and Maglev (whose rings are defined by recursion), `EveryPacketCounted` of
DataPlane, and all liveness, which is out of TLAPS's reach.

## Abstractions and what is not modelled

- Updates of array maps do not fail. Refusals are modelled where the code throws: the
  write of `config`, the install and the removal of a ring, the write of a VIP's entry, and
  the limits of reals and vip_ids. The removal of an entry, whose result the code ignores
  (`lb_state.cpp:139, 200`), does what it should.
- Counters are counted, not valued: `reset_counters` for a reused vip_id is left out.
- Times, round-trip times and ring generations in LbState are left out.
- A packet in flight is not followed over a reuse of its vip_id, and the LRU element
  that it points to is not reused under it.
- The sockets of health probes and ARP are the environment's choice of an answer. A poll
  that fails (`health_checker.cpp:115`) is the timeout that the code then reports for every
  pending probe, although it is the load balancer's own failure.
- Commands takes the calls of other sessions that give out or free ids; the others
  rebuild a ring from the same ids (LbState has them).
- The text of a configuration is its parsed value; that YAML is parsed right is not shown.
- In ConnCheck, the end of a connection whose peer sends more than 4096 bytes without a
  newline, garbage lines and the split of broken connections by second.
- Not modelled: the parsing of YAML and of the command line, the other read-only commands
  (they take one snapshot and format it), the sums of counters, the text of the metrics,
  logging, pbctl's formatting, hashquality (a batch computation of statistics) and the lab
  scripts. They are pure functions or pure I/O. `PROJECT.json` has the reasons.

## Plan

1. Components: two VIPs and reused vip_ids in DataPlane; `flows` with its filters.
2. Proofs: LbState implements RealTable and ControlPlane for any number of VIPs;
   `RefsCountUsers`; `EveryPacketCounted` of DataPlane.
