------------------------------ MODULE DataPlane ------------------------------
(***************************************************************************)
(* The XDP program: what happens to a packet for the VIP, one CPU per      *)
(* packet, while the control plane rewrites the maps.  A CPU runs one      *)
(* packet to its end, without any lock: every read of a map that another   *)
(* CPU or the daemon can write is a step of its own, and what was read     *)
(* before may be stale when it is used.  Reads that nothing of what is     *)
(* stated below can tell apart are one step.                               *)
(***************************************************************************)
EXTENDS ControlPlane, FiniteSetsExt

CONSTANTS Cpus,
          Flows,       \* 5-tuples of packets for the VIP
          SlotOf,      \* pb_flow_hash(flow) % PB_RING_SIZE
          Packets,     \* what may arrive: [shape, flow, long]
          MaxPackets,  \* bound: packets that arrive
          MaxOps       \* bound: changes by the control plane, evictions

ASSUME DpAssumption ==
    /\ SlotOf \in [Flows -> Slots]
    /\ MaxPackets \in Nat /\ MaxOps \in Nat

VARIABLES
    config,     \* the daemon-wide flags no_conntrack and icmp_pmtu
    conntrack,  \* flow -> CPU -> [real, seen]; LRU, one value per CPU
    stats,      \* CPU -> counter -> number, of the VIP and of the global slot
    real_stats, \* CPU -> id -> packets
    pkt,        \* CPU -> the packet in progress
    used,       \* packets and ops so far (the bounds)
    home,       \* history: CPU -> flow -> the real its entry stands for; 0: none
    placed,     \* history: flow -> the real its last SYN went to; 0: none, or excused
    offered,    \* history: CPU -> ids that were in the ring since the packet arrived
    freed       \* history: CPUs whose packet's real was freed while it was in flight

dpvars == <<config, conntrack, stats, real_stats, pkt>>
bookkeeping == <<used, home, placed, offered, freed>>
vars == <<cpvars, dpvars, bookkeeping>>

VipCounters == {"packets", "ct_hit", "ct_miss", "hash", "syn", "tx", "drop_no_real",
                "drop_adj_head", "drop_mtu", "icmp_pmtu_fwd"}
GlobalCounters == {"pass", "drop_short", "drop_other", "drop_opts", "drop_frag"}
Counters == VipCounters \cup GlobalCounters

NoPacket == [pc |-> "idle", shape |-> "none", flow |-> 0, use_ct |-> FALSE,
             id |-> REAL_NONE, addr |-> 0, mac |-> 0]
InFlight(c) == pkt[c].pc \notin {"idle", "sent"}

Count(c, which) ==
    stats' = [stats EXCEPT ![c] = [k \in Counters |-> IF k \in which THEN @[k] + 1 ELSE @[k]]]

------------------------------------------------------------------------------
\* Shapes of packets: the first check that decides about the packet.  Of the
\* packets that can be forwarded, "data" is TCP that is neither a bare SYN nor
\* a RST, and "pmtu" is an ICMP frag-needed that quotes a packet of the flow.
FlowShapes == {"syn", "data", "rst", "udp", "pmtu"}
Shapes == FlowShapes \cup {"short", "version", "options", "fragment", "host", "quote_short"}

ASSUME PacketsAssumption == Packets \subseteq [shape : Shapes, flow : Flows, long : BOOLEAN]

\* xdp_packetbalance and handle_icmp up to forward(): the counter of the early
\* return, or "forward".
Parse(p) ==
    CASE p.shape = "short" -> "drop_short"
      [] p.shape = "version" -> "drop_other"
      [] p.shape = "options" -> "drop_opts"
      [] p.shape = "fragment" -> "drop_frag"
      [] p.shape = "host" -> "pass"
      [] p.shape = "quote_short" -> IF config.icmp_pmtu THEN "drop_short" ELSE "pass"
      [] p.shape = "pmtu" /\ ~config.icmp_pmtu -> "pass"
      [] OTHER -> IF vip = "none" THEN "pass" ELSE "forward"

may_insert(shape) == shape \notin {"rst", "pmtu"}

Matched(p) == {"packets"} \cup (IF p.shape = "syn" THEN {"syn"} ELSE {})

\* Mistake: a SYN is looked up in the connection table like any other packet.
FirstLookup_SynToo(p, use_ct) == IF use_ct THEN "conn" ELSE "ring"

\* The connection table is asked first, unless it is off or the packet is a SYN.
FirstLookup(p, use_ct) == IF use_ct /\ p.shape # "syn" THEN "conn" ELSE "ring"

\* A packet arrives: the early returns, the VIP lookup, and forward() up to the
\* length check.
Receive(c, p) ==
    LET use_ct == ~config.no_conntrack /\ vip = "ct" IN
    /\ ~InFlight(c)
    /\ \/ /\ Parse(p) # "forward"
          /\ Count(c, {Parse(p)})
          /\ pkt' = [pkt EXCEPT ![c] = NoPacket]
       \/ /\ Parse(p) = "forward" /\ p.long
          /\ Count(c, Matched(p) \cup {"drop_mtu"})
          /\ pkt' = [pkt EXCEPT ![c] = NoPacket]
       \/ /\ Parse(p) = "forward" /\ ~p.long
          /\ Count(c, Matched(p))
          /\ pkt' = [pkt EXCEPT ![c] = [NoPacket EXCEPT
                       !.pc = FirstLookup(p, use_ct), !.shape = p.shape,
                       !.flow = p.flow, !.use_ct = use_ct]]
    /\ UNCHANGED <<config, conntrack, real_stats>>

\* A drop inside forward(), with its counter; the mistake is to forget that.
DropPacket_Silent(c, counters) == pkt' = [pkt EXCEPT ![c] = NoPacket] /\ UNCHANGED stats
DropPacket(c, counters) == Count(c, counters) /\ pkt' = [pkt EXCEPT ![c] = NoPacket]

Goto(c, pc, id) == pkt' = [pkt EXCEPT ![c].pc = pc, ![c].id = id]

real_alive(id) == id < MaxReals /\ reals[id] # 0

\* The entry of this CPU counts: it was written by this CPU and its real lives.
\* The mistake is to trust an entry whatever became of its real.
Hit_Stale(c, f) == f \in DOMAIN conntrack /\ conntrack[f][c].seen
Hit(c, f) == f \in DOMAIN conntrack /\ conntrack[f][c].seen /\ real_alive(conntrack[f][c].real)

\* pick_real: the lookup in the connection table.
LookupConn(c) ==
    LET f == pkt[c].flow IN
    /\ pkt[c].pc = "conn"
    /\ IF Hit(c, f)
         THEN Count(c, {"ct_hit"}) /\ Goto(c, "real", conntrack[f][c].real)
         ELSE Count(c, {"ct_miss"}) /\ Goto(c, "ring", REAL_NONE)
    /\ UNCHANGED <<config, conntrack, real_stats>>

\* LRU_PERCPU_HASH: a new key has a zero value on the other CPUs, an old one
\* keeps theirs; the mistake is to take every insert for a new key.
Insert_AsNew(c, f, id) ==
    conntrack' = With(conntrack, f, [d \in Cpus |-> [real |-> IF d = c THEN id ELSE 0, seen |-> d = c]])
Insert(c, f, id) ==
    LET old == IF f \in DOMAIN conntrack THEN conntrack[f]
               ELSE [d \in Cpus |-> [real |-> 0, seen |-> FALSE]]
    IN  conntrack' = With(conntrack, f, [old EXCEPT ![c] = [real |-> id, seen |-> TRUE]])

\* pick_real: the lookup in the ring, and the insert, which the kernel may
\* refuse.  The entry is this CPU's own: no step of another can come between.
LookupRing(c) ==
    LET f == pkt[c].flow
        id == ring[SlotOf[f]]
    IN
    /\ pkt[c].pc = "ring"
    /\ IF id >= MaxReals
         THEN DropPacket(c, {"hash", "drop_no_real"}) /\ UNCHANGED conntrack
         ELSE /\ Count(c, {"hash"}) /\ Goto(c, "real", id)
              /\ \/ pkt[c].use_ct /\ may_insert(pkt[c].shape) /\ Insert(c, f, id)
                 \/ UNCHANGED conntrack
    /\ UNCHANGED <<config, real_stats>>

\* forward: the real must have an address.
CheckReal(c) ==
    /\ pkt[c].pc = "real"
    /\ IF reals[pkt[c].id] = 0
         THEN DropPacket(c, {"drop_no_real"})
         ELSE /\ pkt' = [pkt EXCEPT ![c].pc = "neigh", ![c].addr = reals[pkt[c].id]]
              /\ UNCHANGED stats
    /\ UNCHANGED <<config, conntrack, real_stats>>

\* forward: the real must have a MAC.
CheckNeigh(c) ==
    /\ pkt[c].pc = "neigh"
    /\ IF neigh[pkt[c].id] = 0
         THEN DropPacket(c, {"drop_no_real"})
         ELSE pkt' = [pkt EXCEPT ![c].pc = "encap"] /\ UNCHANGED stats
    /\ UNCHANGED <<config, conntrack, real_stats>>

\* encap_ipip up to the growing of the head, which may fail.  The compiler may
\* read real->addr again for the call or use what it read for the check.
Encap(c) ==
    /\ pkt[c].pc = "encap"
    /\ \/ DropPacket(c, {"drop_adj_head"})
       \/ /\ \E addr \in {pkt[c].addr, reals[pkt[c].id]} :
              pkt' = [pkt EXCEPT ![c].pc = "frame", ![c].addr = addr]
          /\ UNCHANGED stats
    /\ UNCHANGED <<config, conntrack, real_stats>>

\* The rest of encap_ipip, which reads the MAC again, and of forward.
Send(c) ==
    /\ pkt[c].pc = "frame"
    /\ pkt' = [pkt EXCEPT ![c].pc = "sent", ![c].mac = neigh[pkt[c].id]]
    /\ Count(c, {"tx"} \cup (IF pkt[c].shape = "pmtu" THEN {"icmp_pmtu_fwd"} ELSE {}))
    /\ real_stats' = [real_stats EXCEPT ![c][pkt[c].id] = @ + 1]
    /\ UNCHANGED <<config, conntrack>>

Process(c) ==
    LookupConn(c) \/ LookupRing(c) \/ CheckReal(c) \/ CheckNeigh(c) \/ Encap(c) \/ Send(c)

\* The kernel evicts the least recently used key, whichever that is.
Evict(f) ==
    /\ f \in DOMAIN conntrack
    /\ conntrack' = Without(conntrack, f)
    /\ UNCHANGED <<config, stats, real_stats, pkt>>

\* write_config_map.
WriteConfig ==
    /\ \E flag \in {"no_conntrack", "icmp_pmtu"} : config' = [config EXCEPT ![flag] = ~@]
    /\ UNCHANGED <<conntrack, stats, real_stats, pkt>>

------------------------------------------------------------------------------
\* History.  The entry of CPU c for flow f stands for the real `addr`.
StandsFor(c, f, addr) ==
    /\ f \in DOMAIN conntrack /\ conntrack[f][c].seen
    /\ addr # 0 /\ reals[conntrack[f][c].real] = addr

\* The packet's slot of the ring has not changed since it arrived.
Undisturbed(c) == offered[c] = {ring[SlotOf[pkt[c].flow]]}

\* Of a packet that is sent now.  A flow counts as placed when none of its other
\* packets is under way.
NoteSent(c) ==
    LET f == pkt[c].flow
        addr == pkt[c].addr
    IN
    /\ home' = IF pkt[c].use_ct /\ pkt[c].shape # "pmtu" /\ c \notin freed /\ StandsFor(c, f, addr)
                 THEN [home EXCEPT ![c][f] = addr] ELSE home
    /\ placed' = IF /\ pkt[c].shape = "syn" /\ StandsFor(c, f, addr) /\ Undisturbed(c)
                    /\ \A d \in Cpus \ {c} : InFlight(d) => pkt[d].flow # f
                   THEN [placed EXCEPT ![f] = addr] ELSE placed

\* The addresses that leave the reals map in this step.
Leaving == {reals[id] : id \in {id \in Ids : reals'[id] # reals[id]}} \ {0}

\* A new connection on a flow is placed anew; a new ring, an eviction, or the
\* loss of the real excuses an old one.
Forget(gone, flows) ==
    /\ home' = [c \in Cpus |-> [f \in Flows |->
                  IF home[c][f] \in gone \/ f \in flows THEN 0 ELSE home[c][f]]]
    /\ placed' = [f \in Flows |-> IF placed[f] \in gone \/ f \in flows THEN 0 ELSE placed[f]]

PacketStep ==
    \/ \E c \in Cpus, p \in Packets :
        /\ used.packets < MaxPackets
        /\ Receive(c, p)
        /\ used' = [used EXCEPT !.packets = @ + 1]
        /\ offered' = [offered EXCEPT ![c] = {ring[SlotOf[p.flow]]}]
        /\ freed' = freed \ {c}
        /\ IF p.shape = "syn"
             THEN home' = [home EXCEPT ![c][p.flow] = 0] /\ placed' = [placed EXCEPT ![p.flow] = 0]
             ELSE UNCHANGED <<home, placed>>
        /\ UNCHANGED cpvars
    \/ \E c \in Cpus :
        /\ Process(c)
        /\ IF pkt[c].pc = "frame" THEN NoteSent(c) ELSE UNCHANGED <<home, placed>>
        /\ UNCHANGED <<cpvars, used, offered, freed>>

\* A call of the control plane, the end of the daemon, or an eviction.
ControlStep ==
    /\ used.ops < MaxOps
    /\ used' = [used EXCEPT !.ops = @ + 1]
    /\ \/ /\ InstallRing \/ MapVip \/ UnmapVip
          /\ offered' = [c \in Cpus |-> IF InFlight(c) THEN offered[c] \cup {ring'[SlotOf[pkt[c].flow]]}
                                                       ELSE offered[c]]
          /\ placed' = IF ring' = ring THEN placed ELSE [f \in Flows |-> 0]
          /\ UNCHANGED <<dpvars, home, freed>>
       \/ /\ ReleaseReal \/ CallTable
          /\ UNCHANGED <<dpvars, home, placed, offered, freed>>
       \/ /\ \E f \in Flows : Evict(f) /\ Forget({}, {f})
          /\ UNCHANGED <<cpvars, offered, freed>>
       \/ WriteConfig /\ UNCHANGED <<cpvars, home, placed, offered, freed>>

ControlGoesOn ==
    /\ TableGoesOn
    /\ Forget(Leaving, {})
    /\ freed' = freed \cup {c \in Cpus : InFlight(c) /\
                             \E id \in ({pkt[c].id} \cup offered[c]) \cap Ids : reals[id] \in Leaving}
    /\ UNCHANGED <<dpvars, used, offered>>

\* The daemon runs: the reals whose addresses are ids have those ids, with
\* their MACs, and the VIP has a ring of them.
DpInit ==
    LET known(id) == id # 0 /\ id \in Addrs \cap Macs IN
    /\ slots = [id \in AllIds |-> IF known(id) THEN [addr |-> id, refs |-> 1, mac |-> id]
                                               ELSE FreeSlot]
    /\ by_addr = [a \in {id \in Ids : known(id)} |-> a]
    /\ cursor = 1 /\ adopted = TRUE /\ drop = 0 /\ writes = <<>>
    /\ reals = [id \in AllIds |-> slots[id].addr]
    /\ neigh = [id \in AllIds |-> slots[id].mac]
    /\ learned = {<<id, id>> : id \in {id \in Ids : known(id)}}
    /\ handed = {id \in Ids : known(id)}
    /\ vip \in {"ct", "noct"}
    /\ ring \in [Slots -> Usable \cup {REAL_NONE}]
    /\ config = [no_conntrack |-> FALSE, icmp_pmtu |-> TRUE]
    /\ conntrack = EmptyMap
    /\ stats = [c \in Cpus |-> [k \in Counters |-> 0]]
    /\ real_stats = [c \in Cpus |-> [id \in Ids |-> 0]]
    /\ pkt = [c \in Cpus |-> NoPacket]
    /\ used = [packets |-> 0, ops |-> 0]
    /\ home = [c \in Cpus |-> [f \in Flows |-> 0]]
    /\ placed = [f \in Flows |-> 0]
    /\ offered = [c \in Cpus |-> {}]
    /\ freed = {}

DpNext == PacketStep \/ ControlStep \/ ControlGoesOn

DpSpec == DpInit /\ [][DpNext]_vars

------------------------------------------------------------------------------
If(b) == IF b THEN 1 ELSE 0

\* Every packet is accounted for exactly once, whatever path it takes: a matched
\* packet ends as tx or as one drop, is placed by the table or by the hash, and
\* is counted for the real that gets it (packetbalance.bpf.c:132-161, 355-423).
EveryPacketCounted ==
    /\ \A c \in Cpus :
        LET n == stats[c] IN
        /\ n["packets"] = n["tx"] + n["drop_no_real"] + n["drop_adj_head"] + n["drop_mtu"]
                            + If(InFlight(c))
        /\ n["packets"] = n["ct_hit"] + n["hash"] + n["drop_mtu"] + If(pkt[c].pc \in {"conn", "ring"})
        /\ n["ct_miss"] <= n["hash"] + If(pkt[c].pc = "ring")
        /\ n["tx"] = MapThenSumSet(LAMBDA id : real_stats[c][id], Ids)
    /\ used.packets = MapThenSumSet(LAMBDA c : stats[c]["packets"] +
                        MapThenSumSet(LAMBDA k : stats[c][k], GlobalCounters), Cpus)

\* CPU c sends its packet in this step.
Sends(c) == pkt[c].pc = "frame" /\ pkt'[c].pc = "sent"

\* "An established flow keeps going to its original real regardless of what the
\* ring does later" (docs/DESIGN.md): while the flow stays on one CPU, its entry
\* is not evicted and its real is not deleted, its packets and the ICMP about
\* them go to that real, across new rings and restarts of the daemon.
ConnectionsStay ==
    [][\A c \in Cpus : Sends(c) /\ pkt[c].use_ct /\ pkt[c].shape # "syn" =>
        home[c][pkt[c].flow] \in {0, pkt[c].addr}]_vars

\* A new connection never goes to a real that was out of the ring the whole time
\* (drained, down or removed), not even on a 5-tuple that the table knows
\* (packetbalance.bpf.c:193-195).
SynFollowsRing ==
    [][\A c \in Cpus : Sends(c) /\ pkt[c].shape = "syn" => pkt[c].id \in offered[c]]_vars

\* A frame goes to a real's own address and to a MAC learned for that address,
\* unless the real was freed while the packet was under way: the two arrays are
\* read one after the other, without a lock (real_table.cpp:137-142).
FrameToItsReal ==
    [][\A c \in Cpus : Sends(c) /\ c \notin freed =>
        <<pkt[c].addr, pkt'[c].mac>> \in learned]_vars

\* A real that is not being deleted loses no packet for want of an address or a
\* MAC: no new ring, reload or restart makes the program count no_real for it.
\* Only an entry made for a deleted real, whose id went to a real that has no
\* MAC yet, loses its flow's packets (packetbalance.bpf.c:386-404).
NoRealOnlyWhenFreed ==
    [][\A c \in Cpus : pkt'[c].pc = "idle" /\ c \notin freed =>
        /\ pkt[c].pc # "real"
        /\ pkt[c].pc = "neigh" => pkt[c].id \notin offered[c] /\ home[c][pkt[c].flow] = 0]_vars

\* "The data plane also drops, as no_real, a real whose MAC is all zeros"
\* (real_table.cpp:141-142).
NoFrameWithoutMac == [][\A c \in Cpus : Sends(c) => pkt'[c].mac # 0]_vars

\* A CPU change is "harmful only when both happen at once, a CPU change and a
\* ring change during the flow's lifetime" (docs/DESIGN.md:579-581): after a SYN,
\* and until the ring changes, the flow's packets go where the SYN went, on
\* every CPU.
PlacedFlowsStay ==
    [][\A c \in Cpus : Sends(c) /\ pkt[c].shape = "data" =>
        placed[pkt[c].flow] \in {0, pkt[c].addr}]_vars

\* "Forward ICMP 'fragmentation needed' to the real that owns the inner flow"
\* (abi.h:185), whichever CPU it arrives on.
IcmpReachesOwner ==
    [][\A c \in Cpus : Sends(c) /\ pkt[c].shape = "pmtu" /\ Undisturbed(c) =>
        \A d \in Cpus : home[d][pkt[c].flow] \in {0, pkt[c].addr}]_vars

------------------------------------------------------------------------------
\* The inductive invariant behind the action properties about packets: what a
\* packet in flight, and an entry of the connection table, may rely on.

\* Every variable of the data plane has its type.
DpTypeOK ==
    /\ pkt \in [Cpus -> [pc : {"idle", "conn", "ring", "real", "neigh", "encap", "frame", "sent"},
                         shape : Shapes \cup {"none"}, flow : Flows \cup {0}, use_ct : BOOLEAN,
                         id : Ids \cup {REAL_NONE}, addr : Addrs \cup {0}, mac : Macs \cup {0}]]
    /\ DOMAIN conntrack \subseteq Flows
    /\ conntrack \in [DOMAIN conntrack -> [Cpus -> [real : AllIds, seen : BOOLEAN]]]
    /\ home \in [Cpus -> [Flows -> Addrs \cup {0}]]
    /\ offered \in [Cpus -> SUBSET (Ids \cup {REAL_NONE})]
    /\ freed \subseteq Cpus

\* The packet has been given a real.
Picked(c) == pkt[c].pc \in {"real", "neigh", "encap", "frame"}

\* A packet knows its flow, and what the ring has offered it since it arrived; a SYN,
\* and a packet without connection tracking, takes its real from there.
PacketKnows(c) ==
    InFlight(c) =>
        /\ pkt[c].flow \in Flows
        /\ ring[SlotOf[pkt[c].flow]] \in offered[c]
        /\ Picked(c) => pkt[c].id \in Ids
        /\ pkt[c].shape = "syn" \/ ~pkt[c].use_ct =>
              pkt[c].pc # "conn" /\ (Picked(c) => pkt[c].id \in offered[c])
        /\ pkt[c].shape = "syn" => home[c][pkt[c].flow] = 0

\* As long as no real that a packet may use is freed, each has its address and MAC.
PacketServed(c) ==
    InFlight(c) /\ c \notin freed =>
        /\ \A id \in offered[c] \cap Ids : reals[id] # 0 /\ neigh[id] # 0
        /\ Picked(c) =>
              /\ reals[pkt[c].id] # 0
              /\ pkt[c].pc # "real" => pkt[c].addr = reals[pkt[c].id]
              /\ pkt[c].pc \in {"encap", "frame"} => neigh[pkt[c].id] # 0

\* A connection that has a home has an entry for it, on that CPU.
HomeHasEntry(c, f) ==
    home[c][f] # 0 =>
        /\ StandsFor(c, f, home[c][f])
        /\ conntrack[f][c].real \in Ids /\ neigh[conntrack[f][c].real] # 0

\* A packet of such a connection is on its way home.
PacketGoesHome(c) ==
    LET f == pkt[c].flow IN
    InFlight(c) /\ pkt[c].use_ct /\ home[c][f] # 0 =>
        /\ pkt[c].pc # "ring"
        /\ Picked(c) => pkt[c].id = conntrack[f][c].real
        /\ Picked(c) /\ pkt[c].pc # "real" => pkt[c].addr = home[c][f]

DpInv ==
    /\ CPInv /\ DpTypeOK
    /\ \A c \in Cpus : PacketKnows(c) /\ PacketServed(c) /\ PacketGoesHome(c)
    /\ \A c \in Cpus : \A f \in Flows : HomeHasEntry(c, f)
==============================================================================
