------------------------------- MODULE LbState -------------------------------
(***************************************************************************)
(* LbState: the daemon's model of VIPs, reals, weights, drain and health,  *)
(* and the writes that keep the pinned maps in step with it.  One mutex    *)
(* serialises the API threads, reload, the health checker and the          *)
(* neighbour resolver; but the data plane, and the daemon that follows a   *)
(* crash, see the maps between any two writes of a call.                   *)
(*                                                                         *)
(* A call is therefore a plan: taking the mutex puts the steps the call    *)
(* will make into `todo`, and the steps are taken one at a time.  A step   *)
(* that throws drops the rest of the plan: an API call answers with the    *)
(* error, any other caller ends the process (periodic_thread.h:25-36,      *)
(* main.cpp:44-52).                                                        *)
(***************************************************************************)
EXTENDS RealTable, SequencesExt

CONSTANTS Vips,        \* VipSpecs, as numbers in std::map order
          TcpVips,     \* those whose reals are health-checked
          MaxVips,     \* PB_MAX_VIPS
          Weights,     \* weights the API may set
          Configs,     \* valid configurations: [vips, hash, next_hop, health]
          Rise, Fall,  \* health_check.rise, .fall
          MaxOps,      \* bound: API calls and reloads
          MaxCrashes,  \* bound: deaths of the process
          MaxFaults,   \* bound: refusals by the kernel
          MaxRounds    \* bound: health-check rounds

ASSUME LbAssumption ==
    /\ Vips \subseteq Nat /\ TcpVips \subseteq Vips /\ MaxVips \in Nat
    /\ Weights \subseteq Nat /\ Rise \in Nat \ {0} /\ Fall \in Nat \ {0}
    /\ {MaxOps, MaxCrashes, MaxFaults, MaxRounds} \subseteq Nat

VARIABLES
    vips,         \* vips_: spec -> [id, flags, members: address -> Member]
    adopted_ids,  \* adopted_vip_ids_: spec -> vip_id
    initialized,  \* initialized_
    conf,         \* health_enabled_, next_hop_ (0: none), hash_ (0: the default)
    next_inc,     \* next_incarnation_
    actor,        \* the caller that holds the mutex
    todo,         \* the steps it still has to make
    probes,       \* health targets whose results are still to be reported
    resolving,    \* addresses the resolver has still to look up
    vip_map,      \* pinned: spec -> [id, flags]
    rings,        \* pinned: vip_id -> ring
    config_map,   \* pinned: has the configuration been written
    used,         \* ops, crashes, faults and rounds so far (the bounds)
    wanted,       \* history: {the configuration last applied}; {} after an API change
    shared,       \* history: addresses that were on two VIPs at once
    half          \* history: VIPs whose creation threw before they had a ring, until
                  \* they get one

lbmemory == <<vips, adopted_ids, initialized, conf, next_inc, actor, todo, probes, resolving>>
lbpinned == <<vip_map, rings, config_map>>
history == <<wanted, shared, half>>
lbvars == <<lbmemory, lbpinned, used, history>>
vars == <<rtvars, lbvars>>

Ascending(S) == SetToSortSeq(S, <)
Steps(S, Op(_)) == LET s == Ascending(S) IN [i \in DOMAIN s |-> Op(s[i])]
NoConf == [health |-> TRUE, next_hop |-> 0, hash |-> 0]

mac_of(a) == IF a \in DOMAIN by_addr THEN slots[by_addr[a]].mac ELSE 0

\* The VIPs that have the address among their members.
Users(a) == {v \in DOMAIN vips : a \in DOMAIN vips[v].members}

------------------------------------------------------------------------------
\* Rings.  build_ring is a function of the eligible reals, their weights and
\* the hash mode (module Maglev), so a ring is represented by those.
eligible(a, m) == m.weight > 0 /\ ~m.draining /\ m.up /\ mac_of(a) # 0

EligibleOf(v) == {a \in DOMAIN vips[v].members : eligible(a, vips[v].members[a])}

RingOf(v) ==
    [weight |-> [id \in {by_addr[a] : a \in EligibleOf(v)} |->
                   vips[v].members[slots[id].addr].weight],
     hash |-> conf.hash]

InRing(v) == [a \in DOMAIN vips[v].members |->
                [vips[v].members[a] EXCEPT !.in_ring = a \in EligibleOf(v)]]

------------------------------------------------------------------------------
\* Plans: the steps of the functions that LbState's calls are made of.
add_member(v, reals_) ==
    FlattenSeq(Steps(DOMAIN reals_,
                     LAMBDA a : <<<<"acquire", a>>, <<"member", v, a, reals_[a]>>>>))

Releases(S) == Steps(S, LAMBDA a : <<"release", a>>)

\* Mistakes: the entry before the ring; an empty ring before the reals.
create_vip_EntryFirst(v, flags, reals_) ==
    <<<<"create", v, flags>>>> \o add_member(v, reals_) \o <<<<"entry", v>>, <<"rebuild", v>>>>
create_vip_EmptyFirst(v, flags, reals_) ==
    <<<<"create", v, flags>>, <<"rebuild", v>>, <<"entry", v>>>>
        \o add_member(v, reals_) \o <<<<"rebuild", v>>>>

create_vip(v, flags, reals_) ==
    <<<<"create", v, flags>>>> \o add_member(v, reals_) \o <<<<"rebuild", v>>, <<"entry", v>>>>

\* Mistake: the reals of a deleted VIP stay referenced.
delete_vip_NoRelease(v) ==
    <<<<"del_entry", v>>, <<"remove_ring", vips[v].id>>, <<"erase", v>>>>

delete_vip(v) ==
    <<<<"del_entry", v>>, <<"remove_ring", vips[v].id>>>>
        \o Releases(DOMAIN vips[v].members) \o <<<<"erase", v>>>>

\* apply()'s `changed`, and the mistake of looking at the members only.
changed_MembersOnly(hash_changed, removed, added, reweighted) == removed \cup added # {}
changed(hash_changed, removed, added, reweighted) ==
    hash_changed \/ removed \cup added \cup reweighted # {}

\* apply() of a VIP that exists: the new ring is live before a real is released.
update_vip(vc, hash_changed) ==
    LET v == vc.spec
        have == vips[v].members
        removed == DOMAIN have \ DOMAIN vc.reals
        added == DOMAIN vc.reals \ DOMAIN have
        reweighted == {a \in DOMAIN have \cap DOMAIN vc.reals : have[a].weight # vc.reals[a]}
        Change(a) == IF a \in added
                       THEN <<<<"acquire", a>>, <<"member", v, a, vc.reals[a]>>>>
                       ELSE <<<<"weight", v, a, vc.reals[a]>>>>
    IN  (IF vips[v].flags # vc.flags THEN <<<<"flags", v, vc.flags>>>> ELSE <<>>)
        \o (IF removed # {} THEN <<<<"remove", v, removed>>>> ELSE <<>>)
        \o FlattenSeq(Steps(added \cup reweighted, Change))
        \o (IF changed(hash_changed, removed, added, reweighted) THEN <<<<"rebuild", v>>>> ELSE <<>>)
        \o Releases(removed)

\* The VIPs apply() deletes.
Unwanted(cfg) == DOMAIN vips \ {cfg.vips[i].spec : i \in DOMAIN cfg.vips}

apply(cfg) ==
    LET One(vc) == IF vc.spec \in DOMAIN vips THEN update_vip(vc, conf.hash # cfg.hash)
                                              ELSE create_vip(vc.spec, vc.flags, vc.reals)
    IN  (IF initialized THEN <<>> ELSE <<<<"adopt">>>>)
        \o <<<<"config", cfg>>>>
        \o FlattenSeq(Steps(Unwanted(cfg), delete_vip))
        \o FlattenSeq([i \in DOMAIN cfg.vips |-> One(cfg.vips[i])])
        \o (IF initialized THEN <<>> ELSE <<<<"sweep">>, <<"drop">>, <<"ready">>>>)
------------------------------------------------------------------------------
\* The mutex.  A caller gets it when the writes of the last one are done.
Settled == drop = 0 /\ writes = <<>>
Idle == actor = "none" /\ Settled
Running == initialized /\ Idle

Take(who, plan) == actor' = (IF plan = <<>> THEN "none" ELSE who) /\ todo' = plan

\* The next step of the plan is op; Done ends it.
At(op) == todo # <<>> /\ Settled /\ Head(todo)[1] = op
Arg(i) == Head(todo)[i]
Done == Take(actor, Tail(todo))

Use(what) == used' = [used EXCEPT ![what] = @ + 1]

\* A new process: the constructors' state, and the pinned maps as they were.
NewProcess ==
    /\ Restart
    /\ vips' = EmptyMap /\ adopted_ids' = EmptyMap /\ initialized' = FALSE
    /\ conf' = NoConf /\ next_inc' = 1 /\ actor' = "none" /\ todo' = <<>>
    /\ probes' = <<>> /\ resolving' = <<>>
    /\ half' = half \cap DOMAIN vip_map
    /\ UNCHANGED <<lbpinned, wanted, shared>>

\* The VIP whose ring and entry are still to come: create_vip_locked has put it into
\* vips_ and is not done.
HalfCreated == {v \in DOMAIN vips : {<<"rebuild", v>>, <<"entry", v>>} \subseteq Range(todo)}

\* A step of an API call throws: the reply is an error, the model stays as it
\* is.  A step of any other caller throws: the process ends.
Throw(vips_) ==
    \/ /\ actor = "api"
       /\ vips' = vips_
       /\ Take("none", <<>>)
       /\ half' = half \cup HalfCreated
       /\ UNCHANGED <<rtvars, adopted_ids, initialized, conf, next_inc, probes, resolving,
                      lbpinned, wanted, shared>>
    \/ actor # "api" /\ NewProcess

Fault == used.faults < MaxFaults /\ Use("faults")

------------------------------------------------------------------------------
\* The steps.
AdoptStep ==
    /\ At("adopt") /\ Done
    /\ Adopt
    /\ adopted_ids' = [v \in DOMAIN vip_map |-> vip_map[v].id]
    /\ UNCHANGED <<vips, initialized, conf, next_inc, probes, resolving, lbpinned, used, history>>

\* write_config_map, and the settings apply() copies after it.  A reload keeps
\* the health setting of the running process (daemon.cpp:112-119).
ConfigStep ==
    /\ At("config")
    /\ \/ /\ Done
          /\ config_map' = TRUE
          /\ conf' = [health |-> IF initialized THEN conf.health ELSE Arg(2).health,
                      next_hop |-> Arg(2).next_hop, hash |-> Arg(2).hash]
          /\ UNCHANGED <<rtvars, vips, adopted_ids, initialized, next_inc, probes, resolving,
                         vip_map, rings, used, history>>
       \/ Fault /\ Throw(vips)

\* allocate_vip_id takes the lowest id that neither a VIP nor an adopted entry has.
FreeVipIds == (0 .. MaxVips - 1) \ ({vips[v].id : v \in DOMAIN vips}
                                      \cup {adopted_ids[v] : v \in DOMAIN adopted_ids})

\* create_vip_locked up to the emplace.
CreateStep ==
    LET v == Arg(2) IN
    /\ At("create")
    /\ \/ /\ v \in DOMAIN adopted_ids \/ FreeVipIds # {}
          /\ Done
          /\ LET id == IF v \in DOMAIN adopted_ids THEN adopted_ids[v] ELSE Min(FreeVipIds)
             IN  vips' = With(vips, v, [id |-> id, flags |-> Arg(3), members |-> EmptyMap])
          /\ adopted_ids' = Without(adopted_ids, v)
          /\ UNCHANGED <<rtvars, initialized, conf, next_inc, probes, resolving, lbpinned,
                         used, history>>
       \/ v \notin DOMAIN adopted_ids /\ FreeVipIds = {} /\ Throw(vips) /\ UNCHANGED used

AcquireStep ==
    /\ At("acquire")
    /\ \/ /\ Done
          /\ Acquire(Arg(2))
          /\ UNCHANGED <<vips, adopted_ids, initialized, conf, next_inc, probes, resolving,
                         lbpinned, used, history>>
       \/ TooManyReals(Arg(2)) /\ Throw(vips) /\ UNCHANGED used

\* An unknown MAC is asked of the kernel's ARP table, which may not have it; the
\* mistake is to store the answer without writing it to the maps.
LearnMac_NoWrite(a) ==
    \/ UNCHANGED rtvars
    \/ mac_of(a) = 0 /\ \E m \in Macs : SetMac_NoWrite(a, m)
LearnMac(a) ==
    \/ UNCHANGED rtvars
    \/ mac_of(a) = 0 /\ \E m \in Macs : SetMac(a, m)

\* The rest of add_member_locked.
MemberStep ==
    LET v == Arg(2)
        a == Arg(3)
    IN
    /\ At("member") /\ Done
    /\ LearnMac(a)
    /\ vips' = [vips EXCEPT ![v].members = With(@, a,
                   [weight |-> Arg(4), draining |-> FALSE, up |-> TRUE, ok |-> 0, fail |-> 0,
                    in_ring |-> FALSE, inc |-> next_inc, born |-> used.rounds])]
    /\ next_inc' = next_inc + 1
    /\ shared' = IF Users(a) # {} THEN shared \cup {a} ELSE shared
    /\ UNCHANGED <<adopted_ids, initialized, conf, probes, resolving, lbpinned, used, wanted,
                   half>>

\* rebuild_locked: the ring is swapped in with one update, or the kernel has no
\* room for the new inner map.
RebuildStep ==
    LET v == Arg(2)
        marked == [vips EXCEPT ![v].members = InRing(v)]
    IN
    /\ At("rebuild")
    /\ \/ /\ Done
          /\ vips' = marked
          /\ rings' = With(rings, vips[v].id, RingOf(v))
          /\ half' = half \ {v}
          /\ UNCHANGED <<rtvars, adopted_ids, initialized, conf, next_inc, probes, resolving,
                         vip_map, config_map, used, wanted, shared>>
       \/ Fault /\ Throw(marked)

\* write_vip_entry, for a new VIP ("entry") or for new flags ("flags"), which are in
\* the model before the update that the kernel may refuse.
EntryStep ==
    LET v == Arg(2)
        flags == IF Arg(1) = "flags" THEN Arg(3) ELSE vips[v].flags
        flagged == [vips EXCEPT ![v].flags = flags]
    IN
    /\ At("entry") \/ At("flags")
    /\ \/ /\ Done
          /\ vips' = flagged
          /\ vip_map' = With(vip_map, v, [id |-> vips[v].id, flags |-> flags])
          /\ UNCHANGED <<rtvars, adopted_ids, initialized, conf, next_inc, probes, resolving,
                         rings, config_map, used, history>>
       \/ Fault /\ Throw(flagged)

\* The steps that change the model only: remove_member_locked, a new weight,
\* and the erase that ends delete_vip_locked.
ModelStep ==
    /\ \/ /\ At("remove")
          /\ vips' = [vips EXCEPT ![Arg(2)].members =
                        [a \in DOMAIN @ \ Arg(3) |-> @[a]]]
       \/ At("weight") /\ vips' = [vips EXCEPT ![Arg(2)].members[Arg(3)].weight = Arg(4)]
       \/ At("erase") /\ vips' = Without(vips, Arg(2))
    /\ Done
    /\ UNCHANGED <<rtvars, adopted_ids, initialized, conf, next_inc, probes, resolving, lbpinned,
                   used, history>>

\* bpf_map_delete_elem on vip_map, whose result the code does not look at, and
\* remove_ring, which throws when the kernel refuses.
UnmapStep ==
    \/ /\ \/ At("del_entry") /\ vip_map' = Without(vip_map, Arg(2)) /\ UNCHANGED rings
          \/ At("remove_ring") /\ rings' = Without(rings, Arg(2)) /\ UNCHANGED vip_map
       /\ Done
       /\ UNCHANGED <<rtvars, vips, adopted_ids, initialized, conf, next_inc, probes, resolving,
                      config_map, used, history>>
    \/ At("remove_ring") /\ Fault /\ Throw(vips)

ReleaseStep ==
    /\ At("release") /\ Done
    /\ IF Arg(2) \in DOMAIN by_addr THEN Release(Arg(2)) ELSE UNCHANGED rtvars
    /\ UNCHANGED <<vips, adopted_ids, initialized, conf, next_inc, probes, resolving, lbpinned,
                   used, history>>

SetMacStep ==
    /\ At("set_mac") /\ Done
    /\ SetMac(Arg(2), Arg(3))
    /\ UNCHANGED <<vips, adopted_ids, initialized, conf, next_inc, probes, resolving, lbpinned,
                   used, history>>
\* The end of a first apply(): pinned VIPs the configuration does not have are
\* unmapped, then unreferenced reals are dropped, then the state is initialized.
SweepStep ==
    /\ At("sweep")
    /\ todo' = FlattenSeq(Steps(DOMAIN adopted_ids \ DOMAIN vips,
                                LAMBDA v : <<<<"del_entry", v>>, <<"remove_ring", adopted_ids[v]>>>>))
                 \o Tail(todo)
    /\ adopted_ids' = EmptyMap
    /\ UNCHANGED <<rtvars, vips, initialized, conf, next_inc, actor, probes, resolving, lbpinned,
                   used, history>>

DropUnreferencedStep ==
    /\ At("drop") /\ Done
    /\ DropStart
    /\ UNCHANGED <<vips, adopted_ids, initialized, conf, next_inc, probes, resolving, lbpinned,
                   used, history>>

ReadyStep ==
    /\ At("ready") /\ Done
    /\ initialized' = TRUE
    /\ UNCHANGED <<rtvars, vips, adopted_ids, conf, next_inc, probes, resolving, lbpinned,
                   used, history>>

\* A map update, or an id of drop_unreferenced, inside the step in progress.
TableStep == (MapUpdate \/ DropStep) /\ UNCHANGED lbvars

LbStep ==
    \/ AdoptStep \/ ConfigStep \/ CreateStep \/ AcquireStep \/ MemberStep \/ RebuildStep
    \/ EntryStep \/ ModelStep \/ UnmapStep \/ ReleaseStep \/ SetMacStep \/ SweepStep
    \/ DropUnreferencedStep \/ ReadyStep \/ TableStep

------------------------------------------------------------------------------
\* Calls.  A call with a bad argument only answers with an error.
Call(vips_, plan, cfg) ==
    /\ Running
    /\ used.ops < MaxOps /\ Use("ops")
    /\ vips' = vips_
    /\ Take("api", plan)
    /\ wanted' = cfg
    /\ UNCHANGED <<shared, half, rtvars, adopted_ids, initialized, conf, next_inc, probes,
                   resolving, lbpinned>>

HasMember(v, a) == v \in DOMAIN vips /\ a \in DOMAIN vips[v].members

add_vip(v, flags) == v \notin DOMAIN vips /\ Call(vips, create_vip(v, flags, EmptyMap), {})
del_vip(v) == v \in DOMAIN vips /\ Call(vips, delete_vip(v), {})

add_real(v, a, w) ==
    /\ v \in DOMAIN vips /\ ~HasMember(v, a)
    /\ Call(vips, <<<<"acquire", a>>, <<"member", v, a, w>>, <<"rebuild", v>>>>, {})

\* Mistake: the id is freed while the ring still has it.
del_real_ReleaseFirst(v, a) ==
    /\ HasMember(v, a)
    /\ Call(vips, <<<<"remove", v, {a}>>, <<"release", a>>, <<"rebuild", v>>>>, {})

del_real(v, a) ==
    /\ HasMember(v, a)
    /\ Call(vips, <<<<"remove", v, {a}>>, <<"rebuild", v>>, <<"release", a>>>>, {})

set_weight(v, a, w) ==
    /\ HasMember(v, a) /\ vips[v].members[a].weight # w
    /\ Call([vips EXCEPT ![v].members[a].weight = w], <<<<"rebuild", v>>>>, {})

set_draining(v, a) ==
    /\ HasMember(v, a)
    /\ Call([vips EXCEPT ![v].members[a].draining = ~@], <<<<"rebuild", v>>>>, {})

reload(cfg) == Call(vips, apply(cfg), {cfg})

\* Daemon::Daemon: the first apply() of a process, with any configuration.
Startup(cfg) ==
    /\ ~adopted /\ Idle
    /\ Take("startup", apply(cfg))
    /\ wanted' = {cfg}
    /\ UNCHANGED <<shared, half, rtvars, vips, adopted_ids, initialized, conf, next_inc, probes,
                   resolving, lbpinned, used>>

\* The process dies between any two writes.
Crash ==
    /\ used.crashes < MaxCrashes /\ Use("crashes")
    /\ adopted
    /\ NewProcess

\* The health checker: a round takes the targets under the mutex, probes them
\* without it, and reports the results one by one.
health_targets ==
    IF ~conf.health THEN <<>>
    ELSE FlattenSeq(Steps(DOMAIN vips \cap TcpVips, LAMBDA v :
           Steps(DOMAIN vips[v].members, LAMBDA a : <<v, a, vips[v].members[a].inc>>)))

StartRound ==
    /\ Running /\ probes = <<>> /\ health_targets # <<>>
    /\ used.rounds < MaxRounds /\ Use("rounds")
    /\ probes' = health_targets
    /\ UNCHANGED <<rtvars, vips, adopted_ids, initialized, conf, next_inc, actor, todo, resolving,
                   lbpinned, history>>

\* What the kernel says of one probe, and the result: no handshake by the deadline
\* and a poll that fails count as the real's failure, a want of descriptors, ports or
\* memory ("local") does not.
Answers == {"connected", "refused", "silent", "no_resources"}
probe_all(answer) == IF answer = "connected" THEN "ok"
                     ELSE IF answer = "no_resources" THEN "local" ELSE "fail"

\* A new member record after a probe; its state changes after Rise successes or
\* Fall failures in a row.
Probed(m, ok) ==
    IF ok THEN [m EXCEPT !.ok = @ + 1, !.fail = 0, !.up = @ \/ m.ok + 1 >= Rise]
          ELSE [m EXCEPT !.fail = @ + 1, !.ok = 0, !.up = @ /\ m.fail + 1 < Fall]

\* The result counts: the target is still the real that was probed, and the
\* probe was made.
\* The mistake is to take a deleted and re-added real for the one probed.
Counts_AnyIncarnation(t, result) == HasMember(t[1], t[2]) /\ result # "local"
Counts(t, result) ==
    HasMember(t[1], t[2]) /\ vips[t[1]].members[t[2]].inc = t[3] /\ result # "local"

\* A change of state rebuilds the ring; the mistake is to do so only when the
\* real goes down.
StateChanged_DownOnly(was, is) == was.up /\ ~is.up
StateChanged(was, is) == was.up # is.up

report_health(result) ==
    LET v == Head(probes)[1]
        a == Head(probes)[2]
        was == vips[v].members[a]
        is == Probed(was, result = "ok")
    IN
    /\ Running /\ probes # <<>>
    /\ probes' = Tail(probes)
    /\ \/ /\ Counts(Head(probes), result)
          /\ vips' = [vips EXCEPT ![v].members[a] = is]
          /\ Take("health", IF StateChanged(was, is) THEN <<<<"rebuild", v>>>> ELSE <<>>)
       \/ ~Counts(Head(probes), result) /\ UNCHANGED <<vips, actor, todo>>
    /\ UNCHANGED <<rtvars, adopted_ids, initialized, conf, next_inc, resolving, lbpinned, used,
                   history>>

\* The neighbour resolver: it takes the addresses to look up under the mutex
\* (all of them every 30 s, else the unresolved ones), waits for ARP without
\* it, and hands over what the ARP table has, one address at a time.
neighbor_targets == IF conf.next_hop # 0 THEN {conf.next_hop} ELSE DOMAIN by_addr

unresolved_neighbors ==
    LET unknown == {a \in DOMAIN by_addr : mac_of(a) = 0} IN
    IF conf.next_hop # 0 /\ unknown # {} THEN {conf.next_hop} ELSE unknown

StartLookup ==
    /\ Running /\ resolving = <<>>
    /\ \E targets \in {neighbor_targets, unresolved_neighbors} :
        targets # {} /\ resolving' = Ascending(targets)
    /\ UNCHANGED <<rtvars, vips, adopted_ids, initialized, conf, next_inc, actor, todo, probes,
                   lbpinned, used, history>>

\* The VIPs that a newly resolved real is on; the mistake is to leave their
\* rings to the next change.
VipsToRebuild_None(newly_usable) == {}
VipsToRebuild(newly_usable) ==
    {v \in DOMAIN vips : DOMAIN vips[v].members \cap newly_usable # {}}

\* neighbor_resolved(ip, mac): new MACs are stored, then every VIP with a real
\* that had none gets a new ring.
neighbor_resolved(ip, mac) ==
    LET addrs == IF conf.next_hop = 0 THEN {ip} \cap DOMAIN by_addr
                 ELSE IF ip = conf.next_hop THEN DOMAIN by_addr ELSE {}
        stale == {a \in addrs : mac_of(a) # mac}
        newly_usable == {a \in stale : mac_of(a) = 0}
    IN  Steps(stale, LAMBDA a : <<"set_mac", a, mac>>)
        \o Steps(VipsToRebuild(newly_usable), LAMBDA v : <<"rebuild", v>>)

\* One address of the lookup: the ARP table has a MAC for it.
Resolved(mac) ==
    /\ Running /\ resolving # <<>>
    /\ Take("neigh", neighbor_resolved(Head(resolving), mac))
    /\ resolving' = Tail(resolving)
    /\ UNCHANGED <<rtvars, vips, adopted_ids, initialized, conf, next_inc, probes, lbpinned, used,
                   history>>

\* ... or it has none.
Unresolved ==
    /\ resolving # <<>>
    /\ resolving' = Tail(resolving)
    /\ UNCHANGED <<rtvars, vips, adopted_ids, initialized, conf, next_inc, actor, todo, probes,
                   lbpinned, used, history>>

------------------------------------------------------------------------------
LbInit ==
    /\ RTInit
    /\ vips = EmptyMap /\ adopted_ids = EmptyMap /\ initialized = FALSE
    /\ conf = NoConf /\ next_inc = 1 /\ actor = "none" /\ todo = <<>>
    /\ probes = <<>> /\ resolving = <<>>
    /\ vip_map = EmptyMap /\ rings = EmptyMap /\ config_map = FALSE
    /\ used = [ops |-> 0, crashes |-> 0, faults |-> 0, rounds |-> 0]
    /\ wanted = {} /\ shared = {} /\ half = {}

LbNext ==
    \/ LbStep
    \/ Crash
    \/ \E cfg \in Configs : Startup(cfg) \/ reload(cfg)
    \/ \E v \in Vips : del_vip(v) \/ \E flags \in {0, 1} : add_vip(v, flags)
    \/ \E v \in Vips, a \in Addrs :
        \/ del_real(v, a) \/ set_draining(v, a)
        \/ \E w \in Weights : add_real(v, a, w) \/ set_weight(v, a, w)
    \/ StartRound
    \/ \E answer \in Answers : report_health(probe_all(answer))
    \/ StartLookup
    \/ \E mac \in Macs : Resolved(mac)
    \/ Unresolved

LbSpec == LbInit /\ [][LbNext]_vars

\* The daemon is restarted when it dies, a call that has the mutex goes on, the
\* resolver's thread passes at least once a second, and ARP answers for every
\* address in the end.
LbFairness ==
    /\ WF_vars(LbStep)
    /\ WF_vars(\E cfg \in Configs : Startup(cfg))
    /\ WF_vars(StartLookup)
    /\ \A ip \in Addrs \cup {cfg.next_hop : cfg \in Configs} :
        SF_vars(resolving # <<>> /\ Head(resolving) = ip /\ \E mac \in Macs : Resolved(mac))

LbFairSpec == LbSpec /\ LbFairness

------------------------------------------------------------------------------
Flags == {0, 1}
MemberType == [weight : Nat, draining : BOOLEAN, up : BOOLEAN, ok : Nat, fail : Nat,
               in_ring : BOOLEAN, inc : Nat, born : Nat]

\* Every variable of LbState has its type.
LbTypeOK ==
    /\ DOMAIN vips \subseteq Vips
    /\ \A v \in DOMAIN vips :
        /\ vips[v].id \in 0 .. MaxVips - 1 /\ vips[v].flags \in Flags
        /\ DOMAIN vips[v].members \subseteq Addrs
        /\ \A a \in DOMAIN vips[v].members : vips[v].members[a] \in MemberType
    /\ DOMAIN adopted_ids \subseteq Vips
    /\ initialized \in BOOLEAN /\ config_map \in BOOLEAN
    /\ next_inc \in Nat
    /\ actor \in {"none", "api", "startup", "health", "neigh"}
    /\ (actor = "none") = (todo = <<>>)
    /\ DOMAIN vip_map \subseteq Vips
    /\ \A v \in DOMAIN vip_map : vip_map[v] \in [id : 0 .. MaxVips - 1, flags : Flags]
    /\ DOMAIN rings \subseteq 0 .. MaxVips - 1

\* A packet never hashes to an id with no address or no MAC (lb_state.cpp:239-241):
\* the ids in the ring of a VIP that the data plane can match are live at every
\* instant, after a refusal of the kernel, after a crash and after both. The exception
\* are the VIPs of `half`, whose entry a reload may write while they have no ring.
RingIdsLive ==
    \A v \in DOMAIN vip_map \ half : vip_map[v].id \in DOMAIN rings =>
        \A id \in DOMAIN rings[vip_map[v].id].weight : reals[id] # 0 /\ neigh[id] # 0

\* "The data plane can never match a VIP that has no ring" (lb_state.cpp:160-161),
\* but for those of `half`, and the ring is its own: no two VIPs share one, also while
\* a new daemon mixes adopted ids with new ones (lb_state.cpp:151-158).
VipHasRing ==
    \A v \in DOMAIN vip_map :
        /\ v \in half \/ vip_map[v].id \in DOMAIN rings
        /\ \A w \in DOMAIN vip_map : vip_map[v].id = vip_map[w].id => v = w

\* The same comment to the letter.
NeverWithoutRing == \A v \in DOMAIN vip_map : vip_map[v].id \in DOMAIN rings

\* The kernel has refused nothing so far.
Unrefused == used.faults = 0

\* "The ring that lands in the kernel always reflects the latest model"
\* (lb_state.h:9-10), and so do the VIP entries: when no call is in progress, a
\* ring holds the members marked in_ring with their weights, none that is not
\* eligible, and all that are, but for reals that were on two VIPs at once.
MapsFollowModel ==
    Running =>
        /\ DOMAIN vip_map = DOMAIN vips
        /\ \A v \in DOMAIN vips :
            LET members == vips[v].members
                marked == {a \in DOMAIN members : members[a].in_ring}
            IN
            /\ vip_map[v] = [id |-> vips[v].id, flags |-> vips[v].flags]
            /\ vips[v].id \in DOMAIN rings
            /\ rings[vips[v].id] =
                [weight |-> [id \in {by_addr[a] : a \in marked} |-> members[slots[id].addr].weight],
                 hash |-> conf.hash]
            /\ marked \subseteq EligibleOf(v)
            /\ EligibleOf(v) \ marked \subseteq shared

\* Every use of a real is counted once, so it is freed with its last use and
\* no sooner, whatever mix of calls, reloads and restarts came before
\* (real_table.h:10-12), as long as the kernel refuses nothing.
RefsCountUsers ==
    Running /\ Unrefused => \A a \in Addrs :
        Cardinality(Users(a)) = IF a \in DOMAIN by_addr THEN slots[by_addr[a]].refs ELSE 0

\* A refusal of the kernel may leave a real referenced for ever, but it never
\* frees one that a VIP still uses (lb_state.cpp:305 dereferences id_of).
MembersKeepIds ==
    Running => \A a \in Addrs : Users(a) # {} =>
        a \in DOMAIN by_addr /\ slots[by_addr[a]].refs >= Cardinality(Users(a))

\* "Makes the maps match `cfg`" (lb_state.h:85): after a startup or a reload and
\* until the next API change, if the kernel refused nothing, the data plane has exactly
\* the configuration: its VIPs with their flags, and for each a ring in the configured
\* hash mode that gives every real the configured weight. Left out of the ring are only
\* reals without weight or MAC, down or draining, and ones that were on two VIPs at once
\* (lb_shared).
MapsMatchConfig ==
    Running /\ Unrefused => \A cfg \in wanted :
        /\ DOMAIN vip_map = {cfg.vips[i].spec : i \in DOMAIN cfg.vips}
        /\ \A i \in DOMAIN cfg.vips :
            LET vc == cfg.vips[i]
                members == vips[vc.spec].members
                ring == rings[vip_map[vc.spec].id]
                shown == {reals[id] : id \in DOMAIN ring.weight}
                due == {a \in DOMAIN vc.reals : /\ vc.reals[a] > 0 /\ mac_of(a) # 0
                                                 /\ members[a].up /\ ~members[a].draining}
            IN
            /\ vip_map[vc.spec].flags = vc.flags
            /\ DOMAIN members = DOMAIN vc.reals
            /\ shown \subseteq due /\ due \ shown \subseteq shared
            /\ \A id \in DOMAIN ring.weight : ring.weight[id] = vc.reals[reals[id]]
            /\ ring.hash = cfg.hash

\* The configuration being applied gives VIP v the real a, with a weight.
Keeps(cfg, v, a) ==
    \E i \in DOMAIN cfg.vips : /\ cfg.vips[i].spec = v
                               /\ a \in DOMAIN cfg.vips[i].reals
                               /\ cfg.vips[i].reals[a] > 0

\* A restart is hitless: a real that is in the ring of a VIP when the daemon
\* starts, and that the configuration keeps, stays in that ring with the same
\* real_id and vip_id through the whole startup (lb_state.cpp:160-164).
RestartKeepsTraffic ==
    [][actor = "startup" /\ actor' = "startup" =>
        \A v \in DOMAIN vip_map \ half : \A id \in DOMAIN rings[vip_map[v].id].weight :
            (\E cfg \in wanted : Keeps(cfg, v, reals[id])) =>
                /\ v \in DOMAIN vip_map' /\ vip_map'[v].id = vip_map[v].id
                /\ id \in DOMAIN rings'[vip_map[v].id].weight
                /\ reals'[id] = reals[id]]_vars

\* A real is judged only by probes that began after it was added: a result that
\* was in flight when it was deleted and added again is not counted
\* (lb_state.cpp:337-338).
OwnProbesOnly ==
    \A v \in DOMAIN vips : \A a \in DOMAIN vips[v].members :
        LET m == vips[v].members[a] IN m.ok + m.fail <= used.rounds - m.born

\* The rings and VIP entries in the pinned maps, seen from one vip_id: a ring is
\* shown to the data plane by two of its slots.
EntryOf(i) == {v \in DOMAIN vip_map : vip_map[v].id = i}
RingIds(i) == IF i \in DOMAIN rings THEN DOMAIN rings[i].weight ELSE {}
Seen(i) == INSTANCE ControlPlane WITH
    Slots <- {0, 1},
    vip <- IF EntryOf(i) = {} THEN "none"
           ELSE IF \E v \in EntryOf(i) : vip_map[v].flags = 0 THEN "ct" ELSE "noct",
    ring <- IF RingIds(i) = {} THEN [s \in {0, 1} |-> MaxReals]
            ELSE [s \in {0, 1} |-> IF s = 0 THEN Min(RingIds(i)) ELSE Max(RingIds(i))]

\* For every vip_id the daemon keeps the promise that the data plane relies on,
\* through calls, reloads, refusals, crashes and restarts (module ControlPlane), unless
\* the id is that of a VIP of `half` which is in vip_map.
DrivesDataPlane ==
    /\ \A i \in 0 .. MaxVips - 1 : Seen(i)!CPInit
    /\ [][\A i \in 0 .. MaxVips - 1 :
            \/ Seen(i)!CPNext \/ UNCHANGED Seen(i)!cpvars
            \/ \E v \in half \cap DOMAIN vip_map' : vip_map'[v].id = i]_vars

\* A real that should have traffic gets it: once nothing changes any more, every
\* member with a weight that is neither draining nor down is in the ring, even
\* if its MAC was unknown when it was added (lb_state.cpp:224-229).
RealsGetTraffic ==
    <>[](\A v \in DOMAIN vips : \A a \in DOMAIN vips[v].members :
            LET m == vips[v].members[a] IN
            m.weight > 0 /\ ~m.draining /\ m.up =>
                v \in DOMAIN vip_map /\ by_addr[a] \in DOMAIN rings[vip_map[v].id].weight)
==============================================================================
