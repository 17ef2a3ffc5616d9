------------------------------ MODULE Commands -------------------------------
(***************************************************************************)
(* The commands that take more than one lock: `reload`, which reads the    *)
(* configuration file, then holds config_mu_ while LbState applies it      *)
(* (daemon.cpp, config.cpp), and `ring.show`, which asks LbState twice and *)
(* then reads the pinned maps with no lock at all (commands.cpp,           *)
(* ring_map.cpp). They run on session threads of their own, beside every   *)
(* other call of LbState, whose steps this module takes as they are.       *)
(***************************************************************************)
EXTENDS LbState

CONSTANTS
    Texts,        \* what the file holds, one edit after the other; n is the place here
    Override,     \* command-line options: field of the configuration -> value
    Reloaders,    \* sessions that send reload
    Viewers,      \* sessions that send ring.show
    MaxWeight     \* kMaxRealWeight

ASSUME CommandsAssumption ==
    /\ Texts # <<>> /\ MaxWeight \in Nat
    /\ \A i \in DOMAIN Texts : Texts[i].n = i /\ DOMAIN Override \subseteq DOMAIN Texts[i]

VARIABLES
    file,       \* the text that is in the file now, by its place in Texts
    config_,    \* Daemon::config_
    started,    \* history: the configuration the objects were constructed with
    params,     \* HealthChecker::params_
    config_mu,  \* the session that holds config_mu_, or "free"
    rel,        \* reloader -> [pc, next: the configuration it loaded]
    view        \* viewer -> [pc, vip, id, names, ring; meant: history, what the ids of
                \*            the ring stood for when it was read]

cmdvars == <<file, config_, started, params, config_mu, rel, view>>
allvars == <<vars, cmdvars>>

NoConfig == [n |-> 0]
NoReload == [pc |-> "idle", next |-> NoConfig]
NoView == [pc |-> "idle", vip |-> 0, id |-> 0, names |-> EmptyMap, ring |-> {},
           meant |-> EmptyMap]

------------------------------------------------------------------------------
(* Loading.                                                                 *)

AddrsOf(vc) == [i \in DOMAIN vc.reals |-> vc.reals[i].addr]
AllReals(c) == UNION {Range(AddrsOf(c.vips[i])) : i \in DOMAIN c.vips}

\* Mistake: the reserved real_id 0 is counted as usable.
validate_config_AllIds(c) ==
    /\ c.settings # 0 /\ c.timeout \in 1..c.interval
    /\ Len(c.vips) <= MaxVips
    /\ IsInjective([i \in DOMAIN c.vips |-> c.vips[i].spec])
    /\ \A i \in DOMAIN c.vips : IsInjective(AddrsOf(c.vips[i]))
    /\ Cardinality(AllReals(c)) <= MaxReals

\* `settings` stands for the required ones (interface, prefix, table size), 0 for
\* one that is missing.
validate_config(c) ==
    /\ c.settings # 0 /\ c.timeout \in 1..c.interval
    /\ Len(c.vips) <= MaxVips
    /\ IsInjective([i \in DOMAIN c.vips |-> c.vips[i].spec])
    /\ \A i \in DOMAIN c.vips :
        /\ IsInjective(AddrsOf(c.vips[i]))
        /\ \A r \in Range(c.vips[i].reals) : r.addr # 0 /\ r.weight <= MaxWeight
    /\ Cardinality(AllReals(c)) <= MaxReals - 1

apply_to(c) == [f \in DOMAIN c |-> IF f \in DOMAIN Override THEN Override[f] ELSE c[f]]

\* The text as load_config gives it to apply(), which puts a VIP's reals in a map.
\* The text alone is validated first, then again with the options.
Loads(c) == validate_config(c) /\ validate_config(apply_to(c))
load_config(c) ==
    LET RealsOf(vc) == [a \in Range(AddrsOf(vc)) |->
                          (CHOOSE r \in Range(vc.reals) : r.addr = a).weight]
    IN  [apply_to(c) EXCEPT !.vips = [i \in DOMAIN @ |->
            [spec |-> @[i].spec, flags |-> @[i].flags, reals |-> RealsOf(@[i])]]]

Edit ==
    /\ file < Len(Texts)
    /\ file' = file + 1
    /\ UNCHANGED <<vars, config_, started, params, config_mu, rel, view>>

\* Daemon::Daemon. With a text that does not load the process only exits.
Construct ==
    /\ Loads(Texts[file])
    /\ LET c == load_config(Texts[file]) IN
        /\ Startup(c)
        /\ config_' = c /\ started' = c
        /\ params' = [interval |-> c.interval, timeout |-> c.timeout]
    /\ UNCHANGED <<file, config_mu, rel, view>>

------------------------------------------------------------------------------
(* reload                                                                   *)

\* The file is read before the lock is taken.
ReloadLoad(s) ==
    /\ initialized
    /\ rel[s].pc = "idle"
    /\ Loads(Texts[file])
    /\ rel' = [rel EXCEPT ![s] = [pc |-> "loaded", next |-> load_config(Texts[file])]]
    /\ UNCHANGED <<vars, file, config_, started, params, config_mu, view>>

\* Mistake: only the health setting is kept.
RestartOnly_HealthOnly(c) == [c EXCEPT !.health = config_.health]

\* What a reload does not change keeps its running value.
RestartOnly(c) == [c EXCEPT !.settings = config_.settings, !.health = config_.health]

ReloadLock(s) ==
    /\ rel[s].pc = "loaded"
    /\ config_mu = "free"
    /\ config_mu' = s
    /\ rel' = [rel EXCEPT ![s].pc = "locked", ![s].next = RestartOnly(@)]
    /\ UNCHANGED <<vars, file, config_, started, params, view>>

\* state_->apply(next): LbState's call, whose steps follow.
ReloadApply(s) ==
    /\ rel[s].pc = "locked"
    /\ reload(rel[s].next)
    /\ rel' = [rel EXCEPT ![s].pc = "apply"]
    /\ UNCHANGED <<file, config_, started, params, config_mu, view>>

\* The session whose apply() is in progress.
Applying == {s \in Reloaders : rel[s].pc = "apply"}

\* A step of LbState. The one that ends a reload's apply() hands back to its session;
\* it has thrown if steps were left or the kernel refused, and then the lock is
\* released and nothing else of reload() is done. A process that ends takes its
\* sessions with it.
StateStep ==
    /\ LbStep
    /\ LET threw == Len(todo) > 1 \/ used'.faults # used.faults IN
       IF adopted /\ ~adopted'
       THEN /\ rel' = [s \in Reloaders |-> NoReload]
            /\ view' = [s \in Viewers |-> NoView]
            /\ config_mu' = "free"
       ELSE /\ rel' = [s \in Reloaders |->
                         IF s \notin Applying \/ actor' # "none" THEN rel[s]
                         ELSE IF threw THEN NoReload ELSE [rel[s] EXCEPT !.pc = "applied"]]
            /\ config_mu' = IF Applying # {} /\ actor' = "none" /\ threw THEN "free" ELSE config_mu
            /\ UNCHANGED view
    /\ UNCHANGED <<file, config_, started, params>>

ReloadParams(s) ==
    /\ rel[s].pc = "applied" /\ Settled
    /\ params' = [interval |-> rel[s].next.interval, timeout |-> rel[s].next.timeout]
    /\ rel' = [rel EXCEPT ![s].pc = "params"]
    /\ UNCHANGED <<vars, file, config_, started, config_mu, view>>

ReloadAssign(s) ==
    /\ rel[s].pc = "params"
    /\ config_' = rel[s].next
    /\ config_mu' = "free"
    /\ rel' = [rel EXCEPT ![s] = NoReload]
    /\ UNCHANGED <<vars, file, started, params, view>>

------------------------------------------------------------------------------
(* ring.show                                                                *)

\* find(spec), under LbState's mutex.
ShowFind(s, v) ==
    /\ view[s].pc = "idle"
    /\ Running /\ v \in DOMAIN vips
    /\ view' = [view EXCEPT ![s] = [NoView EXCEPT !.pc = "found", !.vip = v, !.id = vips[v].id]]
    /\ UNCHANGED <<vars, file, config_, started, params, config_mu, rel>>

\* real_addrs(), under the mutex again: real_id -> address.
real_addrs == [id \in {by_addr[a] : a \in DOMAIN by_addr} |-> slots[id].addr]

ShowNames(s) ==
    /\ view[s].pc = "found"
    /\ Running
    /\ view' = [view EXCEPT ![s].pc = "named", ![s].names = real_addrs]
    /\ UNCHANGED <<vars, file, config_, started, params, config_mu, rel>>

\* read_ring: the inner map is found by the vip_id and read whole, no ring gives no
\* slots, and a ring that is swapped before it is opened an error.
ShowRead(s) ==
    /\ view[s].pc = "named"
    /\ \/ view' = [view EXCEPT ![s].pc = "read", ![s].ring = RingIds(view[s].id),
                               ![s].meant = [id \in RingIds(view[s].id) |-> reals[id]]]
       \/ view' = [view EXCEPT ![s] = NoView]
    /\ UNCHANGED <<vars, file, config_, started, params, config_mu, rel>>

\* The answer: slots by address, or by number where the table knew no address.
Label(s, id) == IF id \in DOMAIN view[s].names THEN view[s].names[id] ELSE 0

ShowAnswer(s) ==
    /\ view[s].pc = "read"
    /\ Running   \* hash_mode()
    /\ view' = [view EXCEPT ![s] = NoView]
    /\ UNCHANGED <<vars, file, config_, started, params, config_mu, rel>>

------------------------------------------------------------------------------
\* The calls of other sessions that give out or free an id. The remaining calls, and
\* the workers, only rebuild a ring from the same ids and touch no setting: LbState.
OtherCall ==
    /\ \E v \in Vips : \/ add_vip(v, 0) \/ del_vip(v)
                       \/ \E a \in Addrs : add_real(v, a, 1) \/ del_real(v, a)
    /\ UNCHANGED cmdvars

CmdInit ==
    /\ LbInit
    /\ file = 1
    /\ config_ = NoConfig /\ started = NoConfig /\ params = NoConfig
    /\ config_mu = "free"
    /\ rel = [s \in Reloaders |-> NoReload]
    /\ view = [s \in Viewers |-> NoView]

CmdNext ==
    \/ Edit \/ Construct \/ StateStep \/ OtherCall
    \/ \E s \in Reloaders : ReloadLoad(s) \/ ReloadLock(s) \/ ReloadApply(s) \/ ReloadParams(s)
                             \/ ReloadAssign(s)
    \/ \E s \in Viewers : ShowNames(s) \/ ShowRead(s) \/ ShowAnswer(s)
                          \/ \E v \in Vips : ShowFind(s, v)

CmdSpec == CmdInit /\ [][CmdNext]_allvars

------------------------------------------------------------------------------
(* Properties                                                               *)

\* "so `config` reports the truth" (daemon.cpp:112): whenever `config` can read
\* config_, the hash mode, the next hop and the health-check timing in it are the
\* ones in force, the settings a reload cannot change are those the process started
\* with, and its VIPs are the ones in the maps until an API call changes them,
\* however many reloads ran, in whatever order they loaded, locked and applied.
ConfigIsTruth ==
    Running /\ config_mu = "free" =>
        /\ conf = [health |-> config_.health, next_hop |-> config_.next_hop, hash |-> config_.hash]
        /\ params = [interval |-> config_.interval, timeout |-> config_.timeout]
        /\ config_.settings = started.settings /\ config_.health = started.health
        /\ wanted \subseteq {config_}

\* "ids only change under real.del, which rebuilds the ring first"
\* (commands.cpp:226): ring.show never counts the slots of one real under the address
\* of another, although the ring is read after the names and reals come and go in
\* between, as long as the ids have not gone round once.
RingShown ==
    handed # Ids =>
        \A s \in Viewers : \A id \in view[s].ring : Label(s, id) \in {0, view[s].meant[id]}

\* The VIP shown is the VIP asked for: its vip_id has not been given to another VIP.
RingOfItsVip ==
    \A s \in Viewers : view[s].pc = "read" =>
        \A v \in DOMAIN vip_map : vip_map[v].id = view[s].id => v = view[s].vip

\* "real_id 0 is reserved, so PB_MAX_REALS - 1 usable" (config.cpp:94): a
\* configuration that validates finds room for its VIPs and reals when a daemon
\* starts on new maps; the constructor never fails half way for want of an id.
ValidConfigFits ==
    actor = "startup" =>
        /\ At("create") => Arg(2) \in DOMAIN adopted_ids \/ FreeVipIds # {}
        /\ At("acquire") => ~TooManyReals(Arg(2))

\* A reload "re-reads the YAML config" (API.md:48): the configuration never goes back
\* to a text that was replaced before the one in force was loaded.
NeverOlder ==
    [][config_'.n >= config_.n]_allvars
==============================================================================
