---------------------------- MODULE ControlPlane -----------------------------
(***************************************************************************)
(* What the data plane may rely on: the promise of the daemon about one    *)
(* vip_id, its entry in vip_map, its ring, and the reals and neigh arrays. *)
(* LbState keeps this promise (LbState!DrivesDataPlane); DataPlane runs    *)
(* its packets against it.                                                 *)
(*                                                                         *)
(* A ring is swapped in as a whole (ring_map.cpp:33-55) and names only     *)
(* reals that are in the table with a MAC (lb_state.cpp:294-315); while    *)
(* the VIP is in vip_map, an id leaves the ring before the table frees it. *)
(***************************************************************************)
EXTENDS RealTable

CONSTANT Slots   \* the slots of a ring: 0 .. PB_RING_SIZE - 1

VARIABLES vip,   \* the entry of the VIP: "none", "ct", or "noct" (PB_VIP_F_NO_CONNTRACK)
          ring   \* the inner map: slot -> real_id or PB_REAL_NONE

cpvars == <<rtvars, vip, ring>>

REAL_NONE == MaxReals
NoRing == [s \in Slots |-> REAL_NONE]
InRing(id) == \E s \in Slots : ring[s] = id

\* An id may be freed: no packet can find it in the ring.
MayFree(id) == vip = "none" \/ ~InRing(id)

\* The ids a ring may name.
Usable == {id \in Ids : slots[id].addr # 0 /\ slots[id].mac # 0}

\* install_ring and remove_ring: one update of the outer map.
InstallRing ==
    /\ Quiet
    /\ ring' \in [Slots -> Usable \cup {REAL_NONE}]
    /\ UNCHANGED <<rtvars, vip>>

\* write_vip_entry: the ring is there before the entry.
MapVip ==
    /\ Quiet
    /\ vip = "none" => \A s \in Slots : ring[s] \in Usable \cup {REAL_NONE}
    /\ vip' \in {"ct", "noct"}
    /\ UNCHANGED <<rtvars, ring>>

UnmapVip ==
    /\ Quiet /\ vip # "none"
    /\ vip' = "none"
    /\ UNCHANGED <<rtvars, ring>>

ReleaseReal ==
    /\ \E a \in Addrs :
        /\ Release(a)
        /\ slots[by_addr[a]].refs <= 1 => MayFree(by_addr[a])
    /\ UNCHANGED <<vip, ring>>

\* The other calls on the table, and the end of the process.
CallTable ==
    /\ \/ DropStart \/ Restart
       \/ \E a \in Addrs : Acquire(a) \/ \E m \in Macs : SetMac(a, m)
    /\ UNCHANGED <<vip, ring>>

\* What a call still has to do, and the adoption a new process begins with.
TableGoesOn ==
    /\ \/ MapUpdate \/ Adopt
       \/ DropStep /\ (slots[drop].refs = 0 => MayFree(drop))
    /\ UNCHANGED <<vip, ring>>

CPInit == RTInit /\ vip = "none" /\ ring = NoRing

CPNext == InstallRing \/ MapVip \/ UnmapVip \/ ReleaseReal \/ CallTable \/ TableGoesOn

CPSpec == CPInit /\ [][CPNext]_cpvars

------------------------------------------------------------------------------
\* The entry and the ring have their types.
CPTypeOK ==
    /\ vip \in {"none", "ct", "noct"}
    /\ ring \in [Slots -> Ids \cup {REAL_NONE}]

\* A packet for the VIP never hashes to an id without an address or a MAC, at
\* any instant of any call and after a restart (lb_state.cpp:239-241, 294-315).
RingServes ==
    vip # "none" => \A s \in Slots : ring[s] # REAL_NONE =>
        reals[ring[s]] # 0 /\ neigh[ring[s]] # 0

\* The inductive invariant behind RingServes: once the process has adopted the
\* maps, it also has the ring's reals in its table.
RingKnown ==
    vip # "none" /\ adopted => \A s \in Slots : ring[s] # REAL_NONE => ring[s] \in Usable

CPInv == RTInv /\ CPTypeOK /\ RingServes /\ RingKnown
==============================================================================
