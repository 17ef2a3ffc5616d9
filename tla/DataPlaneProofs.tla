--------------------------- MODULE DataPlaneProofs ---------------------------
(***************************************************************************)
(* What a packet can rely on, for every number of CPUs, flows, packets,    *)
(* ring slots and reals: DpInv is inductive, and it implies the action     *)
(* properties that the runs check on a small instance.                     *)
(***************************************************************************)
EXTENDS DataPlane, ControlPlaneProofs

PacketState ==
    [pc : {"idle", "conn", "ring", "real", "neigh", "encap", "frame", "sent"},
     shape : Shapes \cup {"none"}, flow : Flows \cup {0}, use_ct : BOOLEAN,
     id : Ids \cup {REAL_NONE}, addr : Addrs \cup {0}, mac : Macs \cup {0}]

\* What DpInv says beyond CPInv.
PacketInv ==
    /\ DpTypeOK
    /\ \A c \in Cpus : PacketKnows(c) /\ PacketServed(c) /\ PacketGoesHome(c)
    /\ \A c \in Cpus : \A f \in Flows : HomeHasEntry(c, f)

LEMMA PktType == DpTypeOK => pkt \in [Cpus -> PacketState]
BY DEF DpTypeOK, PacketState

LEMMA NoneIsNoId == REAL_NONE \notin Ids /\ \A id \in Ids : id < MaxReals /\ id \in AllIds
BY MaxRealsAssumption DEF REAL_NONE, Ids, AllIds

LEMMA NoPacketType == NoPacket \in PacketState
BY DEF NoPacket, PacketState

\* Every step of the data plane is a step of the control plane, or leaves it alone.
LEMMA DpStepsCP == [DpNext]_vars => [CPNext]_cpvars
BY DEF DpNext, vars, PacketStep, ControlStep, ControlGoesOn, CPNext

\* The maps of a running daemon.
LEMMA DpInitCP == DpInit => CPInv
<1> SUFFICES ASSUME DpInit PROVE CPInv
  OBVIOUS
<1> USE MaxRealsAssumption, AddrsAssumption, MacsAssumption
<1> DEFINE known(id) == id # 0 /\ id \in Addrs \cap Macs
<1>1. /\ slots = [id \in AllIds |-> IF known(id) THEN [addr |-> id, refs |-> 1, mac |-> id]
                                                 ELSE FreeSlot]
      /\ by_addr = [a \in {id \in Ids : known(id)} |-> a]
      /\ cursor = 1 /\ adopted = TRUE /\ drop = 0 /\ writes = <<>>
      /\ reals = [id \in AllIds |-> slots[id].addr]
      /\ neigh = [id \in AllIds |-> slots[id].mac]
      /\ learned = {<<id, id>> : id \in {id \in Ids : known(id)}}
      /\ handed = {id \in Ids : known(id)}
  BY DEF DpInit
<1>2. \A id \in Ids : /\ known(id) => slots[id] = [addr |-> id, refs |-> 1, mac |-> id]
                      /\ ~known(id) => slots[id] = FreeSlot
                      /\ id \in AllIds /\ id # 0
  BY <1>1 DEF Ids
<1>3. slots[0] = FreeSlot /\ 0 \in AllIds /\ 1 \in Ids /\ Ids \subseteq AllIds
  BY <1>1 DEF Ids, AllIds
<1>4. \A id \in Ids : /\ reals[id] = (IF known(id) THEN id ELSE 0)
                      /\ neigh[id] = (IF known(id) THEN id ELSE 0)
  BY Zenon, <1>1, <1>2 DEF FreeSlot
<1>5. RTTypeOK
  <2>1. slots \in [AllIds -> [addr : Addrs \cup {0}, refs : Nat, mac : Macs \cup {0}]]
    BY <1>1 DEF FreeSlot
  <2>2. reals \in [AllIds -> Addrs \cup {0}] /\ neigh \in [AllIds -> Macs \cup {0}] /\ reals[0] = 0
    BY <1>1, <1>3, <2>1 DEF FreeSlot
  <2>3. DOMAIN by_addr \subseteq Addrs /\ by_addr \in [DOMAIN by_addr -> Ids]
    BY <1>1
  <2>4. learned \subseteq Addrs \X Macs /\ handed \subseteq Ids
    BY <1>1
  <2>5. writes \in Seq({"neigh", "reals"} \X Ids)
    BY <1>1
  <2> QED BY <1>1, <1>3, <2>1, <2>2, <2>3, <2>4, <2>5 DEF RTTypeOK
<1>6. TablesAgree
  BY Zenon, <1>1, <1>2 DEF TablesAgree, FreeSlot
<1>7. \A map, id : ~Pending(map, id)
  BY <1>1, PendingFacts DEF Pending
<1>8. MapsMirrorTable /\ FillInProgress
  BY Zenon, <1>1, <1>2, <1>4, <1>7 DEF MapsMirrorTable, FillInProgress, FreeSlot
<1>9. OneIdPerAddress /\ MacOfItsReal
  <2>1. OneIdPerAddress
    BY <1>4 DEF OneIdPerAddress
  <2>2. ASSUME NEW id \in Ids, reals[id] # 0, neigh[id] # 0
        PROVE  <<reals[id], neigh[id]>> \in learned
    <3>1. known(id) /\ reals[id] = id /\ neigh[id] = id
      BY <1>4, <2>2
    <3>2. <<id, id>> \in learned
      BY <1>1, <3>1
    <3> QED BY <3>1, <3>2
  <2> QED BY <2>1, <2>2 DEF MacOfItsReal
<1>10. KnownMacsLearned
  BY ZenonT(60), <1>1, <1>2 DEF KnownMacsLearned, FreeSlot
<1>11. RTInv
  BY <1>1, <1>5, <1>6, <1>8, <1>9, <1>10 DEF RTInv, WritesShape, NotAdopted
<1>12. vip \in {"ct", "noct"} /\ ring \in [Slots -> Usable \cup {REAL_NONE}]
  BY DEF DpInit
<1>13. CPTypeOK /\ RingKnown
  BY <1>12 DEF CPTypeOK, RingKnown, Usable
<1>14. RingServes
  <2>1. ASSUME NEW id \in Usable PROVE reals[id] # 0 /\ neigh[id] # 0
    <3>1. id \in Ids /\ slots[id].addr # 0
      BY DEF Usable
    <3>2. slots[id] # FreeSlot
      BY <3>1 DEF FreeSlot
    <3>3. known(id)
      BY Zenon, <1>2, <3>1, <3>2
    <3> QED BY <1>2, <1>4, <3>1, <3>3
  <2> QED BY <1>12, <2>1 DEF RingServes
<1> QED BY <1>11, <1>13, <1>14 DEF CPInv

LEMMA DpInitInv == DpInit => DpInv
<1> SUFFICES ASSUME DpInit PROVE DpInv
  OBVIOUS
<1>1. CPInv
  BY DpInitCP
<1>2. /\ pkt = [c \in Cpus |-> NoPacket] /\ home = [c \in Cpus |-> [f \in Flows |-> 0]]
      /\ conntrack = EmptyMap /\ offered = [c \in Cpus |-> {}] /\ freed = {}
  BY DEF DpInit
<1>3. DpTypeOK
  BY <1>2, NoPacketType DEF DpTypeOK, PacketState, EmptyMap
<1>4. \A c \in Cpus : ~InFlight(c)
  BY <1>2 DEF InFlight, NoPacket
<1>5. \A c \in Cpus : PacketKnows(c) /\ PacketServed(c) /\ PacketGoesHome(c)
  BY <1>4 DEF PacketKnows, PacketServed, PacketGoesHome
<1>6. \A c \in Cpus : \A f \in Flows : HomeHasEntry(c, f)
  BY <1>2 DEF HomeHasEntry
<1> QED BY <1>1, <1>3, <1>5, <1>6 DEF DpInv

------------------------------------------------------------------------------
\* The steps of packets. None of them touches the maps of the control plane.

\* What forward() starts from: the VIP is mapped, so that its ring serves.
LEMMA ReceiveCases ==
    ASSUME NEW c \in Cpus, NEW p \in Packets, Receive(c, p)
    PROVE  /\ ~InFlight(c) /\ UNCHANGED conntrack
           /\ \/ pkt' = [pkt EXCEPT ![c] = NoPacket]
              \/ \E use_ct \in BOOLEAN :
                    /\ vip # "none"
                    /\ pkt' = [pkt EXCEPT ![c] = [NoPacket EXCEPT
                                 !.pc = FirstLookup(p, use_ct), !.shape = p.shape,
                                 !.flow = p.flow, !.use_ct = use_ct]]
<1>1. Parse(p) = "forward" => vip # "none"
  BY DEF Parse
<1> QED BY Zenon, <1>1 DEF Receive

\* A packet arrives.
LEMMA ReceiveInv ==
    ASSUME DpInv, NEW c \in Cpus, NEW p \in Packets, Receive(c, p), UNCHANGED cpvars,
           offered' = [offered EXCEPT ![c] = {ring[SlotOf[p.flow]]}], freed' = freed \ {c},
           home' = IF p.shape = "syn" THEN [home EXCEPT ![c][p.flow] = 0] ELSE home
    PROVE  PacketInv'
<1> DEFINE Arrived(use_ct) == [NoPacket EXCEPT !.pc = FirstLookup(p, use_ct), !.shape = p.shape,
                                               !.flow = p.flow, !.use_ct = use_ct]
<1>1. p.shape \in Shapes /\ p.flow \in Flows /\ SlotOf[p.flow] \in Slots
  BY PacketsAssumption, DpAssumption
<1>2. ring[SlotOf[p.flow]] \in Ids \cup {REAL_NONE}
  BY <1>1 DEF DpInv, CPInv, CPTypeOK
<1>3. UNCHANGED <<ring, reals, neigh, vip>>
  BY DEF cpvars, rtvars, pinned
<1>4. PICK q \in {NoPacket} \cup {Arrived(b) : b \in BOOLEAN} :
        pkt' = [pkt EXCEPT ![c] = q] /\ (q # NoPacket => vip # "none")
  <2>1. CASE pkt' = [pkt EXCEPT ![c] = NoPacket]
    BY Zenon, <2>1
  <2>2. ASSUME NEW b \in BOOLEAN, vip # "none", pkt' = [pkt EXCEPT ![c] = Arrived(b)]
        PROVE  \E q \in {NoPacket} \cup {Arrived(x) : x \in BOOLEAN} :
                 pkt' = [pkt EXCEPT ![c] = q] /\ (q # NoPacket => vip # "none")
    <3> HIDE DEF Arrived
    <3> QED BY Zenon, <2>2
  <2> QED BY Zenon, <2>1, <2>2, ReceiveCases
<1>5. \A b \in BOOLEAN :
        /\ Arrived(b) \in PacketState /\ Arrived(b).flow = p.flow /\ Arrived(b).shape = p.shape
        /\ Arrived(b).use_ct = b /\ Arrived(b).pc \in {"conn", "ring"}
        /\ p.shape = "syn" \/ ~b => Arrived(b).pc = "ring"
        /\ b /\ p.shape # "syn" => Arrived(b).pc = "conn"
  BY Zenon, <1>1 DEF NoPacket, FirstLookup, PacketState
<1>6. pkt'[c] = q /\ q \in PacketState /\ \A d \in Cpus \ {c} : pkt'[d] = pkt[d]
  BY Zenon, <1>4, <1>5, NoPacketType DEF DpInv, DpTypeOK
<1>7. DpTypeOK'
  <2>1. pkt' \in [Cpus -> PacketState]
    BY Zenon, <1>4, <1>6, PktType DEF DpInv
  <2>2. home' \in [Cpus -> [Flows -> Addrs \cup {0}]]
    BY Zenon, <1>1 DEF DpInv, DpTypeOK
  <2>3. offered' \in [Cpus -> SUBSET (Ids \cup {REAL_NONE})] /\ freed' \subseteq Cpus
    BY Zenon, <1>2 DEF DpInv, DpTypeOK
  <2> QED BY Zenon, <2>1, <2>2, <2>3, ReceiveCases DEF DpInv, DpTypeOK, PacketState
<1>8. ASSUME NEW d \in Cpus, d # c
      PROVE  (PacketKnows(d) /\ PacketServed(d) /\ PacketGoesHome(d))'
  <2>1. pkt'[d] = pkt[d] /\ offered'[d] = offered[d] /\ (d \in freed' <=> d \in freed)
        /\ home'[d] = home[d]
    BY Zenon, <1>6, <1>8 DEF DpInv, DpTypeOK
  <2>2. conntrack' = conntrack
    BY Zenon, ReceiveCases
  <2>3. PacketKnows(d) /\ PacketServed(d) /\ PacketGoesHome(d)
    BY Zenon DEF DpInv
  <2>4. PacketKnows(d)'
    BY Zenon, <1>3, <2>1, <2>3 DEF PacketKnows, InFlight, Picked
  <2>5. PacketServed(d)'
    BY Zenon, <1>3, <2>1, <2>3 DEF PacketServed, InFlight, Picked
  <2>6. PacketGoesHome(d)'
    BY Zenon, <2>1, <2>2, <2>3 DEF PacketGoesHome, InFlight, Picked
  <2> QED BY Zenon, <2>4, <2>5, <2>6
<1>9. (PacketKnows(c) /\ PacketServed(c) /\ PacketGoesHome(c))'
  <2>1. CASE q = NoPacket
    BY <1>6, <2>1 DEF PacketKnows, PacketServed, PacketGoesHome, InFlight, NoPacket
  <2>2. CASE q # NoPacket
    <3>1. PICK b \in BOOLEAN : q = Arrived(b)
      BY Zenon, <1>4, <2>2
    <3>2. offered'[c] = {ring[SlotOf[p.flow]]}
      BY Zenon DEF DpInv, DpTypeOK
    <3>3. p.shape = "syn" => home'[c][p.flow] = 0
      BY Zenon, <1>1 DEF DpInv, DpTypeOK
    <3>4. \A id \in offered'[c] \cap Ids : reals[id] # 0 /\ neigh[id] # 0
      BY Zenon, <1>1, <1>4, <2>2, <3>2, NoneIsNoId DEF DpInv, CPInv, RingServes
    <3>5. ~Picked(c)'
      BY Zenon, <1>5, <1>6, <3>1 DEF Picked
    <3> HIDE DEF Arrived
    <3>6. PacketKnows(c)'
      BY <1>1, <1>3, <1>5, <1>6, <3>1, <3>2, <3>3, <3>5 DEF PacketKnows, InFlight
    <3>7. PacketServed(c)'
      BY <1>3, <3>4, <3>5 DEF PacketServed
    <3>8. PacketGoesHome(c)'
      BY <1>5, <1>6, <3>1, <3>3, <3>5 DEF PacketGoesHome, InFlight
    <3> QED BY <3>6, <3>7, <3>8
  <2> QED BY Zenon, <2>1, <2>2
<1>10. ASSUME NEW d \in Cpus, NEW f \in Flows PROVE HomeHasEntry(d, f)'
  <2>1. home'[d][f] \in {0, home[d][f]}
    BY Zenon DEF DpInv, DpTypeOK
  <2>2. conntrack' = conntrack
    BY Zenon, ReceiveCases
  <2> QED BY Zenon, <1>3, <2>1, <2>2 DEF DpInv, HomeHasEntry, StandsFor
<1> QED BY Zenon, <1>7, <1>8, <1>9, <1>10 DEF PacketInv

\* What a step of CPU c's packet leaves to the other CPUs, and what remains to be shown.
LEMMA OwnStep ==
    ASSUME DpInv, NEW c \in Cpus, UNCHANGED <<cpvars, offered, freed>>, DpTypeOK',
           \A d \in Cpus \ {c} : pkt'[d] = pkt[d] /\ home'[d] = home[d],
           \A d \in Cpus, f \in Flows : home[d][f] # 0 =>
              f \in DOMAIN conntrack' /\ conntrack'[f][d] = conntrack[f][d],
           (PacketKnows(c) /\ PacketServed(c) /\ PacketGoesHome(c))',
           \A f \in Flows : home'[c][f] # home[c][f] => HomeHasEntry(c, f)'
    PROVE  PacketInv'
<1>1. UNCHANGED <<ring, reals, neigh, vip>>
  BY DEF cpvars, rtvars, pinned
<1>2. ASSUME NEW d \in Cpus, d # c
      PROVE  (PacketKnows(d) /\ PacketServed(d) /\ PacketGoesHome(d))'
  <2>1. pkt'[d] = pkt[d] /\ home'[d] = home[d] /\ offered' = offered /\ freed' = freed
    BY <1>2
  <2>2. PacketKnows(d) /\ PacketServed(d) /\ PacketGoesHome(d)
    BY SMTT(60) DEF DpInv
  <2>3. PacketKnows(d)'
    BY Zenon, <1>1, <2>1, <2>2 DEF PacketKnows, InFlight, Picked
  <2>4. PacketServed(d)'
    BY Zenon, <1>1, <2>1, <2>2 DEF PacketServed, InFlight, Picked
  <2>5. InFlight(d) => pkt[d].flow \in Flows
    BY Zenon, <2>2 DEF PacketKnows
  <2>6. PacketGoesHome(d)'
    BY <1>1, <2>1, <2>2, <2>5 DEF PacketGoesHome, InFlight, Picked
  <2> QED BY <2>3, <2>4, <2>6
<1>3. ASSUME NEW d \in Cpus, NEW f \in Flows, home'[d][f] = home[d][f]
      PROVE  HomeHasEntry(d, f)'
  <2>1. HomeHasEntry(d, f)
    BY DEF DpInv
  <2> QED BY Zenon, <1>1, <1>3, <2>1 DEF HomeHasEntry, StandsFor
<1> QED BY <1>2, <1>3 DEF PacketInv

\* The three kinds of steps of a packet.
LEMMA StepTypes ==
    ASSUME DpInv, NEW c \in Cpus
    PROVE  /\ \A counters : DropPacket(c, counters) =>
                 /\ pkt' \in [Cpus -> PacketState] /\ ~InFlight(c)'
                 /\ \A d \in Cpus \ {c} : pkt'[d] = pkt[d]
           /\ \A pc \in {"ring", "real"}, id \in Ids \cup {REAL_NONE} : Goto(c, pc, id) =>
                 /\ pkt' \in [Cpus -> PacketState]
                 /\ pkt'[c] = [pkt[c] EXCEPT !.pc = pc, !.id = id]
                 /\ \A d \in Cpus \ {c} : pkt'[d] = pkt[d]
           /\ \A pc \in {"neigh", "frame"}, a \in Addrs \cup {0} :
                 pkt' = [pkt EXCEPT ![c].pc = pc, ![c].addr = a] =>
                 /\ pkt' \in [Cpus -> PacketState]
                 /\ pkt'[c] = [pkt[c] EXCEPT !.pc = pc, !.addr = a]
                 /\ \A d \in Cpus \ {c} : pkt'[d] = pkt[d]
<1>1. pkt \in [Cpus -> PacketState]
  BY PktType DEF DpInv
<1>2. ASSUME NEW counters, DropPacket(c, counters)
      PROVE  /\ pkt' \in [Cpus -> PacketState] /\ ~InFlight(c)'
             /\ \A d \in Cpus \ {c} : pkt'[d] = pkt[d]
  <2>1. pkt' = [pkt EXCEPT ![c] = NoPacket] /\ NoPacket.pc = "idle"
    BY <1>2 DEF DropPacket, NoPacket
  <2>2. pkt' \in [Cpus -> PacketState] /\ pkt'[c] = NoPacket /\ \A d \in Cpus \ {c} : pkt'[d] = pkt[d]
    BY <1>1, <2>1, NoPacketType
  <2> QED BY <2>1, <2>2 DEF InFlight
<1>3. ASSUME NEW pc \in {"ring", "real"}, NEW id \in Ids \cup {REAL_NONE}, Goto(c, pc, id)
      PROVE  /\ pkt' \in [Cpus -> PacketState]
             /\ pkt'[c] = [pkt[c] EXCEPT !.pc = pc, !.id = id]
             /\ \A d \in Cpus \ {c} : pkt'[d] = pkt[d]
  <2> DEFINE q == [pkt[c] EXCEPT !.pc = pc, !.id = id]
  <2>1. pkt[c] \in PacketState
    BY <1>1
  <2>2. q \in PacketState
    BY Zenon, <2>1 DEF PacketState
  <2>3. pkt'[c] = q /\ pkt' = [pkt EXCEPT ![c] = pkt'[c]]
    BY Zenon, <1>1, <1>3 DEF Goto
  <2> HIDE DEF q
  <2>4. pkt' \in [Cpus -> PacketState] /\ \A d \in Cpus \ {c} : pkt'[d] = pkt[d]
    BY <1>1, <2>2, <2>3
  <2> QED BY <2>3, <2>4 DEF q
<1>4. ASSUME NEW pc \in {"neigh", "frame"}, NEW a \in Addrs \cup {0},
             pkt' = [pkt EXCEPT ![c].pc = pc, ![c].addr = a]
      PROVE  /\ pkt' \in [Cpus -> PacketState]
             /\ pkt'[c] = [pkt[c] EXCEPT !.pc = pc, !.addr = a]
             /\ \A d \in Cpus \ {c} : pkt'[d] = pkt[d]
  <2> DEFINE q == [pkt[c] EXCEPT !.pc = pc, !.addr = a]
  <2>1. pkt[c] \in PacketState
    BY <1>1
  <2>2. q \in PacketState
    BY Zenon, <2>1 DEF PacketState
  <2>3. pkt'[c] = q /\ pkt' = [pkt EXCEPT ![c] = pkt'[c]]
    BY Zenon, <1>1, <1>4
  <2> HIDE DEF q
  <2>4. pkt' \in [Cpus -> PacketState] /\ \A d \in Cpus \ {c} : pkt'[d] = pkt[d]
    BY <1>1, <2>2, <2>3
  <2> QED BY <2>3, <2>4 DEF q
<1> QED BY Zenon, <1>2, <1>3, <1>4

\* A step that only moves the packet on keeps the types.
LEMMA MoveTypes ==
    ASSUME DpInv, pkt' \in [Cpus -> PacketState], UNCHANGED <<cpvars, conntrack, home, offered, freed>>
    PROVE  DpTypeOK'
BY DEF DpInv, DpTypeOK, PacketState

\* A packet that is dropped needs nothing any more.
LEMMA Dropped ==
    ASSUME NEW c \in Cpus, ~InFlight(c)'
    PROVE  (PacketKnows(c) /\ PacketServed(c) /\ PacketGoesHome(c))'
BY DEF PacketKnows, PacketServed, PacketGoesHome

\* pick_real: the entry is alive, and the home of its connection if that has one.
LEMMA LookupConnInv ==
    ASSUME DpInv, NEW c \in Cpus, LookupConn(c), UNCHANGED <<cpvars, home, offered, freed>>
    PROVE  PacketInv'
<1> DEFINE f == pkt[c].flow
           r == conntrack[f][c].real
<1>0. UNCHANGED <<ring, reals, neigh>>
  BY DEF cpvars, rtvars, pinned
<1>1. pkt[c].pc = "conn" /\ InFlight(c) /\ ~Picked(c) /\ conntrack' = conntrack
  BY DEF LookupConn, InFlight, Picked
<1>2. f \in Flows /\ pkt[c].shape # "syn" /\ pkt[c].use_ct /\ ring[SlotOf[f]] \in offered[c]
  BY <1>1 DEF DpInv, PacketKnows
<1>3. Hit(c, f) => r \in Ids /\ reals[r] # 0
  BY <1>2 DEF Hit, real_alive, DpInv, DpTypeOK, CPInv, RTInv, RTTypeOK, Ids
<1>4. home[c][f] # 0 => Hit(c, f)
  BY Zenon, <1>2, NoneIsNoId DEF DpInv, HomeHasEntry, StandsFor, Hit, real_alive
<1>5. \/ Hit(c, f) /\ Goto(c, "real", r)
      \/ ~Hit(c, f) /\ Goto(c, "ring", REAL_NONE)
  BY Zenon DEF LookupConn
<1>6. /\ pkt' \in [Cpus -> PacketState]
      /\ \A d \in Cpus \ {c} : pkt'[d] = pkt[d]
      /\ \/ Hit(c, f) /\ pkt'[c] = [pkt[c] EXCEPT !.pc = "real", !.id = r]
         \/ ~Hit(c, f) /\ pkt'[c] = [pkt[c] EXCEPT !.pc = "ring", !.id = REAL_NONE]
  <2> HIDE DEF f, r
  <2>1. CASE Hit(c, f) /\ Goto(c, "real", r)
    BY ZenonT(60), <1>3, <2>1, StepTypes
  <2>2. CASE ~Hit(c, f) /\ Goto(c, "ring", REAL_NONE)
    BY Zenon, <2>2, StepTypes
  <2> QED BY <1>5, <2>1, <2>2
<1>7. pkt[c] \in PacketState
  BY PktType DEF DpInv
<1>8. /\ pkt'[c].flow = f /\ pkt'[c].shape = pkt[c].shape /\ pkt'[c].use_ct = pkt[c].use_ct
      /\ Hit(c, f) => pkt'[c].pc = "real" /\ pkt'[c].id = r
      /\ ~Hit(c, f) => pkt'[c].pc = "ring"
  BY ZenonT(60), <1>6, <1>7 DEF PacketState
<1>9. PacketKnows(c)'
  BY Zenon, <1>0, <1>2, <1>3, <1>8 DEF PacketKnows, Picked
<1>10. PacketServed(c)'
  BY Zenon, <1>0, <1>1, <1>3, <1>8 DEF DpInv, PacketServed, Picked
<1>11. PacketGoesHome(c)'
  BY Zenon, <1>1, <1>4, <1>8 DEF PacketGoesHome, Picked
<1>12. DpTypeOK'
  BY SMTT(60), <1>1, <1>6, MoveTypes
<1>13. \A d \in Cpus, g \in Flows : home[d][g] # 0 =>
          g \in DOMAIN conntrack' /\ conntrack'[g][d] = conntrack[g][d]
  BY Zenon, <1>1 DEF DpInv, HomeHasEntry, StandsFor
<1> QED BY <1>6, <1>9, <1>10, <1>11, <1>12, <1>13, OwnStep

\* The insert touches this CPU's value only, and no home of another.
LEMMA InsertFacts ==
    ASSUME DpInv, NEW c \in Cpus, NEW f \in Flows, NEW id \in Ids, Insert(c, f, id), home[c][f] = 0
    PROVE  /\ DOMAIN conntrack' \subseteq Flows
           /\ conntrack' \in [DOMAIN conntrack' -> [Cpus -> [real : AllIds, seen : BOOLEAN]]]
           /\ \A d \in Cpus, g \in Flows : home[d][g] # 0 =>
                 g \in DOMAIN conntrack' /\ conntrack'[g][d] = conntrack[g][d]
<1> DEFINE Value == [real : AllIds, seen : BOOLEAN]
           old == IF f \in DOMAIN conntrack THEN conntrack[f]
                  ELSE [d \in Cpus |-> [real |-> 0, seen |-> FALSE]]
           new == [old EXCEPT ![c] = [real |-> id, seen |-> TRUE]]
<1>1. 0 \in AllIds /\ id \in AllIds
  BY MaxRealsAssumption DEF Ids, AllIds
<1>2. DOMAIN conntrack \subseteq Flows /\ conntrack \in [DOMAIN conntrack -> [Cpus -> Value]]
  BY DEF DpInv, DpTypeOK
<1>3. old \in [Cpus -> Value]
  BY <1>1, <1>2
<1>4. new \in [Cpus -> Value] /\ \A d \in Cpus \ {c} : new[d] = old[d]
  <2>1. [real |-> id, seen |-> TRUE] \in Value
    BY <1>1
  <2> HIDE DEF old, Value
  <2> QED BY <1>3, <2>1
<1>5. conntrack' = [g \in DOMAIN conntrack \cup {f} |-> IF g = f THEN new ELSE conntrack[g]]
  BY DEF Insert, With
<1>6. \A d \in Cpus, g \in Flows : home[d][g] # 0 => g \in DOMAIN conntrack
  BY DEF DpInv, HomeHasEntry, StandsFor
<1> HIDE DEF new, Value
<1>7. DOMAIN conntrack' \subseteq Flows /\ conntrack' \in [DOMAIN conntrack' -> [Cpus -> Value]]
  BY <1>2, <1>4, <1>5
<1>8. ASSUME NEW d \in Cpus, NEW g \in Flows, home[d][g] # 0
      PROVE  g \in DOMAIN conntrack' /\ conntrack'[g][d] = conntrack[g][d]
  <2>1. g \in DOMAIN conntrack
    BY <1>6, <1>8
  <2>2. CASE g # f
    BY <1>5, <2>1, <2>2
  <2>3. CASE g = f
    BY <1>4, <1>5, <1>8, <2>1, <2>3
  <2> QED BY <2>2, <2>3
<1> QED BY <1>7, <1>8 DEF Value

\* pick_real: what the ring offers has an address and a MAC.
LEMMA LookupRingInv ==
    ASSUME DpInv, NEW c \in Cpus, LookupRing(c), UNCHANGED <<cpvars, home, offered, freed>>
    PROVE  PacketInv'
<1> DEFINE f == pkt[c].flow
           id == ring[SlotOf[f]]
<1>0. UNCHANGED <<ring, reals, neigh>>
  BY DEF cpvars, rtvars, pinned
<1>1. pkt[c].pc = "ring" /\ InFlight(c) /\ ~Picked(c)
  BY Zenon DEF LookupRing, InFlight, Picked
<1>2. f \in Flows /\ id \in offered[c] /\ id \in Ids \cup {REAL_NONE}
  BY Zenon, <1>1, DpAssumption DEF DpInv, PacketKnows, CPInv, CPTypeOK
<1>3. pkt[c].use_ct => home[c][f] = 0
  BY Zenon, <1>1 DEF DpInv, PacketGoesHome
<1>4. pkt[c].shape = "syn" => home[c][f] = 0
  BY <1>1 DEF DpInv, PacketKnows
<1>5. pkt[c] \in PacketState
  BY PktType DEF DpInv
<1>6. \A d \in Cpus, g \in Flows : home[d][g] # 0 => g \in DOMAIN conntrack
  BY DEF DpInv, HomeHasEntry, StandsFor
<1>7. CASE id >= MaxReals
  <2>1. DropPacket(c, {"hash", "drop_no_real"}) /\ conntrack' = conntrack
    BY Zenon, <1>7 DEF LookupRing
  <2>2. /\ pkt' \in [Cpus -> PacketState] /\ ~InFlight(c)'
        /\ \A d \in Cpus \ {c} : pkt'[d] = pkt[d]
    BY Zenon, <2>1, StepTypes
  <2> QED BY Zenon, <1>6, <2>1, <2>2, Dropped, MoveTypes, OwnStep
<1>8. CASE ~(id >= MaxReals)
  <2>1. id \in Ids
    BY <1>2, <1>8, MaxRealsAssumption DEF REAL_NONE
  <2>2. /\ Goto(c, "real", id)
        /\ \/ pkt[c].use_ct /\ Insert(c, f, id)
           \/ conntrack' = conntrack
    BY Zenon, <1>8 DEF LookupRing
  <2>3. /\ pkt' \in [Cpus -> PacketState]
        /\ pkt'[c] = [pkt[c] EXCEPT !.pc = "real", !.id = id]
        /\ \A d \in Cpus \ {c} : pkt'[d] = pkt[d]
    <3> HIDE DEF id
    <3> QED BY Zenon, <2>1, <2>2, StepTypes
  <2>4. /\ pkt'[c].flow = f /\ pkt'[c].shape = pkt[c].shape /\ pkt'[c].use_ct = pkt[c].use_ct
        /\ pkt'[c].pc = "real" /\ pkt'[c].id = id
    BY <1>5, <2>3 DEF PacketState
  <2>5. /\ DOMAIN conntrack' \subseteq Flows
        /\ conntrack' \in [DOMAIN conntrack' -> [Cpus -> [real : AllIds, seen : BOOLEAN]]]
        /\ \A d \in Cpus, g \in Flows : home[d][g] # 0 =>
              g \in DOMAIN conntrack' /\ conntrack'[g][d] = conntrack[g][d]
    <3>1. CASE conntrack' = conntrack
      BY <1>6, <3>1 DEF DpInv, DpTypeOK
    <3>2. CASE pkt[c].use_ct /\ Insert(c, f, id)
      <4> HIDE DEF f, id
      <4> QED BY <1>2, <1>3, <2>1, <3>2, InsertFacts
    <3> QED BY <2>2, <3>1, <3>2
  <2>6. PacketKnows(c)'
    BY Zenon, <1>0, <1>2, <1>4, <2>1, <2>4 DEF PacketKnows, Picked
  <2>7. PacketServed(c)'
    BY Zenon, <1>0, <1>1, <1>2, <2>1, <2>4 DEF DpInv, PacketServed, Picked
  <2>8. PacketGoesHome(c)'
    BY Zenon, <1>3, <2>4 DEF PacketGoesHome
  <2>9. DpTypeOK'
    BY <2>3, <2>5 DEF DpInv, DpTypeOK, PacketState
  <2> QED BY <2>3, <2>5, <2>6, <2>7, <2>8, <2>9, OwnStep
<1> QED BY SMTT(60), <1>7, <1>8

\* forward goes on with the real it has.
LEMMA MovedOn ==
    ASSUME DpInv, NEW c \in Cpus, UNCHANGED <<cpvars, conntrack, home, offered, freed>>, Picked(c),
           pkt' \in [Cpus -> PacketState], \A d \in Cpus \ {c} : pkt'[d] = pkt[d],
           pkt'[c].flow = pkt[c].flow, pkt'[c].shape = pkt[c].shape,
           pkt'[c].use_ct = pkt[c].use_ct, pkt'[c].id = pkt[c].id,
           pkt'[c].pc \in {"neigh", "encap", "frame"},
           pkt'[c].addr = reals[pkt[c].id] \/ (pkt[c].pc # "real" /\ pkt'[c].addr = pkt[c].addr),
           pkt[c].pc = "real" => pkt'[c].pc = "neigh",
           pkt[c].pc = "neigh" => neigh[pkt[c].id] # 0
    PROVE  PacketInv'
<1>0. UNCHANGED <<ring, reals, neigh>>
  BY Zenon DEF cpvars, rtvars, pinned
<1>1. InFlight(c)
  BY SMTT(60) DEF InFlight, Picked
<1>2. pkt[c].flow \in Flows
  BY Zenon, <1>1 DEF DpInv, PacketKnows
<1>3. Picked(c)'
  BY SMTT(60) DEF Picked
<1>4. PacketKnows(c)'
  BY Zenon, <1>0, <1>1, <1>3 DEF DpInv, PacketKnows
<1>5. PacketServed(c)'
  BY Zenon, <1>0, <1>1, <1>3 DEF DpInv, PacketServed, Picked
<1>6. PacketGoesHome(c)'
  <2> SUFFICES ASSUME pkt[c].use_ct, home[c][pkt[c].flow] # 0
               PROVE  /\ pkt[c].id = conntrack[pkt[c].flow][c].real
                      /\ pkt'[c].addr = home[c][pkt[c].flow]
    BY Zenon DEF PacketGoesHome
  <2>1. PacketGoesHome(c)
    BY Zenon DEF DpInv
  <2>2. /\ pkt[c].id = conntrack[pkt[c].flow][c].real
        /\ pkt[c].pc # "real" => pkt[c].addr = home[c][pkt[c].flow]
    BY Zenon, <1>1, <2>1 DEF PacketGoesHome
  <2>3. reals[conntrack[pkt[c].flow][c].real] = home[c][pkt[c].flow]
    BY Zenon, <1>2 DEF DpInv, HomeHasEntry, StandsFor
  <2> QED BY Zenon, <2>2, <2>3
<1>7. \A d \in Cpus, g \in Flows : home[d][g] # 0 => g \in DOMAIN conntrack
  BY Zenon DEF DpInv, HomeHasEntry, StandsFor
<1> QED BY Zenon, <1>4, <1>5, <1>6, <1>7, MoveTypes, OwnStep

\* forward drops a packet.
LEMMA DropPacketInv ==
    ASSUME DpInv, NEW c \in Cpus, NEW counters, DropPacket(c, counters),
           UNCHANGED <<cpvars, conntrack, home, offered, freed>>
    PROVE  PacketInv'
<1>1. /\ pkt' \in [Cpus -> PacketState] /\ ~InFlight(c)'
      /\ \A d \in Cpus \ {c} : pkt'[d] = pkt[d]
  BY ZenonT(60), StepTypes
<1>2. \A d \in Cpus, g \in Flows : home[d][g] # 0 => g \in DOMAIN conntrack
  BY Zenon DEF DpInv, HomeHasEntry, StandsFor
<1> QED BY Zenon, <1>1, <1>2, Dropped, MoveTypes, OwnStep

\* forward checks the address and the MAC, and encap_ipip takes the address.
LEMMA CheckInv ==
    ASSUME DpInv, NEW c \in Cpus, CheckReal(c) \/ CheckNeigh(c) \/ Encap(c),
           UNCHANGED <<cpvars, home, offered, freed>>
    PROVE  PacketInv'
<1>1. /\ Picked(c) /\ InFlight(c) /\ conntrack' = conntrack
      /\ pkt[c].pc \in {"real", "neigh", "encap"}
  BY DEF Picked, InFlight, CheckReal, CheckNeigh, Encap
<1>2. pkt \in [Cpus -> PacketState] /\ pkt[c] \in PacketState
  BY PktType DEF DpInv
<1>3. pkt[c].id \in Ids /\ reals[pkt[c].id] \in Addrs \cup {0} /\ pkt[c].addr \in Addrs \cup {0}
  BY Zenon, <1>1, <1>2 DEF DpInv, PacketKnows, CPInv, RTInv, RTTypeOK, Ids, PacketState
<1>4. CASE \E counters : DropPacket(c, counters)
  BY <1>1, <1>4, DropPacketInv
<1>5. ASSUME NEW pc \in {"neigh", "frame"}, NEW a \in {pkt[c].addr, reals[pkt[c].id]},
             pkt' = [pkt EXCEPT ![c].pc = pc, ![c].addr = a],
             \/ pkt[c].pc = "real" /\ pc = "neigh" /\ a = reals[pkt[c].id]
             \/ pkt[c].pc = "encap" /\ pc = "frame"
      PROVE  PacketInv'
  <2>1. /\ pkt' \in [Cpus -> PacketState]
        /\ pkt'[c] = [pkt[c] EXCEPT !.pc = pc, !.addr = a]
        /\ \A d \in Cpus \ {c} : pkt'[d] = pkt[d]
    BY ZenonT(60), <1>3, <1>5, StepTypes
  <2>2. /\ pkt'[c].flow = pkt[c].flow /\ pkt'[c].shape = pkt[c].shape
        /\ pkt'[c].use_ct = pkt[c].use_ct /\ pkt'[c].id = pkt[c].id
        /\ pkt'[c].pc = pc /\ pkt'[c].addr = a
    BY <1>2, <2>1 DEF PacketState
  <2>3. /\ pkt'[c].addr = reals[pkt[c].id] \/ (pkt[c].pc # "real" /\ pkt'[c].addr = pkt[c].addr)
        /\ pkt[c].pc = "real" => pkt'[c].pc = "neigh"
        /\ pkt[c].pc # "neigh" /\ pkt'[c].pc \in {"neigh", "frame"}
    <3>1. CASE pkt[c].pc = "real" /\ pc = "neigh" /\ a = reals[pkt[c].id]
      BY <2>2, <3>1
    <3>2. CASE pkt[c].pc = "encap" /\ pc = "frame"
      BY <2>2, <3>2
    <3> QED BY <1>5, <3>1, <3>2
  <2> QED BY Zenon, <1>1, <2>1, <2>2, <2>3, MovedOn
<1>6. ASSUME pkt[c].pc = "neigh", neigh[pkt[c].id] # 0, pkt' = [pkt EXCEPT ![c].pc = "encap"]
      PROVE  PacketInv'
  <2>1. pkt'[c] = [pkt[c] EXCEPT !.pc = "encap"] /\ pkt' = [pkt EXCEPT ![c] = pkt'[c]]
    BY <1>2, <1>6
  <2>2. /\ pkt'[c].flow = pkt[c].flow /\ pkt'[c].shape = pkt[c].shape
        /\ pkt'[c].use_ct = pkt[c].use_ct /\ pkt'[c].id = pkt[c].id
        /\ pkt'[c].pc = "encap" /\ pkt'[c].addr = pkt[c].addr /\ pkt'[c] \in PacketState
    BY <1>2, <2>1 DEF PacketState
  <2>3. pkt' \in [Cpus -> PacketState] /\ \A d \in Cpus \ {c} : pkt'[d] = pkt[d]
    BY <1>2, <2>1, <2>2
  <2> QED BY <1>1, <1>6, <2>2, <2>3, MovedOn
<1>7. CASE CheckReal(c)
  BY <1>4, <1>5, <1>7 DEF CheckReal
<1>8. CASE CheckNeigh(c)
  BY <1>4, <1>6, <1>8 DEF CheckNeigh
<1>9. CASE Encap(c)
  BY <1>4, <1>5, <1>9 DEF Encap
<1> QED BY <1>7, <1>8, <1>9

\* A connection gets its home from a packet that was served: by OneIdPerAddress the
\* entry names the id whose MAC that packet has just used.
LEMMA SendInv ==
    ASSUME DpInv, NEW c \in Cpus, Send(c), NoteSent(c), UNCHANGED <<cpvars, offered, freed>>
    PROVE  PacketInv'
<1> DEFINE f == pkt[c].flow
           r == conntrack[f][c].real
<1>0. UNCHANGED <<ring, reals, neigh>> /\ conntrack' = conntrack
  BY DEF cpvars, rtvars, pinned, Send
<1>1. Picked(c) /\ InFlight(c) /\ pkt[c].pc = "frame"
  BY DEF Picked, InFlight, Send
<1>2. pkt \in [Cpus -> PacketState] /\ pkt[c] \in PacketState
  BY PktType DEF DpInv
<1>3. pkt[c].id \in Ids /\ f \in Flows /\ neigh[pkt[c].id] \in Macs \cup {0}
  BY Zenon, <1>1 DEF DpInv, PacketKnows, CPInv, RTInv, RTTypeOK, Ids
<1>4. pkt'[c] = [pkt[c] EXCEPT !.pc = "sent", !.mac = neigh[pkt[c].id]]
      /\ pkt' = [pkt EXCEPT ![c] = pkt'[c]]
  BY Zenon, <1>2 DEF Send
<1>5. pkt'[c] \in PacketState /\ pkt'[c].pc = "sent"
  BY ZenonT(60), <1>2, <1>3, <1>4 DEF PacketState
<1>6. pkt' \in [Cpus -> PacketState] /\ \A d \in Cpus \ {c} : pkt'[d] = pkt[d]
  BY <1>2, <1>4, <1>5
<1>7. \/ home' = home
      \/ /\ c \notin freed /\ StandsFor(c, f, pkt[c].addr)
         /\ home' = [home EXCEPT ![c][f] = pkt[c].addr]
  BY DEF NoteSent
<1>8. pkt[c].addr \in Addrs \cup {0}
  BY SMTT(60), <1>2 DEF PacketState
<1>9. /\ home' \in [Cpus -> [Flows -> Addrs \cup {0}]]
      /\ \A d \in Cpus \ {c} : home'[d] = home[d]
      /\ \A g \in Flows : home'[c][g] # home[c][g] =>
            g = f /\ c \notin freed /\ StandsFor(c, f, home'[c][f]) /\ home'[c][f] = pkt[c].addr
  <2>1. home \in [Cpus -> [Flows -> Addrs \cup {0}]]
    BY DEF DpInv, DpTypeOK
  <2>2. CASE home' = home
    BY <2>1, <2>2
  <2>3. CASE /\ c \notin freed /\ StandsFor(c, f, pkt[c].addr)
             /\ home' = [home EXCEPT ![c][f] = pkt[c].addr]
    <3> HIDE DEF f
    <3>1. home'[c] = [home[c] EXCEPT ![f] = pkt[c].addr] /\ home' = [home EXCEPT ![c] = home'[c]]
      BY <2>1, <2>3
    <3>2. home'[c] \in [Flows -> Addrs \cup {0}] /\ home'[c][f] = pkt[c].addr
          /\ \A g \in Flows \ {f} : home'[c][g] = home[c][g]
      BY SMTT(60), <1>3, <1>8, <2>1, <3>1
    <3> QED BY <2>1, <2>3, <3>1, <3>2
  <2> QED BY Zenon, <1>7, <2>2, <2>3
<1>10. ASSUME NEW g \in Flows, home'[c][g] # home[c][g]
       PROVE  HomeHasEntry(c, g)'
  <2>1. /\ g = f /\ c \notin freed /\ f \in DOMAIN conntrack /\ conntrack[f][c].seen
        /\ pkt[c].addr # 0 /\ reals[r] = pkt[c].addr /\ home'[c][f] = pkt[c].addr
    BY Zenon, <1>9, <1>10 DEF StandsFor
  <2>2. r \in Ids
    BY SMTT(60), <2>1 DEF DpInv, DpTypeOK, CPInv, RTInv, RTTypeOK, Ids
  <2>3. reals[pkt[c].id] = pkt[c].addr /\ neigh[pkt[c].id] # 0
    BY Zenon, <1>1, <2>1 DEF DpInv, PacketServed
  <2>4. r = pkt[c].id
    BY Zenon, <1>3, <2>1, <2>2, <2>3 DEF DpInv, CPInv, RTInv, OneIdPerAddress
  <2> QED BY Zenon, <1>0, <2>1, <2>2, <2>3, <2>4 DEF HomeHasEntry, StandsFor
<1>11. DpTypeOK'
  BY Zenon, <1>0, <1>6, <1>9 DEF DpInv, DpTypeOK, PacketState
<1>12. \A d \in Cpus, g \in Flows : home[d][g] # 0 =>
          g \in DOMAIN conntrack' /\ conntrack'[g][d] = conntrack[g][d]
  BY Zenon, <1>0 DEF DpInv, HomeHasEntry, StandsFor
<1>13. ~InFlight(c)'
  BY SMTT(60), <1>5 DEF InFlight
<1> QED BY Zenon, <1>6, <1>9, <1>10, <1>11, <1>12, <1>13, Dropped, OwnStep

------------------------------------------------------------------------------
\* The steps of the control plane and of the kernel.

\* A new ring offers reals that have an address and a MAC.
LEMMA RingStepInv ==
    ASSUME DpInv, InstallRing \/ MapVip \/ UnmapVip, UNCHANGED <<dpvars, home, freed>>,
           offered' = [c \in Cpus |-> IF InFlight(c) THEN offered[c] \cup {ring'[SlotOf[pkt[c].flow]]}
                                                     ELSE offered[c]]
    PROVE  PacketInv'
<1>1. UNCHANGED <<reals, neigh, pkt, conntrack>>
  BY SMTT(60) DEF InstallRing, MapVip, UnmapVip, rtvars, pinned, dpvars
<1>2. ring' \in [Slots -> Ids \cup {REAL_NONE}]
  BY Zenon DEF InstallRing, MapVip, UnmapVip, Usable, DpInv, CPInv, CPTypeOK
<1>3. ASSUME NEW c \in Cpus, InFlight(c)
      PROVE  /\ pkt[c].flow \in Flows /\ SlotOf[pkt[c].flow] \in Slots
             /\ offered'[c] = offered[c] \cup {ring'[SlotOf[pkt[c].flow]]}
  BY Zenon, <1>3, DpAssumption DEF DpInv, PacketKnows, DpTypeOK
<1>4. ASSUME NEW c \in Cpus, InFlight(c), NEW id \in (offered'[c] \ offered[c]) \cap Ids
      PROVE  reals[id] # 0 /\ neigh[id] # 0
  <2>1. id = ring'[SlotOf[pkt[c].flow]] /\ SlotOf[pkt[c].flow] \in Slots
    BY Zenon, <1>3, <1>4
  <2>2. ring' # ring
    BY Zenon, <1>4, <2>1 DEF DpInv, PacketKnows
  <2>3. InstallRing
    BY SMTT(60), <2>2 DEF MapVip, UnmapVip
  <2>4. id \in Usable /\ adopted /\ writes = <<>>
    BY Zenon, <2>1, <2>3, NoneIsNoId DEF InstallRing, Quiet
  <2>5. ~Pending("reals", id) /\ ~Pending("neigh", id)
    BY Zenon, <2>4, PendingFacts DEF Pending
  <2> QED BY ZenonT(60), <2>4, <2>5 DEF DpInv, CPInv, RTInv, MapsMirrorTable, Usable
<1>5. DpTypeOK'
  <2>1. offered' \in [Cpus -> SUBSET (Ids \cup {REAL_NONE})]
    BY <1>2, <1>3 DEF DpInv, DpTypeOK
  <2> QED BY <1>1, <2>1 DEF DpInv, DpTypeOK
<1>6. ASSUME NEW c \in Cpus
      PROVE  (PacketKnows(c) /\ PacketServed(c) /\ PacketGoesHome(c))'
  <2>1. PacketKnows(c)'
    BY Zenon, <1>1, <1>3 DEF DpInv, PacketKnows, InFlight, Picked
  <2>2. PacketServed(c)'
    BY Zenon, <1>1, <1>4 DEF DpInv, PacketServed, InFlight, Picked
  <2>3. PacketGoesHome(c)'
    BY ZenonT(60), <1>1 DEF DpInv, PacketGoesHome, InFlight, Picked
  <2> QED BY SMTT(60), <2>1, <2>2, <2>3
<1>7. \A c \in Cpus : \A f \in Flows : HomeHasEntry(c, f)'
  BY Zenon, <1>1 DEF DpInv, HomeHasEntry, StandsFor
<1> QED BY Zenon, <1>5, <1>6, <1>7 DEF PacketInv

\* A step that changes nothing that packets read.
LEMMA QuietStepInv ==
    ASSUME DpInv, UNCHANGED <<reals, neigh, ring, pkt, conntrack, home, offered, freed>>
    PROVE  PacketInv'
<1>1. DpTypeOK'
  BY SMTT(60) DEF DpInv, DpTypeOK
<1>2. \A c \in Cpus : PacketKnows(c)'
  BY Zenon DEF DpInv, PacketKnows, InFlight, Picked
<1>3. \A c \in Cpus : PacketServed(c)'
  BY Zenon DEF DpInv, PacketServed, InFlight, Picked
<1>4. \A c \in Cpus : PacketGoesHome(c)'
  BY Zenon DEF DpInv, PacketGoesHome, InFlight, Picked
<1>5. \A c \in Cpus : \A f \in Flows : HomeHasEntry(c, f)'
  BY Zenon DEF DpInv, HomeHasEntry, StandsFor
<1> QED BY <1>1, <1>2, <1>3, <1>4, <1>5 DEF PacketInv

\* What forgetting does to homes.
LEMMA ForgetFacts ==
    ASSUME DpInv, NEW gone, NEW flows, Forget(gone, flows)
    PROVE  /\ home' \in [Cpus -> [Flows -> Addrs \cup {0}]]
           /\ \A c \in Cpus, f \in Flows : home'[c][f] # 0 =>
                 home'[c][f] = home[c][f] /\ home[c][f] \notin gone /\ f \notin flows
BY DEF Forget, DpInv, DpTypeOK

\* An evicted flow has no home any more.
LEMMA EvictInv ==
    ASSUME DpInv, NEW e \in Flows, Evict(e), Forget({}, {e}), UNCHANGED <<cpvars, offered, freed>>
    PROVE  PacketInv'
<1>1. UNCHANGED <<reals, neigh, ring, pkt>>
  BY DEF Evict, cpvars, rtvars, pinned
<1>2. conntrack' = [f \in DOMAIN conntrack \ {e} |-> conntrack[f]]
  BY DEF Evict, Without
<1>3. /\ home' \in [Cpus -> [Flows -> Addrs \cup {0}]]
      /\ \A c \in Cpus, f \in Flows : home'[c][f] # 0 => home'[c][f] = home[c][f] /\ f # e
  BY ForgetFacts
<1>4. DpTypeOK'
  BY SMTT(60), <1>1, <1>2, <1>3 DEF DpInv, DpTypeOK
<1>5. ASSUME NEW c \in Cpus, NEW f \in Flows, home'[c][f] # 0
      PROVE  home'[c][f] = home[c][f] /\ f \in DOMAIN conntrack' /\ conntrack'[f] = conntrack[f]
  <2>1. home'[c][f] = home[c][f] /\ f # e
    BY Zenon, <1>3, <1>5
  <2>2. HomeHasEntry(c, f)
    BY DEF DpInv
  <2>3. f \in DOMAIN conntrack
    BY <1>5, <2>1, <2>2 DEF HomeHasEntry, StandsFor
  <2> QED BY Zenon, <1>2, <2>1, <2>3
<1>6. ASSUME NEW c \in Cpus
      PROVE  (PacketKnows(c) /\ PacketServed(c) /\ PacketGoesHome(c))'
  <2>1. InFlight(c) => pkt[c].flow \in Flows
    BY Zenon DEF DpInv, PacketKnows
  <2>2. PacketKnows(c)'
    BY Zenon, <1>1, <1>5, <2>1 DEF DpInv, PacketKnows, InFlight, Picked
  <2>3. PacketServed(c)'
    BY ZenonT(60), <1>1 DEF DpInv, PacketServed, InFlight, Picked
  <2>4. PacketGoesHome(c)'
    BY Zenon, <1>1, <1>5, <2>1 DEF DpInv, PacketGoesHome, InFlight, Picked
  <2> QED BY SMTT(60), <2>2, <2>3, <2>4
<1>7. ASSUME NEW c \in Cpus, NEW f \in Flows PROVE HomeHasEntry(c, f)'
  <2>1. HomeHasEntry(c, f)
    BY DEF DpInv
  <2> QED BY Zenon, <1>1, <1>5, <2>1 DEF HomeHasEntry, StandsFor
<1> QED BY <1>4, <1>6, <1>7 DEF PacketInv

\* An address that stays keeps its MAC; homes and packets that lose theirs are excused.
LEMMA GoesOnInv ==
    ASSUME DpInv, ControlGoesOn
    PROVE  PacketInv'
<1>1. UNCHANGED <<ring, pkt, conntrack, offered>> /\ Forget(Leaving, {})
  BY Zenon DEF ControlGoesOn, TableGoesOn, dpvars
<1>2. RTInv /\ [RTNext]_rtvars
  BY Zenon, CPStepsTable DEF DpInv, CPInv, ControlGoesOn, CPNext
<1>3. ASSUME NEW id \in Ids, reals[id] # 0, reals[id] \notin Leaving
      PROVE  reals'[id] = reals[id] /\ (neigh[id] # 0 => neigh'[id] # 0)
  <2>1. reals'[id] = reals[id]
    BY <1>3 DEF Leaving
  <2>2. neigh[id] # 0 => neigh'[id] # 0
    BY Zenon, <1>2, <1>3, VisibleSteps DEF RTInv, RTTypeOK, Ids
  <2> QED BY <2>1, <2>2
<1>4. /\ home' \in [Cpus -> [Flows -> Addrs \cup {0}]]
      /\ \A c \in Cpus, f \in Flows : home'[c][f] # 0 =>
            home'[c][f] = home[c][f] /\ home[c][f] \notin Leaving
  BY ZenonT(60), <1>1, ForgetFacts
<1>5. freed \subseteq freed' /\ freed' \subseteq Cpus
      /\ \A c \in Cpus \ freed' : InFlight(c) =>
            \A id \in ({pkt[c].id} \cup offered[c]) \cap Ids : reals[id] \notin Leaving
  BY DEF ControlGoesOn, DpInv, DpTypeOK
<1>6. DpTypeOK'
  BY <1>1, <1>4, <1>5 DEF DpInv, DpTypeOK
<1>7. ASSUME NEW c \in Cpus
      PROVE  (PacketKnows(c) /\ PacketServed(c) /\ PacketGoesHome(c))'
  <2>1. InFlight(c) => pkt[c].flow \in Flows /\ (Picked(c) => pkt[c].id \in Ids)
    BY Zenon DEF DpInv, PacketKnows
  <2>2. PacketKnows(c)'
    BY Zenon, <1>1, <1>4, <2>1 DEF DpInv, PacketKnows, InFlight, Picked
  <2>3. PacketServed(c)'
    BY ZenonT(60), <1>1, <1>3, <1>5, <2>1 DEF DpInv, PacketServed, InFlight, Picked
  <2>4. PacketGoesHome(c)'
    BY Zenon, <1>1, <1>4, <2>1 DEF DpInv, PacketGoesHome, InFlight, Picked
  <2> QED BY SMTT(60), <2>2, <2>3, <2>4
<1>8. ASSUME NEW c \in Cpus, NEW f \in Flows PROVE HomeHasEntry(c, f)'
  <2> SUFFICES ASSUME home'[c][f] # 0 PROVE (StandsFor(c, f, home[c][f])
                 /\ conntrack[f][c].real \in Ids /\ neigh[conntrack[f][c].real] # 0)'
    BY Zenon DEF HomeHasEntry
  <2>1. home'[c][f] = home[c][f] /\ home[c][f] # 0 /\ home[c][f] \notin Leaving
    BY <1>4
  <2>2. HomeHasEntry(c, f)
    BY DEF DpInv
  <2>3. /\ StandsFor(c, f, home[c][f])
        /\ conntrack[f][c].real \in Ids /\ neigh[conntrack[f][c].real] # 0
    BY <2>1, <2>2 DEF HomeHasEntry
  <2>4. reals[conntrack[f][c].real] = home[c][f]
    BY Zenon, <2>3 DEF StandsFor
  <2>5. reals'[conntrack[f][c].real] = home[c][f] /\ neigh'[conntrack[f][c].real] # 0
    BY Zenon, <1>3, <2>1, <2>3, <2>4
  <2> QED BY ZenonT(60), <1>1, <2>1, <2>3, <2>5 DEF StandsFor
<1> QED BY SMTT(60), <1>6, <1>7, <1>8 DEF PacketInv

------------------------------------------------------------------------------
LEMMA DpStepInv == DpInv /\ [DpNext]_vars => DpInv'
<1> SUFFICES ASSUME DpInv, [DpNext]_vars PROVE DpInv'
  OBVIOUS
<1>1. CPInv'
  BY DpStepsCP, CPStepInv DEF DpInv
<1>2. PacketInv' => DpInv'
  BY <1>1 DEF DpInv, PacketInv
<1>3. CASE UNCHANGED vars
  <2>1. UNCHANGED <<reals, neigh, ring, pkt, conntrack, home, offered, freed>>
    BY <1>3 DEF vars, cpvars, rtvars, pinned, dpvars, bookkeeping
  <2> QED BY <1>2, <2>1, QuietStepInv
<1>4. CASE PacketStep
  <2>1. ASSUME NEW c \in Cpus, NEW p \in Packets, Receive(c, p), UNCHANGED cpvars,
               offered' = [offered EXCEPT ![c] = {ring[SlotOf[p.flow]]}], freed' = freed \ {c},
               IF p.shape = "syn" THEN home' = [home EXCEPT ![c][p.flow] = 0] ELSE home' = home
        PROVE  PacketInv'
    <3>1. home' = IF p.shape = "syn" THEN [home EXCEPT ![c][p.flow] = 0] ELSE home
      BY <2>1
    <3> QED BY Zenon, <2>1, <3>1, ReceiveInv
  <2>2. ASSUME NEW c \in Cpus, Process(c), UNCHANGED <<cpvars, offered, freed>>,
               IF pkt[c].pc = "frame" THEN NoteSent(c) ELSE home' = home
        PROVE  PacketInv'
    <3>1. CASE LookupConn(c)
      BY Zenon, <2>2, <3>1, LookupConnInv DEF LookupConn
    <3>2. CASE LookupRing(c)
      BY ZenonT(60), <2>2, <3>2, LookupRingInv DEF LookupRing
    <3>3. CASE CheckReal(c) \/ CheckNeigh(c) \/ Encap(c)
      <4>1. pkt[c].pc # "frame"
        BY <3>3 DEF CheckReal, CheckNeigh, Encap
      <4> QED BY Zenon, <2>2, <3>3, <4>1, CheckInv
    <3>4. CASE Send(c)
      BY Zenon, <2>2, <3>4, SendInv DEF Send
    <3> QED BY Zenon, <2>2, <3>1, <3>2, <3>3, <3>4 DEF Process
  <2> QED BY <1>2, <1>4, <2>1, <2>2 DEF PacketStep
<1>5. CASE ControlStep
  <2>1. CASE /\ InstallRing \/ MapVip \/ UnmapVip
             /\ offered' = [c \in Cpus |-> IF InFlight(c)
                              THEN offered[c] \cup {ring'[SlotOf[pkt[c].flow]]} ELSE offered[c]]
             /\ UNCHANGED <<dpvars, home, freed>>
    BY Zenon, <1>2, <2>1, RingStepInv
  <2>2. CASE (ReleaseReal \/ CallTable) /\ UNCHANGED <<dpvars, home, offered, freed>>
    <3>1. UNCHANGED <<reals, neigh, ring>>
      BY ZenonT(60), <2>2 DEF ReleaseReal, Release, ReleaseShared, ReleaseLast, CallTable, DropStart, Restart,
                  Acquire, AcquireKnown, AcquireNew, SetMac, pinned
    <3> QED BY <1>2, <2>2, <3>1, QuietStepInv DEF dpvars
  <2>3. ASSUME NEW f \in Flows, Evict(f), Forget({}, {f}), UNCHANGED <<cpvars, offered, freed>>
        PROVE  DpInv'
    BY <1>2, <2>3, EvictInv
  <2>4. CASE WriteConfig /\ UNCHANGED <<cpvars, home, offered, freed>>
    BY <1>2, <2>4, QuietStepInv DEF WriteConfig, cpvars, rtvars, pinned
  <2> QED BY Zenon, <1>5, <2>1, <2>2, <2>3, <2>4 DEF ControlStep
<1>6. CASE ControlGoesOn
  BY <1>2, <1>6, GoesOnInv
<1> QED BY <1>3, <1>4, <1>5, <1>6 DEF DpNext

\* The invariant holds always: what a packet in flight has read stays good until it
\* is used, unless the real is freed meanwhile, and every home has its entry.
THEOREM DpInvariant == DpSpec => []DpInv
BY DpInitInv, DpStepInv, PTL DEF DpSpec

\* A new connection never goes to a real that was out of the ring the whole time
\* (packetbalance.bpf.c:193-195): a SYN takes its id from the ring alone.
THEOREM SynsFollowRing == DpSpec => SynFollowsRing
<1>1. DpInv => \A c \in Cpus : pkt[c].pc = "frame" /\ pkt[c].shape = "syn" => pkt[c].id \in offered[c]
  BY Zenon DEF DpInv, PacketKnows, InFlight, Picked
<1>2. DpInv /\ [DpNext]_vars =>
        [\A c \in Cpus : Sends(c) /\ pkt[c].shape = "syn" => pkt[c].id \in offered[c]]_vars
  BY <1>1 DEF Sends
<1> QED BY <1>2, DpInvariant, PTL DEF DpSpec, SynFollowsRing

\* An established connection keeps its real whatever the ring does, while its entry
\* and its real are there (packetbalance.bpf.c:132-161, docs/DESIGN.md).
THEOREM ConnectionsAlwaysStay == DpSpec => ConnectionsStay
<1>1. DpInv => \A c \in Cpus : pkt[c].pc = "frame" /\ pkt[c].use_ct =>
                 home[c][pkt[c].flow] \in {0, pkt[c].addr}
  BY Zenon DEF DpInv, PacketGoesHome, InFlight, Picked
<1>2. DpInv /\ [DpNext]_vars =>
        [\A c \in Cpus : Sends(c) /\ pkt[c].use_ct /\ pkt[c].shape # "syn" =>
            home[c][pkt[c].flow] \in {0, pkt[c].addr}]_vars
  BY <1>1 DEF Sends
<1> QED BY <1>2, DpInvariant, PTL DEF DpSpec, ConnectionsStay

\* Only the packet's own CPU moves it on, by the step that its place allows.
LEMMA MovedBy ==
    ASSUME DpInv, DpNext, NEW c \in Cpus, Picked(c), pkt'[c].pc # pkt[c].pc
    PROVE  Process(c) /\ UNCHANGED cpvars
<1>1. InFlight(c)
  BY DEF InFlight, Picked
<1>2. pkt' # pkt
  OBVIOUS
<1>3. PacketStep
  BY Zenon, <1>2 DEF DpNext, ControlStep, ControlGoesOn, dpvars, Evict, WriteConfig
<1>4. ASSUME NEW d \in Cpus, NEW p \in Packets, Receive(d, p) PROVE FALSE
  <2>1. d # c
    BY Zenon, <1>1, <1>4, ReceiveCases
  <2>2. pkt'[c] = pkt[c]
    BY ZenonT(60), <1>4, <2>1, ReceiveCases DEF DpInv, DpTypeOK
  <2> QED BY <2>2
<1>5. ASSUME NEW d \in Cpus, Process(d) PROVE d = c
  <2>1. d # c => pkt'[c] = pkt[c]
    BY Zenon, <1>5 DEF Process, LookupConn, LookupRing, CheckReal, CheckNeigh, Encap, Send, Goto,
                DropPacket, DpInv, DpTypeOK
  <2> QED BY Zenon, <2>1
<1> QED BY <1>3, <1>4, <1>5 DEF PacketStep

\* A frame goes to a real's own address and a MAC learned for that address, unless
\* the real was freed under way (packetbalance.bpf.c:386-423, real_table.cpp:137-142).
THEOREM FramesToTheirReal == DpSpec => FrameToItsReal
<1>1. ASSUME DpInv, DpNext, NEW c \in Cpus, Sends(c), c \notin freed
      PROVE  <<pkt[c].addr, pkt'[c].mac>> \in learned
  <2>1. Picked(c) /\ InFlight(c) /\ pkt[c].pc = "frame"
    BY <1>1 DEF Sends, Picked, InFlight
  <2>2. Send(c)
    BY ZenonT(60), <1>1, <2>1, MovedBy DEF Sends, Process, LookupConn, LookupRing, CheckReal, CheckNeigh, Encap
  <2>3. pkt'[c].mac = neigh[pkt[c].id]
    <3>1. pkt[c] \in PacketState
      BY <1>1, PktType DEF DpInv
    <3>2. pkt'[c] = [pkt[c] EXCEPT !.pc = "sent", !.mac = neigh[pkt[c].id]]
      BY <1>1, <2>2, PktType DEF DpInv, Send
    <3> QED BY <3>1, <3>2 DEF PacketState
  <2>4. pkt[c].id \in Ids /\ reals[pkt[c].id] # 0 /\ neigh[pkt[c].id] # 0
        /\ pkt[c].addr = reals[pkt[c].id]
    BY Zenon, <1>1, <2>1 DEF DpInv, PacketKnows, PacketServed
  <2> QED BY Zenon, <1>1, <2>3, <2>4 DEF DpInv, CPInv, RTInv, MacOfItsReal
<1>2. DpInv /\ [DpNext]_vars =>
        [\A c \in Cpus : Sends(c) /\ c \notin freed => <<pkt[c].addr, pkt'[c].mac>> \in learned]_vars
  BY Zenon, <1>1
<1> QED BY <1>2, DpInvariant, PTL DEF DpSpec, FrameToItsReal

\* A real that is not being deleted loses no packet as no_real
\* (packetbalance.bpf.c:386-404).
THEOREM NoRealIsFreed == DpSpec => NoRealOnlyWhenFreed
<1>1. ASSUME DpInv, DpNext, NEW c \in Cpus, pkt'[c].pc = "idle", c \notin freed
      PROVE  /\ pkt[c].pc # "real"
             /\ pkt[c].pc = "neigh" => pkt[c].id \notin offered[c] /\ home[c][pkt[c].flow] = 0
  <2>1. ASSUME pkt[c].pc \in {"real", "neigh"}
        PROVE  Picked(c) /\ InFlight(c) /\ pkt[c].flow \in Flows /\ pkt[c].id \in Ids /\ Process(c)
    <3>1. Picked(c) /\ InFlight(c)
      BY SMTT(60), <2>1 DEF Picked, InFlight
    <3>2. pkt[c].flow \in Flows /\ pkt[c].id \in Ids
      BY Zenon, <1>1, <3>1 DEF DpInv, PacketKnows
    <3> QED BY <1>1, <2>1, <3>1, <3>2, MovedBy
  <2>2. ASSUME pkt[c].pc = "real" PROVE FALSE
    <3>1. CheckReal(c)
      BY <2>1, <2>2 DEF Process, LookupConn, LookupRing, CheckNeigh, Encap, Send
    <3>2. reals[pkt[c].id] # 0
      BY Zenon, <1>1, <2>1, <2>2 DEF DpInv, PacketServed
    <3>3. pkt' = [pkt EXCEPT ![c].pc = "neigh", ![c].addr = reals[pkt[c].id]]
      BY SMTT(60), <3>1, <3>2 DEF CheckReal
    <3>4. pkt[c] \in PacketState
      BY Zenon, <1>1, PktType DEF DpInv
    <3>5. pkt'[c] = [pkt[c] EXCEPT !.pc = "neigh", !.addr = reals[pkt[c].id]]
      BY SMTT(60), <1>1, <3>3, PktType DEF DpInv
    <3> QED BY <1>1, <3>4, <3>5 DEF PacketState
  <2>3. ASSUME pkt[c].pc = "neigh"
        PROVE  pkt[c].id \notin offered[c] /\ home[c][pkt[c].flow] = 0
    <3>1. CheckNeigh(c)
      BY <2>1, <2>3 DEF Process, LookupConn, LookupRing, CheckReal, Encap, Send
    <3>2. neigh[pkt[c].id] = 0
      <4>1. SUFFICES ASSUME pkt' = [pkt EXCEPT ![c].pc = "encap"] PROVE FALSE
        BY <3>1 DEF CheckNeigh
      <4>2. pkt[c] \in PacketState
        BY <1>1, PktType DEF DpInv
      <4>3. pkt'[c] = [pkt[c] EXCEPT !.pc = "encap"]
        BY SMTT(60), <1>1, <4>1, PktType DEF DpInv
      <4> QED BY <1>1, <4>2, <4>3 DEF PacketState
    <3>3. pkt[c].id \notin offered[c]
      BY Zenon, <1>1, <2>1, <2>3, <3>2 DEF DpInv, PacketServed
    <3>4. pkt[c].use_ct
      BY Zenon, <1>1, <2>1, <2>3, <3>3 DEF DpInv, PacketKnows
    <3>5. home[c][pkt[c].flow] # 0 => pkt[c].id = conntrack[pkt[c].flow][c].real
      BY Zenon, <1>1, <2>1, <2>3, <3>4 DEF DpInv, PacketGoesHome
    <3> QED BY Zenon, <1>1, <2>1, <2>3, <3>2, <3>3, <3>5 DEF DpInv, HomeHasEntry
  <2> QED BY <2>2, <2>3
<1>2. DpInv /\ [DpNext]_vars =>
        [\A c \in Cpus : pkt'[c].pc = "idle" /\ c \notin freed =>
            /\ pkt[c].pc # "real"
            /\ pkt[c].pc = "neigh" => pkt[c].id \notin offered[c] /\ home[c][pkt[c].flow] = 0]_vars
  BY Zenon, <1>1
<1> QED BY <1>2, DpInvariant, PTL DEF DpSpec, NoRealOnlyWhenFreed
==============================================================================
