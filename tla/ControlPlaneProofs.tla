-------------------------- MODULE ControlPlaneProofs -------------------------
(***************************************************************************)
(* Proofs about ControlPlane for every ring size and every number of ids,  *)
(* addresses and MACs.                                                     *)
(***************************************************************************)
EXTENDS ControlPlane, RealTableProofs

\* Every step of the control plane is a step of the table, or leaves it alone.
LEMMA CPStepsTable == [CPNext]_cpvars => [RTNext]_rtvars
BY DEF CPNext, cpvars, InstallRing, MapVip, UnmapVip, ReleaseReal, CallTable, TableGoesOn, RTNext

LEMMA CPInitInv == CPInit => CPInv
<1> SUFFICES ASSUME CPInit PROVE CPInv
  OBVIOUS
<1>1. RTInv
  BY RTInitInv DEF CPInit
<1> QED BY <1>1 DEF CPInit, CPInv, CPTypeOK, RingServes, RingKnown, NoRing, REAL_NONE

\* A map update shows the data plane what the table holds, and the table holds
\* the ring's reals with their MACs (real_table.cpp:143-163).
LEMMA MapUpdateServes ==
    ASSUME CPInv, MapUpdate, UNCHANGED <<vip, ring>>
    PROVE  RingServes' /\ RingKnown'
<1>1. adopted /\ UNCHANGED <<slots, adopted>>
  BY DEF CPInv, RTInv, MapUpdate, WritesShape
<1>2. RingKnown'
  BY <1>1 DEF CPInv, RingKnown, Usable
<1>3. ASSUME vip # "none", NEW s \in Slots, ring[s] # REAL_NONE
      PROVE  reals'[ring[s]] # 0 /\ neigh'[ring[s]] # 0
  <2>1. ring[s] \in Ids /\ slots[ring[s]].addr # 0 /\ slots[ring[s]].mac # 0
    BY <1>1, <1>3 DEF CPInv, RingKnown, Usable
  <2>2. reals[ring[s]] # 0 /\ neigh[ring[s]] # 0
    BY <1>3 DEF CPInv, RingServes
  <2>3. /\ reals \in [AllIds -> Addrs \cup {0}]
        /\ neigh \in [AllIds -> Macs \cup {0}]
        /\ ring[s] \in AllIds
    BY <2>1 DEF CPInv, RTInv, RTTypeOK, Ids
  <2>4. PICK id : \/ neigh' = [neigh EXCEPT ![id] = slots[id].mac] /\ reals' = reals
                  \/ reals' = [reals EXCEPT ![id] = slots[id].addr] /\ neigh' = neigh
    BY DEF MapUpdate
  <2> QED BY <2>1, <2>2, <2>3, <2>4
<1> QED BY <1>2, <1>3 DEF RingServes

\* A call that leaves the pinned maps alone, and takes no real of the ring or
\* its MAC out of the table, keeps the promise.
LEMMA TableServes ==
    ASSUME CPInv, UNCHANGED <<vip, ring, reals, neigh>>,
           vip # "none" /\ adopted' => \A id \in Usable : InRing(id) => id \in Usable',
           adopted' => adopted
    PROVE  RingServes' /\ RingKnown'
BY DEF CPInv, RingServes, RingKnown, InRing

\* Counting a reference changes neither addresses nor MACs.
LEMMA CountServes ==
    ASSUME CPInv, NEW a, NEW r, by_addr[a] \in Ids,
           slots' = [slots EXCEPT ![by_addr[a]].refs = r],
           UNCHANGED <<vip, ring, reals, neigh, adopted>>
    PROVE  RingServes' /\ RingKnown'
<1>1. \A id \in Ids : slots'[id].addr = slots[id].addr /\ slots'[id].mac = slots[id].mac
  BY DEF CPInv, RTInv, RTTypeOK, Ids
<1>2. Usable' = Usable
  BY <1>1 DEF Usable
<1> QED BY <1>2, TableServes

\* A slot that no packet can find in the ring may be cleared.
LEMMA FreeServes ==
    ASSUME CPInv, NEW id \in Ids, FreeSlotOf(id), MayFree(id),
           UNCHANGED <<vip, ring, reals, neigh, adopted>>
    PROVE  RingServes' /\ RingKnown'
<1>1. \A j \in Ids \ {id} : slots'[j] = slots[j]
  BY DEF FreeSlotOf, StoreSlot, CPInv, RTInv, RTTypeOK, Ids
<1>2. vip # "none" => ~InRing(id)
  BY DEF MayFree
<1>3. vip # "none" => \A j \in Usable : InRing(j) => j \in Usable'
  BY <1>1, <1>2 DEF Usable
<1> QED BY <1>3, TableServes

\* acquire() fills a free slot or counts a reference (real_table.cpp:78-95).
LEMMA AcquireServes ==
    ASSUME CPInv, NEW a \in Addrs, Acquire(a), UNCHANGED <<vip, ring>>
    PROVE  RingServes' /\ RingKnown'
<1>1. CASE AcquireKnown(a)
  <2>1. by_addr[a] \in Ids
    BY <1>1 DEF AcquireKnown, CPInv, RTInv, RTTypeOK
  <2> QED BY Zenon, <1>1, <2>1, CountServes DEF AcquireKnown, pinned
<1>2. CASE AcquireNew(a)
  <2>1. PICK n \in 0 .. MaxReals - 2 :
          /\ slots[CursorAfter(n)].addr = 0
          /\ slots' = [slots EXCEPT ![CursorAfter(n)] = [addr |-> a, refs |-> 1, mac |-> 0]]
    BY Zenon, <1>2 DEF AcquireNew, StoreSlot
  <2>2. \A j \in Usable : slots'[j] = slots[j]
    BY <2>1 DEF Usable, CPInv, RTInv, RTTypeOK, Ids
  <2>3. \A j \in Usable : j \in Usable'
    BY <2>2 DEF Usable
  <2> QED BY <1>2, <2>3, TableServes DEF AcquireNew, pinned
<1> QED BY <1>1, <1>2 DEF Acquire

\* release() of the last reference comes after the ring was rebuilt without the
\* real (lb_state.cpp:239-245).
LEMMA ReleaseServes ==
    ASSUME CPInv, ReleaseReal
    PROVE  RingServes' /\ RingKnown'
<1>1. PICK a \in Addrs : Release(a) /\ (slots[by_addr[a]].refs <= 1 => MayFree(by_addr[a]))
  BY DEF ReleaseReal
<1>2. UNCHANGED <<vip, ring>>
  BY DEF ReleaseReal
<1>3. by_addr[a] \in Ids
  BY <1>1 DEF Release, ReleaseShared, ReleaseLast, CPInv, RTInv, RTTypeOK
<1>4. CASE ReleaseShared(a)
  BY Zenon, <1>2, <1>3, <1>4, CountServes DEF ReleaseShared, pinned
<1>5. CASE ReleaseLast(a)
  BY <1>1, <1>2, <1>3, <1>5, FreeServes DEF ReleaseLast, pinned
<1> QED BY <1>1, <1>4, <1>5 DEF Release

\* set_mac() never takes a MAC away (real_table.cpp:129-135).
LEMMA SetMacServes ==
    ASSUME CPInv, NEW a \in Addrs, NEW m \in Macs, SetMac(a, m), UNCHANGED <<vip, ring>>
    PROVE  RingServes' /\ RingKnown'
<1>1. by_addr[a] \in Ids /\ m # 0
  BY MacsAssumption DEF SetMac, CPInv, RTInv, RTTypeOK
<1>2. slots' = [slots EXCEPT ![by_addr[a]] = [slots[by_addr[a]] EXCEPT !.mac = m]]
  BY DEF SetMac, StoreSlot
<1>3. \A j \in Ids : slots'[j].addr = slots[j].addr /\ slots'[j].mac \in {slots[j].mac, m}
  BY <1>1, <1>2 DEF CPInv, RTInv, RTTypeOK, Ids
<1>4. \A j \in Usable : j \in Usable'
  BY <1>1, <1>3 DEF Usable
<1> QED BY <1>4, TableServes DEF SetMac, pinned

\* What adopt() reads back contains the reals of the ring that was left
\* (real_table.cpp:46-65).
LEMMA AdoptServes ==
    ASSUME CPInv, Adopt, UNCHANGED <<vip, ring>>
    PROVE  RingServes' /\ RingKnown'
<1>1. UNCHANGED <<reals, neigh>>
  BY DEF Adopt, pinned
<1>2. RingServes'
  BY <1>1 DEF CPInv, RingServes
<1>3. ASSUME vip # "none", NEW s \in Slots, ring[s] # REAL_NONE
      PROVE  ring[s] \in Usable'
  <2>1. reals[ring[s]] # 0 /\ neigh[ring[s]] # 0
    BY <1>3 DEF CPInv, RingServes
  <2>2. ring[s] \in Ids /\ ring[s] \in AllIds /\ ring[s] # 0
    BY <1>3 DEF CPInv, CPTypeOK, Ids
  <2>3. slots'[ring[s]] = [addr |-> reals[ring[s]], refs |-> 0, mac |-> neigh[ring[s]]]
    BY <2>1, <2>2 DEF Adopt
  <2> QED BY <2>1, <2>2, <2>3 DEF Usable
<1> QED BY <1>2, <1>3 DEF RingKnown

LEMMA CPStepInv == CPInv /\ [CPNext]_cpvars => CPInv'
<1> SUFFICES ASSUME CPInv, [CPNext]_cpvars PROVE CPInv'
  OBVIOUS
<1>1. RTInv'
  BY CPStepsTable, RTStepInv DEF CPInv
<1>2. CASE UNCHANGED cpvars
  BY <1>1, <1>2 DEF cpvars, rtvars, memory, pinned, CPInv, CPTypeOK, RingServes, RingKnown, Usable
<1>3. CASE InstallRing
  <2>1. /\ adopted /\ writes = <<>>
        /\ UNCHANGED <<slots, adopted, reals, neigh, vip>>
        /\ ring' \in [Slots -> Usable \cup {REAL_NONE}]
    BY <1>3 DEF InstallRing, Quiet, rtvars, memory, pinned
  <2>2. Usable \subseteq Ids /\ Usable' = Usable
    BY <2>1 DEF Usable
  <2>3. \A id \in Usable : reals[id] # 0 /\ neigh[id] # 0
    BY <2>1, PendingFacts DEF CPInv, RTInv, MapsMirrorTable, Usable, Pending
  <2>4. CPTypeOK'
    BY <2>1, <2>2 DEF CPInv, CPTypeOK
  <2>5. RingServes' /\ RingKnown'
    BY <2>1, <2>2, <2>3 DEF RingServes, RingKnown
  <2> QED BY <1>1, <2>4, <2>5 DEF CPInv
<1>4. CASE MapVip
  <2>1. /\ adopted /\ writes = <<>> /\ vip' \in {"ct", "noct"}
        /\ UNCHANGED <<slots, adopted, reals, neigh, ring>>
    BY <1>4 DEF MapVip, Quiet, rtvars, memory, pinned
  <2>2. \A s \in Slots : ring[s] # REAL_NONE => ring[s] \in Usable
    BY <1>4, <2>1 DEF MapVip, CPInv, RingKnown
  <2>3. \A id \in Usable : reals[id] # 0 /\ neigh[id] # 0
    BY <2>1, PendingFacts DEF CPInv, RTInv, MapsMirrorTable, Usable, Pending
  <2>4. Usable' = Usable
    BY <2>1 DEF Usable
  <2> QED BY <1>1, <2>1, <2>2, <2>3, <2>4 DEF CPInv, CPTypeOK, RingServes, RingKnown
<1>5. CASE UnmapVip
  BY <1>1, <1>5 DEF UnmapVip, CPInv, CPTypeOK, RingServes, RingKnown
<1>6. ASSUME ReleaseReal \/ CallTable \/ TableGoesOn PROVE CPTypeOK'
  BY <1>6 DEF ReleaseReal, CallTable, TableGoesOn, CPInv, CPTypeOK
<1>7. CASE ReleaseReal
  BY <1>1, <1>6, <1>7, ReleaseServes DEF CPInv
<1>8. CASE CallTable
  <2>1. UNCHANGED <<vip, ring>>
    BY <1>8 DEF CallTable
  <2>2. CASE DropStart
    <3>1. UNCHANGED <<slots, reals, neigh, adopted>>
      BY <2>2 DEF DropStart, pinned
    <3>2. Usable' = Usable
      BY <3>1 DEF Usable
    <3> QED BY <1>1, <1>6, <1>8, <2>1, <3>1, <3>2, TableServes DEF CPInv
  <2>3. CASE Restart
    <3>1. ~adopted' /\ UNCHANGED <<reals, neigh>>
      BY <2>3 DEF Restart, pinned
    <3> QED BY <1>1, <1>6, <1>8, <2>1, <3>1 DEF CPInv, RingServes, RingKnown
  <2>4. ASSUME NEW a \in Addrs, Acquire(a) PROVE CPInv'
    BY <1>1, <1>6, <1>8, <2>1, <2>4, AcquireServes DEF CPInv
  <2>5. ASSUME NEW a \in Addrs, NEW m \in Macs, SetMac(a, m) PROVE CPInv'
    BY <1>1, <1>6, <1>8, <2>1, <2>5, SetMacServes DEF CPInv
  <2> QED BY <1>8, <2>2, <2>3, <2>4, <2>5 DEF CallTable
<1>9. CASE TableGoesOn
  <2>1. UNCHANGED <<vip, ring>>
    BY <1>9 DEF TableGoesOn
  <2>2. CASE MapUpdate
    BY <1>1, <1>6, <1>9, <2>1, <2>2, MapUpdateServes DEF CPInv
  <2>3. CASE Adopt
    BY <1>1, <1>6, <1>9, <2>1, <2>3, AdoptServes DEF CPInv
  <2>4. CASE DropStep /\ (slots[drop].refs = 0 => MayFree(drop))
    <3>1. UNCHANGED <<reals, neigh, adopted>> /\ drop \in Ids
      BY <2>4 DEF DropStep, pinned, CPInv, RTInv, RTTypeOK, Ids
    <3>2. CASE slots[drop].addr # 0 /\ slots[drop].refs = 0
      <4>1. FreeSlotOf(drop) /\ MayFree(drop)
        BY <2>4, <3>2 DEF DropStep
      <4> QED BY <1>1, <1>6, <1>9, <2>1, <3>1, <4>1, FreeServes DEF CPInv
    <3>3. CASE ~(slots[drop].addr # 0 /\ slots[drop].refs = 0)
      <4>1. slots' = slots
        BY <2>4, <3>3 DEF DropStep
      <4>2. Usable' = Usable
        BY <4>1 DEF Usable
      <4> QED BY <1>1, <1>6, <1>9, <2>1, <3>1, <4>2, TableServes DEF CPInv
    <3> QED BY <3>2, <3>3
  <2> QED BY <1>9, <2>2, <2>3, <2>4 DEF TableGoesOn
<1> QED BY <1>2, <1>3, <1>4, <1>5, <1>7, <1>8, <1>9 DEF CPNext

\* The inductive invariant holds at every instant, restarts included.
THEOREM CPInvariant == CPSpec => []CPInv
BY CPInitInv, CPStepInv, PTL DEF CPSpec

\* A packet for a VIP in vip_map never hashes to a real that has no address or
\* no MAC in the maps the data plane reads.
THEOREM RingAlwaysServes == CPSpec => []RingServes
<1>1. CPInv => RingServes
  BY DEF CPInv
<1> QED BY <1>1, CPInvariant, PTL

\* The control plane, seen through the pinned maps alone, keeps the table's
\* promise about what an id means.
THEOREM CPUsesTable == CPSpec => RTSpec
<1>1. CPInit => RTInit
  BY DEF CPInit
<1> QED BY <1>1, CPStepsTable, PTL DEF CPSpec, RTSpec
==============================================================================
