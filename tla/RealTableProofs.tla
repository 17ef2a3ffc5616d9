--------------------------- MODULE RealTableProofs ---------------------------
(***************************************************************************)
(* Proofs about RealTable for every number of ids, addresses and MACs.     *)
(***************************************************************************)
EXTENDS RealTable, TLAPS

\* What Pending says of the four sequences write_slot and its first update
\* leave (real_table.cpp:143-163).
LEMMA PendingFacts ==
    /\ \A map, id : ~PendingIn(<<>>, map, id)
    /\ \A map, id, m, i : PendingIn(<<<<m, i>>>>, map, id) <=> map = m /\ id = i
    /\ \A map, id, m, n, i :
          PendingIn(<<<<m, i>>, <<n, i>>>>, map, id) <=> map \in {m, n} /\ id = i
<1>1. \A map, id : ~PendingIn(<<>>, map, id)
  BY DEF PendingIn
<1>2. \A map, id, m, i : PendingIn(<<<<m, i>>>>, map, id) <=> map = m /\ id = i
  <2> TAKE map, id, m, i
  <2> DEFINE w == <<<<m, i>>>>
  <2>1. DOMAIN w = {1} /\ w[1] = <<m, i>>
    OBVIOUS
  <2>2. <<map, id>> = <<m, i>> <=> map = m /\ id = i
    OBVIOUS
  <2> HIDE DEF w
  <2> QED BY <2>1, <2>2 DEF PendingIn, w
<1>3. \A map, id, m, n, i :
        PendingIn(<<<<m, i>>, <<n, i>>>>, map, id) <=> map \in {m, n} /\ id = i
  <2> TAKE map, id, m, n, i
  <2> DEFINE w == <<<<m, i>>, <<n, i>>>>
  <2>1. DOMAIN w = {1, 2} /\ w[1] = <<m, i>> /\ w[2] = <<n, i>>
    OBVIOUS
  <2>2. <<map, id>> = <<m, i>> <=> map = m /\ id = i
    OBVIOUS
  <2>3. <<map, id>> = <<n, i>> <=> map = n /\ id = i
    OBVIOUS
  <2>4. (\E k \in DOMAIN w : w[k] = <<map, id>>) <=> map \in {m, n} /\ id = i
    <3> HIDE DEF w
    <3> QED BY <2>1, <2>2, <2>3
  <2> QED BY <2>4 DEF PendingIn
<1> QED BY <1>1, <1>2, <1>3

\* The updates a call has left are one of four, told apart by the slot.
LEMMA WritesCases ==
    ASSUME WritesShape, writes # <<>>
    PROVE  /\ adopted
           /\ \E id \in Ids :
                \/ slots[id].addr # 0 /\ writes = <<<<"neigh", id>>, <<"reals", id>>>>
                \/ slots[id].addr # 0 /\ writes = <<<<"reals", id>>>>
                \/ slots[id].addr = 0 /\ writes = <<<<"reals", id>>, <<"neigh", id>>>>
                \/ slots[id].addr = 0 /\ writes = <<<<"neigh", id>>>>
<1>1. adopted
  BY DEF WritesShape
<1>2. PICK id \in Ids : \/ writes = write_slot(id, slots[id])
                        \/ writes = Tail(write_slot(id, slots[id]))
  BY DEF WritesShape
<1>3. CASE slots[id].addr # 0
  <2>1. write_slot(id, slots[id]) = <<<<"neigh", id>>, <<"reals", id>>>>
    BY <1>3 DEF write_slot
  <2>2. Tail(<<<<"neigh", id>>, <<"reals", id>>>>) = <<<<"reals", id>>>>
    OBVIOUS
  <2> QED BY <1>1, <1>2, <1>3, <2>1, <2>2
<1>4. CASE slots[id].addr = 0
  <2>1. write_slot(id, slots[id]) = <<<<"reals", id>>, <<"neigh", id>>>>
    BY <1>4 DEF write_slot
  <2>2. Tail(<<<<"reals", id>>, <<"neigh", id>>>>) = <<<<"neigh", id>>>>
    OBVIOUS
  <2> QED BY <1>1, <1>2, <1>4, <2>1, <2>2
<1> QED BY <1>3, <1>4

\* Those sequences have the type RTTypeOK gives them.
LEMMA WritesTyped ==
    /\ <<>> \in Seq({"neigh", "reals"} \X Ids)
    /\ \A id \in Ids, m, n \in {"neigh", "reals"} :
          /\ <<<<m, id>>>> \in Seq({"neigh", "reals"} \X Ids)
          /\ <<<<m, id>>, <<n, id>>>> \in Seq({"neigh", "reals"} \X Ids)
<1>1. \A S, e, f : e \in S /\ f \in S => <<>> \in Seq(S) /\ <<e>> \in Seq(S) /\ <<e, f>> \in Seq(S)
  OBVIOUS
<1>2. \A id \in Ids, m \in {"neigh", "reals"} : <<m, id>> \in {"neigh", "reals"} \X Ids
  OBVIOUS
<1>3. <<>> \in Seq({"neigh", "reals"} \X Ids)
  OBVIOUS
<1> QED BY <1>1, <1>2, <1>3

\* The constructor's state satisfies the invariant.
LEMMA RTInitInv == RTInit => RTInv
<1> SUFFICES ASSUME RTInit PROVE RTInv
  OBVIOUS
<1> USE MaxRealsAssumption DEF AllIds, Ids, FreeSlot, EmptyMap
<1>2. WritesShape /\ NotAdopted
  BY DEF RTInit, WritesShape, NotAdopted
<1>1. RTTypeOK
  <2>1. writes \in Seq({"neigh", "reals"} \X Ids)
    BY WritesTyped DEF RTInit
  <2>2. by_addr \in [DOMAIN by_addr -> Ids] /\ DOMAIN by_addr \subseteq Addrs
    BY DEF RTInit
  <2>3. slots \in [AllIds -> [addr : Addrs \cup {0}, refs : Nat, mac : Macs \cup {0}]]
    BY DEF RTInit
  <2>4. slots[0] = FreeSlot /\ reals[0] = 0
    BY DEF RTInit
  <2>5. reals \in [AllIds -> Addrs \cup {0}] /\ neigh \in [AllIds -> Macs \cup {0}]
    BY DEF RTInit
  <2>6. cursor \in Ids /\ drop \in AllIds /\ adopted \in BOOLEAN
    BY DEF RTInit
  <2>7. learned \subseteq Addrs \X Macs /\ handed \subseteq Ids
    BY DEF RTInit
  <2> HIDE DEF AllIds, Ids, FreeSlot, EmptyMap
  <2> QED BY <2>1, <2>2, <2>3, <2>4, <2>5, <2>6, <2>7 DEF RTTypeOK
<1>3. TablesAgree
  BY DEF RTInit, TablesAgree
<1>4. MapsMirrorTable /\ FillInProgress
  BY DEF RTInit, MapsMirrorTable, FillInProgress
<1>5. OneIdPerAddress /\ MacOfItsReal
  BY DEF RTInit, OneIdPerAddress, MacOfItsReal
<1>6. KnownMacsLearned
  BY DEF RTInit, KnownMacsLearned
<1> QED BY <1>1, <1>2, <1>3, <1>4, <1>5, <1>6 DEF RTInv

\* A map update of write_slot keeps the invariant: the address that becomes
\* visible belongs to this id alone, and its MAC is already in place.
LEMMA MapUpdateInv ==
    ASSUME RTInv, MapUpdate
    PROVE  RTInv'
<1> USE DEF RTInv
<1>0. /\ writes # <<>>
      /\ writes' = Tail(writes)
      /\ UNCHANGED <<slots, by_addr, cursor, adopted, drop, learned>>
  BY DEF MapUpdate
<1>1. adopted
  BY <1>0, WritesCases
<1>2. PICK id \in Ids :
        \/ slots[id].addr # 0 /\ writes = <<<<"neigh", id>>, <<"reals", id>>>>
        \/ slots[id].addr # 0 /\ writes = <<<<"reals", id>>>>
        \/ slots[id].addr = 0 /\ writes = <<<<"reals", id>>, <<"neigh", id>>>>
        \/ slots[id].addr = 0 /\ writes = <<<<"neigh", id>>>>
  BY <1>0, WritesCases
<1>3. TablesAgree' /\ KnownMacsLearned' /\ NotAdopted'
  BY <1>0 DEF TablesAgree, KnownMacsLearned, NotAdopted
<1>4. CASE slots[id].addr # 0 /\ writes = <<<<"neigh", id>>, <<"reals", id>>>>
  <2>1. /\ neigh' = [neigh EXCEPT ![id] = slots[id].mac]
        /\ writes' = <<<<"reals", id>>>>
        /\ UNCHANGED <<reals, handed>>
    BY <1>0, <1>4 DEF MapUpdate
  <2>2. \A map, j : /\ Pending(map, j) <=> map \in {"neigh", "reals"} /\ j = id
                    /\ Pending(map, j)' <=> map = "reals" /\ j = id
    BY <1>4, <2>1, PendingFacts DEF Pending
  <2>3. WritesShape'
    BY Zenon, <1>0, <1>1, <1>4, <2>1 DEF WritesShape, write_slot
  <2>4. RTTypeOK'
    <3>1. writes' \in Seq({"neigh", "reals"} \X Ids)
      BY <2>1, WritesTyped
    <3>2. neigh' \in [AllIds -> Macs \cup {0}]
      BY <2>1 DEF RTTypeOK, Ids
    <3> QED BY <1>0, <2>1, <3>1, <3>2 DEF RTTypeOK
  <2>5. MapsMirrorTable'
    BY <1>0, <2>1, <2>2 DEF MapsMirrorTable, RTTypeOK, Ids
  <2>6. OneIdPerAddress' /\ FillInProgress'
    BY <1>0, <2>1, <2>2 DEF OneIdPerAddress, FillInProgress
  <2>7. MacOfItsReal'
    BY <1>0, <1>1, <1>4, <2>1
      DEF MacOfItsReal, FillInProgress, KnownMacsLearned, RTTypeOK, Ids
  <2> QED BY <1>3, <2>3, <2>4, <2>5, <2>6, <2>7
<1>5. CASE slots[id].addr # 0 /\ writes = <<<<"reals", id>>>>
  <2>1. /\ reals' = [reals EXCEPT ![id] = slots[id].addr]
        /\ writes' = <<>>
        /\ neigh' = neigh
        /\ handed' = handed \cup {id}
    BY <1>0, <1>5 DEF MapUpdate
  <2>2. \A map, j : /\ Pending(map, j) <=> map = "reals" /\ j = id
                    /\ ~Pending(map, j)'
    BY <1>5, <2>1, PendingFacts DEF Pending
  <2>3. WritesShape'
    BY <2>1 DEF WritesShape
  <2>4. RTTypeOK'
    <3>1. writes' \in Seq({"neigh", "reals"} \X Ids)
      BY <2>1, WritesTyped
    <3>2. reals' \in [AllIds -> Addrs \cup {0}] /\ reals'[0] = 0
      BY <2>1 DEF RTTypeOK, Ids
    <3> QED BY <1>0, <2>1, <3>1, <3>2 DEF RTTypeOK
  <2>5. MapsMirrorTable'
    BY <1>0, <1>1, <2>1, <2>2 DEF MapsMirrorTable, RTTypeOK, Ids
  <2>6. OneIdPerAddress'
    \* Another id with this address would be in by_addr under it, twice.
    <3>1. \A j \in Ids \ {id} : reals[j] # slots[id].addr
      BY <1>1, <1>5, <2>2 DEF MapsMirrorTable, TablesAgree
    <3> QED BY <2>1, <3>1 DEF OneIdPerAddress, RTTypeOK, Ids
  <2>7. FillInProgress'
    BY <1>0, <2>1, <2>2 DEF FillInProgress, RTTypeOK, Ids
  <2>8. MacOfItsReal'
    BY <1>0, <1>1, <1>5, <2>1, <2>2
      DEF MacOfItsReal, MapsMirrorTable, KnownMacsLearned, RTTypeOK, Ids
  <2> QED BY <1>3, <2>3, <2>4, <2>5, <2>6, <2>7, <2>8
<1>6. CASE slots[id].addr = 0 /\ writes = <<<<"reals", id>>, <<"neigh", id>>>>
  <2>1. /\ reals' = [reals EXCEPT ![id] = 0]
        /\ writes' = <<<<"neigh", id>>>>
        /\ UNCHANGED <<neigh, handed>>
    BY <1>0, <1>6 DEF MapUpdate
  <2>2. \A map, j : /\ Pending(map, j) <=> map \in {"neigh", "reals"} /\ j = id
                    /\ Pending(map, j)' <=> map = "neigh" /\ j = id
    BY <1>6, <2>1, PendingFacts DEF Pending
  <2>3. WritesShape'
    BY Zenon, <1>0, <1>1, <1>6, <2>1 DEF WritesShape, write_slot
  <2>4. RTTypeOK'
    <3>1. writes' \in Seq({"neigh", "reals"} \X Ids)
      BY <2>1, WritesTyped
    <3>2. reals' \in [AllIds -> Addrs \cup {0}] /\ reals'[0] = 0
      BY <2>1 DEF RTTypeOK, Ids
    <3> QED BY <1>0, <2>1, <3>1, <3>2 DEF RTTypeOK
  <2>5. MapsMirrorTable'
    BY <1>0, <1>6, <2>1, <2>2 DEF MapsMirrorTable, RTTypeOK, Ids
  <2>6. OneIdPerAddress' /\ FillInProgress' /\ MacOfItsReal'
    BY <1>0, <1>6, <2>1, <2>2 DEF OneIdPerAddress, FillInProgress, MacOfItsReal, RTTypeOK, Ids
  <2> QED BY <1>3, <2>3, <2>4, <2>5, <2>6
<1>7. CASE slots[id].addr = 0 /\ writes = <<<<"neigh", id>>>>
  <2>1. /\ neigh' = [neigh EXCEPT ![id] = slots[id].mac]
        /\ writes' = <<>>
        /\ UNCHANGED <<reals, handed>>
    BY <1>0, <1>7 DEF MapUpdate
  <2>2. \A map, j : /\ Pending(map, j) <=> map = "neigh" /\ j = id
                    /\ ~Pending(map, j)'
    BY <1>7, <2>1, PendingFacts DEF Pending
  <2>3. WritesShape'
    BY <2>1 DEF WritesShape
  <2>4. RTTypeOK'
    <3>1. writes' \in Seq({"neigh", "reals"} \X Ids)
      BY <2>1, WritesTyped
    <3>2. neigh' \in [AllIds -> Macs \cup {0}]
      BY <2>1 DEF RTTypeOK, Ids
    <3> QED BY <1>0, <2>1, <3>1, <3>2 DEF RTTypeOK
  <2>5. MapsMirrorTable'
    BY <1>0, <1>7, <2>1, <2>2 DEF MapsMirrorTable, RTTypeOK, Ids
  <2>6. OneIdPerAddress' /\ FillInProgress'
    BY <1>0, <2>1, <2>2 DEF OneIdPerAddress, FillInProgress
  <2>7. MacOfItsReal'
    \* The address of the freed id is already gone.
    <3>1. reals[id] = 0
      BY <1>1, <1>7, <2>2 DEF MapsMirrorTable
    <3> QED BY <1>0, <2>1, <3>1 DEF MacOfItsReal, RTTypeOK, Ids
  <2> QED BY <1>3, <2>3, <2>4, <2>5, <2>6, <2>7
<1> QED BY <1>2, <1>4, <1>5, <1>6, <1>7

\* What every call that stores a slot has in common (acquire, release, set_mac
\* and drop_unreferenced all end in write_slot): nothing is visible yet.
LEMMA StoreSlotInv ==
    ASSUME RTInv, adopted, writes = <<>>,
           NEW id \in Ids,
           NEW slot \in [addr : Addrs \cup {0}, refs : Nat, mac : Macs \cup {0}],
           StoreSlot(id, slot),
           slot.addr # 0 => /\ slots[id].addr \in {0, slot.addr}
                            /\ slot.mac = 0 => slots[id].addr = 0
                            /\ slot.mac # 0 => <<slot.addr, slot.mac>> \in learned',
           learned \subseteq learned',
           UNCHANGED <<adopted, pinned>>
    PROVE  /\ slots' \in [AllIds -> [addr : Addrs \cup {0}, refs : Nat, mac : Macs \cup {0}]]
           /\ slots'[0] = FreeSlot
           /\ writes' \in Seq({"neigh", "reals"} \X Ids)
           /\ WritesShape' /\ MapsMirrorTable' /\ OneIdPerAddress' /\ FillInProgress'
           /\ KnownMacsLearned' /\ MacOfItsReal' /\ NotAdopted'
<1> USE DEF RTInv
<1>1. /\ slots' = [slots EXCEPT ![id] = slot]
      /\ writes' = write_slot(id, slot)
      /\ UNCHANGED <<adopted, reals, neigh>>
  BY DEF StoreSlot, pinned
<1>2. /\ slots' \in [AllIds -> [addr : Addrs \cup {0}, refs : Nat, mac : Macs \cup {0}]]
      /\ slots'[0] = FreeSlot
  BY <1>1 DEF RTTypeOK, Ids
<1>3. slots'[id] = slot /\ \A j \in Ids \ {id} : slots'[j] = slots[j]
  BY <1>1 DEF RTTypeOK, Ids
<1>4. \/ writes' = <<<<"neigh", id>>, <<"reals", id>>>>
      \/ writes' = <<<<"reals", id>>, <<"neigh", id>>>>
  BY <1>1 DEF write_slot
<1>5. writes' \in Seq({"neigh", "reals"} \X Ids)
  BY Zenon, <1>4, WritesTyped
<1>6. \A map, j : /\ ~Pending(map, j)
                  /\ Pending(map, j)' <=> map \in {"neigh", "reals"} /\ j = id
  BY <1>4, PendingFacts DEF Pending
<1>7. WritesShape'
  BY <1>1, <1>3 DEF WritesShape
<1>8. MapsMirrorTable'
  BY <1>1, <1>3, <1>6 DEF MapsMirrorTable
<1>9. OneIdPerAddress' /\ NotAdopted'
  BY <1>1 DEF OneIdPerAddress, NotAdopted
<1>10. FillInProgress'
  <2>1. reals[id] = slots[id].addr
    BY <1>6 DEF MapsMirrorTable
  <2> QED BY <1>1, <1>3, <1>6, <2>1 DEF FillInProgress
<1>11. KnownMacsLearned'
  BY <1>1, <1>3 DEF KnownMacsLearned
<1>12. MacOfItsReal'
  BY <1>1 DEF MacOfItsReal
<1> QED BY <1>2, <1>5, <1>7, <1>8, <1>9, <1>10, <1>11, <1>12

\* The cursor stays within the ids that may be handed out (real_table.cpp:86).
LEMMA CursorInIds ==
    ASSUME cursor \in Ids, NEW n \in 0 .. MaxReals - 1
    PROVE  CursorAfter(n) \in Ids
BY MaxRealsAssumption DEF CursorAfter, Ids, AllIds

\* A call that only counts a reference keeps the invariant.
LEMMA CountInv ==
    ASSUME RTInv, adopted, writes = <<>>,
           NEW id \in Ids, NEW r \in Nat,
           slots' = [slots EXCEPT ![id].refs = r],
           UNCHANGED <<by_addr, cursor, adopted, drop, writes, pinned, learned, handed>>
    PROVE  RTInv'
<1> USE DEF RTInv
<1>1. UNCHANGED <<reals, neigh>>
  BY DEF pinned
<1>2. slots' \in [AllIds -> [addr : Addrs \cup {0}, refs : Nat, mac : Macs \cup {0}]]
  <2>1. slots[id] \in [addr : Addrs \cup {0}, refs : Nat, mac : Macs \cup {0}]
    BY DEF RTTypeOK, Ids
  <2>2. [slots[id] EXCEPT !.refs = r] \in [addr : Addrs \cup {0}, refs : Nat, mac : Macs \cup {0}]
    BY <2>1
  <2> QED BY <2>2 DEF RTTypeOK, Ids
<1>3. \A j \in AllIds : slots'[j].addr = slots[j].addr /\ slots'[j].mac = slots[j].mac
  BY DEF RTTypeOK, Ids
<1>4. slots'[0] = FreeSlot
  BY DEF RTTypeOK, Ids
<1>5. RTTypeOK'
  BY <1>1, <1>2, <1>4 DEF RTTypeOK
<1>6. WritesShape' /\ NotAdopted'
  BY DEF WritesShape, NotAdopted
<1>7. TablesAgree'
  BY <1>3 DEF TablesAgree, RTTypeOK, Ids
<1>8. MapsMirrorTable' /\ FillInProgress'
  BY <1>1, <1>3 DEF MapsMirrorTable, FillInProgress, Pending, Ids
<1>9. OneIdPerAddress' /\ KnownMacsLearned' /\ MacOfItsReal'
  BY <1>1, <1>3 DEF OneIdPerAddress, KnownMacsLearned, MacOfItsReal, Ids
<1> QED BY <1>5, <1>6, <1>7, <1>8, <1>9

\* Freeing a slot (release, drop_unreferenced) keeps the invariant.
LEMMA FreeSlotInv ==
    ASSUME RTInv, adopted, writes = <<>>,
           NEW id \in Ids, slots[id].addr # 0,
           FreeSlotOf(id), drop' \in AllIds,
           UNCHANGED <<cursor, adopted, pinned, learned, handed>>
    PROVE  RTInv'
<1> USE DEF RTInv
<1>1. FreeSlot \in [addr : Addrs \cup {0}, refs : Nat, mac : Macs \cup {0}] /\ FreeSlot.addr = 0
  BY DEF FreeSlot
<1>2. StoreSlot(id, FreeSlot)
  BY DEF FreeSlotOf
<1>3. /\ slots' \in [AllIds -> [addr : Addrs \cup {0}, refs : Nat, mac : Macs \cup {0}]]
      /\ slots'[0] = FreeSlot
      /\ writes' \in Seq({"neigh", "reals"} \X Ids)
      /\ WritesShape' /\ MapsMirrorTable' /\ OneIdPerAddress' /\ FillInProgress'
      /\ KnownMacsLearned' /\ MacOfItsReal' /\ NotAdopted'
  BY Zenon, <1>1, <1>2, StoreSlotInv
<1>4. /\ DOMAIN by_addr' = DOMAIN by_addr \ {slots[id].addr}
      /\ \A b \in DOMAIN by_addr' : by_addr'[b] = by_addr[b]
      /\ by_addr' \in [DOMAIN by_addr' -> Ids]
  BY DEF FreeSlotOf, Without, RTTypeOK
<1>5. RTTypeOK'
  BY <1>3, <1>4 DEF RTTypeOK, pinned
<1>6. TablesAgree'
  <2>1. slots'[id].addr = 0 /\ \A j \in Ids \ {id} : slots'[j] = slots[j]
    BY <1>1, <1>2 DEF StoreSlot, RTTypeOK, Ids
  <2>2. \A b \in DOMAIN by_addr' : by_addr[b] # id
    BY <1>4 DEF TablesAgree
  <2>3. \A b \in DOMAIN by_addr' : slots'[by_addr'[b]].addr = b
    BY <1>4, <2>1, <2>2 DEF TablesAgree, RTTypeOK
  <2>4. \A j \in Ids : slots'[j].addr # 0 =>
          slots'[j].addr \in DOMAIN by_addr' /\ by_addr'[slots'[j].addr] = j
    BY <1>4, <2>1 DEF TablesAgree
  <2> QED BY <2>3, <2>4 DEF TablesAgree
<1> QED BY <1>3, <1>5, <1>6

\* acquire() keeps the invariant.
LEMMA AcquireInv ==
    ASSUME RTInv, NEW a \in Addrs, Acquire(a)
    PROVE  RTInv'
<1> USE DEF RTInv
<1>1. CASE AcquireKnown(a)
  <2>1. by_addr[a] \in Ids /\ slots[by_addr[a]].refs + 1 \in Nat
    BY <1>1 DEF AcquireKnown, RTTypeOK, Ids
  <2> QED BY Zenon, <1>1, <2>1, CountInv DEF AcquireKnown, Quiet
<1>2. CASE AcquireNew(a)
  <2>1. PICK n \in 0 .. MaxReals - 2 :
          /\ slots[CursorAfter(n)].addr = 0
          /\ cursor' = CursorAfter(n + 1)
          /\ StoreSlot(CursorAfter(n), [addr |-> a, refs |-> 1, mac |-> 0])
          /\ by_addr' = With(by_addr, a, CursorAfter(n))
    BY <1>2 DEF AcquireNew
  <2> DEFINE id == CursorAfter(n)
             slot == [addr |-> a, refs |-> 1, mac |-> 0]
  <2>2. id \in Ids /\ cursor' \in Ids
    <3>1. n \in 0 .. MaxReals - 1 /\ n + 1 \in 0 .. MaxReals - 1
      BY MaxRealsAssumption
    <3>2. cursor \in Ids
      BY DEF RTTypeOK
    <3> QED BY <2>1, <3>1, <3>2, CursorInIds
  <2>3. /\ adopted /\ writes = <<>> /\ a \notin DOMAIN by_addr
        /\ UNCHANGED <<adopted, drop, pinned, learned, handed>>
    BY <1>2 DEF AcquireNew, Quiet
  <2>4. slot \in [addr : Addrs \cup {0}, refs : Nat, mac : Macs \cup {0}]
    OBVIOUS
  <2>5. slots[id].addr = 0 /\ StoreSlot(id, slot) /\ by_addr' = With(by_addr, a, id)
    BY <2>1
  <2>6. slots' = [slots EXCEPT ![id] = slot] /\ slot.addr = a /\ slot.mac = 0
    BY <2>5 DEF StoreSlot
  <2> HIDE DEF id, slot
  <2>7. /\ slots' \in [AllIds -> [addr : Addrs \cup {0}, refs : Nat, mac : Macs \cup {0}]]
        /\ slots'[0] = FreeSlot
        /\ writes' \in Seq({"neigh", "reals"} \X Ids)
        /\ WritesShape' /\ MapsMirrorTable' /\ OneIdPerAddress' /\ FillInProgress'
        /\ KnownMacsLearned' /\ MacOfItsReal' /\ NotAdopted'
    BY Zenon, <2>2, <2>3, <2>4, <2>5, <2>6, StoreSlotInv
  <2>8. /\ DOMAIN by_addr' = DOMAIN by_addr \cup {a}
        /\ by_addr'[a] = id
        /\ \A b \in DOMAIN by_addr : by_addr'[b] = by_addr[b]
        /\ by_addr' \in [DOMAIN by_addr' -> Ids]
    BY <2>2, <2>3, <2>5 DEF With, RTTypeOK
  <2>9. RTTypeOK'
    BY <2>2, <2>3, <2>7, <2>8 DEF RTTypeOK, pinned
  <2>10. TablesAgree'
    <3>1. \A b \in DOMAIN by_addr : by_addr[b] # id
      BY <2>5, AddrsAssumption DEF TablesAgree, RTTypeOK
    <3>2. slots'[id].addr = a /\ \A j \in Ids \ {id} : slots'[j] = slots[j]
      BY <2>2, <2>6 DEF RTTypeOK, Ids
    <3>3. \A b \in DOMAIN by_addr' : slots'[by_addr'[b]].addr = b
      BY <2>8, <3>1, <3>2 DEF TablesAgree, RTTypeOK
    <3>4. \A j \in Ids : slots'[j].addr # 0 =>
            slots'[j].addr \in DOMAIN by_addr' /\ by_addr'[slots'[j].addr] = j
      BY <2>2, <2>8, <3>2 DEF TablesAgree
    <3> QED BY <3>3, <3>4 DEF TablesAgree
  <2> QED BY <2>7, <2>9, <2>10
<1> QED BY <1>1, <1>2 DEF Acquire

\* release() keeps the invariant.
LEMMA ReleaseInv ==
    ASSUME RTInv, NEW a \in Addrs, Release(a)
    PROVE  RTInv'
<1> USE DEF RTInv
<1>1. CASE ReleaseShared(a)
  <2>1. by_addr[a] \in Ids /\ slots[by_addr[a]].refs - 1 \in Nat
    BY <1>1 DEF ReleaseShared, RTTypeOK, Ids
  <2> QED BY Zenon, <1>1, <2>1, CountInv DEF ReleaseShared, Quiet
<1>2. CASE ReleaseLast(a)
  <2>1. by_addr[a] \in Ids /\ slots[by_addr[a]].addr # 0
    BY <1>2, AddrsAssumption DEF ReleaseLast, RTTypeOK, TablesAgree
  <2> QED BY <1>2, <2>1, FreeSlotInv DEF ReleaseLast, Quiet, RTTypeOK
<1> QED BY <1>1, <1>2 DEF Release

\* set_mac() keeps the invariant.
LEMMA SetMacInv ==
    ASSUME RTInv, NEW a \in Addrs, NEW m \in Macs, SetMac(a, m)
    PROVE  RTInv'
<1> USE DEF RTInv
<1> DEFINE id == by_addr[a]
           slot == [slots[id] EXCEPT !.mac = m]
<1>1. /\ id \in Ids /\ slots[id].addr = a
      /\ adopted /\ writes = <<>>
      /\ StoreSlot(id, slot)
      /\ learned' = learned \cup {<<a, m>>}
      /\ UNCHANGED <<by_addr, cursor, adopted, drop, pinned, handed>>
  BY DEF SetMac, Quiet, RTTypeOK, TablesAgree
<1>2. slots[id] \in [addr : Addrs \cup {0}, refs : Nat, mac : Macs \cup {0}]
  BY <1>1 DEF RTTypeOK, Ids
<1>3. /\ slot \in [addr : Addrs \cup {0}, refs : Nat, mac : Macs \cup {0}]
      /\ slot.addr = a /\ slot.mac = m /\ m # 0
  BY <1>1, <1>2, MacsAssumption
<1> HIDE DEF id, slot
<1>4. /\ slots' \in [AllIds -> [addr : Addrs \cup {0}, refs : Nat, mac : Macs \cup {0}]]
      /\ slots'[0] = FreeSlot
      /\ writes' \in Seq({"neigh", "reals"} \X Ids)
      /\ WritesShape' /\ MapsMirrorTable' /\ OneIdPerAddress' /\ FillInProgress'
      /\ KnownMacsLearned' /\ MacOfItsReal' /\ NotAdopted'
  BY Zenon, <1>1, <1>3, StoreSlotInv
<1>5. RTTypeOK'
  BY <1>1, <1>4 DEF RTTypeOK, pinned
<1>6. TablesAgree'
  <2>1. \A j \in Ids : slots'[j].addr = slots[j].addr
    BY <1>1, <1>3 DEF StoreSlot, RTTypeOK, Ids
  <2> QED BY Zenon, <1>1, <2>1 DEF TablesAgree, RTTypeOK
<1> QED BY <1>4, <1>5, <1>6

\* drop_unreferenced() keeps the invariant, one id at a time.
LEMMA DropInv ==
    ASSUME RTInv, DropStart \/ DropStep
    PROVE  RTInv'
<1> USE DEF RTInv
<1>1. CASE DropStart
  <2>1. drop' \in AllIds
    BY <1>1, MaxRealsAssumption DEF DropStart, AllIds
  <2> QED BY <1>1, <2>1 DEF DropStart, Quiet, pinned, RTTypeOK, WritesShape, TablesAgree,
           MapsMirrorTable, OneIdPerAddress, FillInProgress, KnownMacsLearned, MacOfItsReal,
           NotAdopted, Pending
<1>2. CASE DropStep
  <2>1. /\ drop \in Ids /\ drop' \in AllIds
        /\ adopted /\ writes = <<>>
        /\ UNCHANGED <<cursor, adopted, pinned, learned, handed>>
    BY <1>2, MaxRealsAssumption DEF DropStep, RTTypeOK, NotAdopted, Ids, AllIds
  <2>2. CASE slots[drop].addr # 0 /\ slots[drop].refs = 0
    BY <1>2, <2>1, <2>2, FreeSlotInv DEF DropStep
  <2>3. CASE ~(slots[drop].addr # 0 /\ slots[drop].refs = 0)
    <3>1. UNCHANGED <<slots, by_addr, writes>>
      BY <1>2, <2>3 DEF DropStep
    <3> QED BY <2>1, <3>1 DEF pinned, RTTypeOK, WritesShape, TablesAgree, MapsMirrorTable,
             OneIdPerAddress, FillInProgress, KnownMacsLearned, MacOfItsReal, NotAdopted, Pending
  <2> QED BY <2>2, <2>3
<1> QED BY <1>1, <1>2

\* adopt() keeps the invariant: the ids of the pinned maps are distinct, so the
\* table read from them is again a one-to-one assignment.
LEMMA AdoptInv ==
    ASSUME RTInv, Adopt
    PROVE  RTInv'
<1> USE DEF RTInv
<1>1. /\ adopted' /\ writes = <<>> /\ drop = 0
      /\ UNCHANGED <<drop, writes, reals, neigh, learned, handed>>
  BY DEF Adopt, pinned, WritesShape, NotAdopted
<1>2. slots' = [id \in AllIds |->
                  IF id # 0 /\ reals[id] # 0
                    THEN [addr |-> reals[id], refs |-> 0, mac |-> neigh[id]]
                    ELSE FreeSlot]
  BY DEF Adopt
<1>3. \A id \in AllIds : /\ reals[id] \in Addrs \cup {0}
                         /\ neigh[id] \in Macs \cup {0}
  BY DEF RTTypeOK
<1>4. slots' \in [AllIds -> [addr : Addrs \cup {0}, refs : Nat, mac : Macs \cup {0}]]
  BY <1>2, <1>3 DEF FreeSlot
<1>5. /\ slots'[0] = FreeSlot
      /\ \A id \in Ids : slots'[id].addr = reals[id]
      /\ \A id \in Ids : reals[id] # 0 => slots'[id].mac = neigh[id]
  BY <1>2, MaxRealsAssumption DEF FreeSlot, Ids, AllIds
<1>6. /\ DOMAIN by_addr' = {reals[id] : id \in Ids} \ {0}
      /\ \A id \in Ids : reals[id] # 0 => by_addr'[reals[id]] = id
  <2>1. \A id \in Ids : reals[id] # 0 =>
          id = CHOOSE i \in Ids : /\ reals[i] = reals[id]
                                  /\ \A j \in Ids : reals[j] = reals[id] => j <= i
    <3> SUFFICES ASSUME NEW id \in Ids, reals[id] # 0
                 PROVE  id = CHOOSE i \in Ids : /\ reals[i] = reals[id]
                                                /\ \A j \in Ids : reals[j] = reals[id] => j <= i
      OBVIOUS
    <3>1. \A j \in Ids : reals[j] = reals[id] => j = id
      BY DEF OneIdPerAddress
    <3>2. id <= id
      BY MaxRealsAssumption DEF Ids, AllIds
    <3> QED BY <3>1, <3>2
  <2>2. by_addr' = [a \in {reals[id] : id \in Ids} \ {0} |->
                      CHOOSE i \in Ids : /\ reals[i] = a
                                         /\ \A j \in Ids : reals[j] = a => j <= i]
    BY DEF Adopt
  <2> QED BY Zenon, <2>1, <2>2
<1>7. \A a \in DOMAIN by_addr' : \E id \in Ids : reals[id] # 0 /\ a = reals[id]
  BY <1>6
<1>8. DOMAIN by_addr' \subseteq Addrs /\ by_addr' \in [DOMAIN by_addr' -> Ids]
  <2>1. by_addr' = [a \in DOMAIN by_addr' |-> by_addr'[a]]
    BY DEF Adopt
  <2> QED BY <1>3, <1>6, <1>7, <2>1 DEF Ids
<1>9. cursor' \in Ids
  BY MaxRealsAssumption DEF Adopt, Ids, AllIds
<1>10. RTTypeOK'
  BY <1>1, <1>4, <1>5, <1>8, <1>9 DEF RTTypeOK
<1>11. TablesAgree'
  BY <1>5, <1>6, <1>7 DEF TablesAgree
<1>12. \A map, id : ~Pending(map, id)'
  BY <1>1, PendingFacts DEF Pending
<1>13. WritesShape' /\ NotAdopted' /\ MapsMirrorTable' /\ FillInProgress'
  BY <1>1, <1>5, <1>12 DEF WritesShape, NotAdopted, MapsMirrorTable, FillInProgress
<1>14. OneIdPerAddress' /\ MacOfItsReal' /\ KnownMacsLearned'
  BY <1>1, <1>5 DEF OneIdPerAddress, MacOfItsReal, KnownMacsLearned
<1> QED BY <1>10, <1>11, <1>13, <1>14

\* A new process keeps the invariant, whatever the old one was doing.
LEMMA RestartInv ==
    ASSUME RTInv, Restart
    PROVE  RTInv'
<1> USE DEF RTInv
<1>1. /\ slots' = [id \in AllIds |-> FreeSlot]
      /\ by_addr' = EmptyMap
      /\ cursor' = 1 /\ adopted' = FALSE /\ drop' = 0 /\ writes' = <<>>
      /\ UNCHANGED <<reals, neigh, learned, handed>>
  BY DEF Restart, pinned
<1>2. \A id \in AllIds : slots'[id].addr = 0 /\ slots'[id].mac = 0
  BY <1>1 DEF FreeSlot
<1>3. RTTypeOK'
  <2>1. slots' \in [AllIds -> [addr : Addrs \cup {0}, refs : Nat, mac : Macs \cup {0}]]
    BY <1>1 DEF FreeSlot
  <2>2. slots'[0] = FreeSlot /\ cursor' \in Ids /\ drop' \in AllIds
    BY <1>1, MaxRealsAssumption DEF Ids, AllIds
  <2>3. DOMAIN by_addr' \subseteq Addrs /\ by_addr' \in [DOMAIN by_addr' -> Ids]
    BY <1>1 DEF EmptyMap
  <2>4. writes' \in Seq({"neigh", "reals"} \X Ids)
    BY <1>1, WritesTyped
  <2> QED BY Zenon, <1>1, <2>1, <2>2, <2>3, <2>4 DEF RTTypeOK
<1>4. WritesShape' /\ NotAdopted' /\ MapsMirrorTable'
  BY <1>1 DEF WritesShape, NotAdopted, MapsMirrorTable
<1>5. TablesAgree'
  BY <1>1, <1>2 DEF TablesAgree, EmptyMap, Ids
<1>6. OneIdPerAddress' /\ MacOfItsReal' /\ FillInProgress' /\ KnownMacsLearned'
  BY <1>1, <1>2 DEF OneIdPerAddress, MacOfItsReal, FillInProgress, KnownMacsLearned, Ids
<1> QED BY <1>3, <1>4, <1>5, <1>6

\* The invariant is inductive: one case per operation of RealTable.
LEMMA RTStepInv == RTInv /\ [RTNext]_rtvars => RTInv'
<1> SUFFICES ASSUME RTInv, [RTNext]_rtvars PROVE RTInv'
  OBVIOUS
<1>1. CASE MapUpdate
  BY <1>1, MapUpdateInv
<1>2. CASE Adopt
  BY <1>2, AdoptInv
<1>3. CASE DropStart \/ DropStep
  BY <1>3, DropInv
<1>4. CASE Restart
  BY <1>4, RestartInv
<1>5. CASE \E a \in Addrs : Acquire(a) \/ Release(a) \/ \E m \in Macs : SetMac(a, m)
  BY <1>5, AcquireInv, ReleaseInv, SetMacInv
<1>6. CASE UNCHANGED rtvars
  BY Zenon, <1>6 DEF rtvars, memory, pinned, RTInv, RTTypeOK, WritesShape, TablesAgree, MapsMirrorTable,
       OneIdPerAddress, FillInProgress, KnownMacsLearned, MacOfItsReal, NotAdopted, Pending
<1> QED BY <1>1, <1>2, <1>3, <1>4, <1>5, <1>6 DEF RTNext

\* RealTable satisfies its inductive invariant for any number of ids,
\* addresses and MACs, across crashes at any point (real_table.cpp).
THEOREM RTInvariant == RTSpec => []RTInv
BY RTInitInv, RTStepInv, PTL DEF RTSpec

\* The variables of the table keep their types and id 0 is never used.
THEOREM RTTypes == RTSpec => []RTTypeOK
<1>1. RTInv => RTTypeOK
  BY DEF RTInv
<1> QED BY <1>1, RTInvariant, PTL

\* The pinned maps are what the daemon believes, but for the call in progress.
THEOREM MapsMirror == RTSpec => []MapsMirrorTable
<1>1. RTInv => MapsMirrorTable
  BY DEF RTInv
<1> QED BY <1>1, RTInvariant, PTL

\* No packet is ever sent to a MAC that was learned for another real.
THEOREM MacsBelong == RTSpec => []MacOfItsReal
<1>1. RTInv => MacOfItsReal
  BY DEF RTInv
<1> QED BY <1>1, RTInvariant, PTL

\* How a step of the table shows in the pinned maps: only the updates of
\* write_slot change them, one id at a time, and never from one address to
\* another (real_table.cpp:143-163).
LEMMA VisibleSteps ==
    ASSUME RTInv, [RTNext]_rtvars
    PROVE  \/ UNCHANGED <<reals, neigh>>
           \/ \E id \in Ids :
                \/ /\ slots[id].addr # 0
                   /\ slots[id].mac = 0 => reals[id] = 0
                   /\ neigh' = [neigh EXCEPT ![id] = slots[id].mac]
                   /\ reals' = reals
                \/ /\ slots[id].addr \in Addrs
                   /\ reals[id] \in {0, slots[id].addr}
                   /\ \A j \in Ids \ {id} : reals[j] # slots[id].addr
                   /\ reals' = [reals EXCEPT ![id] = slots[id].addr]
                   /\ neigh' = neigh
                \/ /\ reals' = [reals EXCEPT ![id] = 0]
                   /\ neigh' = neigh
                \/ /\ reals[id] = 0
                   /\ neigh' = [neigh EXCEPT ![id] = slots[id].mac]
                   /\ reals' = reals
<1> USE DEF RTInv
<1>1. CASE MapUpdate
  <2>1. writes # <<>>
    BY Zenon, <1>1 DEF MapUpdate
  <2>2. adopted
    BY <2>1, WritesCases
  <2>3. PICK id \in Ids :
          \/ slots[id].addr # 0 /\ writes = <<<<"neigh", id>>, <<"reals", id>>>>
          \/ slots[id].addr # 0 /\ writes = <<<<"reals", id>>>>
          \/ slots[id].addr = 0 /\ writes = <<<<"reals", id>>, <<"neigh", id>>>>
          \/ slots[id].addr = 0 /\ writes = <<<<"neigh", id>>>>
    BY <2>1, WritesCases
  <2>4. CASE slots[id].addr # 0 /\ writes = <<<<"neigh", id>>, <<"reals", id>>>>
    <3>1. neigh' = [neigh EXCEPT ![id] = slots[id].mac] /\ reals' = reals
      BY <1>1, <2>4 DEF MapUpdate
    <3>2. Pending("neigh", id)
      BY <2>4, PendingFacts DEF Pending
    <3> QED BY Zenon, <2>2, <2>4, <3>1, <3>2 DEF FillInProgress
  <2>5. CASE slots[id].addr # 0 /\ writes = <<<<"reals", id>>>>
    <3>1. reals' = [reals EXCEPT ![id] = slots[id].addr] /\ neigh' = neigh
      BY <1>1, <2>5 DEF MapUpdate
    <3>2. \A j \in Ids \ {id} : ~Pending("reals", j)
      BY <2>5, PendingFacts DEF Pending
    <3>3. \A j \in Ids \ {id} : reals[j] # slots[id].addr
      BY <2>2, <2>5, <3>2 DEF MapsMirrorTable, TablesAgree
    <3>4. slots[id].addr \in Addrs
      BY <2>5 DEF RTTypeOK, Ids
    <3> QED BY Zenon, <2>2, <2>5, <3>1, <3>3, <3>4 DEF FillInProgress
  <2>6. CASE slots[id].addr = 0 /\ writes = <<<<"reals", id>>, <<"neigh", id>>>>
    BY <1>1, <2>6 DEF MapUpdate
  <2>7. CASE slots[id].addr = 0 /\ writes = <<<<"neigh", id>>>>
    <3>1. neigh' = [neigh EXCEPT ![id] = slots[id].mac] /\ reals' = reals
      BY <1>1, <2>7 DEF MapUpdate
    <3>2. ~Pending("reals", id)
      BY <2>7, PendingFacts DEF Pending
    <3> QED BY Zenon, <2>2, <2>7, <3>1, <3>2 DEF MapsMirrorTable
  <2> QED BY Zenon, <2>3, <2>4, <2>5, <2>6, <2>7
<1>2. CASE ~MapUpdate
  BY Zenon, <1>2 DEF RTNext, Adopt, DropStart, DropStep, Restart, Acquire, AcquireKnown, AcquireNew,
       Release, ReleaseShared, ReleaseLast, SetMac, pinned, rtvars
<1> QED BY <1>1, <1>2

\* An id never loses its MAC while its address is visible.
THEOREM MacsOutlive == RTSpec => MacOutlivesAddress
<1>1. RTInv /\ [RTNext]_rtvars =>
        [\A id \in Ids : neigh[id] # 0 /\ neigh'[id] = 0 => reals[id] = 0]_rtvars
  BY VisibleSteps DEF RTInv, RTTypeOK, Ids
<1> QED BY <1>1, RTInvariant, PTL DEF RTSpec, MacOutlivesAddress

\* The pinned reals array implements RealIds: the meaning of an id is withdrawn
\* before it is given again, and no two ids mean one address.
THEOREM RealTableKeepsIds == RTSpec => IdsKeepTheirMeaning
<1> DEFINE owner == [id \in Ids |-> reals[id]]
<1>1. RTInit => Promise!RIInit
  BY DEF RTInit, Promise!RIInit, Ids
<1>2. RTInv /\ [RTNext]_rtvars => [Promise!RINext]_owner
  <2> SUFFICES ASSUME RTInv, [RTNext]_rtvars PROVE Promise!RINext \/ UNCHANGED owner
    OBVIOUS
  <2>1. CASE reals' = reals
    BY <2>1
  <2>2. ASSUME NEW id \in Ids,
               slots[id].addr \in Addrs,
               reals[id] \in {0, slots[id].addr},
               \A j \in Ids \ {id} : reals[j] # slots[id].addr,
               reals' = [reals EXCEPT ![id] = slots[id].addr]
        PROVE  Promise!RINext \/ UNCHANGED owner
    <3>1. owner' = [owner EXCEPT ![id] = slots[id].addr]
      BY Zenon, <2>2 DEF RTInv, RTTypeOK, Ids
    <3>2. CASE reals[id] = 0
      <4>1. PICK a \in Addrs : a = slots[id].addr
        BY <2>2
      <4>2. Promise!Give(id, a)
        BY <2>2, <3>1, <3>2, <4>1, AddrsAssumption DEF Promise!Give
      <4> QED BY <2>2, <4>2 DEF Promise!RINext
    <3>3. CASE reals[id] = slots[id].addr
      BY Zenon, <3>1, <3>3
    <3> QED BY <2>2, <3>2, <3>3
  <2>3. ASSUME NEW id \in Ids, reals' = [reals EXCEPT ![id] = 0]
        PROVE  Promise!RINext \/ UNCHANGED owner
    <3>1. owner' = [owner EXCEPT ![id] = 0]
      BY Zenon, <2>3 DEF RTInv, RTTypeOK, Ids
    <3>2. CASE reals[id] = 0
      BY Zenon, <3>1, <3>2
    <3>3. CASE reals[id] # 0
      BY Zenon, <2>3, <3>1, <3>3 DEF Promise!RINext, Promise!Withdraw
    <3> QED BY <3>2, <3>3
  <2> HIDE DEF owner
  <2> QED BY <2>1, <2>2, <2>3, VisibleSteps
<1> QED BY <1>1, <1>2, RTInvariant, PTL DEF RTSpec, IdsKeepTheirMeaning, Promise!RISpec
==============================================================================
