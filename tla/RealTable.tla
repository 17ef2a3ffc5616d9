------------------------------ MODULE RealTable ------------------------------
(***************************************************************************)
(* RealTable: which real_id means which address, and which MAC a packet    *)
(* for that real is sent to.  The table lives in the daemon (slots,        *)
(* by_addr, cursor) and is mirrored in two pinned BPF arrays (reals,       *)
(* neigh) that the data plane reads without a lock and that outlive the    *)
(* daemon.  A write of a slot is two separate map updates, so the data     *)
(* plane, or a restarted daemon, can see the maps between them.            *)
(*                                                                         *)
(* The caller (LbState) holds its mutex over every call: a call starts     *)
(* only when the writes of the previous one are done (Quiet).              *)
(***************************************************************************)
EXTENDS Integers, Sequences

CONSTANTS Addrs,     \* addresses of reals, as numbers; 0 marks a free slot
          Macs,      \* MAC addresses, as numbers; 0 is the all-zero MAC
          MaxReals,  \* PB_MAX_REALS: ids are 0 .. MaxReals-1, 0 is not used
          MaxRefs    \* bound on the reference count of a slot

ASSUME AddrsAssumption == Addrs \subseteq Nat \ {0}
ASSUME MacsAssumption == Macs \subseteq Nat \ {0}
ASSUME MaxRealsAssumption == MaxReals \in Nat /\ MaxReals >= 2
ASSUME MaxRefsAssumption == MaxRefs \in Nat \ {0}

VARIABLES
    slots,    \* slots_[id]: address, reference count, MAC (0: unknown)
    by_addr,  \* by_addr_: address -> id
    cursor,   \* cursor_: next id to try
    adopted,  \* adopt() has run in this process
    drop,     \* id drop_unreferenced() looks at next; 0: not running
    writes,   \* map updates the current write_slot() has still to make
    reals,    \* pinned map: id -> address
    neigh,    \* pinned map: id -> MAC
    learned,  \* history: the <<address, MAC>> pairs the table was ever given
    handed    \* history: the ids that ever had an address in the reals map

memory == <<slots, by_addr, cursor, adopted, drop, writes>>
pinned == <<reals, neigh>>
rtvars == <<memory, pinned, learned, handed>>

AllIds == 0 .. MaxReals - 1
Ids == AllIds \ {0}
FreeSlot == [addr |-> 0, refs |-> 0, mac |-> 0]

\* Functions with no, one more, or one fewer argument (std::map construction,
\* insert, erase).
EmptyMap == [x \in {} |-> 0]
With(f, x, e) == [y \in DOMAIN f \cup {x} |-> IF y = x THEN e ELSE f[y]]
Without(f, x) == [y \in DOMAIN f \ {x} |-> f[y]]

------------------------------------------------------------------------------
\* Mistakes that write_slot could have: one order for filling and for freeing;
\* no update of neigh for a slot whose MAC is not known.
write_slot_NeighFirst(id, slot) == <<<<"neigh", id>>, <<"reals", id>>>>
write_slot_KnownMacOnly(id, slot) ==
    IF slot.addr # 0 /\ slot.mac = 0 THEN <<<<"reals", id>>>>
    ELSE IF slot.addr # 0 THEN <<<<"neigh", id>>, <<"reals", id>>>>
    ELSE <<<<"reals", id>>, <<"neigh", id>>>>

\* The remaining updates of write_slot(id).  A slot that is being filled gets
\* its MAC before its address, one that is being freed loses its address first.
write_slot(id, slot) ==
    IF slot.addr # 0 THEN <<<<"neigh", id>>, <<"reals", id>>>>
                     ELSE <<<<"reals", id>>, <<"neigh", id>>>>

\* The process is at work and no call is half done.
Quiet == adopted /\ drop = 0 /\ writes = <<>>

StoreSlot(id, slot) ==
    /\ slots' = [slots EXCEPT ![id] = slot]
    /\ writes' = write_slot(id, slot)

\* One of the two map updates of write_slot.
MapUpdate ==
    /\ writes # <<>>
    /\ LET id == Head(writes)[2] IN
       \/ /\ Head(writes)[1] = "neigh"
          /\ neigh' = [neigh EXCEPT ![id] = slots[id].mac]
          /\ UNCHANGED <<reals, handed>>
       \/ /\ Head(writes)[1] = "reals"
          /\ reals' = [reals EXCEPT ![id] = slots[id].addr]
          /\ handed' = IF slots[id].addr # 0 THEN handed \cup {id} ELSE handed
          /\ UNCHANGED neigh
    /\ writes' = Tail(writes)
    /\ UNCHANGED <<slots, by_addr, cursor, adopted, drop, learned>>

\* The id the cursor is at after n more tries.
CursorAfter(n) == IF cursor + n < MaxReals THEN cursor + n
                                           ELSE cursor + n - (MaxReals - 1)

\* Mistake: only the first acquire() of an address is counted.
AcquireKnown_NoCount(a) ==
    /\ Quiet
    /\ a \in DOMAIN by_addr
    /\ UNCHANGED rtvars

\* acquire() of an address that has an id.
AcquireKnown(a) ==
    /\ Quiet
    /\ a \in DOMAIN by_addr
    /\ slots[by_addr[a]].refs < MaxRefs
    /\ slots' = [slots EXCEPT ![by_addr[a]].refs = @ + 1]
    /\ UNCHANGED <<by_addr, cursor, adopted, drop, writes, pinned, learned, handed>>

\* Mistake: the lowest free id, from 1 on.
AcquireNew_Lowest(a) ==
    /\ Quiet
    /\ a \notin DOMAIN by_addr
    /\ \E id \in Ids :
        /\ slots[id].addr = 0
        /\ \A k \in 1 .. id - 1 : slots[k].addr # 0
        /\ cursor' = id
        /\ StoreSlot(id, [addr |-> a, refs |-> 1, mac |-> 0])
        /\ by_addr' = With(by_addr, a, id)
    /\ UNCHANGED <<adopted, drop, pinned, learned, handed>>

\* acquire() of a new address: the first free id from the cursor on.
AcquireNew(a) ==
    /\ Quiet
    /\ a \notin DOMAIN by_addr
    /\ \E n \in 0 .. MaxReals - 2 :
        LET id == CursorAfter(n) IN
        /\ slots[id].addr = 0
        /\ \A k \in 0 .. n - 1 : slots[CursorAfter(k)].addr # 0
        /\ cursor' = CursorAfter(n + 1)
        /\ StoreSlot(id, [addr |-> a, refs |-> 1, mac |-> 0])
        /\ by_addr' = With(by_addr, a, id)
    /\ UNCHANGED <<adopted, drop, pinned, learned, handed>>

Acquire(a) == AcquireKnown(a) \/ AcquireNew(a)

\* acquire() throws "too many reals": the cursor has gone round once.
TooManyReals(a) == a \notin DOMAIN by_addr /\ \A id \in Ids : slots[id].addr # 0

\* Clears a slot and forgets the address (shared by release and
\* drop_unreferenced).
FreeSlotOf(id) ==
    /\ by_addr' = Without(by_addr, slots[id].addr)
    /\ StoreSlot(id, FreeSlot)

\* release(): not the last reference.
ReleaseShared(a) ==
    /\ Quiet
    /\ a \in DOMAIN by_addr
    /\ slots[by_addr[a]].refs > 1
    /\ slots' = [slots EXCEPT ![by_addr[a]].refs = @ - 1]
    /\ UNCHANGED <<by_addr, cursor, adopted, drop, writes, pinned, learned, handed>>

\* release(): the last reference frees the id.
ReleaseLast(a) ==
    /\ Quiet
    /\ a \in DOMAIN by_addr
    /\ slots[by_addr[a]].refs <= 1
    /\ FreeSlotOf(by_addr[a])
    /\ UNCHANGED <<cursor, adopted, drop, pinned, learned, handed>>

Release(a) == ReleaseShared(a) \/ ReleaseLast(a)

\* Mistake: the new MAC is kept in memory only.
SetMac_NoWrite(a, m) ==
    /\ Quiet
    /\ a \in DOMAIN by_addr
    /\ slots[by_addr[a]].mac # m
    /\ slots' = [slots EXCEPT ![by_addr[a]].mac = m]
    /\ learned' = learned \cup {<<a, m>>}
    /\ UNCHANGED <<by_addr, cursor, adopted, drop, writes, pinned, handed>>

\* set_mac(): nothing happens unless the MAC differs.
SetMac(a, m) ==
    /\ Quiet
    /\ a \in DOMAIN by_addr
    /\ slots[by_addr[a]].mac # m
    /\ StoreSlot(by_addr[a], [slots[by_addr[a]] EXCEPT !.mac = m])
    /\ learned' = learned \cup {<<a, m>>}
    /\ UNCHANGED <<by_addr, cursor, adopted, drop, pinned, handed>>

\* Mistake: a new process numbers its reals from scratch.
Adopt_Renumber ==
    /\ ~adopted
    /\ adopted' = TRUE
    /\ UNCHANGED <<slots, by_addr, cursor, drop, writes, pinned, learned, handed>>

\* adopt(): the first call of a new process reads what the last one left.
Adopt ==
    /\ ~adopted
    /\ adopted' = TRUE
    /\ slots' = [id \in AllIds |->
                   IF id # 0 /\ reals[id] # 0
                     THEN [addr |-> reals[id], refs |-> 0, mac |-> neigh[id]]
                     ELSE FreeSlot]
    /\ by_addr' = [a \in {reals[id] : id \in Ids} \ {0} |->
                     CHOOSE id \in Ids : /\ reals[id] = a
                                         /\ \A j \in Ids : reals[j] = a => j <= id]
    /\ \E highest \in AllIds :
        /\ highest # 0 => reals[highest] # 0
        /\ \A id \in Ids : reals[id] # 0 => id <= highest
        /\ cursor' = IF highest + 1 < MaxReals THEN highest + 1 ELSE 1
    /\ UNCHANGED <<drop, writes, pinned, learned, handed>>

\* drop_unreferenced(): a loop over the ids, each freed with two map updates.
DropStart ==
    /\ Quiet
    /\ drop' = 1
    /\ UNCHANGED <<slots, by_addr, cursor, adopted, writes, pinned, learned, handed>>

DropStep ==
    /\ drop # 0
    /\ writes = <<>>
    /\ drop' = IF drop + 1 < MaxReals THEN drop + 1 ELSE 0
    /\ IF slots[drop].addr # 0 /\ slots[drop].refs = 0
         THEN FreeSlotOf(drop)
         ELSE UNCHANGED <<slots, by_addr, writes>>
    /\ UNCHANGED <<cursor, adopted, pinned, learned, handed>>

\* The process ends at any moment and a new one is constructed: the memory is
\* that of the constructor, the pinned maps are as they were.
Restart ==
    /\ slots' = [id \in AllIds |-> FreeSlot]
    /\ by_addr' = EmptyMap
    /\ cursor' = 1
    /\ adopted' = FALSE
    /\ drop' = 0
    /\ writes' = <<>>
    /\ UNCHANGED <<pinned, learned, handed>>

RTInit ==
    /\ slots = [id \in AllIds |-> FreeSlot]
    /\ by_addr = EmptyMap
    /\ cursor = 1
    /\ adopted = FALSE
    /\ drop = 0
    /\ writes = <<>>
    /\ reals = [id \in AllIds |-> 0]
    /\ neigh = [id \in AllIds |-> 0]
    /\ learned = {}
    /\ handed = {}

RTNext ==
    \/ MapUpdate
    \/ Adopt
    \/ DropStart
    \/ DropStep
    \/ Restart
    \/ \E a \in Addrs : Acquire(a) \/ Release(a) \/ \E m \in Macs : SetMac(a, m)

RTSpec == RTInit /\ [][RTNext]_rtvars

------------------------------------------------------------------------------
\* Every variable has its type, and the table never uses id 0.
RTTypeOK ==
    /\ slots \in [AllIds -> [addr : Addrs \cup {0}, refs : Nat, mac : Macs \cup {0}]]
    /\ slots[0] = FreeSlot
    /\ DOMAIN by_addr \subseteq Addrs
    /\ by_addr \in [DOMAIN by_addr -> Ids]
    /\ cursor \in Ids
    /\ adopted \in BOOLEAN
    /\ drop \in AllIds
    /\ writes \in Seq({"neigh", "reals"} \X Ids)
    /\ reals \in [AllIds -> Addrs \cup {0}]
    /\ reals[0] = 0
    /\ neigh \in [AllIds -> Macs \cup {0}]
    /\ learned \subseteq Addrs \X Macs
    /\ handed \subseteq Ids

\* The update of `map` for `id` is still to be made, w being the updates left.
PendingIn(w, map, id) == \E k \in DOMAIN w : w[k] = <<map, id>>
Pending(map, id) == PendingIn(writes, map, id)

\* by_addr_ and slots_ describe the same assignment of ids to addresses: every
\* call finds a slot through by_addr_ and frees one through slots_.
TablesAgree ==
    /\ \A a \in DOMAIN by_addr : slots[by_addr[a]].addr = a
    /\ \A id \in Ids : slots[id].addr # 0 =>
          /\ slots[id].addr \in DOMAIN by_addr
          /\ by_addr[slots[id].addr] = id

\* What the data plane reads is what the daemon believes, except for the map
\* updates of the call in progress; a MAC left behind in a free slot by a
\* process that died while freeing it is not believed (real_table.cpp:46-65).
MapsMirrorTable ==
    adopted => \A id \in Ids :
        /\ ~Pending("reals", id) => reals[id] = slots[id].addr
        /\ slots[id].addr # 0 /\ ~Pending("neigh", id) => neigh[id] = slots[id].mac

\* A packet is never sent to the MAC of another real: whenever the data plane
\* can see both an address and a MAC for an id, that MAC was learned for that
\* address, whatever process freed and reused the id (real_table.cpp:137-163).
MacOfItsReal ==
    \A id \in Ids : reals[id] # 0 /\ neigh[id] # 0 => <<reals[id], neigh[id]>> \in learned

\* "Freeing a slot clears reals first, so a conntrack entry naming the id
\* becomes a miss before its MAC disappears" (real_table.cpp:139-141).
MacOutlivesAddress ==
    [][\A id \in Ids : neigh[id] # 0 /\ neigh'[id] = 0 => reals[id] = 0]_rtvars

\* The pinned reals array keeps the promise of RealIds at every instant, a
\* crash between the two updates of a slot and a restart included
\* (real_table.h:6-16).
Promise == INSTANCE RealIds WITH owner <- [id \in Ids |-> reals[id]], Free <- 0
IdsKeepTheirMeaning == Promise!RISpec

\* "A freed id is not reused immediately. Allocation walks a cursor around the
\* array" (real_table.h:12-13): an id is not given an address a second time
\* before every id has had one.
ReuseAfterFullTurn ==
    [][\A id \in Ids : reals[id] = 0 /\ reals'[id] # 0 /\ id \in handed
                          => handed = Ids]_rtvars

------------------------------------------------------------------------------
\* The inductive invariant behind the properties above: what a half-done
\* write_slot leaves in the maps.
WritesShape ==
    \/ writes = <<>>
    \/ /\ adopted
       /\ \E id \in Ids : \/ writes = write_slot(id, slots[id])
                          \/ writes = Tail(write_slot(id, slots[id]))

OneIdPerAddress ==
    \A i, j \in Ids : reals[i] # 0 /\ reals[i] = reals[j] => i = j

FillInProgress ==
    \A id \in Ids : adopted /\ slots[id].addr # 0 =>
        /\ reals[id] \in {0, slots[id].addr}
        /\ Pending("neigh", id) /\ slots[id].mac = 0 => reals[id] = 0

KnownMacsLearned ==
    \A id \in Ids : slots[id].addr # 0 /\ slots[id].mac # 0
                        => <<slots[id].addr, slots[id].mac>> \in learned

NotAdopted ==
    ~adopted => /\ slots = [id \in AllIds |-> FreeSlot]
                /\ by_addr = EmptyMap
                /\ drop = 0

RTInv ==
    /\ RTTypeOK
    /\ WritesShape
    /\ TablesAgree
    /\ MapsMirrorTable
    /\ OneIdPerAddress
    /\ FillInProgress
    /\ KnownMacsLearned
    /\ MacOfItsReal
    /\ NotAdopted
==============================================================================
