------------------------------- MODULE RealIds -------------------------------
(***************************************************************************)
(* What the rest of the system relies on when it stores a real_id: the     *)
(* meaning of an id is never replaced, only withdrawn and later given      *)
(* again, and no address has two ids.  The connection table of the data    *)
(* plane keeps ids for as long as a flow lives and across daemon restarts, *)
(* so this is a promise about the pinned `reals` array at every instant.   *)
(* RealTable implements it (real_table.h:6-16).                            *)
(***************************************************************************)
CONSTANTS Ids,    \* the ids that may be handed out
          Addrs,  \* addresses of reals
          Free    \* the mark of an id that means no real

VARIABLE owner    \* owner[id]: the address the id means, or Free

RIInit == owner = [id \in Ids |-> Free]

\* An unused id starts to mean an address that no other id means.
Give(id, a) ==
    /\ owner[id] = Free
    /\ \A other \in Ids : owner[other] # a
    /\ owner' = [owner EXCEPT ![id] = a]

\* An id stops meaning an address.
Withdraw(id) ==
    /\ owner[id] # Free
    /\ owner' = [owner EXCEPT ![id] = Free]

RINext == \E id \in Ids : Withdraw(id) \/ \E a \in Addrs : Give(id, a)

RISpec == RIInit /\ [][RINext]_owner
==============================================================================
