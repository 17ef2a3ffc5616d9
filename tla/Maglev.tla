------------------------------- MODULE Maglev --------------------------------
(***************************************************************************)
(* build_ring: which real_id every slot of a ring gets, from a list of     *)
(* backends.  The fill is a loop whose inner loop walks a backend's        *)
(* permutation of the slots until it finds an empty one; a step is one     *)
(* round of the inner loop.  The two hashes of an address are arbitrary.   *)
(***************************************************************************)
EXTENDS Integers, SequencesExt

CONSTANTS M,           \* ring_size, a prime
          Addrs,       \* addresses of backends, as numbers
          MaxWeight,   \* kMaxRealWeight
          MaxBackends  \* bound: backends in the list

ASSUME MaglevAssumption ==
    /\ M \in Nat /\ M > 2 /\ \A d \in 2 .. M - 1 : M % d # 0
    /\ Addrs \subseteq Nat \ {0} /\ MaxWeight \in Nat /\ MaxBackends \in Nat

VARIABLES
    backends,  \* the argument: a list of [addr, weight]; real_id is the position
    h1, h2,    \* pb_backend_hash_offset, pb_backend_hash_skip of every address
    mode,      \* "maglev" or "modulo"
    phase,     \* "start", "fill", "done", or "thrown"
    sorted,    \* the active backends in the order of their addresses
    entry,     \* the ring: slot -> real_id or NONE
    next,      \* position in sorted -> slot where its walk goes on
    filled,    \* slots claimed
    pass, i,   \* the loops' variables
    c          \* the slot the walk looks at

args == <<backends, h1, h2, mode>>
mgvars == <<args, phase, sorted, entry, next, filled, pass, i, c>>

RingSlots == 0 .. M - 1
NONE == 0
Empty == [s \in RingSlots |-> NONE]

\* Backends by address; equal addresses keep their order.
ByAddr(b, d) ==
    \/ b.addr < d.addr
    \/ b.addr = d.addr /\ b.real_id <= d.real_id

Active ==
    {[addr |-> backends[k].addr, weight |-> backends[k].weight, real_id |-> k] :
        k \in {k \in DOMAIN backends : backends[k].weight > 0}}

\* active_sorted, and the mistake of trusting the caller's order.
active_sorted_AsListed == SetToSortSeq(Active, LAMBDA b, d : b.real_id <= d.real_id)
active_sorted == SetToSortSeq(Active, ByAddr)

Duplicate(bs) == \E k \in 1 .. Len(bs) - 1 : bs[k].addr = bs[k + 1].addr

\* 1 <= skip < M; the mistake is to let it be 0.
offset(a) == h1[a] % M
skip_FromZero(a) == h2[a] % (M - 1)
skip(a) == (h2[a] % (M - 1)) + 1

\* The next slot of a backend's permutation.
Advance(s, b) == (s + skip(b.addr)) % M

w_max == Max({sorted[k].weight : k \in DOMAIN sorted})

\* The backends after position k that have a turn in pass p.
WithTurn(p, k) == {j \in k + 1 .. Len(sorted) : p < sorted[j].weight}

\* Mistake: a pass gives every backend a turn, whatever its weight.
NextTurn_NoWeights ==
    IF i < Len(sorted) THEN <<pass, i + 1>> ELSE <<(pass + 1) % w_max, 1>>

\* The two for loops: the pass and the backend of the next turn.
NextTurn ==
    LET p == IF pass + 1 < w_max THEN pass + 1 ELSE 0 IN
    IF WithTurn(pass, i) # {} THEN <<pass, Min(WithTurn(pass, i))>>
                              ELSE <<p, Min(WithTurn(p, 0))>>

\* build_modulo: the list of real_ids, each as often as its weight, repeated.
ModuloList == FlattenSeq([k \in DOMAIN sorted' |->
                            [n \in 1 .. sorted'[k].weight |-> sorted'[k].real_id]])
build_modulo ==
    entry' = IF ModuloList = <<>> THEN Empty
             ELSE [s \in RingSlots |-> ModuloList[(s % Len(ModuloList)) + 1]]

\* build_ring up to the fill.
Start ==
    /\ phase = "start"
    /\ sorted' = active_sorted
    /\ \/ /\ Duplicate(sorted') /\ phase' = "thrown"
          /\ UNCHANGED <<entry, next, filled, pass, i, c>>
       \/ /\ ~Duplicate(sorted') /\ mode = "modulo" /\ phase' = "done"
          /\ build_modulo
          /\ UNCHANGED <<next, filled, pass, i, c>>
       \/ /\ ~Duplicate(sorted') /\ mode = "maglev" /\ sorted' = <<>> /\ phase' = "done"
          /\ UNCHANGED <<entry, next, filled, pass, i, c>>
       \/ /\ ~Duplicate(sorted') /\ mode = "maglev" /\ sorted' # <<>> /\ phase' = "fill"
          /\ next' = [k \in DOMAIN sorted' |-> offset(sorted'[k].addr)]
          /\ i' = 1 /\ c' = next'[1]
          /\ UNCHANGED <<entry, filled, pass>>
    /\ UNCHANGED args

\* The walk passes a slot that is taken.
Probe ==
    /\ phase = "fill" /\ entry[c] # NONE
    /\ c' = Advance(c, sorted[i])
    /\ UNCHANGED <<args, phase, sorted, entry, next, filled, pass, i>>

\* The backend claims an empty slot; the last slot ends the fill.
Claim ==
    /\ phase = "fill" /\ entry[c] = NONE
    /\ entry' = [entry EXCEPT ![c] = sorted[i].real_id]
    /\ next' = [next EXCEPT ![i] = Advance(c, sorted[i])]
    /\ filled' = filled + 1
    /\ IF filled' = M
         THEN phase' = "done" /\ UNCHANGED <<pass, i, c>>
         ELSE /\ pass' = NextTurn[1] /\ i' = NextTurn[2]
              /\ c' = next'[i']
              /\ UNCHANGED phase
    /\ UNCHANGED <<args, sorted>>

MgInit ==
    /\ backends \in UNION {[1 .. n -> [addr : Addrs, weight : 0 .. MaxWeight]] : n \in 0 .. MaxBackends}
    /\ h1 \in [Addrs -> RingSlots] /\ h2 \in [Addrs -> 0 .. M - 2]
    /\ mode \in {"maglev", "modulo"}
    /\ phase = "start" /\ sorted = <<>> /\ entry = Empty /\ next = <<>>
    /\ filled = 0 /\ pass = 0 /\ i = 0 /\ c = 0

MgNext == Start \/ Probe \/ Claim

MgSpec == MgInit /\ [][MgNext]_mgvars

\* The loop runs in one thread, which goes on.
MgFairSpec == MgSpec /\ WF_mgvars(MgNext)

------------------------------------------------------------------------------
\* Every variable has its type.
MgTypeOK ==
    /\ phase \in {"start", "fill", "done", "thrown"}
    /\ entry \in [RingSlots -> (1 .. Len(backends)) \cup {NONE}]
    /\ next \in [DOMAIN next -> RingSlots] /\ c \in RingSlots
    /\ filled \in 0 .. M
    /\ phase = "fill" => i \in DOMAIN sorted /\ pass \in 0 .. MaxWeight - 1

Share(b) == Cardinality({s \in RingSlots : entry[s] = b.real_id})
TotalWeight == FoldSeq(LAMBDA b, n : b.weight + n, 0, sorted)

\* "Over the whole fill backend i therefore claims w_i / sum(w) of the slots, up
\* to one partial round" (maglev.cpp:59-61), at every moment of the fill.
FairShares ==
    mode = "maglev" /\ phase \in {"fill", "done"} /\ sorted # <<>> =>
        LET rounds == filled \div TotalWeight IN
        \A k \in DOMAIN sorted :
            /\ rounds * sorted[k].weight <= Share(sorted[k])
            /\ Share(sorted[k]) <= (rounds + 1) * sorted[k].weight

\* The algorithm of the paper (section 3.4), with weights, as a function of the
\* set of <<address, weight>> pairs alone: the n-th turn goes to the first slot
\* of the backend's whole permutation that nobody has claimed.
Pairs == {<<b.addr, b.weight>> : b \in Active}
Turns == UNION {{<<p, x[1]>> : p \in 0 .. x[2] - 1} : x \in Pairs}
Before(t, u) ==
    \/ t[1] < u[1]
    \/ t[1] = u[1] /\ t[2] < u[2]
TurnOf(n) ==
    (CHOOSE t \in Turns :
        Cardinality({u \in Turns : Before(u, t)}) = n % Cardinality(Turns))[2]
Permutation(a) == [j \in RingSlots |-> (offset(a) + j * ((h2[a] % (M - 1)) + 1)) % M]
FirstFree(f, a) ==
    LET free == {j \in RingSlots : f[Permutation(a)[j]] = 0} IN Permutation(a)[Min(free)]

Paper[n \in 0 .. M] ==
    IF n = 0 THEN [s \in RingSlots |-> 0]
    ELSE [Paper[n - 1] EXCEPT ![FirstFree(Paper[n - 1], TurnOf(n - 1))] = TurnOf(n - 1)]

\* "Both are deterministic in the SET of backends: the ring depends only on
\* (addr, weight) pairs, never on real_id or insertion order" (maglev.h:15-17),
\* and the fill that keeps only a cursor per backend is the paper's algorithm.
RingIsPapers ==
    mode = "maglev" /\ phase = "done" =>
        [s \in RingSlots |-> IF entry[s] = NONE THEN 0 ELSE backends[entry[s]].addr]
            = IF Pairs = {} THEN [s \in RingSlots |-> 0] ELSE Paper[M]

\* The walk always finds an empty slot and the fill ends, because M is prime
\* and 1 <= skip < M (maglev.cpp:42-51).
RingIsBuilt == <>(phase \in {"done", "thrown"})

\* "Every backend with weight > 0 gets a share of slots [...] within one slot per
\* backend (Modulo)" (maglev.h:40-41).
ModuloShares ==
    mode = "modulo" /\ phase = "done" =>
        \A k \in DOMAIN sorted :
            LET excess == Share(sorted[k]) * TotalWeight - M * sorted[k].weight
            IN  excess <= TotalWeight /\ -excess <= TotalWeight
==============================================================================
