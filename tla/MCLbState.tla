------------------------------ MODULE MCLbState ------------------------------
(***************************************************************************)
(* Small instances of LbState for TLC.                                     *)
(***************************************************************************)
EXTENDS LbState

\* A configured VIP, and configurations of two VIPs, 1 (TCP) and 2 (UDP).
VC(v, flags, reals_) == [spec |-> v, flags |-> flags, reals |-> reals_]
Cfg(vs, hash, hop) == [vips |-> vs, hash |-> hash, next_hop |-> hop, health |-> TRUE]

\* Two reals on one VIP; the same with a real moved to a second VIP, which comes first,
\* a new weight, new flags, the other hash mode, and a next hop.
CfgTwoReals == Cfg(<<VC(1, 0, 1 :> 1 @@ 2 :> 1)>>, 0, 0)
CfgMoved == Cfg(<<VC(2, 0, 2 :> 1), VC(1, 1, 1 :> 2)>>, 1, 9)

ReloadConfigs == {CfgTwoReals, CfgMoved}
ApiConfigs == {CfgTwoReals}

\* One real on two VIPs.
SharedConfigs == {Cfg(<<VC(1, 0, 1 :> 1), VC(2, 0, 1 :> 1)>>, 0, 0)}

\* Two valid configurations of one real each, for a table with room for one.
FullTableConfigs == {Cfg(<<VC(1, 0, a :> 1)>>, 0, 0) : a \in {1, 2}}
==============================================================================
