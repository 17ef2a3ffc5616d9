----------------------------- MODULE MCDataPlane -----------------------------
(***************************************************************************)
(* Instances of DataPlane: which packets arrive, and how flows hash.       *)
(***************************************************************************)
EXTENDS DataPlane, TLC

\* CPUs are interchangeable.
CpuSymmetry == Permutations(Cpus)

OneSlot == [f \in Flows |-> 0]

Packet(shape, long) == [shape |-> shape, flow |-> 1, long |-> long]

\* Every way through the program: "short", "version" and "fragment" end like "options",
\* with a counter of their own. A connection; ICMP about it.
AllWays == {Packet(s, FALSE) : s \in FlowShapes \cup {"options", "host", "quote_short"}}
             \cup {Packet("data", TRUE)}
TcpPackets == {Packet(s, FALSE) : s \in {"syn", "data"}}
DataPackets == {Packet("data", FALSE)}
ConnPackets == {Packet(s, FALSE) : s \in {"syn", "data", "pmtu"}}
IcmpPackets == {Packet(s, FALSE) : s \in {"data", "pmtu"}}
==============================================================================
