---------------------------- MODULE DaemonProofs -----------------------------
(***************************************************************************)
(* Proofs about Daemon, for any number of processes, any command lines and *)
(* any number of refused system calls: when one process is started after   *)
(* another, a running daemon drives what is in force and is the one the    *)
(* socket path leads to, a restart never interrupts forwarding and never   *)
(* changes the connection table silently. DInv is inductive: a step of the *)
(* only process that is up (OwnStep) has to re-establish what it holds and *)
(* where the names lead, nothing else.                                     *)
(***************************************************************************)
EXTENDS Daemon, FiniteSetTheorems, TLAPS

\* The part of DTypeOK that is about the kernel's objects.
KernelOK ==
    /\ pins \in [Maps -> Nat] /\ IsFiniteSet(DOMAIN shape)
    /\ xdp = NoProg \/ xdp \in [mode : Modes, maps : [Maps -> Nat \ {0}], by : Procs]
    /\ sock \in Procs \cup {0} /\ table \in Nat

\* The record of a process that does not run has its type.
LEMMA OffType == /\ Off \in Process /\ Off.pc = "off" /\ ~Off.listening
                 /\ Off.made = {} /\ Off.fds = NoFds
<1>1. (CHOOSE c \in Commands : TRUE) \in Commands
  BY DaemonAssumption
<1>. QED
  BY <1>1 DEF Off, Process, Labels, Maps, NoFds, Modes

LEMMA EndType ==
  ASSUME NEW label \in {"gone", "refused"}
  PROVE  LET r == [Off EXCEPT !.pc = label]
         IN  r \in Process /\ r.pc = label /\ ~r.listening
BY OffType DEF Process, Labels

\* Process numbers are natural numbers.
LEMMA ProcsNat == \A p \in Procs : p \in Nat /\ p # 0
BY DaemonAssumption

\* The initial state: nothing is pinned, attached or started.
LEMMA DInitInv == DInit => DInv
<1> SUFFICES ASSUME DInit PROVE DInv
  OBVIOUS
<1>1. \A p \in Procs : proc[p] = Off
  BY DEF DInit
<1>2. DTypeOK
  BY OffType, FS_EmptySet DEF DInit, DTypeOK, NoFds, Maps
<1>3. OneAtATime
  BY <1>1, OffType DEF OneAtATime, Up
<1>4. NamesLead
  BY DEF NamesLead, DInit
<1>5. \A p \in Procs : Serving(p) /\ ~Up(p)
  BY <1>1, OffType DEF Serving, Up
<1>. QED
  BY <1>2, <1>3, <1>4, <1>5 DEF DInv

------------------------------------------------------------------------------
\* A step of the process that is up: only what it holds itself, and where the names
\* lead, can go wrong.
LEMMA OwnStep ==
  ASSUME DInv, NEW p \in Procs, Up(p),
         NEW r \in Process, r.pc # "off", proc' = [proc EXCEPT ![p] = r],
         KernelOK', NamesLead', Serving(p)', Up(p)' => Holds(p)'
  PROVE  DInv'
<1>1. /\ proc \in [Procs -> Process] /\ proc' \in [Procs -> Process]
      /\ \A q \in Procs \ {p} : proc'[q] = proc[q]
      /\ proc'[p] = r
  BY DEF DInv, DTypeOK
<1>2. DTypeOK'
  BY <1>1 DEF KernelOK, DTypeOK
<1>3. \A q \in Procs : Up(q) => q = p
  BY DEF DInv, OneAtATime
<1>4. \A q \in Procs \ {p} : ~Up(q)'
  BY <1>1, <1>3 DEF Up
<1>5. \A a, b \in Procs : (Up(a) /\ Up(b) => a = b)'
  BY <1>4
<1>6. proc[p].pc # "off"
  BY DEF Up
<1>7. \A a, b \in Procs : b < a /\ proc[a].pc # "off" => proc[b].pc # "off"
  BY DEF DInv, OneAtATime
<1>8. \A a, b \in Procs : (b < a /\ proc[a].pc # "off" => proc[b].pc # "off")'
  BY <1>1, <1>6, <1>7
<1>9. OneAtATime'
  BY <1>5, <1>8 DEF OneAtATime
<1>10. \A q \in Procs \ {p} : Serving(q)'
  BY <1>1 DEF DInv, Serving
<1>. QED
  BY <1>2, <1>4, <1>9, <1>10 DEF DInv

\* The process ends: nothing is left to hold.
LEMMA EndStep ==
  ASSUME DInv, NEW p \in Procs, Up(p), End(p, "gone"), KernelOK', NamesLead'
  PROVE  DInv'
<1> DEFINE r == [Off EXCEPT !.pc = "gone"]
<1>1. r \in Process /\ r.pc = "gone" /\ ~r.listening
  BY EndType
<1>2. proc' = [proc EXCEPT ![p] = r]
  BY DEF End
<1> HIDE DEF r
<1>3. proc'[p] = r
  BY <1>2 DEF DInv, DTypeOK
<1>4. Serving(p)' /\ ~Up(p)'
  BY <1>1, <1>3 DEF Serving, Up
<1>. QED
  BY Zenon, <1>1, <1>2, <1>4, OwnStep

\* What the invariant says of the process that takes a step.
LEMMA Facts ==
  ASSUME DInv, NEW p \in Procs
  PROVE  /\ KernelOK /\ NamesLead /\ Serving(p) /\ proc \in [Procs -> Process]
         /\ proc[p] \in Process /\ (Up(p) => Holds(p))
BY DEF DInv, DTypeOK, KernelOK

------------------------------------------------------------------------------
\* Start: the service manager has seen the one before end, and those after are off.
LEMMA StartInv ==
  ASSUME Exclusive, DInv, NEW p \in Procs, Start(p)
  PROVE  DInv'
<1>1. PICK c \in Commands :
        /\ proc' = [proc EXCEPT ![p] = [Off EXCEPT !.pc = "check", !.todo = Maps, !.cmd = c]]
        /\ asked' = asked \cup {c.mode} \cup (IF c.recreate \/ c.detach THEN {"maps"} ELSE {})
  BY Zenon DEF Start
<1> DEFINE r == [Off EXCEPT !.pc = "check", !.todo = Maps, !.cmd = c]
<1>2. /\ r \in Process /\ r.pc = "check" /\ ~r.listening /\ r.cmd = c
      /\ r.fds = NoFds /\ r.made = {}
  BY Zenon, OffType DEF Process, Labels
<1> HIDE DEF r
<1>3. /\ proc \in [Procs -> Process] /\ proc' \in [Procs -> Process]
      /\ \A q \in Procs \ {p} : proc'[q] = proc[q]
      /\ proc'[p] = r
  BY <1>1, <1>2 DEF r, DInv, DTypeOK
<1>4. UNCHANGED <<pins, shape, xdp, sock, filled, table>>
  BY DEF Start
<1>5. DTypeOK'
  BY <1>3, <1>4 DEF DInv, DTypeOK
<1>6. \A q \in Procs : /\ q < p => proc[q].pc # "off" /\ ~Up(q)
                       /\ p < q => proc[q].pc = "off"
                       /\ q = p => proc[q].pc = "off"
  BY DEF Start, DInv, OneAtATime
<1>7. \A q \in Procs \ {p} : ~Up(q) /\ ~Up(q)'
  BY <1>3, <1>6, ProcsNat DEF Up
<1>8. \A a, b \in Procs : (Up(a) /\ Up(b) => a = b)'
  BY <1>7
<1>9. \A a, b \in Procs : (b < a /\ proc[a].pc # "off" => proc[b].pc # "off")'
  BY <1>2, <1>3, <1>6, ProcsNat DEF DInv, OneAtATime
<1>10. OneAtATime'
  BY <1>8, <1>9 DEF OneAtATime
<1>11. MapsGivenUp => MapsGivenUp'
  BY <1>1 DEF MapsGivenUp
<1>12. NamesLead'
  BY <1>4, <1>11 DEF DInv, NamesLead
<1>13. \A q \in Procs : Serving(q)'
  BY <1>2, <1>3 DEF DInv, Serving
<1>14. c.mode \in asked' /\ (c.recreate \/ c.detach => MapsGivenUp')
  BY <1>1 DEF MapsGivenUp
<1>15. Holds(p)'
  BY <1>2, <1>3, <1>14 DEF Holds, NoFds, Maps
<1>. QED
  BY <1>5, <1>7, <1>10, <1>12, <1>13, <1>15 DEF DInv

\* check_pinned_maps: a name is removed only by a process that was told to.
LEMMA CheckMapInv ==
  ASSUME DInv, NEW p \in Procs, NEW m \in Maps, CheckMap(p, m)
  PROVE  DInv'
<1> DEFINE fits == pins[m] # 0 /\ shape[pins[m]] = Wanted(p, m)
           differs == pins[m] # 0 /\ ~fits
<1>1. /\ KernelOK /\ NamesLead /\ Serving(p) /\ proc \in [Procs -> Process]
      /\ proc[p] \in Process /\ Holds(p) /\ Up(p) /\ proc[p].pc = "check"
  BY Facts DEF CheckMap, Up
<1>2. UNCHANGED <<shape, xdp, filled, asked, table>>
  BY DEF CheckMap
<1> HIDE DEF fits, differs
<1>3. CASE Fail(p, "gone") /\ UNCHANGED pins
  <2>1. KernelOK' /\ NamesLead' /\ End(p, "gone")
    BY <1>1, <1>2, <1>3 DEF KernelOK, NamesLead, MapsGivenUp, Fail
  <2>. QED
    BY <1>1, <2>1, EndStep
<1>4. CASE /\ differs => proc[p].cmd.recreate
           /\ pins' = IF differs THEN [pins EXCEPT ![m] = 0] ELSE pins
           /\ proc' = [proc EXCEPT ![p].todo = @ \ {m},
                                   ![p].reused = IF fits THEN @ \cup {m} ELSE @,
                                   ![p].pc = IF proc[p].todo = {m} THEN "load" ELSE "check"]
           /\ UNCHANGED sock
  <2> DEFINE r == [proc[p] EXCEPT !.todo = @ \ {m},
                                  !.reused = IF fits THEN @ \cup {m} ELSE @,
                                  !.pc = IF proc[p].todo = {m} THEN "load" ELSE "check"]
  <2>1. /\ r \in Process /\ r.pc \in {"load", "check"} /\ r.listening = proc[p].listening
        /\ r.cmd = proc[p].cmd /\ r.fds = NoFds /\ r.made = {}
    BY ZenonT(60), <1>1 DEF Process, Labels, Holds
  <2>2. proc' = [proc EXCEPT ![p] = r]
    BY Zenon, <1>1, <1>4
  <2> HIDE DEF r
  <2>3. proc'[p] = r
    BY <1>1, <2>2
  <2>4. KernelOK'
    BY <1>1, <1>2, <1>4 DEF KernelOK
  <2>5. proc[p].cmd.recreate => MapsGivenUp
    BY <1>1 DEF Holds
  <2>6. NamesLead'
    BY <1>1, <1>2, <1>4, <2>5 DEF NamesLead, MapsGivenUp
  <2>7. Serving(p)'
    BY <1>1, <2>1, <2>3 DEF Serving
  <2>8. r.cmd.mode \in asked' /\ (r.cmd.recreate \/ r.cmd.detach => MapsGivenUp')
    BY <1>1, <1>2, <2>1 DEF Holds, MapsGivenUp
  <2>9. Holds(p)'
    BY <2>1, <2>3, <2>8 DEF Holds, NoFds, Maps
  <2>. QED
    BY Zenon, <1>1, <2>1, <2>2, <2>4, <2>6, <2>7, <2>9, OwnStep
<1>. QED
  BY Zenon, <1>3, <1>4 DEF CheckMap, fits, differs

\* A step that leaves the kernel's maps and program alone.
LEMMA Frame ==
  ASSUME KernelOK, NamesLead, UNCHANGED <<pins, shape, xdp, asked, table>>,
         sock' \in Procs \cup {0}
  PROVE  KernelOK' /\ NamesLead'
BY DEF KernelOK, NamesLead, MapsGivenUp

\* A step that moves the process on and changes nothing else of it.
LEMMA Relabel ==
  ASSUME NEW p \in Procs, proc \in [Procs -> Process], NEW label \in Labels,
         proc' = [proc EXCEPT ![p].pc = label]
  PROVE  \E r \in Process :
            /\ proc' = [proc EXCEPT ![p] = r] /\ proc'[p] = r
            /\ r.pc = label /\ r.cmd = proc[p].cmd /\ r.fds = proc[p].fds
            /\ r.listening = proc[p].listening
<1> DEFINE r == [proc[p] EXCEPT !.pc = label]
<1>1. proc[p] \in Process
  OBVIOUS
<1>2. /\ r \in Process /\ r.pc = label /\ r.cmd = proc[p].cmd /\ r.fds = proc[p].fds
      /\ r.listening = proc[p].listening
  BY SMTT(60), <1>1 DEF Process
<1>3. proc' = [proc EXCEPT ![p] = r]
  OBVIOUS
<1> HIDE DEF r
<1>4. proc'[p] = r
  BY <1>3
<1>. QED
  BY Zenon, <1>2, <1>3, <1>4

\* packetbalance_bpf__load, one map: what was pinned is opened. A map that is missing
\* while a program is attached or a table was in force has been given up.
LEMMA LoadMapInv ==
  ASSUME DInv, NEW p \in Procs, NEW m \in Maps, LoadMap(p, m)
  PROVE  DInv'
<1> DEFINE o == IF pins[m] # 0 THEN pins[m] ELSE Cardinality(DOMAIN shape) + 1
           fds == [proc[p].fds EXCEPT ![m] = o]
           r == [proc[p] EXCEPT !.fds = fds,
                                !.made = IF pins[m] = 0 THEN @ \cup {m} ELSE @,
                                !.pc = IF \E n \in Maps : fds[n] = 0 THEN "load" ELSE "attach"]
<1>1. /\ KernelOK /\ NamesLead /\ Serving(p) /\ proc \in [Procs -> Process]
      /\ proc[p] \in Process /\ Holds(p) /\ Up(p) /\ proc[p].pc = "load" /\ proc[p].fds[m] = 0
  BY Facts DEF LoadMap, Up
<1>2. /\ UNCHANGED <<xdp, sock, filled, asked, table>>
      /\ pins' = [pins EXCEPT ![m] = o]
      /\ DOMAIN shape' = DOMAIN shape \cup {o}
      /\ proc' = [proc EXCEPT ![p].fds = fds,
                              ![p].made = IF pins[m] = 0 THEN @ \cup {m} ELSE @,
                              ![p].pc = IF \E n \in Maps : fds[n] = 0 THEN "load" ELSE "attach"]
  BY DEF LoadMap
<1>3. o \in Nat \ {0} /\ (pins[m] # 0 => o = pins[m])
  BY <1>1, FS_CardinalityType DEF KernelOK
<1> HIDE DEF o
<1>4. /\ fds \in [Maps -> Nat] /\ fds[m] = o
      /\ \A n \in Maps \ {m} : fds[n] = proc[p].fds[n]
  BY <1>1, <1>3 DEF Process
<1> HIDE DEF fds
<1>5. /\ r \in Process /\ r.fds = fds /\ r.cmd = proc[p].cmd /\ r.listening = proc[p].listening
      /\ r.made \subseteq (IF pins[m] = 0 THEN proc[p].made \cup {m} ELSE proc[p].made)
      /\ r.pc = IF \E n \in Maps : fds[n] = 0 THEN "load" ELSE "attach"
  BY ZenonT(60), <1>1, <1>4 DEF Process, Labels
<1>6. proc' = [proc EXCEPT ![p] = r]
  BY Zenon, <1>1, <1>2
<1> HIDE DEF r
<1>7. proc'[p] = r
  BY <1>1, <1>6
<1>8. KernelOK'
  <2>1. IsFiniteSet(DOMAIN shape')
    BY <1>1, <1>2, FS_AddElement DEF KernelOK
  <2>2. pins' \in [Maps -> Nat]
    BY <1>1, <1>2, <1>3 DEF KernelOK
  <2>. QED
    BY <1>1, <1>2, <2>1, <2>2 DEF KernelOK
\* A missing map was given up, or nothing is attached and no table was in force.
<1>9. pins[m] = 0 /\ ~MapsGivenUp => xdp = NoProg /\ (m = "conntrack" => table = 0)
  <2>1. xdp # NoProg => xdp.maps[m] # 0
    BY <1>1 DEF KernelOK
  <2>. QED
    BY <1>1, <2>1 DEF NamesLead
<1>10. pins[m] # 0 => pins' = pins
  BY <1>1, <1>2, <1>3 DEF KernelOK
<1>11. MapsGivenUp' = MapsGivenUp
  BY <1>2 DEF MapsGivenUp
<1>12. NamesLead'
  <2>1. m # "conntrack" => pins'["conntrack"] = pins["conntrack"]
    BY <1>1, <1>2 DEF KernelOK, Maps
  <2>2. CASE pins[m] # 0
    BY Zenon, <1>1, <1>2, <1>10, <1>11, <2>2 DEF NamesLead
  <2>3. CASE pins[m] = 0
    BY <1>1, <1>2, <1>9, <1>11, <2>1, <2>3 DEF NamesLead
  <2>. QED
    BY <2>2, <2>3
<1>13. Serving(p)'
  BY <1>1, <1>5, <1>7 DEF Serving
<1>14. Holds(p)'
  <2>1. r.cmd.mode \in asked' /\ (r.cmd.recreate \/ r.cmd.detach => MapsGivenUp')
    BY <1>1, <1>2, <1>5, <1>11 DEF Holds
  <2>2. \A n \in Maps : r.fds[n] \in {0, pins'[n]}
    BY <1>1, <1>2, <1>4, <1>5 DEF Holds, KernelOK
  <2>3. ~MapsGivenUp' => \A n \in r.made : xdp' = NoProg /\ (n = "conntrack" => table' = 0)
    BY <1>1, <1>2, <1>5, <1>9, <1>11 DEF Holds
  <2>. QED
    BY <1>5, <1>7, <2>1, <2>2, <2>3 DEF Holds
<1>. QED
  BY Zenon, <1>1, <1>5, <1>6, <1>8, <1>12, <1>13, <1>14, OwnStep

\* A load that fails unpins what it pinned; nothing that is in force used that.
LEMMA LoadFailsInv ==
  ASSUME DInv, NEW p \in Procs, LoadFails(p)
  PROVE  DInv'
<1>1. /\ KernelOK /\ NamesLead /\ proc[p] \in Process /\ Holds(p) /\ Up(p) /\ proc[p].pc = "load"
  BY Facts DEF LoadFails, Up
<1>2. /\ UNCHANGED <<shape, xdp, filled, asked, table>> /\ End(p, "gone")
      /\ pins' = [m \in Maps |-> IF m \in proc[p].made THEN 0 ELSE pins[m]]
      /\ sock' \in {0, sock}
  BY DEF LoadFails, Fail
<1>3. KernelOK'
  BY <1>1, <1>2 DEF KernelOK
<1>4. ~MapsGivenUp => \A m \in proc[p].made : xdp = NoProg /\ (m = "conntrack" => table = 0)
  BY <1>1 DEF Holds
<1>5. ~MapsGivenUp /\ xdp # NoProg => pins' = pins
  BY <1>1, <1>2, <1>4 DEF KernelOK
<1>6. ~MapsGivenUp /\ table # 0 => pins'["conntrack"] = pins["conntrack"]
  BY <1>1, <1>2, <1>4 DEF Maps
<1>7. NamesLead'
  BY <1>1, <1>2, <1>5, <1>6 DEF NamesLead, MapsGivenUp
<1>. QED
  BY <1>1, <1>2, <1>3, <1>7, EndStep

\* attach, the choice of the mode: a switch is what the command line asked for.
LEMMA ChooseInv ==
  ASSUME DInv, NEW p \in Procs, Choose(p)
  PROVE  DInv'
<1>1. /\ KernelOK /\ NamesLead /\ Serving(p) /\ proc \in [Procs -> Process]
      /\ proc[p] \in Process /\ Holds(p) /\ Up(p) /\ proc[p].pc = "attach"
  BY Facts DEF Choose, Up
<1>2. UNCHANGED <<pins, shape, xdp, sock, filled, asked, table>>
  BY DEF Choose
<1> DEFINE wish == IF proc[p].cmd.mode = "generic" THEN "generic" ELSE "native"
           first(seen) == IF proc[p].cmd.mode = "auto" /\ seen # "none" THEN seen ELSE wish
<1>3. PICK seen \in {xdp.mode, "none"} :
        Goto(p, IF seen \notin {"none", first(seen)} THEN "switch" ELSE "try", first(seen))
  BY DEF Choose
<1> DEFINE f == first(seen)
           label == IF seen \notin {"none", f} THEN "switch" ELSE "try"
<1>4. seen \in Modes \cup {"none"}
  BY <1>1 DEF KernelOK, NoProg
<1>5. proc[p].cmd.mode \in {"auto", "native", "generic"}
  BY <1>1, DaemonAssumption DEF Process
<1>6. f \in Modes /\ (label = "switch" => f = proc[p].cmd.mode /\ f # xdp.mode)
  BY <1>4, <1>5 DEF Modes
<1>7. label \in {"switch", "try"} /\ proc' = [proc EXCEPT ![p].pc = label, ![p].first = f]
  BY <1>3 DEF Goto
<1> HIDE DEF f, label
<1> DEFINE r == [proc[p] EXCEPT !.pc = label, !.first = f]
<1>8. /\ r \in Process /\ r.pc = label /\ r.first = f /\ r.cmd = proc[p].cmd
      /\ r.fds = proc[p].fds /\ r.listening = proc[p].listening
  BY Zenon, <1>1, <1>6, <1>7 DEF Process, Labels
<1>9. proc' = [proc EXCEPT ![p] = r]
  BY Zenon, <1>1, <1>7
<1> HIDE DEF r
<1>10. proc'[p] = r
  BY <1>1, <1>9
<1>11. KernelOK' /\ NamesLead'
  BY <1>1, <1>2, Frame DEF KernelOK
<1>12. Serving(p)'
  BY <1>1, <1>7, <1>8, <1>10 DEF Serving
<1>13. Holds(p)'
  BY <1>1, <1>2, <1>6, <1>7, <1>8, <1>10 DEF Holds, MapsGivenUp
<1>. QED
  BY Zenon, <1>1, <1>7, <1>8, <1>9, <1>11, <1>12, <1>13, OwnStep

LEMMA SwitchOffInv ==
  ASSUME DInv, NEW p \in Procs, SwitchOff(p)
  PROVE  DInv'
<1>1. /\ KernelOK /\ NamesLead /\ Serving(p) /\ proc \in [Procs -> Process]
      /\ proc[p] \in Process /\ Holds(p) /\ Up(p) /\ proc[p].pc = "switch"
  BY Facts DEF SwitchOff, Up
<1>2. /\ UNCHANGED <<pins, shape, sock, filled, asked, table>> /\ xdp' \in {xdp, NoProg}
      /\ proc' = [proc EXCEPT ![p].pc = "try", ![p].first = proc[p].first]
  BY DEF SwitchOff, Goto
<1> DEFINE r == [proc[p] EXCEPT !.pc = "try", !.first = proc[p].first]
<1>3. /\ r \in Process /\ r.pc = "try" /\ r.first = proc[p].first /\ r.cmd = proc[p].cmd
      /\ r.fds = proc[p].fds /\ r.listening = proc[p].listening
  BY Zenon, <1>1 DEF Process, Labels
<1>4. proc' = [proc EXCEPT ![p] = r]
  BY Zenon, <1>1, <1>2
<1> HIDE DEF r
<1>5. proc'[p] = r
  BY <1>1, <1>4
<1>6. KernelOK' /\ NamesLead'
  BY <1>1, <1>2 DEF KernelOK, NamesLead, MapsGivenUp
<1>7. Serving(p)'
  BY <1>1, <1>3, <1>5 DEF Serving
<1>8. Holds(p)'
  BY <1>1, <1>2, <1>3, <1>5 DEF Holds, MapsGivenUp
<1>. QED
  BY Zenon, <1>1, <1>3, <1>4, <1>6, <1>7, <1>8, OwnStep

\* try_attach: the process attaches a program on the maps it holds, and until someone
\* gives the maps up those are the ones the names lead to.
LEMMA TryAttachInv ==
  ASSUME DInv, NEW p \in Procs, TryAttach(p)
  PROVE  DInv'
<1> DEFINE mode == IF proc[p].pc = "try" THEN proc[p].first ELSE Other(proc[p].first)
           ok == xdp.mode \in {"none", mode}
<1>1. /\ KernelOK /\ NamesLead /\ Serving(p) /\ proc \in [Procs -> Process]
      /\ proc[p] \in Process /\ Holds(p) /\ Up(p) /\ proc[p].pc \in {"try", "retry"}
  BY Facts DEF TryAttach, Up
<1>2. UNCHANGED <<pins, shape, filled, asked>>
  BY DEF TryAttach
<1>3. mode \in Modes
  BY <1>1 DEF Holds, Other, Modes
<1> HIDE DEF mode, ok
<1>4. proc[p].fds \in [Maps -> Nat \ {0}] /\ proc[p].fds = pins
  <2>1. \A m \in Maps : proc[p].fds[m] = pins[m] /\ proc[p].fds[m] # 0
    BY <1>1 DEF Holds
  <2>. QED
    BY <1>1, <2>1 DEF Process, KernelOK
<1>5. CASE /\ xdp' = [mode |-> mode, maps |-> proc[p].fds, by |-> p]
           /\ table' = proc[p].fds["conntrack"]
           /\ proc' = [proc EXCEPT ![p].pc = "apply", ![p].mode = mode, ![p].was = table]
           /\ UNCHANGED sock
  <2> DEFINE r == [proc[p] EXCEPT !.pc = "apply", !.mode = mode, !.was = table]
  <2>1. /\ r \in Process /\ r.pc = "apply" /\ r.cmd = proc[p].cmd
        /\ r.fds = proc[p].fds /\ r.listening = proc[p].listening
    BY Zenon, <1>1, <1>3 DEF Process, Labels, KernelOK
  <2>2. proc' = [proc EXCEPT ![p] = r]
    BY Zenon, <1>1, <1>5
  <2> HIDE DEF r
  <2>3. proc'[p] = r
    BY <1>1, <2>2
  <2>4. /\ xdp' \in [mode : Modes, maps : [Maps -> Nat \ {0}], by : Procs]
        /\ xdp'.maps = proc[p].fds /\ xdp' # NoProg /\ table' \in Nat
    <3>1. xdp'.mode = mode /\ mode # "none"
      BY <1>3, <1>5 DEF Modes
    <3>. QED
      BY <1>3, <1>4, <1>5, <3>1 DEF NoProg, Maps
  <2>5. KernelOK'
    BY <1>1, <1>2, <1>5, <2>4 DEF KernelOK
  <2>6. NamesLead'
    BY <1>2, <1>4, <1>5, <2>4 DEF NamesLead
  <2>7. Serving(p)'
    BY <1>1, <2>1, <2>3 DEF Serving
  <2>8. Holds(p)'
    BY <1>1, <1>2, <2>1, <2>3, <2>4 DEF Holds, MapsGivenUp
  <2>. QED
    BY Zenon, <1>1, <2>1, <2>2, <2>5, <2>6, <2>7, <2>8, OwnStep
<1>6. CASE /\ Goto(p, "retry", proc[p].first) /\ UNCHANGED <<sock, xdp, table>>
  <2> DEFINE r == [proc[p] EXCEPT !.pc = "retry", !.first = proc[p].first]
  <2>1. /\ r \in Process /\ r.pc = "retry" /\ r.cmd = proc[p].cmd /\ r.first = proc[p].first
        /\ r.fds = proc[p].fds /\ r.listening = proc[p].listening
    BY Zenon, <1>1 DEF Process, Labels
  <2>2. proc' = [proc EXCEPT ![p] = r]
    BY Zenon, <1>1, <1>6 DEF Goto
  <2> HIDE DEF r
  <2>3. proc'[p] = r
    BY <1>1, <2>2
  <2>4. KernelOK' /\ NamesLead'
    BY <1>1, <1>2, <1>6, Frame DEF KernelOK
  <2>5. Serving(p)'
    BY <1>1, <2>1, <2>3 DEF Serving
  <2>6. Holds(p)'
    BY <1>1, <1>2, <1>6, <2>1, <2>3 DEF Holds, MapsGivenUp
  <2>. QED
    BY Zenon, <1>1, <2>1, <2>2, <2>4, <2>5, <2>6, OwnStep
<1>7. CASE Fail(p, "gone") /\ UNCHANGED <<xdp, table>>
  <2>1. KernelOK' /\ NamesLead' /\ End(p, "gone")
    BY <1>1, <1>2, <1>7, Frame DEF KernelOK, Fail
  <2>. QED
    BY <1>1, <2>1, EndStep
<1>. QED
  BY <1>5, <1>6, <1>7 DEF TryAttach, mode, ok

\* Apply: the maps the program uses are filled, or the process ends.
LEMMA ApplyInv ==
  ASSUME DInv, NEW p \in Procs, Apply(p)
  PROVE  DInv'
<1>1. /\ KernelOK /\ NamesLead /\ Serving(p) /\ proc \in [Procs -> Process]
      /\ proc[p] \in Process /\ Holds(p) /\ Up(p) /\ proc[p].pc = "apply"
  BY Facts DEF Apply, Up
<1>2. UNCHANGED <<pins, shape, xdp, asked, table>>
  BY DEF Apply
<1>3. CASE /\ filled' = filled \cup {proc[p].fds["state"]}
           /\ proc' = [proc EXCEPT ![p].pc = "live"] /\ UNCHANGED sock
  <2>1. PICK r \in Process :
          /\ proc' = [proc EXCEPT ![p] = r] /\ proc'[p] = r
          /\ r.pc = "live" /\ r.cmd = proc[p].cmd /\ r.fds = proc[p].fds
          /\ r.listening = proc[p].listening
    BY ZenonT(60), <1>1, <1>3, Relabel DEF Labels
  <2>2. KernelOK' /\ NamesLead'
    BY <1>1, <1>2, <1>3, Frame DEF KernelOK
  <2>3. Serving(p)'
    BY <1>1, <2>1 DEF Serving
  <2>4. Holds(p)'
    BY <1>1, <1>2, <1>3, <2>1 DEF Holds, MapsGivenUp
  <2>. QED
    BY Zenon, <1>1, <2>1, <2>2, <2>3, <2>4, OwnStep
<1>4. CASE Fail(p, "gone")
  <2>1. KernelOK' /\ NamesLead' /\ End(p, "gone")
    BY <1>1, <1>2, <1>4, Frame DEF KernelOK, Fail
  <2>. QED
    BY <1>1, <2>1, EndStep
<1>. QED
  BY <1>3, <1>4 DEF Apply

\* ApiServer::start: the file at the path is not a live daemon's, since the only process
\* that is up is this one and does not listen yet.
LEMMA CheckLiveInv ==
  ASSUME DInv, NEW p \in Procs, CheckLive(p)
  PROVE  DInv'
<1>1. /\ KernelOK /\ NamesLead /\ Serving(p) /\ proc \in [Procs -> Process]
      /\ proc[p] \in Process /\ Holds(p) /\ Up(p) /\ proc[p].pc = "live"
  BY Facts DEF CheckLive, Up
<1>2. UNCHANGED <<pins, shape, xdp, filled, asked, table>>
  BY DEF CheckLive
<1>3. ~(sock # 0 /\ proc[sock].listening)
  <2> SUFFICES ASSUME sock # 0, proc[sock].listening PROVE FALSE
    OBVIOUS
  <2>1. sock \in Procs
    BY <1>1 DEF KernelOK
  <2>2. proc[sock].pc \in {"metrics", "run"}
    BY <2>1 DEF DInv, Serving
  <2>3. Up(sock)
    BY <2>2 DEF Up
  <2>4. sock = p
    BY <1>1, <2>1, <2>3 DEF DInv, OneAtATime
  <2>. QED
    BY <1>1, <2>2, <2>4
<1>4. proc' = [proc EXCEPT ![p].pc = "unlink"] /\ UNCHANGED sock
  BY <1>3 DEF CheckLive
<1>5. PICK r \in Process :
        /\ proc' = [proc EXCEPT ![p] = r] /\ proc'[p] = r
        /\ r.pc = "unlink" /\ r.cmd = proc[p].cmd /\ r.fds = proc[p].fds
        /\ r.listening = proc[p].listening
  BY ZenonT(60), <1>1, <1>4, Relabel DEF Labels
<1>6. KernelOK' /\ NamesLead'
  BY <1>1, <1>2, <1>4, Frame DEF KernelOK
<1>7. Serving(p)'
  BY <1>1, <1>5 DEF Serving
<1>8. Holds(p)'
  BY <1>1, <1>2, <1>5 DEF Holds, MapsGivenUp
<1>. QED
  BY Zenon, <1>1, <1>5, <1>6, <1>7, <1>8, OwnStep

\* The unlink of the stale file.
LEMMA UnlinkStaleInv ==
  ASSUME DInv, NEW p \in Procs, UnlinkStale(p)
  PROVE  DInv'
<1>1. /\ KernelOK /\ NamesLead /\ Serving(p) /\ proc \in [Procs -> Process]
      /\ proc[p] \in Process /\ Holds(p) /\ Up(p) /\ proc[p].pc = "unlink"
  BY Facts DEF UnlinkStale, Up
<1>2. UNCHANGED <<pins, shape, xdp, filled, asked, table>>
  BY DEF UnlinkStale
<1>3. CASE sock' = 0 /\ proc' = [proc EXCEPT ![p].pc = "bind"]
  <2>1. PICK r \in Process :
          /\ proc' = [proc EXCEPT ![p] = r] /\ proc'[p] = r
          /\ r.pc = "bind" /\ r.cmd = proc[p].cmd /\ r.fds = proc[p].fds
          /\ r.listening = proc[p].listening
    BY ZenonT(60), <1>1, <1>3, Relabel DEF Labels
  <2>2. KernelOK' /\ NamesLead'
    BY <1>1, <1>2, <1>3, Frame DEF KernelOK
  <2>3. Serving(p)'
    BY <1>1, <2>1 DEF Serving
  <2>4. Holds(p)'
    BY <1>1, <1>2, <1>3, <2>1 DEF Holds, MapsGivenUp
  <2>. QED
    BY Zenon, <1>1, <2>1, <2>2, <2>3, <2>4, OwnStep
<1>. QED
  BY <1>3 DEF UnlinkStale

\* bind: the path is the process's own.
LEMMA BindInv ==
  ASSUME DInv, NEW p \in Procs, Bind(p)
  PROVE  DInv'
<1>1. /\ KernelOK /\ NamesLead /\ Serving(p) /\ proc \in [Procs -> Process]
      /\ proc[p] \in Process /\ Holds(p) /\ Up(p) /\ proc[p].pc = "bind"
  BY Facts DEF Bind, Up
<1>2. UNCHANGED <<pins, shape, xdp, filled, asked, table>>
  BY DEF Bind
<1>3. CASE sock' = p /\ proc' = [proc EXCEPT ![p].pc = "listen"]
  <2>1. PICK r \in Process :
          /\ proc' = [proc EXCEPT ![p] = r] /\ proc'[p] = r
          /\ r.pc = "listen" /\ r.cmd = proc[p].cmd /\ r.fds = proc[p].fds
          /\ r.listening = proc[p].listening
    BY Zenon, <1>1, <1>3, Relabel DEF Labels
  <2>2. KernelOK' /\ NamesLead'
    BY <1>1, <1>2, <1>3, Frame DEF KernelOK
  <2>3. Serving(p)'
    BY <1>1, <2>1 DEF Serving
  <2>4. Holds(p)'
    BY <1>1, <1>2, <1>3, <2>1 DEF Holds, MapsGivenUp
  <2>. QED
    BY Zenon, <1>1, <2>1, <2>2, <2>3, <2>4, OwnStep
<1>4. CASE Fail(p, "gone")
  <2>1. KernelOK' /\ NamesLead' /\ End(p, "gone")
    BY <1>1, <1>2, <1>4, Frame DEF KernelOK, Fail
  <2>. QED
    BY <1>1, <2>1, EndStep
<1>. QED
  BY <1>3, <1>4 DEF Bind

\* The metrics server: run is reached with the API already listening.
LEMMA StartMetricsInv ==
  ASSUME DInv, NEW p \in Procs, StartMetrics(p)
  PROVE  DInv'
<1>1. /\ KernelOK /\ NamesLead /\ Serving(p) /\ proc \in [Procs -> Process]
      /\ proc[p] \in Process /\ Holds(p) /\ Up(p) /\ proc[p].pc = "metrics"
  BY Facts DEF StartMetrics, Up
<1>2. UNCHANGED <<pins, shape, xdp, filled, asked, table>>
  BY DEF StartMetrics
<1>3. CASE proc' = [proc EXCEPT ![p].pc = "run"] /\ UNCHANGED sock
  <2>1. PICK r \in Process :
          /\ proc' = [proc EXCEPT ![p] = r] /\ proc'[p] = r
          /\ r.pc = "run" /\ r.cmd = proc[p].cmd /\ r.fds = proc[p].fds
          /\ r.listening = proc[p].listening
    BY Zenon, <1>1, <1>3, Relabel DEF Labels
  <2>2. KernelOK' /\ NamesLead'
    BY <1>1, <1>2, <1>3, Frame DEF KernelOK
  <2>3. Serving(p)'
    BY <1>1, <2>1 DEF Serving
  <2>4. Holds(p)'
    BY <1>1, <1>2, <1>3, <2>1 DEF Holds, MapsGivenUp
  <2>. QED
    BY Zenon, <1>1, <2>1, <2>2, <2>3, <2>4, OwnStep
<1>4. CASE Fail(p, "gone")
  <2>1. KernelOK' /\ NamesLead' /\ End(p, "gone")
    BY <1>1, <1>2, <1>4, Frame DEF KernelOK, Fail
  <2>. QED
    BY <1>1, <2>1, EndStep
<1>. QED
  BY <1>3, <1>4 DEF StartMetrics

\* listen: from here on a connect to the path succeeds; a process it fails for is gone.
LEMMA ListenInv ==
  ASSUME DInv, NEW p \in Procs, Listen(p)
  PROVE  DInv'
<1>1. /\ KernelOK /\ NamesLead /\ Serving(p) /\ proc \in [Procs -> Process]
      /\ proc[p] \in Process /\ Holds(p) /\ Up(p) /\ proc[p].pc = "listen"
  BY Facts DEF Listen, Up
<1>2. UNCHANGED <<pins, shape, xdp, filled, asked, table>>
  BY DEF Listen
<1>3. CASE /\ proc' = [proc EXCEPT ![p].pc = "metrics", ![p].listening = TRUE]
           /\ UNCHANGED sock
  <2> DEFINE r == [proc[p] EXCEPT !.pc = "metrics", !.listening = TRUE]
  <2>1. /\ r \in Process /\ r.pc = "metrics" /\ r.listening /\ r.cmd = proc[p].cmd
        /\ r.fds = proc[p].fds
    BY Zenon, <1>1 DEF Process, Labels
  <2>2. proc' = [proc EXCEPT ![p] = r]
    BY Zenon, <1>1, <1>3
  <2> HIDE DEF r
  <2>3. proc'[p] = r
    BY <1>1, <2>2
  <2>4. KernelOK' /\ NamesLead'
    BY <1>1, <1>2, <1>3, Frame DEF KernelOK
  <2>5. Serving(p)'
    BY <2>1, <2>3 DEF Serving
  <2>6. Holds(p)'
    BY <1>1, <1>2, <1>3, <2>1, <2>3 DEF Holds, MapsGivenUp
  <2>. QED
    BY Zenon, <1>1, <2>1, <2>2, <2>4, <2>5, <2>6, OwnStep
<1>4. CASE Fail(p, "gone")
  <2>1. KernelOK' /\ NamesLead' /\ End(p, "gone")
    BY <1>1, <1>2, <1>4, Frame DEF KernelOK, Fail
  <2>. QED
    BY <1>1, <2>1, EndStep
<1>. QED
  BY <1>3, <1>4 DEF Listen

\* The signal: the process ends, or goes on to tear down if it was told to.
LEMMA StopInv ==
  ASSUME DInv, NEW p \in Procs, Stop(p)
  PROVE  DInv'
<1>1. /\ KernelOK /\ NamesLead /\ Serving(p) /\ proc \in [Procs -> Process]
      /\ proc[p] \in Process /\ Holds(p) /\ Up(p) /\ proc[p].pc = "run"
  BY Facts DEF Stop, Up
<1>2. UNCHANGED <<pins, shape, xdp, filled, asked, table>> /\ sock' = 0
  BY DEF Stop
<1>3. KernelOK' /\ NamesLead'
  BY <1>1, <1>2, Frame
<1>4. CASE proc[p].cmd.detach /\ proc' = [proc EXCEPT ![p].pc = "detach", ![p].listening = FALSE]
  <2> DEFINE r == [proc[p] EXCEPT !.pc = "detach", !.listening = FALSE]
  <2>1. /\ r \in Process /\ r.pc = "detach" /\ ~r.listening /\ r.cmd = proc[p].cmd
        /\ r.fds = proc[p].fds
    BY Zenon, <1>1 DEF Process, Labels
  <2>2. proc' = [proc EXCEPT ![p] = r]
    BY Zenon, <1>1, <1>4
  <2> HIDE DEF r
  <2>3. proc'[p] = r
    BY <1>1, <2>2
  <2>4. Serving(p)'
    BY <2>1, <2>3 DEF Serving
  <2>5. Holds(p)'
    BY <1>1, <1>2, <1>4, <2>1, <2>3 DEF Holds, MapsGivenUp
  <2>. QED
    BY Zenon, <1>1, <1>3, <2>1, <2>2, <2>4, <2>5, OwnStep
<1>5. CASE End(p, "gone")
  BY <1>1, <1>3, <1>5, EndStep
<1>. QED
  BY <1>4, <1>5 DEF Stop

\* detach_and_unpin: only a process that was told to tear down gets here.
LEMMA DetachInv ==
  ASSUME DInv, NEW p \in Procs, Detach(p)
  PROVE  DInv'
<1>1. /\ KernelOK /\ NamesLead /\ Serving(p) /\ proc \in [Procs -> Process]
      /\ proc[p] \in Process /\ Holds(p) /\ Up(p) /\ proc[p].pc = "detach"
  BY Facts DEF Detach, Up
<1>2. /\ UNCHANGED <<pins, shape, sock, filled, asked, table>> /\ xdp' \in {xdp, NoProg}
      /\ proc' = [proc EXCEPT ![p].pc = "unpin", ![p].todo = Maps]
  BY DEF Detach
<1> DEFINE r == [proc[p] EXCEPT !.pc = "unpin", !.todo = Maps]
<1>3. /\ r \in Process /\ r.pc = "unpin" /\ r.listening = proc[p].listening
      /\ r.cmd = proc[p].cmd
  BY Zenon, <1>1 DEF Process, Labels
<1>4. proc' = [proc EXCEPT ![p] = r]
  BY Zenon, <1>1, <1>2
<1> HIDE DEF r
<1>5. proc'[p] = r
  BY <1>1, <1>4
<1>6. KernelOK' /\ NamesLead'
  BY <1>1, <1>2 DEF KernelOK, NamesLead, MapsGivenUp
<1>7. Serving(p)'
  BY <1>1, <1>3, <1>5 DEF Serving
<1>8. Holds(p)'
  BY <1>1, <1>2, <1>3, <1>5 DEF Holds, MapsGivenUp
<1>. QED
  BY Zenon, <1>1, <1>3, <1>4, <1>6, <1>7, <1>8, OwnStep

LEMMA UnpinMapInv ==
  ASSUME DInv, NEW p \in Procs, NEW m \in Maps, UnpinMap(p, m)
  PROVE  DInv'
<1>1. /\ KernelOK /\ NamesLead /\ Serving(p) /\ proc \in [Procs -> Process]
      /\ proc[p] \in Process /\ Holds(p) /\ Up(p) /\ proc[p].pc = "unpin"
  BY Facts DEF UnpinMap, Up
<1>2. UNCHANGED <<shape, xdp, sock, filled, asked, table>> /\ pins' = [pins EXCEPT ![m] = 0]
  BY DEF UnpinMap
<1>3. MapsGivenUp'
  BY <1>1, <1>2 DEF Holds, MapsGivenUp
<1>4. KernelOK' /\ NamesLead'
  BY <1>1, <1>2, <1>3 DEF KernelOK, NamesLead
<1>5. CASE End(p, "gone")
  BY <1>1, <1>4, <1>5, EndStep
<1>6. CASE proc' = [proc EXCEPT ![p].todo = @ \ {m}]
  <2> DEFINE r == [proc[p] EXCEPT !.todo = @ \ {m}]
  <2>1. /\ r \in Process /\ r.pc = "unpin" /\ r.listening = proc[p].listening
        /\ r.cmd = proc[p].cmd
    BY SMTT(60), <1>1 DEF Process, Labels
  <2>2. proc' = [proc EXCEPT ![p] = r]
    BY <1>1, <1>6
  <2> HIDE DEF r
  <2>3. proc'[p] = r
    BY <1>1, <2>2
  <2>4. Serving(p)'
    BY <1>1, <2>1, <2>3 DEF Serving
  <2>5. Holds(p)'
    BY <1>1, <1>2, <1>3, <2>1, <2>3 DEF Holds
  <2>. QED
    BY Zenon, <1>1, <1>4, <2>1, <2>2, <2>4, <2>5, OwnStep
<1>. QED
  BY <1>5, <1>6 DEF UnpinMap

\* A kill at any point.
LEMMA CrashInv ==
  ASSUME DInv, NEW p \in Procs, Crash(p)
  PROVE  DInv'
<1>1. KernelOK /\ NamesLead /\ Up(p) /\ End(p, "gone")
  BY Facts DEF Crash
<1>2. KernelOK' /\ NamesLead'
  BY <1>1, Frame DEF Crash, KernelOK
<1>. QED
  BY <1>1, <1>2, EndStep

------------------------------------------------------------------------------
\* The invariant is inductive when one process is started after another.
LEMMA DNextInv == Exclusive /\ DInv /\ [DNext]_dvars => DInv'
<1> SUFFICES ASSUME Exclusive, DInv, [DNext]_dvars PROVE DInv'
  OBVIOUS
<1>1. CASE UNCHANGED dvars
  <2>1. DTypeOK' /\ NamesLead'
    BY <1>1 DEF dvars, DInv, DTypeOK, NamesLead, MapsGivenUp
  <2>2. OneAtATime'
    BY SMTT(60), <1>1 DEF dvars, DInv, OneAtATime, Up
  <2>3. ASSUME NEW p \in Procs PROVE Serving(p)' /\ (Up(p)' => Holds(p)')
    <3>1. Serving(p) /\ (Up(p) => Holds(p))
      BY DEF DInv
    <3>. QED
      BY <1>1, <3>1 DEF dvars, Serving, Holds, Up, MapsGivenUp
  <2>. QED
    BY <2>1, <2>2, <2>3 DEF DInv
<1>2. CASE DNext
  <2>1. PICK p \in Procs :
          \/ Start(p)
          \/ \E m \in Maps : CheckMap(p, m) \/ LoadMap(p, m) \/ UnpinMap(p, m)
          \/ LoadFails(p) \/ Choose(p) \/ SwitchOff(p) \/ TryAttach(p) \/ Apply(p)
          \/ CheckLive(p) \/ UnlinkStale(p) \/ Bind(p) \/ Listen(p) \/ StartMetrics(p)
          \/ Stop(p) \/ Detach(p) \/ Crash(p)
    BY <1>2 DEF DNext
  <2>. QED
    BY <2>1, StartInv, CheckMapInv, LoadMapInv, UnpinMapInv, LoadFailsInv, ChooseInv,
       SwitchOffInv, TryAttachInv, ApplyInv, CheckLiveInv, UnlinkStaleInv, BindInv, ListenInv,
       StartMetricsInv, StopInv, DetachInv, CrashInv
<1>. QED
  BY <1>1, <1>2

THEOREM DInvariant == Exclusive => (DSpec => []DInv)
<1> SUFFICES ASSUME Exclusive PROVE DSpec => []DInv
  OBVIOUS
<1>1. DInv /\ [DNext]_dvars => DInv'
  BY DNextInv
<1>. QED
  BY <1>1, DInitInv, PTL DEF DSpec

\* Of all the steps, only these touch the program, the filled maps or the table.
LEMMA KernelSteps ==
  ASSUME DNext
  PROVE  \/ \E p \in Procs : SwitchOff(p) \/ TryAttach(p) \/ Detach(p) \/ Apply(p)
         \/ UNCHANGED <<xdp, filled, table>>
<1>1. PICK p \in Procs :
        \/ Start(p)
        \/ \E m \in Maps : CheckMap(p, m) \/ LoadMap(p, m) \/ UnpinMap(p, m)
        \/ LoadFails(p) \/ Choose(p) \/ SwitchOff(p) \/ TryAttach(p) \/ Apply(p)
        \/ CheckLive(p) \/ UnlinkStale(p) \/ Bind(p) \/ Listen(p) \/ StartMetrics(p)
        \/ Stop(p) \/ Detach(p) \/ Crash(p)
  BY DEF DNext
<1>2. Start(p) \/ Crash(p) => UNCHANGED <<xdp, filled, table>>
  BY ZenonT(60) DEF Start, Crash
<1>3. \A m \in Maps : CheckMap(p, m) \/ LoadMap(p, m) \/ UnpinMap(p, m) => UNCHANGED <<xdp, filled, table>>
  BY DEF CheckMap, LoadMap, UnpinMap
<1>4. LoadFails(p) \/ Choose(p) \/ Stop(p) => UNCHANGED <<xdp, filled, table>>
  BY DEF LoadFails, Choose, Stop
<1>5. CheckLive(p) \/ UnlinkStale(p) \/ Bind(p) => UNCHANGED <<xdp, filled, table>>
  BY DEF CheckLive, UnlinkStale, Bind
<1>6. Listen(p) \/ StartMetrics(p) => UNCHANGED <<xdp, filled, table>>
  BY DEF Listen, StartMetrics
<1>. QED
  BY <1>1, <1>2, <1>3, <1>4, <1>5, <1>6

\* While a daemon runs, the program on the interface uses its maps, those are the pinned
\* ones, and they are filled, whatever earlier daemons left half done, were killed at or
\* had refused (daemon.cpp:28-47, loader.cpp:90-243).
THEOREM RunningDrivesAlways == Exclusive => (DSpec => []RunningDrives)
<1>1. DInv => RunningDrives
  <2> SUFFICES ASSUME DInv, NEW p \in Procs,
                      proc[p].pc \in {"live", "unlink", "bind", "listen", "metrics", "run"}
               PROVE  /\ xdp # NoProg /\ xdp.maps = proc[p].fds /\ pins = proc[p].fds
                      /\ Forwarding
    BY DEF RunningDrives
  <2>1. Up(p)
    BY DEF Up
  <2>2. KernelOK /\ proc[p] \in Process /\ Holds(p)
    BY <2>1, Facts
  <2>3. xdp # NoProg /\ xdp.maps = proc[p].fds /\ proc[p].fds["state"] \in filled
    BY <2>2 DEF Holds
  <2>4. \A m \in Maps : proc[p].fds[m] = pins[m]
    BY <2>2 DEF Holds
  <2>5. proc[p].fds \in [Maps -> Nat] /\ pins \in [Maps -> Nat]
    BY <2>2 DEF Process, KernelOK
  <2>. QED
    BY <2>3, <2>4, <2>5 DEF Forwarding
<1>. QED
  BY <1>1, DInvariant, PTL

\* The socket file of a dead daemon never stops the next one, and a running daemon is
\* the one the path leads to (api_server.cpp:49-110).
THEOREM SocketLeadsToDaemonAlways == Exclusive => (DSpec => []SocketLeadsToDaemon)
<1>1. DInv => SocketLeadsToDaemon
  BY DEF DInv, SocketLeadsToDaemon, Serving, Holds, Up
<1>. QED
  BY <1>1, DInvariant, PTL

\* The connection table in force is never replaced unless someone asked for the maps to
\* be recreated or torn down (loader.cpp:145-199).
THEOREM TableKeptAlways == Exclusive => (DSpec => TableKept)
<1>1. DInv /\ [DNext]_dvars => [table # 0 /\ table' # table => MapsGivenUp]_dvars
  <2> SUFFICES ASSUME DInv, DNext, table # 0, table' # table PROVE MapsGivenUp
    BY DEF dvars
  <2>1. PICK p \in Procs : TryAttach(p)
    BY Zenon, KernelSteps DEF SwitchOff, Detach, Apply
  <2>2. table' = proc[p].fds["conntrack"] /\ proc[p].pc \in {"try", "retry"} /\ Up(p)
    BY <2>1 DEF TryAttach, Up
  <2>3. NamesLead /\ Holds(p)
    BY <2>2, Facts
  <2>4. proc[p].fds["conntrack"] = pins["conntrack"]
    BY <2>2, <2>3 DEF Holds, Maps
  <2>. QED
    BY <2>2, <2>3, <2>4 DEF NamesLead
<1>. QED
  BY <1>1, DInvariant, PTL DEF DSpec, TableKept

\* Forwarding, once there, goes on through stops, kills, failed starts and restarts
\* unless the mode was changed or the maps were given up: attach keeps the mode it finds
\* and puts a program on the same, filled maps (loader.cpp:201-243).
THEOREM HitlessRestartAlways == Exclusive => (DSpec => HitlessRestart)
<1>1. DInv /\ [DNext]_dvars =>
        [Forwarding /\ ~Forwarding' => MapsGivenUp \/ ~(asked \subseteq {"auto", xdp.mode})]_dvars
  <2> SUFFICES ASSUME DInv, DNext, Forwarding, ~Forwarding', ~MapsGivenUp,
                      asked \subseteq {"auto", xdp.mode}
               PROVE  FALSE
    BY DEF dvars
  <2>1. filled \subseteq filled'
    BY Zenon, KernelSteps DEF SwitchOff, TryAttach, Detach, Apply
  <2>2. xdp' # xdp
    BY <2>1 DEF Forwarding
  <2>3. PICK p \in Procs : SwitchOff(p) \/ TryAttach(p) \/ Detach(p)
    BY <2>2, KernelSteps DEF Apply
  <2>4. Up(p)
    BY <2>3 DEF SwitchOff, TryAttach, Detach, Up
  <2>5. KernelOK /\ NamesLead /\ Holds(p) /\ proc[p] \in Process
    BY <2>4, Facts
  <2>6. CASE SwitchOff(p)
    <3>1. proc[p].first = proc[p].cmd.mode /\ proc[p].first # xdp.mode /\ proc[p].first \in Modes
      BY <2>5, <2>6 DEF SwitchOff, Holds
    <3>2. proc[p].cmd.mode \in asked
      BY <2>5 DEF Holds
    <3>. QED
      BY <3>1, <3>2 DEF Modes
  <2>7. CASE TryAttach(p)
    <3>1. xdp'.maps = proc[p].fds /\ xdp'.mode \in Modes /\ proc[p].pc \in {"try", "retry"}
      BY <2>2, <2>5, <2>7 DEF TryAttach, Holds, Other, Modes
    <3>2. xdp' # NoProg
      BY <3>1 DEF NoProg, Modes
    <3>3. proc[p].fds["state"] = pins["state"]
      BY <2>5, <3>1 DEF Holds, Maps
    <3>4. xdp.maps = pins /\ xdp.maps["state"] \in filled
      BY <2>5 DEF NamesLead, Forwarding
    <3>. QED
      BY <2>1, <3>1, <3>2, <3>3, <3>4 DEF Forwarding
  <2>8. CASE Detach(p)
    BY <2>5, <2>8 DEF Detach, Holds
  <2>. QED
    BY <2>3, <2>6, <2>7, <2>8
<1>. QED
  BY <1>1, DInvariant, PTL DEF DSpec, HitlessRestart
==============================================================================
