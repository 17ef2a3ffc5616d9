---------------------------- MODULE ThreadsProofs ----------------------------
(***************************************************************************)
(* Proofs about Threads, for any number of sessions and scrapers and any   *)
(* connection table: no thread is inside an object that is destroyed,      *)
(* whether run() returns or a start() throws.                              *)
(***************************************************************************)
EXTENDS Threads, WellFoundedInduction, TLAPS

\* The program of the main thread, place by place.
LEMMA PlanIs ==
  /\ Len(Run) = 15 /\ Len(RunPlan) = 32
  /\ RunPlan[1] = <<"start", "neighbors">> /\ RunPlan[2] = <<"start", "health">>
  /\ RunPlan[3] = <<"start", "api">> /\ RunPlan[4] = <<"start", "metrics">>
  /\ RunPlan[5] = <<"log", "config">> /\ RunPlan[6] = <<"wait", "signal">>
  /\ RunPlan[7] = <<"stop", "metrics">> /\ RunPlan[8] = <<"join", "metrics">>
  /\ RunPlan[9] = <<"stop", "api">> /\ RunPlan[10] = <<"shut", "api">>
  /\ RunPlan[11] = <<"join", "api">> /\ RunPlan[12] = <<"stop", "health">>
  /\ RunPlan[13] = <<"join", "health">> /\ RunPlan[14] = <<"stop", "neighbors">>
  /\ RunPlan[15] = <<"join", "neighbors">> /\ RunPlan[16] = <<"stop", "metrics">>
  /\ RunPlan[17] = <<"join", "metrics">> /\ RunPlan[18] = <<"destroy", "metrics">>
  /\ RunPlan[19] = <<"stop", "api">> /\ RunPlan[20] = <<"shut", "api">>
  /\ RunPlan[21] = <<"join", "api">> /\ RunPlan[22] = <<"destroy", "api">>
  /\ RunPlan[23] = <<"destroy", "commands">> /\ RunPlan[24] = <<"stop", "health">>
  /\ RunPlan[25] = <<"join", "health">> /\ RunPlan[26] = <<"destroy", "health">>
  /\ RunPlan[27] = <<"stop", "neighbors">> /\ RunPlan[28] = <<"join", "neighbors">>
  /\ RunPlan[29] = <<"destroy", "neighbors">> /\ RunPlan[30] = <<"destroy", "state">>
  /\ RunPlan[31] = <<"destroy", "reader">> /\ RunPlan[32] = <<"destroy", "loader">>
BY DEF Run, Unwind, RunPlan

\* Where each object is destroyed.
LEMMA DestroyAt ==
  ASSUME NEW i \in 1 .. 32
  PROVE  /\ RunPlan[i] = <<"destroy", "metrics">> <=> i = 18
         /\ RunPlan[i] = <<"destroy", "api">> <=> i = 22
         /\ RunPlan[i] = <<"destroy", "commands">> <=> i = 23
         /\ RunPlan[i] = <<"destroy", "health">> <=> i = 26
         /\ RunPlan[i] = <<"destroy", "neighbors">> <=> i = 29
         /\ RunPlan[i] = <<"destroy", "state">> <=> i = 30
         /\ RunPlan[i] = <<"destroy", "reader">> <=> i = 31
         /\ RunPlan[i] = <<"destroy", "loader">> <=> i = 32
BY PlanIs

\* Where each operation is.
LEMMA PlaceOf ==
  ASSUME NEW i \in 1 .. 32
  PROVE  /\ RunPlan[i] = <<"start", "neighbors">> <=> i \in {1}
         /\ RunPlan[i] = <<"start", "health">> <=> i \in {2}
         /\ RunPlan[i] = <<"start", "api">> <=> i \in {3}
         /\ RunPlan[i] = <<"start", "metrics">> <=> i \in {4}
         /\ RunPlan[i] = <<"log", "config">> <=> i \in {5}
         /\ RunPlan[i] = <<"wait", "signal">> <=> i \in {6}
         /\ RunPlan[i] = <<"stop", "metrics">> <=> i \in {7, 16}
         /\ RunPlan[i] = <<"join", "metrics">> <=> i \in {8, 17}
         /\ RunPlan[i] = <<"stop", "api">> <=> i \in {9, 19}
         /\ RunPlan[i] = <<"shut", "api">> <=> i \in {10, 20}
         /\ RunPlan[i] = <<"join", "api">> <=> i \in {11, 21}
         /\ RunPlan[i] = <<"stop", "health">> <=> i \in {12, 24}
         /\ RunPlan[i] = <<"join", "health">> <=> i \in {13, 25}
         /\ RunPlan[i] = <<"stop", "neighbors">> <=> i \in {14, 27}
         /\ RunPlan[i] = <<"join", "neighbors">> <=> i \in {15, 28}
         /\ RunPlan[i] = <<"destroy", "metrics">> <=> i \in {18}
         /\ RunPlan[i] = <<"destroy", "api">> <=> i \in {22}
         /\ RunPlan[i] = <<"destroy", "commands">> <=> i \in {23}
         /\ RunPlan[i] = <<"destroy", "health">> <=> i \in {26}
         /\ RunPlan[i] = <<"destroy", "neighbors">> <=> i \in {29}
         /\ RunPlan[i] = <<"destroy", "state">> <=> i \in {30}
         /\ RunPlan[i] = <<"destroy", "reader">> <=> i \in {31}
         /\ RunPlan[i] = <<"destroy", "loader">> <=> i \in {32}
<1>1. /\ RunPlan[i] = <<"start", "neighbors">> <=> i \in {1}
      /\ RunPlan[i] = <<"start", "health">> <=> i \in {2}
      /\ RunPlan[i] = <<"start", "api">> <=> i \in {3}
      /\ RunPlan[i] = <<"start", "metrics">> <=> i \in {4}
      /\ RunPlan[i] = <<"log", "config">> <=> i \in {5}
      /\ RunPlan[i] = <<"wait", "signal">> <=> i \in {6}
      /\ RunPlan[i] = <<"stop", "metrics">> <=> i \in {7, 16}
      /\ RunPlan[i] = <<"join", "metrics">> <=> i \in {8, 17}
      /\ RunPlan[i] = <<"stop", "api">> <=> i \in {9, 19}
      /\ RunPlan[i] = <<"shut", "api">> <=> i \in {10, 20}
      /\ RunPlan[i] = <<"join", "api">> <=> i \in {11, 21}
  BY PlanIs
<1>2. /\ RunPlan[i] = <<"stop", "health">> <=> i \in {12, 24}
      /\ RunPlan[i] = <<"join", "health">> <=> i \in {13, 25}
      /\ RunPlan[i] = <<"stop", "neighbors">> <=> i \in {14, 27}
      /\ RunPlan[i] = <<"join", "neighbors">> <=> i \in {15, 28}
  BY PlanIs
<1>. QED
  BY ZenonT(60), <1>1, <1>2, DestroyAt

\* Where the objects are destroyed.
LEMMA DiesIs ==
  /\ Dies("metrics") = 18 /\ Dies("api") = 22 /\ Dies("commands") = 23 /\ Dies("health") = 26
  /\ Dies("neighbors") = 29 /\ Dies("state") = 30 /\ Dies("reader") = 31 /\ Dies("loader") = 32
<1>1. \A i \in 1 .. 32 :
         /\ RunPlan[i] = <<"destroy", "metrics">> <=> i = 18
         /\ RunPlan[i] = <<"destroy", "api">> <=> i = 22
         /\ RunPlan[i] = <<"destroy", "commands">> <=> i = 23
         /\ RunPlan[i] = <<"destroy", "health">> <=> i = 26
         /\ RunPlan[i] = <<"destroy", "neighbors">> <=> i = 29
         /\ RunPlan[i] = <<"destroy", "state">> <=> i = 30
         /\ RunPlan[i] = <<"destroy", "reader">> <=> i = 31
         /\ RunPlan[i] = <<"destroy", "loader">> <=> i = 32
  BY Zenon, DestroyAt
<1>2. ASSUME NEW c, \E n \in 1 .. 32 : RunPlan[n] = <<"destroy", c>>
      PROVE  Dies(c) \in 1 .. 32 /\ RunPlan[Dies(c)] = <<"destroy", c>>
  <2>1. Dies(c) = CHOOSE n \in 1 .. 32 : RunPlan[n] = <<"destroy", c>>
    BY PlanIs DEF Dies
  <2>. QED
    BY <1>2, <2>1
<1>3. ASSUME NEW c \in Members PROVE \E n \in 1 .. 32 : RunPlan[n] = <<"destroy", c>>
  BY PlanIs DEF Members
<1>4. Dies("metrics") = 18
  BY Zenon, <1>1, <1>2, <1>3 DEF Members
<1>5. Dies("api") = 22
  BY Zenon, <1>1, <1>2, <1>3 DEF Members
<1>6. Dies("commands") = 23
  BY Zenon, <1>1, <1>2, <1>3 DEF Members
<1>7. Dies("health") = 26
  BY Zenon, <1>1, <1>2, <1>3 DEF Members
<1>8. Dies("neighbors") = 29
  BY Zenon, <1>1, <1>2, <1>3 DEF Members
<1>9. Dies("state") = 30
  BY Zenon, <1>1, <1>2, <1>3 DEF Members
<1>10. Dies("reader") = 31
  BY Zenon, <1>1, <1>2, <1>3 DEF Members
<1>11. Dies("loader") = 32
  BY Zenon, <1>1, <1>2, <1>3 DEF Members
<1>. QED
  BY <1>4, <1>5, <1>6, <1>7, <1>8, <1>9, <1>10, <1>11

\* The numbers of ThInv.
LEMMA InvAt ==
  ASSUME ThTypeOK
  PROVE  /\ at \in 1 .. 33
         /\ ThInv <=> /\ alive = {c \in Members : at <= Dies(c)}
                      /\ at >= 18 => met.pc \in {"none", "gone"}
                      /\ at >= 22 => api = "down" /\ \A s \in Sessions : sess[s] = "idle"
                      /\ at >= 26 => pt["health"].pc \in {"none", "gone"}
                      /\ at >= 29 => pt["neighbors"].pc \in {"none", "gone"}
<1>1. at \in 1 .. 33
  BY PlanIs DEF ThTypeOK
<1>2. (\A w \in Workers : at >= Dies(w) => pt[w].pc \in {"none", "gone"})
        <=> /\ at >= 26 => pt["health"].pc \in {"none", "gone"}
            /\ at >= 29 => pt["neighbors"].pc \in {"none", "gone"}
  BY DiesIs, ThreadsAssumption
<1>. QED
  BY <1>1, <1>2, DiesIs DEF ThInv

\* The least key of a walk is a key.
LEMMA LeastKey ==
  ASSUME NEW S \in SUBSET Nat, S # {}
  PROVE  Min(S) \in S
<1> DEFINE R == {p \in Nat \X Nat : p[1] < p[2]}
<1>1. IsWellFoundedOn(R, Nat)
  BY NatLessThanWellFounded DEF OpToRel
<1>2. PICK x \in S : \A y \in S : ~(<<y, x>> \in R)
  <2> HIDE DEF R
  <2>. QED
    BY Zenon, <1>1, WFMin
<1>3. ASSUME NEW y \in S, ~(x <= y) PROVE FALSE
  <2>1. y < x /\ x \in Nat /\ y \in Nat
    BY <1>3
  <2>2. <<y, x>> \in R
    BY <2>1
  <2>. QED
    BY <1>2, <2>2
<1>. QED
  BY Zenon, <1>3 DEF Min

\* Before main() does anything.
LEMMA ThInitInv == ThInit => ThInv
<1> SUFFICES ASSUME ThInit PROVE ThInv
  OBVIOUS
<1>1. ThTypeOK
  <2>1. 1 \in 1 .. Len(RunPlan) + 1
    BY PlanIs
  <2>2. backlog \in Seq(Scrapers)
    BY DEF ThInit
  <2>3. /\ pt \in [Workers -> [pc : {"none", "top", "step", "check", "sleep", "gone"},
                              stopping : BOOLEAN, woken : BOOLEAN, unseen : BOOLEAN]]
        /\ met \in [pc : {"none", "loop", "poll", "recv", "render", "walk", "send", "gone"},
                    peer : Scrapers \cup {"nobody"}, io : Nat, key : Nat, n : Nat]
    BY DEF ThInit, PTInit
  <2>. QED
    BY Zenon, <2>1, <2>2, <2>3 DEF ThTypeOK, ThInit
<1>2. alive = {c \in Members : at <= Dies(c)}
  BY DiesIs DEF ThInit, Members
<1>. QED
  BY <1>1, <1>2, InvAt DEF ThInit

------------------------------------------------------------------------------
(* The main thread.                                                         *)

\* A step that destroys nothing, with what it must know of the places where threads
\* are over.
LEMMA PlaceStep ==
  ASSUME ThInv, ThTypeOK', UNCHANGED alive,
         \A n \in {18, 22, 23, 26, 29, 30, 31, 32} : at <= n <=> at' <= n,
         at' >= 18 => met'.pc \in {"none", "gone"},
         at' >= 22 => api' = "down" /\ \A s \in Sessions : sess'[s] = "idle",
         at' >= 26 => pt'["health"].pc \in {"none", "gone"},
         at' >= 29 => pt'["neighbors"].pc \in {"none", "gone"}
  PROVE  ThInv'
<1>1. alive = {c \in Members : at <= Dies(c)}
  BY DEF ThInv
<1>2. \A c \in Members : at <= Dies(c) <=> at' <= Dies(c)
  BY DiesIs DEF Members
<1>3. alive' = {c \in Members : at' <= Dies(c)}
  BY <1>1, <1>2
<1>4. /\ at' >= Dies("metrics") => met'.pc \in {"none", "gone"}
      /\ at' >= Dies("api") => api' = "down" /\ \A s \in Sessions : sess'[s] = "idle"
      /\ \A w \in Workers : at' >= Dies(w) => pt'[w].pc \in {"none", "gone"}
  BY DiesIs, ThreadsAssumption
<1>. QED
  BY Zenon, <1>3, <1>4 DEF ThInv, Dies

\* Where the main thread is.
LEMMA AtIs ==
  ASSUME ThTypeOK
  PROVE  /\ At("start", "neighbors") => at = 1
         /\ At("start", "health") => at = 2
         /\ At("start", "api") => at = 3
         /\ At("start", "metrics") => at = 4
         /\ At("log", "config") => at = 5
         /\ At("wait", "signal") => at = 6
         /\ At("stop", "metrics") => at \in {7, 16}
         /\ At("join", "metrics") => at \in {8, 17}
         /\ At("stop", "api") => at \in {9, 19}
         /\ At("shut", "api") => at \in {10, 20}
         /\ At("join", "api") => at \in {11, 21}
         /\ At("stop", "health") => at \in {12, 24}
         /\ At("join", "health") => at \in {13, 25}
         /\ At("stop", "neighbors") => at \in {14, 27}
         /\ At("join", "neighbors") => at \in {15, 28}
         /\ At("destroy", "metrics") => at = 18
         /\ At("destroy", "api") => at = 22
         /\ At("destroy", "commands") => at = 23
         /\ At("destroy", "health") => at = 26
         /\ At("destroy", "neighbors") => at = 29
         /\ At("destroy", "state") => at = 30
         /\ At("destroy", "reader") => at = 31
         /\ At("destroy", "loader") => at = 32
<1>1. at \in 1 .. 33
  BY InvAt
<1>2. CASE at \in 1 .. 32
  BY ZenonT(60), <1>2, PlaceOf DEF At
<1>3. CASE at = 33
  BY <1>3, PlanIs DEF At
<1>. QED
  BY <1>1, <1>2, <1>3

\* The other members have no thread.
LEMMA NoOtherJoin ==
  ASSUME ThTypeOK, NEW c \in {"commands", "state", "reader", "loader"}
  PROVE  ~At("join", c)
<1>1. at \in 1 .. 33
  BY InvAt
<1>2. CASE at \in 1 .. 32
  BY <1>2, PlanIs DEF At
<1>3. CASE at = 33
  BY <1>3, PlanIs DEF At
<1>. QED
  BY <1>1, <1>2, <1>3

\* The types of what the next place leaves alone.
LEMMA TypeAt ==
  ASSUME ThTypeOK, at' \in 1 .. 33, alive' \subseteq alive, UNCHANGED <<signal, enabled>>,
         \/ UNCHANGED pt
         \/ pt' \in [Workers -> [pc : {"none", "top", "step", "check", "sleep", "gone"},
                                 stopping : BOOLEAN, woken : BOOLEAN, unseen : BOOLEAN]],
         api' \in {"off", "up", "stopping", "shut", "down"}, UNCHANGED sess,
         UNCHANGED met \/ met' = [met EXCEPT !.pc = "loop"],
         mstop' \in BOOLEAN, UNCHANGED <<backlog, peers, table>>
  PROVE  ThTypeOK'
<1>1. Len(RunPlan)' = 32 /\ Len(RunPlan) = 32
  BY PlanIs
<1>2. /\ met' \in [pc : {"none", "loop", "poll", "recv", "render", "walk", "send", "gone"},
                   peer : Scrapers \cup {"nobody"}, io : Nat, key : Nat, n : Nat]
  BY DEF ThTypeOK
<1>3. pt' \in [Workers -> [pc : {"none", "top", "step", "check", "sleep", "gone"},
                           stopping : BOOLEAN, woken : BOOLEAN, unseen : BOOLEAN]]
  BY DEF ThTypeOK
<1>. QED
  BY <1>1, <1>2, <1>3 DEF ThTypeOK

\* The steps that start something; nothing is over yet.
LEMMA StartInv ==
  ASSUME ThInv,
         \/ \E w \in Workers : StartWorker(w)
         \/ \E c \in {"api", "metrics"} : StartFails(c)
         \/ StartApi \/ StartMetrics \/ LogConfig \/ WaitSignal
  PROVE  ThInv'
<1>1. ThTypeOK /\ at \in 1 .. 33
  BY InvAt DEF ThInv
<1>2. at \in 1 .. 6 /\ at' \in {at + 1, 16}
  <2>1. ASSUME NEW w \in Workers, StartWorker(w) PROVE at \in 1 .. 6 /\ at' = at + 1
    BY <1>1, <2>1, AtIs, ThreadsAssumption DEF StartWorker, Done
  <2>2. ASSUME NEW c \in {"api", "metrics"}, StartFails(c) PROVE at \in 1 .. 6 /\ at' = 16
    BY <1>1, <2>2, AtIs, PlanIs DEF StartFails
  <2>3. CASE StartApi \/ StartMetrics \/ LogConfig \/ WaitSignal
    BY <1>1, <2>3, AtIs DEF StartApi, StartMetrics, LogConfig, WaitSignal, Done
  <2>. QED
    BY <2>1, <2>2, <2>3
<1>3. ThTypeOK'
  <2>1. ASSUME NEW w \in Workers, StartWorker(w)
        PROVE  pt' \in [Workers -> [pc : {"none", "top", "step", "check", "sleep", "gone"},
                                    stopping : BOOLEAN, woken : BOOLEAN, unseen : BOOLEAN]]
    <3>1. pt \in [Workers -> [pc : {"none", "top", "step", "check", "sleep", "gone"},
                              stopping : BOOLEAN, woken : BOOLEAN, unseen : BOOLEAN]]
      BY <1>1 DEF ThTypeOK
    <3>2. pt' = pt \/ pt' = [pt EXCEPT ![w].pc = "top"]
      BY <2>1 DEF StartWorker, start
    <3>. QED
      BY <3>1, <3>2
  <2>2. /\ UNCHANGED <<alive, signal, enabled, sess, backlog, peers, table, mstop>>
        /\ UNCHANGED pt \/ \E w \in Workers : StartWorker(w)
        /\ UNCHANGED met \/ met' = [met EXCEPT !.pc = "loop"]
        /\ api' \in {api, "up"}
    BY DEF StartWorker, StartFails, StartApi, StartMetrics, LogConfig, WaitSignal, apivars, metvars
  <2>3. mstop \in BOOLEAN /\ api \in {"off", "up", "stopping", "shut", "down"}
    BY <1>1 DEF ThTypeOK
  <2>4. at' \in 1 .. 33
    BY <1>1, <1>2
  <2>. QED
    BY <1>1, <2>1, <2>2, <2>3, <2>4, TypeAt
<1>4. UNCHANGED alive
  BY DEF StartWorker, StartFails, StartApi, StartMetrics, LogConfig, WaitSignal
<1>. QED
  BY <1>1, <1>2, <1>3, <1>4, PlaceStep

\* The flags of the stops; nobody comes back.
LEMMA StopInv ==
  ASSUME ThInv, (\E w \in Workers : StopWorker(w)) \/ StopMetrics \/ StopApi
  PROVE  ThInv'
<1>1. ThTypeOK /\ at \in 1 .. 33
  BY InvAt DEF ThInv
<1>2. /\ at >= 18 => met.pc \in {"none", "gone"}
      /\ at >= 22 => api = "down" /\ \A s \in Sessions : sess[s] = "idle"
      /\ at >= 26 => pt["health"].pc \in {"none", "gone"}
      /\ at >= 29 => pt["neighbors"].pc \in {"none", "gone"}
  BY <1>1, InvAt
<1>3. /\ at' = at + 1 /\ UNCHANGED <<alive, signal, enabled, sess, met, backlog, peers, table>>
      /\ mstop' \in {mstop, TRUE}
  BY Zenon DEF StopWorker, StopMetrics, StopApi, Done, apivars, metvars
<1>4. CASE \E w \in Workers : StopWorker(w)
  <2>1. PICK w \in Workers : StopWorker(w)
    BY <1>4
  <2>2. at \in {12, 14, 24, 27}
    BY <1>1, <2>1, AtIs, ThreadsAssumption DEF StopWorker
  <2>3. /\ pt' \in [Workers -> [pc : {"none", "top", "step", "check", "sleep", "gone"},
                                stopping : BOOLEAN, woken : BOOLEAN, unseen : BOOLEAN]]
        /\ \A v \in Workers : pt[v].pc \in {"none", "gone"} => pt'[v].pc = pt[v].pc
    BY <1>1, <2>1 DEF StopWorker, stop, Notified, ThTypeOK
  <2>4. UNCHANGED <<api, mstop>> /\ api \in {"off", "up", "stopping", "shut", "down"}
        /\ mstop \in BOOLEAN
    BY <1>1, <2>1 DEF StopWorker, apivars, metvars, ThTypeOK
  <2>5. at' \in 1 .. 33
    BY <1>3, <2>2
  <2>6. ThTypeOK'
    BY <1>1, <1>3, <2>3, <2>4, <2>5, TypeAt
  <2>. QED
    BY <1>2, <1>3, <2>2, <2>3, <2>4, <2>6, PlaceStep, ThreadsAssumption
<1>5. CASE StopMetrics \/ StopApi
  <2>1. at \in {7, 16, 9, 10, 19, 20}
    BY <1>1, <1>5, AtIs DEF StopMetrics, StopApi
  <2>2. /\ UNCHANGED pt /\ api' \in {"off", "up", "stopping", "shut", "down"}
        /\ mstop' \in BOOLEAN
    BY Zenon, <1>1, <1>3, <1>5 DEF StopMetrics, StopApi, apivars, ThTypeOK
  <2>3. at' \in 1 .. 33
    BY <1>3, <2>1
  <2>4. ThTypeOK'
    BY <1>1, <1>3, <2>2, <2>3, TypeAt
  <2>. QED
    BY <1>2, <1>3, <2>1, <2>2, <2>4, PlaceStep
<1>. QED
  BY <1>4, <1>5

\* A join waits for the thread to be over.
LEMMA JoinInv ==
  ASSUME ThInv, NEW c \in Members, Join(c)
  PROVE  ThInv'
<1>1. ThTypeOK /\ at \in 1 .. 33
  BY InvAt DEF ThInv
<1>2. /\ at >= 18 => met.pc \in {"none", "gone"}
      /\ at >= 22 => api = "down" /\ \A s \in Sessions : sess[s] = "idle"
      /\ at >= 26 => pt["health"].pc \in {"none", "gone"}
      /\ at >= 29 => pt["neighbors"].pc \in {"none", "gone"}
  BY <1>1, InvAt
<1>3. /\ At("join", c) /\ at' = at + 1
      /\ UNCHANGED <<pt, alive, signal, enabled, sess, met, mstop, backlog, peers, table>>
      /\ c \in Workers => pt[c].pc \in {"none", "gone"}
      /\ c = "metrics" => met.pc \in {"none", "gone"}
      /\ c = "api" => api' = "down" /\ \A s \in Sessions : sess[s] = "idle"
      /\ c # "api" => UNCHANGED api
  BY DEF Join, Done, Joined, metvars
<1>4. \/ c = "metrics" /\ at \in {8, 17}
      \/ c = "api" /\ at \in {11, 21}
      \/ c = "health" /\ at \in {13, 25}
      \/ c = "neighbors" /\ at \in {15, 28}
  BY <1>1, <1>3, AtIs, NoOtherJoin DEF Members
<1>5. ThTypeOK'
  <2>1. at' \in 1 .. 33
    BY <1>3, <1>4
  <2>2. api' \in {"off", "up", "stopping", "shut", "down"} /\ mstop' \in BOOLEAN
    BY <1>1, <1>3 DEF ThTypeOK
  <2>. QED
    BY <1>1, <1>3, <2>1, <2>2, TypeAt
<1>6. /\ \A n \in {18, 22, 23, 26, 29, 30, 31, 32} : at <= n <=> at' <= n
      /\ at' >= 18 => met'.pc \in {"none", "gone"}
      /\ at' >= 22 => api' = "down" /\ \A s \in Sessions : sess'[s] = "idle"
      /\ at' >= 26 => pt'["health"].pc \in {"none", "gone"}
      /\ at' >= 29 => pt'["neighbors"].pc \in {"none", "gone"}
  BY <1>2, <1>3, <1>4, ThreadsAssumption
<1>. QED
  BY <1>3, <1>5, <1>6, PlaceStep

\* A destructor ends its object, and the next one's threads are over or to be joined.
LEMMA DestroyInv ==
  ASSUME ThInv, NEW c \in Members, Destroy(c)
  PROVE  ThInv'
<1>1. ThTypeOK /\ at \in 1 .. 33 /\ alive = {d \in Members : at <= Dies(d)}
  BY InvAt DEF ThInv
<1>2. /\ at >= 18 => met.pc \in {"none", "gone"}
      /\ at >= 22 => api = "down" /\ \A s \in Sessions : sess[s] = "idle"
      /\ at >= 26 => pt["health"].pc \in {"none", "gone"}
      /\ at >= 29 => pt["neighbors"].pc \in {"none", "gone"}
  BY <1>1, InvAt
<1>3. /\ At("destroy", c) /\ at' = at + 1 /\ alive' = alive \ {c}
      /\ UNCHANGED <<pt, signal, enabled, api, sess, met, mstop, backlog, peers, table>>
  BY DEF Destroy, Done, apivars, metvars
<1>4. at = Dies(c)
  BY <1>1, <1>3, AtIs, DiesIs DEF Members
<1>5. ThTypeOK'
  <2>1. at' \in 1 .. 33
    BY <1>3, <1>4, DiesIs DEF Members
  <2>2. api' \in {"off", "up", "stopping", "shut", "down"} /\ mstop' \in BOOLEAN
    BY <1>1, <1>3 DEF ThTypeOK
  <2>. QED
    BY <1>1, <1>3, <2>1, <2>2, TypeAt
<1>6. alive' = {d \in Members : at' <= Dies(d)}
  <2>1. \A d \in Members : Dies(d) \in Nat /\ (Dies(d) = Dies(c) <=> d = c)
    BY DiesIs DEF Members
  <2>2. \A d \in Members : at' <= Dies(d) <=> at <= Dies(d) /\ d # c
    BY <1>1, <1>3, <1>4, <2>1
  <2>. QED
    BY <1>1, <1>3, <2>2
<1>7. /\ at' >= Dies("metrics") => met'.pc \in {"none", "gone"}
      /\ at' >= Dies("api") => api' = "down" /\ \A s \in Sessions : sess'[s] = "idle"
      /\ \A w \in Workers : at' >= Dies(w) => pt'[w].pc \in {"none", "gone"}
  <2>1. at \in {18, 22, 23, 26, 29, 30, 31, 32}
    BY <1>4, DiesIs DEF Members
  <2>2. /\ at' >= 18 => met.pc \in {"none", "gone"}
        /\ at' >= 22 => api = "down" /\ \A s \in Sessions : sess[s] = "idle"
        /\ at' >= 26 => pt["health"].pc \in {"none", "gone"}
        /\ at' >= 29 => pt["neighbors"].pc \in {"none", "gone"}
    BY <1>2, <1>3, <2>1
  <2>. QED
    BY <1>3, <2>2, DiesIs, ThreadsAssumption
<1>. QED
  BY Zenon, <1>5, <1>6, <1>7 DEF ThInv, Dies

LEMMA MainInv == ThInv /\ Main => ThInv'
BY StartInv, StopInv, JoinInv, DestroyInv DEF Main

------------------------------------------------------------------------------
(* The other threads.                                                       *)

\* A step of another thread: a thread that is over does not come back.
LEMMA OtherStep ==
  ASSUME ThInv, ThTypeOK', UNCHANGED <<at, alive>>,
         met.pc \in {"none", "gone"} => met'.pc = met.pc,
         api = "down" /\ (\A s \in Sessions : sess[s] = "idle") => UNCHANGED <<api, sess>>,
         \A w \in Workers : pt[w].pc \in {"none", "gone"} => pt'[w].pc = pt[w].pc
  PROVE  ThInv'
<1>1. Dies("metrics") \in Nat /\ Dies("api") \in Nat
  BY DiesIs
<1>. QED
  BY Zenon, <1>1 DEF ThInv, Dies

\* The workers, however they are paced.
LEMMA WorkerInv ==
  ASSUME ThInv, NEW w \in Workers, Worker(w) \/ Pause(w)
  PROVE  ThInv'
<1>1. ThTypeOK
  BY DEF ThInv
<1>2. UNCHANGED <<at, alive, signal, enabled, api, sess, met, mstop, backlog, peers, table>>
  BY DEF Worker, Pause, apivars, metvars
<1>3. pt \in [Workers -> [pc : {"none", "top", "step", "check", "sleep", "gone"},
                          stopping : BOOLEAN, woken : BOOLEAN, unseen : BOOLEAN]]
  BY <1>1 DEF ThTypeOK
<1>4. /\ pt' \in [Workers -> [pc : {"none", "top", "step", "check", "sleep", "gone"},
                              stopping : BOOLEAN, woken : BOOLEAN, unseen : BOOLEAN]]
      /\ \A v \in Workers : pt[v].pc \in {"none", "gone"} => pt'[v].pc = pt[v].pc
  <2>1. CASE Top(w)
    <3>1. CASE pt[w].stopping
      BY <1>3, <2>1, <3>1 DEF Top
    <3>2. CASE ~pt[w].stopping
      BY ZenonT(60), <1>3, <2>1, <3>2 DEF Top
    <3>. QED
      BY <3>1, <3>2
  <2>2. CASE StepDone(w)
    BY <1>3, <2>2 DEF StepDone
  <2>3. CASE /\ pt[w].pc \notin {"none", "gone"}
             /\ pt' = [pt EXCEPT ![w].pc = "top", ![w].woken = FALSE]
    BY ZenonT(60), <1>3, <2>3
  <2>4. CASE /\ pt[w].pc \notin {"none", "gone"}
             /\ pt' = [pt EXCEPT ![w].pc = "sleep"]
    BY <1>3, <2>4
  <2>5. CASE Sleep(w)
    BY <2>3, <2>4, <2>5 DEF Sleep
  <2>6. CASE Timeout(w)
    BY <2>3, <2>6 DEF Timeout
  <2>. QED
    BY <2>1, <2>2, <2>5, <2>6 DEF Worker, Pause, PTThread
<1>5. ThTypeOK'
  BY <1>1, <1>2, <1>4 DEF ThTypeOK
<1>. QED
  BY <1>2, <1>4, <1>5, OtherStep

\* The sessions: once they are shut and joined no request arrives.
LEMMA SessionInv ==
  ASSUME ThInv, NEW s \in Sessions, Request(s) \/ Session(s)
  PROVE  ThInv'
<1>1. ThTypeOK
  BY DEF ThInv
<1>2. UNCHANGED <<at, alive, signal, enabled, api, met, mstop, backlog, peers, table>>
  BY DEF Request, Session, Handle, RealsChanged, metvars
<1>3. /\ sess \in [Sessions -> {"idle", "cmd", "params", "assign", "wake"}]
      /\ pt \in [Workers -> [pc : {"none", "top", "step", "check", "sleep", "gone"},
                             stopping : BOOLEAN, woken : BOOLEAN, unseen : BOOLEAN]]
  BY <1>1 DEF ThTypeOK
<1>4. /\ sess' \in [Sessions -> {"idle", "cmd", "params", "assign", "wake"}]
      /\ ~(api = "down" /\ \A r \in Sessions : sess[r] = "idle")
  <2>1. CASE Request(s)
    BY <1>3, <2>1 DEF Request
  <2>2. CASE Handle(s)
    BY <1>3, <2>2 DEF Handle
  <2>3. CASE RealsChanged(s)
    BY <1>3, <2>3 DEF RealsChanged
  <2>. QED
    BY <2>1, <2>2, <2>3 DEF Session
<1>5. /\ pt' \in [Workers -> [pc : {"none", "top", "step", "check", "sleep", "gone"},
                              stopping : BOOLEAN, woken : BOOLEAN, unseen : BOOLEAN]]
      /\ \A v \in Workers : pt[v].pc \in {"none", "gone"} => pt'[v].pc = pt[v].pc
  <2>1. pt' = pt \/ wake("neighbors")
    BY DEF Request, Session, Handle, RealsChanged
  <2>. QED
    BY <1>3, <2>1 DEF wake, Notified
<1>6. ThTypeOK'
  BY <1>1, <1>2, <1>4, <1>5 DEF ThTypeOK
<1>. QED
  BY <1>2, <1>4, <1>5, <1>6, OtherStep

\* The metrics thread.
LEMMA MetricsInv ==
  ASSUME ThInv, Metrics
  PROVE  ThInv'
<1> DEFINE MetType == [pc : {"none", "loop", "poll", "recv", "render", "walk", "send", "gone"},
                       peer : Scrapers \cup {"nobody"}, io : Nat, key : Nat, n : Nat]
<1>1. ThTypeOK
  BY DEF ThInv
<1>2. UNCHANGED <<pt, at, alive, signal, enabled, api, sess, mstop>>
  BY DEF Metrics, Loop, Poll, Recv, Render, Walk, Send, apivars
<1>3. /\ met \in MetType /\ backlog \in Seq(Scrapers) /\ table \subseteq Keys
      /\ peers \in [Scrapers -> {"away", "queued", "talking", "answered"}]
  BY <1>1 DEF ThTypeOK
<1>4. /\ met' \in MetType /\ backlog' \in Seq(Scrapers) /\ table' \subseteq Keys
      /\ peers' \in [Scrapers -> {"away", "queued", "talking", "answered"}]
      /\ met.pc \notin {"none", "gone"}
  <2>1. CASE Loop
    BY <1>3, <2>1 DEF Loop
  <2>2. CASE Poll
    <3>1. CASE backlog = <<>>
      BY <1>3, <2>2, <3>1 DEF Poll
    <3>2. CASE backlog # <<>>
      <4>1. Head(backlog) \in Scrapers /\ Tail(backlog) \in Seq(Scrapers)
        BY <1>3, <3>2
      <4>2. /\ met' = [met EXCEPT !.pc = "recv", !.peer = Head(backlog), !.io = 0]
            /\ backlog' = Tail(backlog) /\ UNCHANGED table /\ met.pc = "poll"
            /\ peers' = [peers EXCEPT ![Head(backlog)] = "talking"]
        BY <2>2, <3>2 DEF Poll
      <4>3. met' \in MetType
        BY Zenon, <1>3, <4>1, <4>2
      <4>. QED
        BY <1>3, <4>1, <4>2, <4>3
    <3>. QED
      BY <3>1, <3>2
  <2>3. CASE Recv
    <3>1. met.io + 1 \in Nat
      BY <1>3
    <3>2. met' \in MetType
      <4>1. CASE met' = [met EXCEPT !.pc = "render", !.io = 0]
        BY Zenon, <1>3, <4>1
      <4>2. CASE met' = [met EXCEPT !.pc = "send", !.io = 0]
        BY Zenon, <1>3, <4>2
      <4>3. CASE met' = [met EXCEPT !.io = @ + 1]
        BY <1>3, <3>1, <4>3
      <4>. QED
        BY <2>3, <4>1, <4>2, <4>3 DEF Recv
    <3>. QED
      BY <1>3, <2>3, <3>2 DEF Recv
  <2>4. CASE Render
    <3>1. met' \in MetType
      <4>1. CASE met' = [met EXCEPT !.pc = "walk", !.key = 0, !.n = 0]
        BY Zenon, <1>3, <4>1
      <4>2. CASE met' = [met EXCEPT !.pc = "send"]
        BY <1>3, <4>2
      <4>. QED
        BY <2>4, <4>1, <4>2 DEF Render
    <3>. QED
      BY <1>3, <2>4, <3>1 DEF Render
  <2>5. CASE Walk
    <3>1. NextKeys(met.key) # {} => Min(NextKeys(met.key)) \in Nat
      <4>1. NextKeys(met.key) \in SUBSET Nat
        BY Zenon, <1>3, ThreadsAssumption DEF NextKeys
      <4>. QED
        BY <4>1, LeastKey
    <3>2. met.n + 1 \in Nat
      BY <1>3
    <3>3. met' \in MetType
      <4>1. CASE met' = [met EXCEPT !.pc = "send", !.key = 0, !.n = 0]
        BY Zenon, <1>3, <4>1
      <4>2. CASE NextKeys(met.key) # {} /\ met' = [met EXCEPT !.key = Min(NextKeys(met.key)), !.n = @ + 1]
        <5> DEFINE k == Min(NextKeys(met.key))
        <5>1. k \in Nat /\ met' = [met EXCEPT !.key = k, !.n = @ + 1]
          BY <3>1, <4>2
        <5> HIDE DEF k
        <5>. QED
          BY Zenon, <1>3, <3>2, <5>1
      <4>. QED
        BY <2>5, <4>1, <4>2 DEF Walk
    <3>. QED
      BY <1>3, <2>5, <3>3 DEF Walk
  <2>6. CASE Send
    <3>1. met.io + 1 \in Nat
      BY <1>3
    <3>2. met' \in MetType
      <4>1. CASE met' = [met EXCEPT !.io = @ + 1]
        BY <1>3, <3>1, <4>1
      <4>2. CASE met' = [met EXCEPT !.pc = "loop", !.peer = "nobody", !.io = 0]
        BY Zenon, <1>3, <4>2
      <4>. QED
        BY <2>6, <4>1, <4>2 DEF Send
    <3>3. peers' \in [Scrapers -> {"away", "queued", "talking", "answered"}]
      BY <1>3, <2>6 DEF Send
    <3>. QED
      BY <1>3, <2>6, <3>2, <3>3 DEF Send
  <2>. QED
    BY <2>1, <2>2, <2>3, <2>4, <2>5, <2>6 DEF Metrics
<1>5. ThTypeOK'
  BY <1>1, <1>2, <1>4 DEF ThTypeOK
<1>. QED
  BY <1>2, <1>4, <1>5, OtherStep

\* Clients, the data plane and the signal.
LEMMA OutsideInv ==
  ASSUME ThInv, Signal \/ Exited \/ (\E p \in Scrapers : Connect(p)) \/ (\E k \in Keys : Flow(k))
  PROVE  ThInv'
<1>1. ThTypeOK
  BY DEF ThInv
<1>2. UNCHANGED <<pt, at, alive, enabled, api, sess, met, mstop>>
  BY DEF Signal, Exited, Connect, Flow, vars, apivars, metvars
<1>3. /\ signal' \in BOOLEAN /\ backlog' \in Seq(Scrapers) /\ table' \subseteq Keys
      /\ peers' \in [Scrapers -> {"away", "queued", "talking", "answered"}]
  <2>1. CASE Signal \/ Exited
    BY Zenon, <1>1, <2>1 DEF ThTypeOK, Signal, Exited, vars, metvars
  <2>2. ASSUME NEW p \in Scrapers, Connect(p)
        PROVE  /\ signal' = signal /\ backlog' \in Seq(Scrapers) /\ table' = table
               /\ peers' \in [Scrapers -> {"away", "queued", "talking", "answered"}]
    BY <1>1, <2>2 DEF ThTypeOK, Connect
  <2>3. ASSUME NEW k \in Keys, Flow(k)
        PROVE  UNCHANGED <<signal, backlog, peers>> /\ table' \subseteq Keys
    BY <1>1, <2>3 DEF ThTypeOK, Flow
  <2>. QED
    BY <1>1, <2>1, <2>2, <2>3 DEF ThTypeOK
<1>4. ThTypeOK'
  BY <1>1, <1>2, <1>3 DEF ThTypeOK
<1>. QED
  BY <1>2, <1>4, OtherStep

LEMMA ThNextInv == ThInv /\ [ThNext]_vars => ThInv'
<1>1. ThInv /\ UNCHANGED vars => ThInv'
  BY ZenonT(60) DEF ThInv, ThTypeOK, vars, apivars, metvars, Dies
<1>. QED
  BY <1>1, MainInv, WorkerInv, SessionInv, MetricsInv, OutsideInv DEF ThNext

\* The inductive invariant.
THEOREM ThInvariant == ThSpec => []ThInv
<1>1. ThInit => ThInv
  BY ThInitInv
<1>2. ThInv /\ [ThNext]_vars => ThInv'
  BY ThNextInv
<1>. QED
  BY <1>1, <1>2, PTL DEF ThSpec

\* daemon.h:13: no thread is ever inside an object that is destroyed, for any number of
\* sessions and scrapers, also when a start() throws and the destructors run without
\* the stops of run().
THEOREM NothingUsedAfterItsEndAlways == ThSpec => []NothingUsedAfterItsEnd
<1>1. ThInv => NothingUsedAfterItsEnd
  <2> SUFFICES ASSUME ThInv PROVE NothingUsedAfterItsEnd
    OBVIOUS
  <2>1. ThTypeOK /\ at \in 1 .. 33 /\ alive = {c \in Members : at <= Dies(c)}
    BY InvAt DEF ThInv
  <2>2. /\ at >= 18 => met.pc \in {"none", "gone"}
        /\ at >= 22 => api = "down" /\ \A s \in Sessions : sess[s] = "idle"
        /\ at >= 26 => pt["health"].pc \in {"none", "gone"}
        /\ at >= 29 => pt["neighbors"].pc \in {"none", "gone"}
    BY <2>1, InvAt
  <2>3. /\ at < 18 => Members \subseteq alive
        /\ at < 22 => Members \ {"metrics"} \subseteq alive
        /\ at < 26 => {"health", "neighbors", "state"} \subseteq alive
        /\ at < 29 => {"neighbors", "state"} \subseteq alive
    BY <2>1, DiesIs DEF Members
  <2>4. ASSUME NEW w \in Workers PROVE WorkerUses(w) \subseteq alive
    BY <2>1, <2>2, <2>3, ThreadsAssumption DEF WorkerUses
  <2>5. ASSUME NEW s \in Sessions PROVE SessionUses(s) \subseteq alive
    <3>1. CASE at >= 22
      BY <2>2, <3>1 DEF SessionUses
    <3>2. CASE at < 22
      <4>1. sess[s] \in {"idle", "cmd", "params", "assign", "wake"}
        BY <2>1 DEF ThTypeOK
      <4>2. SessionUses(s) \subseteq Members \ {"metrics"}
        BY <4>1 DEF SessionUses, Members
      <4>. QED
        BY <2>3, <3>2, <4>2
    <3>. QED
      BY <2>1, <3>1, <3>2
  <2>6. MetricsUses \subseteq alive
    <3>1. CASE at >= 18
      BY <2>2, <3>1 DEF MetricsUses
    <3>2. CASE at < 18
      BY <2>3, <3>2 DEF MetricsUses, Members
    <3>. QED
      BY <2>1, <3>1, <3>2
  <2>. QED
    BY <2>4, <2>5, <2>6 DEF NothingUsedAfterItsEnd
<1>. QED
  BY <1>1, ThInvariant, PTL
==============================================================================
