--------------------------- MODULE PeriodicThread ----------------------------
(***************************************************************************)
(* The worker threads of the neighbour resolver and the health checker     *)
(* (periodic_thread.h): a thread runs a step, sleeps on a condition        *)
(* variable, and can be woken early or stopped. mu_ is held only between   *)
(* two actions that follow each other, so an action stands for a critical  *)
(* section. Threads runs these actions beside the rest of the daemon; what *)
(* a step does to the maps is an action of LbState.                        *)
(***************************************************************************)
EXTENDS Naturals

CONSTANT Workers   \* the objects of class PeriodicThread

VARIABLE pt   \* worker -> [pc: "none" before start(), "top", "step", "check", "sleep",
              \*            "gone"; stopping, woken: the flags;
              \*            unseen: history, a wake() that no step has begun after]

\* start(): the thread is made.
start(w) == pt[w].pc = "none" /\ pt' = [pt EXCEPT ![w].pc = "top"]

\* The head of the loop; the lock is released before the step begins.
Top(w) ==
    /\ pt[w].pc = "top"
    /\ pt' = IF pt[w].stopping THEN [pt EXCEPT ![w].pc = "gone"]
                               ELSE [pt EXCEPT ![w].pc = "step", ![w].unseen = FALSE]

\* Mistake: the flag is cleared on the way to sleep.
StepDone_Clears(w) ==
    pt[w].pc = "step" /\ pt' = [pt EXCEPT ![w].pc = "check", ![w].woken = FALSE]

\* step() returns and the lock is taken again.
StepDone(w) == pt[w].pc = "step" /\ pt' = [pt EXCEPT ![w].pc = "check"]

\* Mistake: a wait without a predicate, which knows nothing of earlier calls.
Sleep_NoPredicate(w) == pt[w].pc = "check" /\ pt' = [pt EXCEPT ![w].pc = "sleep"]

\* wait_for looks at the predicate before it sleeps.
Sleep(w) ==
    /\ pt[w].pc = "check"
    /\ pt' = IF pt[w].stopping \/ pt[w].woken THEN [pt EXCEPT ![w].pc = "top", ![w].woken = FALSE]
                                              ELSE [pt EXCEPT ![w].pc = "sleep"]

\* The pause is over.
Timeout(w) ==
    /\ pt[w].pc = "sleep"
    /\ pt' = [pt EXCEPT ![w].pc = "top", ![w].woken = FALSE]

\* notify_all reaches a thread that sleeps, and no other.
Notified(w) == IF pt[w].pc = "sleep" THEN "check" ELSE pt[w].pc

wake(w) == pt' = [pt EXCEPT ![w].pc = Notified(w), ![w].woken = TRUE, ![w].unseen = TRUE]

\* stop() sets the flag, then joins outside the lock a thread that was started.
stop(w) == pt' = [pt EXCEPT ![w].pc = Notified(w), ![w].stopping = TRUE]
Joined(w) == pt[w].pc \in {"none", "gone"}

PTInit == pt = [w \in Workers |-> [pc |-> "none", stopping |-> FALSE, woken |-> FALSE,
                                   unseen |-> FALSE]]

\* What the scheduler runs; the end of the pause is left to the clock.
PTThread(w) == Top(w) \/ StepDone(w) \/ Sleep(w)

------------------------------------------------------------------------------
\* "woken early" (periodic_thread.h:3): after a call of wake() a whole step begins,
\* without waiting for the pause to end, however the call falls between the step,
\* the test of the predicate and the sleep. The resolver relies on it when a real
\* is added (commands.cpp:115); no other worker is woken.
WakeIsSeen == pt["neighbors"].unseen ~> ~pt["neighbors"].unseen \/ pt["neighbors"].stopping
==============================================================================
