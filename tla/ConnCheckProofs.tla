--------------------------- MODULE ConnCheckProofs ---------------------------
(***************************************************************************)
(* Proofs about ConnCheck, for any number of connections, any set of       *)
(* backends and any timeouts: the books balance, every connection that     *)
(* read two ids is counted once, the last snapshot is within the first,    *)
(* and, when epoll_wait has room for every event, a timeout is never       *)
(* counted for a connection whose answer could be read.                    *)
(*                                                                         *)
(* A step changes one connection's record and the counters. Balanced says  *)
(* that the counters change as the record does; it holds of each operation *)
(* of the client and composes, so that a handler that calls several of     *)
(* them keeps the books (LedgerStep).                                      *)
(***************************************************************************)
EXTENDS ConnCheck, FiniteSetTheorems, TLAPS

One(x) == IF x THEN 1 ELSE 0
Total(t) == t.broken["rst"] + t.broken["eof"] + t.broken["timeout"] + t.broken["wrong_backend"]

\* From record k and counters t to record l and counters u, what is counted changes
\* the way the record does.
Balanced(k, t, l, u) ==
    /\ u.pending = t.pending + One(l.state = "Connecting") - One(k.state = "Connecting")
    /\ u.failed = t.failed + One(l.state = "ConnectFailed") - One(k.state = "ConnectFailed")
    /\ u.established = t.established + One(l.state \in {"Open", "Broken"})
                                     - One(k.state \in {"Open", "Broken"})
    /\ Total(u) = Total(t) + One(l.state = "Broken") - One(k.state = "Broken")
    /\ \A b \in Known : u.byBackend[b] = t.byBackend[b] + One(l.state = "Broken" /\ l.backend = b)
                                                        - One(k.state = "Broken" /\ k.backend = b)

LEMMA OneType == \A x : One(x) \in {0, 1}
BY DEF One

\* The books balance over two operations if they do over each.
LEMMA BalancedTrans ==
  ASSUME NEW k, NEW l, NEW m, NEW t \in Tally, NEW u \in Tally, NEW v \in Tally,
         Balanced(k, t, l, u), Balanced(l, u, m, v)
  PROVE  Balanced(k, t, m, v)
<1>1. /\ t.pending \in Int /\ t.failed \in Int /\ t.established \in Int /\ Total(t) \in Int
      /\ \A b \in Known : t.byBackend[b] \in Int
  BY DEF Tally, Total, Causes
<1>2. v.pending = t.pending + One(m.state = "Connecting") - One(k.state = "Connecting")
  BY <1>1, OneType DEF Balanced
<1>3. v.failed = t.failed + One(m.state = "ConnectFailed") - One(k.state = "ConnectFailed")
  BY <1>1, OneType DEF Balanced
<1>4. v.established = t.established + One(m.state \in {"Open", "Broken"})
                                    - One(k.state \in {"Open", "Broken"})
  BY <1>1, OneType DEF Balanced
<1>5. Total(v) = Total(t) + One(m.state = "Broken") - One(k.state = "Broken")
  BY <1>1, OneType DEF Balanced
<1>6. ASSUME NEW b \in Known
      PROVE  v.byBackend[b] = t.byBackend[b] + One(m.state = "Broken" /\ m.backend = b)
                                             - One(k.state = "Broken" /\ k.backend = b)
  BY <1>1, OneType DEF Balanced
<1>. QED
  BY <1>2, <1>3, <1>4, <1>5, <1>6 DEF Balanced

\* Nothing that is counted changes.
LEMMA BalancedSame ==
  ASSUME NEW k, NEW l, NEW t \in Tally, l.state = k.state,
         l.backend = k.backend \/ k.state # "Broken"
  PROVE  Balanced(k, t, l, t)
<1>1. /\ t.pending \in Int /\ t.failed \in Int /\ t.established \in Int /\ Total(t) \in Int
      /\ \A b \in Known : t.byBackend[b] \in Int
  BY DEF Tally, Total, Causes
<1>. QED
  BY <1>1 DEF Balanced, One

------------------------------------------------------------------------------
\* break_conn counts an open connection, and only that, by cause and by backend.
Broke(k, t, cause, r) ==
    /\ r.k \in Conn /\ r.t \in Tally /\ Balanced(k, t, r.k, r.t)
    /\ r.k.backend = k.backend /\ r.k.sent = k.sent
    /\ r.k.state = IF k.state = "Open" THEN "Broken" ELSE k.state
    /\ k.state # "Open" \/ cause # "wrong_backend" =>
          r.t.broken["wrong_backend"] = t.broken["wrong_backend"]
    /\ k.state = "Open" /\ cause = "wrong_backend" =>
          r.t.broken["wrong_backend"] = t.broken["wrong_backend"] + 1

LEMMA BreakConnFacts ==
  ASSUME NEW k \in Conn, NEW t \in Tally, NEW cause \in Causes
  PROVE  Broke(k, t, cause, BreakConn(k, t, cause))
<1>1. CASE k.state # "Open"
  <2>1. BreakConn(k, t, cause) = [k |-> k, t |-> t]
    BY <1>1 DEF BreakConn
  <2>2. t.broken["wrong_backend"] \in Int
    BY DEF Tally, Causes
  <2>. QED
    BY <1>1, <2>1, <2>2, BalancedSame DEF One, Broke
<1>2. CASE k.state = "Open"
  <2> DEFINE l == [k EXCEPT !.state = "Broken"]
             u == [t EXCEPT !.broken[cause] = @ + 1, !.byBackend[k.backend] = @ + 1]
  <2>1. BreakConn(k, t, cause) = [k |-> l, t |-> u]
    BY <1>2 DEF BreakConn
  <2>2. l \in Conn /\ l.state = "Broken" /\ l.backend = k.backend /\ l.sent = k.sent
    BY DEF Conn
  <2>3. /\ t.broken \in [Causes -> Int] /\ t.byBackend \in [Known -> Int] /\ k.backend \in Known
        /\ t.pending \in Int /\ t.failed \in Int /\ t.established \in Int
    BY DEF Tally, Conn
  <2>4. /\ u \in Tally /\ u.pending = t.pending /\ u.failed = t.failed
        /\ u.established = t.established
        /\ u.broken = [t.broken EXCEPT ![cause] = @ + 1]
        /\ u.byBackend = [t.byBackend EXCEPT ![k.backend] = @ + 1]
    <3> DEFINE brk == [t.broken EXCEPT ![cause] = @ + 1]
               byb == [t.byBackend EXCEPT ![k.backend] = @ + 1]
    <3>1. brk \in [Causes -> Int] /\ byb \in [Known -> Int]
      BY <2>3
    <3>2. u = [t EXCEPT !.broken = brk, !.byBackend = byb]
      BY DEF Tally
    <3> HIDE DEF brk, byb, u
    <3>3. /\ u.pending = t.pending /\ u.failed = t.failed /\ u.established = t.established
          /\ u.broken = brk /\ u.byBackend = byb
      BY <3>2 DEF Tally
    <3>4. u \in Tally
      BY Zenon, <3>1, <3>2 DEF Tally
    <3>. QED
      BY <3>3, <3>4 DEF brk, byb
  <2> HIDE DEF l, u
  <2>5. /\ Total(u) = Total(t) + 1
        /\ cause = "wrong_backend" =>
              u.broken["wrong_backend"] = t.broken["wrong_backend"] + 1
        /\ cause # "wrong_backend" =>
              u.broken["wrong_backend"] = t.broken["wrong_backend"]
    BY <2>3, <2>4 DEF Total, Causes
  <2>6. \A b \in Known : u.byBackend[b] = t.byBackend[b] + One(b = k.backend)
    BY <2>3, <2>4 DEF One
  <2>7. Balanced(k, t, l, u)
    <3>1. Total(t) \in Int
      BY <2>3 DEF Total, Causes
    <3>. QED
      BY <1>2, <2>2, <2>3, <2>4, <2>5, <2>6, <3>1 DEF Balanced, One
  <2>8. BreakConn(k, t, cause).k = l /\ BreakConn(k, t, cause).t = u
    BY <2>1
  <2>. QED
    BY Zenon, <1>2, <2>2, <2>4, <2>5, <2>7, <2>8 DEF Broke
<1>. QED
  BY <1>1, <1>2

\* fail_connect
LEMMA FailConnectFacts ==
  ASSUME NEW k \in Conn, NEW t \in Tally, k.state \in {"Idle", "Connecting"}
  PROVE  LET r == FailConnect(k, t)
         IN  /\ r.k \in Conn /\ r.t \in Tally /\ Balanced(k, t, r.k, r.t)
             /\ r.k.backend = k.backend /\ r.k.sent = k.sent /\ r.k.state = "ConnectFailed"
             /\ r.t.broken = t.broken
<1> DEFINE l == [k EXCEPT !.state = "ConnectFailed"]
           u == [t EXCEPT !.pending = IF k.state = "Connecting" THEN @ - 1 ELSE @, !.failed = @ + 1]
<1>1. FailConnect(k, t) = [k |-> l, t |-> u]
  BY DEF FailConnect
<1>2. l \in Conn /\ l.state = "ConnectFailed" /\ l.backend = k.backend /\ l.sent = k.sent
  BY DEF Conn
<1>4. /\ t.pending \in Int /\ t.failed \in Int /\ t.established \in Int /\ Total(t) \in Int
      /\ \A b \in Known : t.byBackend[b] \in Int
  BY DEF Tally, Total, Causes
<1>3. /\ u \in Tally /\ u.pending = t.pending - One(k.state = "Connecting")
      /\ u.failed = t.failed + 1 /\ u.established = t.established
      /\ u.broken = t.broken /\ u.byBackend = t.byBackend
  <2> DEFINE n == IF k.state = "Connecting" THEN t.pending - 1 ELSE t.pending
             f == t.failed + 1
  <2>1. n \in Int /\ f \in Int /\ n = t.pending - One(k.state = "Connecting")
    BY <1>4 DEF One
  <2>2. u = [t EXCEPT !.pending = n, !.failed = f]
    BY DEF Tally
  <2> HIDE DEF n, u
  <2>3. u \in Tally
    BY Zenon, <2>1, <2>2 DEF Tally
  <2>. QED
    BY <2>1, <2>2, <2>3 DEF Tally
<1> HIDE DEF l, u
<1>5. Total(u) = Total(t)
  BY <1>3 DEF Total
<1>6. Balanced(k, t, l, u)
  BY <1>2, <1>3, <1>4, <1>5 DEF Balanced, One
<1>. QED
  BY <1>1, <1>2, <1>3, <1>6

\* on_connected
LEMMA ConnectedFacts ==
  ASSUME now \in Nat, NEW k \in Conn, NEW t \in Tally, k.state = "Connecting"
  PROVE  LET r == Connected(k, t)
         IN  /\ r.k \in Conn /\ r.t \in Tally /\ Balanced(k, t, r.k, r.t)
             /\ r.k.backend = k.backend /\ r.k.sent = k.sent /\ r.k.state = "Open"
             /\ r.t.broken = t.broken
<1> DEFINE l == [k EXCEPT !.state = "Open", !.next = now]
           u == [t EXCEPT !.pending = @ - 1, !.established = @ + 1]
<1>1. Connected(k, t) = [k |-> l, t |-> u]
  BY DEF Connected
<1>2. l \in Conn /\ l.state = "Open" /\ l.backend = k.backend /\ l.sent = k.sent
  <2>1. now \in Int
    OBVIOUS
  <2>. QED
    BY Zenon, <2>1 DEF Conn
<1>4. /\ t.pending \in Int /\ t.failed \in Int /\ t.established \in Int /\ Total(t) \in Int
      /\ \A b \in Known : t.byBackend[b] \in Int
  BY DEF Tally, Total, Causes
<1>3. /\ u \in Tally /\ u.pending = t.pending - 1 /\ u.failed = t.failed
      /\ u.established = t.established + 1
      /\ u.broken = t.broken /\ u.byBackend = t.byBackend
  <2> DEFINE n == t.pending - 1
             f == t.established + 1
  <2>1. n \in Int /\ f \in Int
    BY <1>4
  <2>2. u = [t EXCEPT !.pending = n, !.established = f]
    BY DEF Tally
  <2> HIDE DEF n, f, u
  <2>3. u \in Tally
    BY Zenon, <2>1, <2>2 DEF Tally
  <2>. QED
    BY <2>1, <2>2, <2>3 DEF Tally, n, f
<1> HIDE DEF l, u
<1>5. Total(u) = Total(t)
  BY <1>3 DEF Total
<1>6. Balanced(k, t, l, u)
  BY <1>2, <1>3, <1>4, <1>5 DEF Balanced, One
<1>. QED
  BY <1>1, <1>2, <1>3, <1>6

\* send_heartbeat: the heartbeat is out, or the connection is broken, never as one that
\* was answered by a wrong backend.
LEMMA SendFacts ==
  ASSUME now \in Nat, NEW c \in Conns, net[c] \in Net,
         NEW k \in Conn, NEW t \in Tally, k.state = "Open"
  PROVE  LET r == SendHeartbeat(c, k, t)
         IN  /\ r.k \in Conn /\ r.t \in Tally /\ Balanced(k, t, r.k, r.t)
             /\ r.k.backend = k.backend /\ r.k.state \in {"Open", "Broken"}
             /\ r.t.broken["wrong_backend"] = t.broken["wrong_backend"]
<1>1. CASE net[c].ended \in {"rst", "timeout"}
  <2>1. SendHeartbeat(c, k, t) = BreakConn(k, t, net[c].ended)
    BY <1>1 DEF SendHeartbeat
  <2>2. net[c].ended \in Causes /\ net[c].ended # "wrong_backend"
    BY <1>1 DEF Causes
  <2>3. t.broken["wrong_backend"] \in Int
    BY DEF Tally, Causes
  <2>4. Broke(k, t, net[c].ended, SendHeartbeat(c, k, t))
    BY <2>1, <2>2, BreakConnFacts
  <2>. QED
    BY <2>2, <2>3, <2>4 DEF Broke
<1>2. CASE net[c].ended \notin {"rst", "timeout"}
  <2> DEFINE l == [k EXCEPT !.sent = now]
  <2>1. SendHeartbeat(c, k, t) = [k |-> l, t |-> t]
    BY <1>2 DEF SendHeartbeat
  <2>2. now \in Int
    OBVIOUS
  <2>3. l \in Conn /\ l.state = k.state /\ l.backend = k.backend
    BY <2>2 DEF Conn
  <2> HIDE DEF l
  <2>. QED
    BY <2>1, <2>3, BalancedSame
<1>. QED
  BY <1>1, <1>2

\* consume_lines: the first id is the connection's backend, and a different one breaks it.
Wrong(k, replies) ==
    k.state = "Open" /\ k.backend # Unknown /\ replies \notin {{}, {k.backend}}

Consumed(k, t, replies, r) ==
    /\ r.k \in Conn /\ r.t \in Tally /\ Balanced(k, t, r.k, r.t)
    /\ r.k.state = IF Wrong(k, replies) THEN "Broken" ELSE k.state
    /\ \/ r.k.backend = k.backend
       \/ k.state = "Open" /\ k.backend = Unknown /\ replies = {r.k.backend}
    /\ replies # {} /\ k.state = "Open" => r.k.backend # Unknown /\ r.k.sent = NoHb
    /\ replies = {} \/ k.state # "Open" => r.k = k
    /\ r.t.broken["wrong_backend"] = t.broken["wrong_backend"] + One(Wrong(k, replies))

LEMMA ConsumeFacts ==
  ASSUME now \in Nat, NEW k \in Conn, NEW t \in Tally,
         NEW replies \in {{}} \cup {{b} : b \in Backends}
  PROVE  Consumed(k, t, replies, ConsumeLines(k, t, replies))
<1> DEFINE r == ConsumeLines(k, t, replies)
           wrong == Wrong(k, replies)
<1> SUFFICES Consumed(k, t, replies, r)
  OBVIOUS
<1>0. t.broken["wrong_backend"] \in Int
  BY DEF Tally, Causes
<1>1. CASE replies = {} \/ k.state # "Open"
  <2>1. r = [k |-> k, t |-> t]
    BY <1>1 DEF ConsumeLines
  <2>2. ~wrong /\ One(wrong) = 0
    BY <1>1 DEF One, Wrong
  <2>3. Balanced(k, t, k, t)
    BY BalancedSame
  <2> HIDE DEF r
  <2>. QED
    BY <1>0, <1>1, <2>1, <2>2, <2>3 DEF Consumed
<1>2. CASE replies # {} /\ k.state = "Open"
  <2>1. PICK id \in Backends : replies = {id}
    BY <1>2
  <2>2. id = CHOOSE b \in replies : TRUE
    BY <2>1
  <2>3. id \in Known /\ id # Unknown
    BY CCAssumption DEF Known, Unknown
  <2> DEFINE heard == [k EXCEPT !.sent = NoHb, !.next = now + Heartbeat]
  <2>4. r = IF k.backend = Unknown THEN [k |-> [heard EXCEPT !.backend = id], t |-> t]
            ELSE IF id = k.backend THEN [k |-> heard, t |-> t]
            ELSE BreakConn(heard, t, "wrong_backend")
    BY <1>2, <2>2 DEF ConsumeLines
  <2>5. /\ heard \in Conn /\ heard.state = "Open" /\ heard.backend = k.backend
        /\ heard.sent = NoHb
    <3>1. now + Heartbeat \in Int /\ NoHb \in Int
      BY CCAssumption DEF NoHb
    <3>. QED
      BY Zenon, <1>2, <3>1 DEF Conn
  <2> HIDE DEF heard, r
  <2>6. Balanced(k, t, heard, t)
    BY <1>2, <2>5, BalancedSame
  <2>7. CASE k.backend = Unknown
    <3> DEFINE l == [heard EXCEPT !.backend = id]
    <3>1. l \in Conn /\ l.state = "Open" /\ l.backend = id /\ l.sent = NoHb
      BY <2>3, <2>5 DEF Conn
    <3>2. r.k = l /\ r.t = t
      BY <2>4, <2>7
    <3> HIDE DEF l
    <3>3. Balanced(k, t, l, t)
      BY <1>2, <3>1, BalancedSame
    <3>4. ~wrong /\ One(wrong) = 0
      BY <2>7 DEF One, Wrong
    <3>. QED
      BY <1>0, <1>2, <2>1, <2>3, <2>7, <3>1, <3>2, <3>3, <3>4 DEF Consumed
  <2>8. CASE k.backend # Unknown /\ id = k.backend
    <3>1. r.k = heard /\ r.t = t
      BY <2>4, <2>8
    <3>2. ~wrong /\ One(wrong) = 0
      BY <2>1, <2>8 DEF One, Wrong
    <3>. QED
      BY <1>0, <1>2, <2>5, <2>6, <2>8, <3>1, <3>2 DEF Consumed
  <2>9. CASE k.backend # Unknown /\ id # k.backend
    <3>1. r = BreakConn(heard, t, "wrong_backend")
      BY <2>4, <2>9
    <3>2. wrong /\ One(wrong) = 1
      BY <1>2, <2>1, <2>9 DEF One, Wrong
    <3>3. "wrong_backend" \in Causes
      BY DEF Causes
    <3>4. /\ r.k \in Conn /\ r.t \in Tally /\ Balanced(heard, t, r.k, r.t)
          /\ r.k.backend = heard.backend /\ r.k.sent = heard.sent /\ r.k.state = "Broken"
          /\ r.t.broken["wrong_backend"] = t.broken["wrong_backend"] + 1
      <4>1. Broke(heard, t, "wrong_backend", r)
        BY <2>5, <3>1, <3>3, BreakConnFacts
      <4>. QED
        BY <2>5, <4>1 DEF Broke
    <3>5. Balanced(k, t, r.k, r.t)
      BY <2>6, <3>4, BalancedTrans
    <3>. QED
      BY Zenon, <1>2, <2>5, <2>9, <3>2, <3>4, <3>5 DEF Consumed
  <2>. QED
    BY <2>7, <2>8, <2>9
<1>. QED
  BY <1>1, <1>2

------------------------------------------------------------------------------
LEMMA ConnsFinite == IsFiniteSet(Conns) /\ \A S \in SUBSET Conns : IsFiniteSet(S) /\ Cardinality(S) \in Nat
<1>1. IsFiniteSet(Conns)
  BY CCAssumption, FS_Interval DEF Conns
<1>. QED
  BY <1>1, FS_Subset, FS_CardinalityType

\* Two sets of connections that differ at most in one.
LEMMA CountStep ==
  ASSUME NEW S \in SUBSET Conns, NEW T \in SUBSET Conns, NEW c \in Conns,
         \A d \in Conns \ {c} : d \in S <=> d \in T
  PROVE  Cardinality(T) = Cardinality(S) + One(c \in T) - One(c \in S)
<1>1. IsFiniteSet(S) /\ IsFiniteSet(T) /\ Cardinality(S) \in Nat /\ Cardinality(T) \in Nat
  BY ConnsFinite
<1>2. CASE c \in S <=> c \in T
  <2>1. S = T
    BY <1>2
  <2>. QED
    BY <1>1, <2>1, OneType
<1>3. CASE c \in T /\ c \notin S
  <2>1. T = S \cup {c}
    BY <1>3
  <2>. QED
    BY <1>1, <1>3, <2>1, FS_AddElement DEF One
<1>4. CASE c \in S /\ c \notin T
  <2>1. T = S \ {c}
    BY <1>4
  <2>. QED
    BY <1>1, <1>4, <2>1, FS_RemoveElement DEF One
<1>. QED
  BY <1>2, <1>3, <1>4

\* A balanced step of one connection keeps the books.
LEMMA LedgerStep ==
  ASSUME CCTypeOK, Ledger, NEW c \in Conns, NEW k \in Conn,
         conn' = [conn EXCEPT ![c] = k], tally' \in Tally, Balanced(conn[c], tally, k, tally')
  PROVE  Ledger'
<1>1. /\ conn \in [Conns -> Conn] /\ conn'[c] = k
      /\ \A d \in Conns \ {c} : conn'[d] = conn[d]
  BY DEF CCTypeOK
<1> DEFINE In(s) == {d \in Conns : conn[d].state = s}
           InNow(s) == {d \in Conns : conn'[d].state = s}
<1>2. ASSUME NEW s
      PROVE  Count(s)' = Count(s) + One(k.state = s) - One(conn[c].state = s) /\ Count(s) \in Nat
  <2>1. In(s) \in SUBSET Conns /\ InNow(s) \in SUBSET Conns
        /\ (\A d \in Conns \ {c} : d \in In(s) <=> d \in InNow(s))
        /\ (c \in InNow(s) <=> k.state = s) /\ (c \in In(s) <=> conn[c].state = s)
    BY <1>1
  <2>2. Count(s)' = Cardinality(InNow(s)) /\ Count(s) = Cardinality(In(s))
    BY DEF Count
  <2>3. /\ One(c \in InNow(s)) = One(k.state = s)
        /\ One(c \in In(s)) = One(conn[c].state = s)
    BY <2>1 DEF One
  <2> HIDE DEF In, InNow
  <2>4. Cardinality(InNow(s)) = Cardinality(In(s)) + One(c \in InNow(s)) - One(c \in In(s))
    BY <2>1, CountStep
  <2>. QED
    BY <2>1, <2>2, <2>3, <2>4, ConnsFinite
<1>3. tally'.pending = Count("Connecting")' /\ tally'.failed = Count("ConnectFailed")'
  BY <1>2 DEF Ledger, Balanced
<1>4. tally'.established = Count("Open")' + Count("Broken")'
  <2>1. \A x : One(x.state \in {"Open", "Broken"}) = One(x.state = "Open") + One(x.state = "Broken")
    BY DEF One
  <2>. QED
    BY <1>2, <2>1, OneType DEF Ledger, Balanced
<1>5. BrokenTotal' = Count("Broken")'
  <2>1. BrokenTotal = Total(tally) /\ BrokenTotal' = Total(tally')
    BY DEF BrokenTotal, Total
  <2>. QED
    BY <1>2, <2>1 DEF Ledger, Balanced
<1>6. ASSUME NEW b \in Known
      PROVE  tally'.byBackend[b] =
                 Cardinality({d \in Conns : conn'[d].state = "Broken" /\ conn'[d].backend = b})
  <2> DEFINE S == {d \in Conns : conn[d].state = "Broken" /\ conn[d].backend = b}
             T == {d \in Conns : conn'[d].state = "Broken" /\ conn'[d].backend = b}
  <2>1. S \in SUBSET Conns /\ T \in SUBSET Conns
        /\ (\A d \in Conns \ {c} : d \in S <=> d \in T)
        /\ (c \in T <=> k.state = "Broken" /\ k.backend = b)
        /\ (c \in S <=> conn[c].state = "Broken" /\ conn[c].backend = b)
    BY <1>1
  <2>2. tally.byBackend[b] = Cardinality(S)
    BY DEF Ledger
  <2>3. tally'.byBackend[b] = tally.byBackend[b] + One(k.state = "Broken" /\ k.backend = b)
                                   - One(conn[c].state = "Broken" /\ conn[c].backend = b)
    BY DEF Balanced
  <2>4. /\ One(c \in T) = One(k.state = "Broken" /\ k.backend = b)
        /\ One(c \in S) = One(conn[c].state = "Broken" /\ conn[c].backend = b)
    BY <2>1 DEF One
  <2> HIDE DEF S, T
  <2>5. Cardinality(T) = Cardinality(S) + One(c \in T) - One(c \in S)
    BY <2>1, CountStep
  <2>6. tally'.byBackend[b] = Cardinality(T)
    BY <2>2, <2>3, <2>4, <2>5
  <2>. QED
    BY <2>6 DEF T
<1>. QED
  BY <1>3, <1>4, <1>5, <1>6 DEF Ledger

\* How many ids a connection has read: at most its backend's, or two.
LEMMA IdsCount ==
  ASSUME NEW S
  PROVE  /\ \A x : S = {x} \ {Unknown} => ~(Cardinality(S) > 1)
         /\ \A a, b : a # b /\ S = {a, b} => Cardinality(S) > 1
<1>1. \A x : Cardinality({x}) = 1 /\ IsFiniteSet({x})
  BY Zenon, FS_Singleton
<1>2. Cardinality({}) = 0
  BY FS_EmptySet
<1>3. ASSUME NEW a, NEW b, a # b PROVE Cardinality({a, b}) = 2
  <2>1. Cardinality({a} \cup {b}) = Cardinality({a}) + 1
    <3>1. b \notin {a}
      BY <1>3
    <3>2. Cardinality({a} \cup {b}) = IF b \in {a} THEN Cardinality({a}) ELSE Cardinality({a}) + 1
      BY Zenon, <1>1, FS_AddElement
    <3>. QED
      BY <3>1, <3>2
  <2>2. {a, b} = {a} \cup {b}
    OBVIOUS
  <2>3. Cardinality({a}) = 1
    BY <1>1, Zenon
  <2>4. Cardinality({a} \cup {b}) = 2
    BY <2>1, <2>3
  <2>. QED
    BY <2>2, <2>4, Zenon
<1>4. ASSUME NEW x, S = {x} \ {Unknown} PROVE ~(Cardinality(S) > 1)
  <2>1. S = {} \/ S = {x}
    BY <1>4
  <2>2. CASE S = {}
    BY <1>2, <2>2
  <2>3. CASE S = {x}
    <3>1. Cardinality(S) = 1
      BY <1>1, <2>3, Zenon
    <3>. QED
      BY <3>1
  <2>. QED
    BY <2>1, <2>2, <2>3
<1>5. ASSUME NEW a, NEW b, a # b, S = {a, b} PROVE Cardinality(S) > 1
  <2>1. Cardinality({a, b}) = 2
    BY <1>3, <1>5
  <2>2. Cardinality(S) = 2
    BY <1>5, <2>1
  <2>. QED
    BY <2>2
<1>. QED
  BY Zenon, <1>4, <1>5

\* The count of the connections that read two ids, over a step of one connection.
LEMMA WrongStep ==
  ASSUME CCTypeOK, WrongBackendsCounted, NEW c \in Conns, NEW n \in Net,
         net' = [net EXCEPT ![c] = n],
         tally'.broken["wrong_backend"] = tally.broken["wrong_backend"]
             + One(Cardinality(n.ids) > 1) - One(Cardinality(net[c].ids) > 1)
  PROVE  WrongBackendsCounted'
<1> DEFINE S == {d \in Conns : Cardinality(net[d].ids) > 1}
           T == {d \in Conns : Cardinality(net'[d].ids) > 1}
<1>1. /\ net'[c] = n /\ \A d \in Conns \ {c} : net'[d] = net[d]
  BY DEF CCTypeOK
<1>2. S \in SUBSET Conns /\ T \in SUBSET Conns
      /\ (\A d \in Conns \ {c} : d \in S <=> d \in T)
      /\ (c \in T <=> Cardinality(n.ids) > 1) /\ (c \in S <=> Cardinality(net[c].ids) > 1)
  BY <1>1
<1>3. /\ One(c \in T) = One(Cardinality(n.ids) > 1)
      /\ One(c \in S) = One(Cardinality(net[c].ids) > 1)
  BY <1>2 DEF One
<1>4. tally.broken["wrong_backend"] = Cardinality(S)
  BY DEF WrongBackendsCounted
<1> HIDE DEF S, T
<1>5. Cardinality(T) = Cardinality(S) + One(c \in T) - One(c \in S)
  BY <1>2, CountStep
<1>6. tally'.broken["wrong_backend"] = Cardinality(T)
  BY <1>3, <1>4, <1>5
<1>. QED
  BY <1>6 DEF WrongBackendsCounted, T

\* No connection turns up under a backend.
LEMMA SnapshotStep ==
  ASSUME CCTypeOK, NEW c \in Conns, NEW k \in Conn, conn' = [conn EXCEPT ![c] = k],
         k.state = "Open" => conn[c].state = "Open" /\ k.backend = conn[c].backend
  PROVE  \A b \in Known : Snapshot'[b] <= Snapshot[b] /\ Snapshot[b] \in Nat /\ Snapshot'[b] \in Nat
<1> SUFFICES ASSUME NEW b \in Known
             PROVE  Snapshot'[b] <= Snapshot[b] /\ Snapshot[b] \in Nat /\ Snapshot'[b] \in Nat
  OBVIOUS
<1> DEFINE S == {d \in Conns : conn[d].state = "Open" /\ conn[d].backend = b}
           T == {d \in Conns : conn'[d].state = "Open" /\ conn'[d].backend = b}
<1>1. S \in SUBSET Conns /\ T \in SUBSET S
  BY DEF CCTypeOK
<1>2. Snapshot[b] = Cardinality(S) /\ Snapshot'[b] = Cardinality(T)
  BY DEF Snapshot
<1> HIDE DEF S, T
<1>. QED
  BY <1>1, <1>2, ConnsFinite, FS_Subset

LEMMA SnapshotType == Snapshot \in [Known -> Nat]
BY ConnsFinite DEF Snapshot

\* What a connection that is left alone has heard.
LEMMA HeardSame ==
  ASSUME NEW d \in Conns, Heard(d), conn'[d] = conn[d], net'[d] = net[d]
  PROVE  Heard(d)'
<1> DEFINE H(l, m) ==
      /\ \/ m.ids = {l.backend} \ {Unknown}
         \/ l.state = "Broken" /\ \E a, b \in Backends : a # b /\ m.ids = {a, b}
      /\ l.state \in {"Idle", "Connecting", "ConnectFailed"} =>
            l.backend = Unknown /\ ~m.hb /\ m.replies = {}
<1>1. H(conn[d], net[d])
  BY DEF Heard
<1>2. H(conn[d], net[d]) => H(conn'[d], net'[d])
  <2> HIDE DEF H
  <2>. QED
    OBVIOUS
<1>. QED
  BY <1>1, <1>2 DEF Heard

------------------------------------------------------------------------------
\* A step that changes one connection, before the run is over: it keeps the books, what
\* it says of the connection itself is right, and after the first snapshot it opens
\* nothing.
LEMMA ConnStep ==
  ASSUME CCInv, pc # "done", pc' # "done", NEW c \in Conns, NEW k \in Conn, NEW n \in Net,
         conn' = [conn EXCEPT ![c] = k], net' = [net EXCEPT ![c] = n],
         tally' \in Tally, Balanced(conn[c], tally, k, tally'),
         tally'.broken["wrong_backend"] = tally.broken["wrong_backend"]
             + One(Cardinality(n.ids) > 1) - One(Cardinality(net[c].ids) > 1),
         start # {} => /\ k.state # "Connecting"
                       /\ k.state = "Open" => conn[c].state = "Open" /\ k.backend = conn[c].backend,
         Heard(c)',
         next_idx' \in {next_idx, next_idx + 1}, next_idx' \in 0 .. N, c <= next_idx',
         UNCHANGED <<clock, now, start, end, answered, batch>>,
         todo' \subseteq Conns, pc' = "events" => pc = "events" /\ todo' \subseteq todo \ {c}
  PROVE  CCInv'
<1>1. CCTypeOK /\ Ledger /\ WrongBackendsCounted /\ LoopOK /\ Settled /\ \A d \in Conns : Heard(d)
  BY DEF CCInv
<1>2. /\ conn \in [Conns -> Conn] /\ net \in [Conns -> Net]
      /\ conn'[c] = k /\ net'[c] = n
      /\ \A d \in Conns \ {c} : conn'[d] = conn[d] /\ net'[d] = net[d]
  BY <1>1 DEF CCTypeOK
<1>3. CCTypeOK'
  BY <1>1, <1>2 DEF CCTypeOK
<1>4. Ledger'
  BY Zenon, <1>1, LedgerStep
<1>5. WrongBackendsCounted'
  BY Zenon, <1>1, WrongStep
<1>6. LoopOK'
  <2>1. next_idx \in Nat /\ next_idx' \in Nat /\ Conns \subseteq Nat
    BY <1>1, CCAssumption DEF CCTypeOK, Conns
  <2>2. ASSUME NEW d \in Conns, d > next_idx' PROVE conn'[d].state = "Idle"
    <3>1. d # c /\ d > next_idx
      BY <2>1, <2>2
    <3>. QED
      BY <1>1, <1>2, <3>1 DEF LoopOK
  <2>3. ASSUME NEW d \in Conns, pc' = "events", d \in todo'
        PROVE  conn'[d].state \in {"Connecting", "Open"}
    BY <1>1, <1>2, <2>3 DEF LoopOK
  <2>. QED
    BY <2>2, <2>3 DEF LoopOK
<1>7. Settled'
  <2>1. end' = {}
    BY <1>1 DEF Settled
  <2>2. CASE start = {}
    BY <2>1, <2>2 DEF Settled
  <2>3. CASE start # {}
    <3>0. Settled
      BY Zenon, <1>1
    <3>1. /\ next_idx = N
          /\ \A d \in Conns : /\ conn[d].state # "Connecting"
                              /\ conn[d].state = "Open" => conn[d].backend # Unknown
      BY Zenon, <2>3, <3>0 DEF Settled
    <3>2. next_idx' = N
      BY <3>1, CCAssumption
    <3>3. \A d \in Conns : /\ conn'[d].state # "Connecting"
                           /\ conn'[d].state = "Open" => conn'[d].backend # Unknown
      BY Zenon, <1>2, <2>3, <3>1
    <3>4. \A b \in Known : Snapshot'[b] <= Snapshot[b] /\ Snapshot[b] \in Nat /\ Snapshot'[b] \in Nat
      BY Zenon, <1>1, <2>3, SnapshotStep
    <3>5. ASSUME NEW s \in start, NEW b \in Known PROVE Snapshot'[b] <= s[b]
      <4>1. s[b] \in Nat
        BY Zenon, <1>1 DEF CCTypeOK
      <4>2. Snapshot[b] <= s[b]
        BY <3>0 DEF Settled
      <4>. QED
        BY <3>4, <4>1, <4>2
    <3>. QED
      BY <2>1, <3>2, <3>3, <3>5 DEF Settled
  <2>. QED
    BY <2>2, <2>3
<1>8. \A d \in Conns \ {c} : Heard(d)'
  BY Zenon, <1>1, <1>2, HeardSame
<1>. QED
  BY <1>3, <1>4, <1>5, <1>6, <1>7, <1>8 DEF CCInv

\* A step that changes no connection.
LEMMA IdleStep ==
  ASSUME CCInv, CCTypeOK', LoopOK', Settled', UNCHANGED <<conn, net, tally>>
  PROVE  CCInv'
<1>1. Ledger'
  BY DEF CCInv, Ledger, Count, BrokenTotal
<1>2. WrongBackendsCounted'
  BY DEF CCInv, WrongBackendsCounted
<1>3. \A d \in Conns : Heard(d)'
  BY Zenon DEF CCInv, Heard
<1>. QED
  BY <1>1, <1>2, <1>3 DEF CCInv

\* Nothing has been started, counted or read.
LEMMA CCInitInv == CCInit => CCInv
<1> SUFFICES ASSUME CCInit PROVE CCInv
  OBVIOUS
<1>1. Fresh \in Conn /\ Fresh.state = "Idle" /\ Fresh.backend = Unknown
  BY DEF Fresh, Conn, Known, NoHb, Unknown
<1>2. Quiet \in Net /\ Quiet.ids = {} /\ ~Quiet.hb /\ Quiet.replies = {}
  BY DEF Quiet, Net
<1>3. \A c \in Conns : conn[c] = Fresh /\ net[c] = Quiet
  BY DEF CCInit
<1>4. CCTypeOK
  <2>1. tally \in Tally
    BY DEF CCInit, Tally
  <2>2. 0 \in 0 .. N
    BY CCAssumption
  <2>. QED
    BY <1>1, <1>2, <2>1, <2>2 DEF CCInit, CCTypeOK
<1>5. Ledger
  <2>1. \A s : s # "Idle" => {c \in Conns : conn[c].state = s} = {}
    BY <1>1, <1>3
  <2>2. \A s : s # "Idle" => Count(s) = 0
    BY <2>1, FS_EmptySet DEF Count
  <2>3. \A b \in Known : {c \in Conns : conn[c].state = "Broken" /\ conn[c].backend = b} = {}
    BY <1>1, <1>3
  <2>4. \A b \in Known : tally.byBackend[b] =
          Cardinality({c \in Conns : conn[c].state = "Broken" /\ conn[c].backend = b})
    BY Zenon, <2>3, FS_EmptySet DEF CCInit
  <2>. QED
    BY <2>2, <2>4 DEF Ledger, BrokenTotal, CCInit, Causes
<1>6. WrongBackendsCounted
  <2>1. \A c \in Conns : ~(Cardinality(net[c].ids) > 1)
    BY <1>2, <1>3, FS_EmptySet
  <2>2. {c \in Conns : Cardinality(net[c].ids) > 1} = {}
    BY <2>1
  <2>. QED
    BY Zenon, <2>2, FS_EmptySet DEF WrongBackendsCounted, CCInit, Causes
<1>7. LoopOK /\ Settled
  BY <1>1, <1>3 DEF LoopOK, Settled, CCInit
<1>8. \A c \in Conns : Heard(c)
  BY Zenon, <1>1, <1>2, <1>3 DEF Heard
<1>. QED
  BY <1>4, <1>5, <1>6, <1>7, <1>8 DEF CCInv

------------------------------------------------------------------------------
\* start_connect
LEMMA StartConnectInv ==
  ASSUME CCInv, StartConnect
  PROVE  CCInv'
<1>1. CCTypeOK /\ LoopOK /\ Settled /\ \A d \in Conns : Heard(d)
  BY DEF CCInv
<1>2. /\ pc = "ramp" /\ next_idx < N /\ next_idx' = next_idx + 1
      /\ UNCHANGED <<clock, now, pc, todo, start, end, answered, batch>>
  BY DEF StartConnect
<1>3. next_idx \in Nat /\ N \in Nat /\ next_idx + 1 \in Conns /\ next_idx' \in 0 .. N
  BY <1>1, <1>2, CCAssumption DEF CCTypeOK, Conns
<1>c. PICK c \in Conns : c = next_idx + 1
  BY <1>3
<1> DEFINE k == [conn[c] EXCEPT !.state = "Connecting", !.began = now]
           t == [tally EXCEPT !.pending = @ + 1]
           through == Connected(k, t)
<1>4. conn[c].state = "Idle"
  BY <1>1, <1>3, <1>c DEF LoopOK
<1>5. start = {}
  BY <1>1, <1>2, <1>3 DEF Settled
<1>6. /\ conn[c] \in Conn /\ net[c] \in Net /\ tally \in Tally /\ todo \subseteq Conns
      /\ now \in Nat /\ now \in Int /\ conn \in [Conns -> Conn] /\ net \in [Conns -> Net]
  BY <1>1, <1>3 DEF CCTypeOK
<1>7. net[c].ids = {} /\ conn[c].backend = Unknown /\ ~net[c].hb /\ net[c].replies = {}
  BY <1>1, <1>3, <1>4 DEF Heard
<1>8. tally.broken["wrong_backend"] \in Int
  BY <1>6 DEF Tally, Causes
\* The connection record and the counters of a connect that is under way.
<1>11. k \in Conn /\ k.state = "Connecting" /\ k.backend = Unknown
  BY Zenon, <1>6, <1>7 DEF Conn
<1>12. t \in Tally /\ t.broken = tally.broken /\ Balanced(conn[c], tally, k, t)
  <2> DEFINE p == tally.pending + 1
  <2>1. /\ tally.pending \in Int /\ tally.failed \in Int /\ tally.established \in Int
        /\ Total(tally) \in Int /\ \A b \in Known : tally.byBackend[b] \in Int
    BY <1>6 DEF Tally, Total, Causes
  <2>2. p \in Int /\ t = [tally EXCEPT !.pending = p]
    BY <1>6, <2>1 DEF Tally
  <2> HIDE DEF p, t
  <2>3. /\ t \in Tally /\ t.pending = p /\ t.failed = tally.failed /\ t.broken = tally.broken
        /\ t.established = tally.established /\ t.byBackend = tally.byBackend
    BY <1>6, <2>2 DEF Tally
  <2>4. Total(t) = Total(tally)
    BY Zenon, <2>3 DEF Total
  <2>5. Balanced(conn[c], tally, k, t)
    <3> HIDE DEF k
    <3>. QED
      BY <1>4, <1>11, <2>1, <2>3, <2>4 DEF Balanced, One, p
  <2>. QED
    BY <2>3, <2>5
<1> HIDE DEF k, t, through
<1>9. /\ pc # "done" /\ pc' # "done" /\ pc' # "events" /\ start = {}
      /\ next_idx' \in {next_idx, next_idx + 1} /\ next_idx' \in 0 .. N /\ c <= next_idx'
      /\ UNCHANGED <<clock, now, start, end, answered, batch>> /\ todo' \subseteq Conns
  BY <1>2, <1>3, <1>c, <1>5, <1>6
<1>13. CASE Set(c, FailConnect(conn[c], tally)) /\ UNCHANGED net
  <2> DEFINE r == FailConnect(conn[c], tally)
  <2>1. /\ r.k \in Conn /\ r.t \in Tally /\ Balanced(conn[c], tally, r.k, r.t)
        /\ r.k.backend = conn[c].backend /\ r.k.state = "ConnectFailed"
        /\ r.t.broken = tally.broken
    BY Zenon, <1>4, <1>6, FailConnectFacts
  <2> HIDE DEF r
  <2>2. conn' = [conn EXCEPT ![c] = r.k] /\ tally' = r.t /\ net' = [net EXCEPT ![c] = net[c]]
    BY <1>3, <1>6, <1>13 DEF Set, r
  <2>3. conn'[c] = r.k /\ net'[c] = net[c]
    BY <1>3, <1>6, <2>2
  <2>4. net'[c].ids = {conn'[c].backend} \ {Unknown}
    BY <1>7, <2>1, <2>3
  <2>5. Heard(c)'
    BY <1>7, <2>1, <2>3, <2>4 DEF Heard
  <2>6. tally'.broken["wrong_backend"] = tally.broken["wrong_backend"]
            + One(Cardinality(net[c].ids) > 1) - One(Cardinality(net[c].ids) > 1)
    BY SMTT(60), <1>8, <2>1, <2>2, OneType
  <2>. QED
    BY ZenonT(60), <1>6, <1>9, <2>1, <2>2, <2>5, <2>6, ConnStep
<1>14. CASE Set(c, [k |-> k, t |-> t]) /\ net' = [net EXCEPT ![c].syn = "sent"]
  <2> DEFINE n == [net[c] EXCEPT !.syn = "sent"]
  <2>1. /\ n \in Net /\ n.ids = net[c].ids /\ n.hb = net[c].hb /\ n.replies = net[c].replies
    BY Zenon, <1>6 DEF Net
  <2>2. conn' = [conn EXCEPT ![c] = k] /\ tally' = t /\ net' = [net EXCEPT ![c] = n]
    BY <1>3, <1>6, <1>14 DEF Set
  <2> HIDE DEF n
  <2>3. conn'[c] = k /\ net'[c] = n
    BY <1>3, <1>6, <2>2
  <2>4. net'[c].ids = {conn'[c].backend} \ {Unknown}
    BY <1>7, <1>11, <2>1, <2>3
  <2>5. Heard(c)'
    BY <1>7, <1>11, <2>1, <2>3, <2>4 DEF Heard
  <2>6. tally'.broken["wrong_backend"] = tally.broken["wrong_backend"]
            + One(Cardinality(n.ids) > 1) - One(Cardinality(net[c].ids) > 1)
    BY SMTT(60), <1>8, <1>12, <2>1, <2>2, OneType
  <2>. QED
    BY Zenon, <1>9, <1>11, <1>12, <2>1, <2>2, <2>5, <2>6, ConnStep
<1>15. CASE /\ Set(c, SendHeartbeat(c, through.k, through.t))
            /\ net' = [net EXCEPT ![c].syn = "ok", ![c].hb = TRUE]
  <2> DEFINE r == SendHeartbeat(c, through.k, through.t)
             n == [net[c] EXCEPT !.syn = "ok", !.hb = TRUE]
  <2>1. /\ through.k \in Conn /\ through.t \in Tally /\ Balanced(k, t, through.k, through.t)
        /\ through.k.backend = k.backend /\ through.k.state = "Open"
        /\ through.t.broken = t.broken
    BY Zenon, <1>6, <1>11, <1>12, ConnectedFacts DEF through
  <2>2. /\ r.k \in Conn /\ r.t \in Tally /\ Balanced(through.k, through.t, r.k, r.t)
        /\ r.k.backend = through.k.backend /\ r.k.state \in {"Open", "Broken"}
        /\ r.t.broken["wrong_backend"] = through.t.broken["wrong_backend"]
    BY Zenon, <1>3, <1>6, <2>1, SendFacts
  <2>3. n \in Net /\ n.ids = net[c].ids
    BY Zenon, <1>6 DEF Net
  <2>4. conn' = [conn EXCEPT ![c] = r.k] /\ tally' = r.t /\ net' = [net EXCEPT ![c] = n]
    BY Zenon, <1>3, <1>6, <1>15 DEF Set
  <2> HIDE DEF r, n
  <2>5. conn'[c] = r.k /\ net'[c] = n
    BY <1>3, <1>6, <2>4
  <2>6. Balanced(conn[c], tally, r.k, r.t)
    <3>1. Balanced(conn[c], tally, through.k, through.t)
      BY Zenon, <1>6, <1>12, <2>1, BalancedTrans
    <3>. QED
      BY Zenon, <1>6, <2>1, <2>2, <3>1, BalancedTrans
  <2>7. net'[c].ids = {conn'[c].backend} \ {Unknown}
    BY Zenon, <1>7, <1>11, <2>1, <2>2, <2>3, <2>5
  <2>8. Heard(c)'
    BY Zenon, <2>2, <2>5, <2>7 DEF Heard
  <2>9. tally'.broken["wrong_backend"] = tally.broken["wrong_backend"]
    BY Zenon, <1>12, <2>1, <2>2, <2>4
  <2>10. tally'.broken["wrong_backend"] = tally.broken["wrong_backend"]
            + One(Cardinality(n.ids) > 1) - One(Cardinality(net[c].ids) > 1)
    BY <1>8, <2>3, <2>9, OneType
  <2>. QED
    BY Zenon, <1>9, <2>2, <2>3, <2>4, <2>6, <2>8, <2>10, ConnStep
<1>. QED
  BY <1>c, <1>13, <1>14, <1>15 DEF StartConnect, k, t, through

\* handle_event: whatever is read in one go, the connection is counted once, and as
\* wrong_backend exactly when the reply is not its backend's.
LEMMA HandleEventInv ==
  ASSUME CCInv, NEW c \in Conns, HandleEvent(c)
  PROVE  CCInv'
<1>1. CCTypeOK /\ LoopOK /\ Settled /\ Heard(c)
  BY SMTT(60) DEF CCInv
<1>2. /\ pc = "events" /\ c \in todo /\ todo' = todo \ {c}
      /\ UNCHANGED <<clock, now, pc, next_idx, start, end, answered, batch>>
  BY Zenon DEF HandleEvent
<1>3. conn[c].state \in {"Connecting", "Open"}
  BY <1>1, <1>2 DEF LoopOK
<1>4. /\ conn[c] \in Conn /\ net[c] \in Net /\ tally \in Tally /\ todo \subseteq Conns
      /\ now \in Nat /\ conn \in [Conns -> Conn] /\ net \in [Conns -> Net]
      /\ next_idx \in 0 .. N
  BY <1>1 DEF CCTypeOK
<1>5. c <= next_idx
  BY <1>1, <1>3, <1>4, CCAssumption DEF LoopOK, Conns
<1>6. tally.broken["wrong_backend"] \in Int
  BY <1>4 DEF Tally, Causes
<1>7. /\ pc # "done" /\ pc' # "done" /\ next_idx' \in {next_idx, next_idx + 1}
      /\ next_idx' \in 0 .. N /\ c <= next_idx' /\ todo' \subseteq Conns
      /\ UNCHANGED <<clock, now, start, end, answered, batch>>
      /\ pc' = "events" => pc = "events" /\ todo' \subseteq todo \ {c}
  BY <1>2, <1>4, <1>5
<1>8. net[c].ids = {conn[c].backend} \ {Unknown}
  BY <1>1, <1>3 DEF Heard
<1>9. One(Cardinality(net[c].ids) > 1) = 0
  BY <1>8, IdsCount DEF One
<1>10. conn[c].state = "Connecting" =>
         conn[c].backend = Unknown /\ ~net[c].hb /\ net[c].replies = {} /\ net[c].ids = {}
  BY <1>1, <1>8 DEF Heard
<1>11. start # {} => conn[c].state = "Open" /\ conn[c].backend # Unknown
  BY Zenon, <1>1, <1>2, <1>3 DEF Settled
<1>12. CASE conn[c].state = "Connecting" /\ net[c].syn = "err"
  <2> DEFINE r == FailConnect(conn[c], tally)
  <2>1. /\ r.k \in Conn /\ r.t \in Tally /\ Balanced(conn[c], tally, r.k, r.t)
        /\ r.k.backend = conn[c].backend /\ r.k.state = "ConnectFailed"
        /\ r.t.broken = tally.broken
    BY Zenon, <1>4, <1>12, FailConnectFacts
  <2> HIDE DEF r
  <2>2. conn' = [conn EXCEPT ![c] = r.k] /\ tally' = r.t /\ net' = [net EXCEPT ![c] = net[c]]
    BY <1>4, <1>12 DEF HandleEvent, Set, r
  <2>3. conn'[c] = r.k /\ net'[c] = net[c]
    BY <1>4, <2>2
  <2>4. net'[c].ids = {conn'[c].backend} \ {Unknown}
    BY Zenon, <1>8, <2>1, <2>3
  <2>5. Heard(c)'
    BY Zenon, <1>10, <1>12, <2>1, <2>3, <2>4 DEF Heard
  <2>6. tally'.broken["wrong_backend"] = tally.broken["wrong_backend"]
            + One(Cardinality(net[c].ids) > 1) - One(Cardinality(net[c].ids) > 1)
    BY <1>6, <2>1, <2>2, OneType
  <2>. QED
    BY Zenon, <1>4, <1>7, <2>1, <2>2, <2>5, <2>6, ConnStep
<1>13. CASE ~(conn[c].state = "Connecting" /\ net[c].syn = "err")
  <2> DEFINE new == conn[c].state = "Connecting"
             a == IF new THEN Connected(conn[c], tally) ELSE [k |-> conn[c], t |-> tally]
             b == IF new THEN SendHeartbeat(c, a.k, a.t) ELSE a
             r == ConsumeLines(b.k, b.t, net[c].replies)
             f == IF net[c].ended = "no" THEN r ELSE BreakConn(r.k, r.t, net[c].ended)
             n == [net[c] EXCEPT !.replies = {}, !.ids = @ \cup net[c].replies, !.hb = new \/ @]
             wrong == Wrong(b.k, net[c].replies)
  <2>1. conn' = [conn EXCEPT ![c] = f.k] /\ tally' = f.t /\ net' = [net EXCEPT ![c] = n]
    <3>1. Set(c, f)
          /\ net' = [net EXCEPT ![c].replies = {}, ![c].ids = @ \cup net[c].replies,
                                ![c].hb = new \/ @]
      BY Zenon, <1>13 DEF HandleEvent
    <3> HIDE DEF f, new
    <3>2. conn' = [conn EXCEPT ![c] = f.k] /\ tally' = f.t
      BY <3>1 DEF Set
    <3>3. net' = [net EXCEPT ![c] = n]
      BY Zenon, <1>4, <3>1
    <3>. QED
      BY <3>2, <3>3
  <2>2. n \in Net /\ n.ids = net[c].ids \cup net[c].replies
    <3>1. net[c].ids \cup net[c].replies \in SUBSET Backends /\ (new \/ net[c].hb) \in BOOLEAN
      BY <1>4 DEF Net
    <3> HIDE DEF new
    <3>. QED
      BY Zenon, <1>4, <3>1 DEF Net
  \* The handshake, if that is what the event was about.
  <2>3. /\ b.k \in Conn /\ b.t \in Tally /\ Balanced(conn[c], tally, b.k, b.t)
        /\ b.k.backend = conn[c].backend /\ b.k.state \in {"Open", "Broken"}
        /\ conn[c].state = "Open" => b.k = conn[c]
        /\ b.t.broken["wrong_backend"] = tally.broken["wrong_backend"]
    <3>1. CASE new
      <4>1. /\ a.k \in Conn /\ a.t \in Tally /\ Balanced(conn[c], tally, a.k, a.t)
            /\ a.k.backend = conn[c].backend /\ a.k.state = "Open" /\ a.t.broken = tally.broken
        BY Zenon, <1>4, <3>1, ConnectedFacts
      <4>2. b = SendHeartbeat(c, a.k, a.t)
        BY Zenon, <3>1
      <4> HIDE DEF a, b
      <4>3. /\ b.k \in Conn /\ b.t \in Tally /\ Balanced(a.k, a.t, b.k, b.t)
            /\ b.k.backend = a.k.backend /\ b.k.state \in {"Open", "Broken"}
            /\ b.t.broken["wrong_backend"] = a.t.broken["wrong_backend"]
        BY Zenon, <1>4, <4>1, <4>2, SendFacts
      <4>4. Balanced(conn[c], tally, b.k, b.t)
        BY Zenon, <1>4, <4>1, <4>3, BalancedTrans
      <4>. QED
        BY Zenon, <3>1, <4>1, <4>3, <4>4
    <3>2. CASE ~new
      <4>1. b.k = conn[c] /\ b.t = tally
        BY Zenon, <3>2
      <4>2. Balanced(conn[c], tally, conn[c], tally)
        BY <1>4, BalancedSame
      <4> HIDE DEF b
      <4>. QED
        BY Zenon, <1>3, <1>4, <3>2, <4>1, <4>2
    <3>. QED
      BY ZenonT(60), <3>1, <3>2
  <2> HIDE DEF b
  \* What recv had.
  <2>4. net[c].replies \in {{}} \cup {{x} : x \in Backends}
    BY SMTT(60), <1>4 DEF Net
  <2>5. /\ r.k \in Conn /\ r.t \in Tally /\ Balanced(b.k, b.t, r.k, r.t)
        /\ r.k.state = (IF wrong THEN "Broken" ELSE b.k.state)
        /\ r.k.backend = b.k.backend
              \/ (b.k.state = "Open" /\ b.k.backend = Unknown /\ net[c].replies = {r.k.backend})
        /\ (net[c].replies # {} /\ b.k.state = "Open" => r.k.backend # Unknown /\ r.k.sent = NoHb)
        /\ (net[c].replies = {} \/ b.k.state # "Open" => r.k = b.k)
        /\ r.t.broken["wrong_backend"] = b.t.broken["wrong_backend"] + One(wrong)
    <3>1. b.k \in Conn /\ b.t \in Tally /\ now \in Nat
      BY <1>4, <2>3
    <3>2. Consumed(b.k, b.t, net[c].replies, r)
      BY <2>4, <3>1, ConsumeFacts
    <3> HIDE DEF r
    <3>. QED
      BY Zenon, <3>2 DEF Consumed
  <2> HIDE DEF r, wrong
  \* The end of the connection.
  <2>6. /\ f.k \in Conn /\ f.t \in Tally /\ Balanced(r.k, r.t, f.k, f.t)
        /\ f.k.backend = r.k.backend /\ f.k.state \in {r.k.state, "Broken"}
        /\ f.t.broken["wrong_backend"] = r.t.broken["wrong_backend"]
    <3>1. CASE net[c].ended = "no"
      <4>1. f = r
        BY <3>1
      <4>. QED
        BY Zenon, <2>5, <4>1, BalancedSame
    <3>2. CASE net[c].ended # "no"
      <4>1. net[c].ended \in Causes /\ net[c].ended # "wrong_backend"
        BY <1>4, <3>2 DEF Net, Causes
      <4>2. f = BreakConn(r.k, r.t, net[c].ended)
        BY SMTT(60), <3>2
      <4>3. r.t.broken["wrong_backend"] \in Int
        BY SMTT(60), <2>5 DEF Tally, Causes
      <4>4. r.k \in Conn /\ r.t \in Tally
        BY Zenon, <2>5
      <4> HIDE DEF f
      <4>5. Broke(r.k, r.t, net[c].ended, f)
        BY SMTT(60), <4>1, <4>2, <4>4, BreakConnFacts
      <4>. QED
        BY Zenon, <4>1, <4>3, <4>5 DEF Broke
    <3>. QED
      BY ZenonT(60), <3>1, <3>2
  <2> HIDE DEF f, n
  <2>7. Balanced(conn[c], tally, f.k, f.t)
    <3>1. Balanced(conn[c], tally, r.k, r.t)
      BY Zenon, <1>4, <2>3, <2>5, BalancedTrans
    <3>. QED
      BY Zenon, <1>4, <2>5, <2>6, <3>1, BalancedTrans
  <2>8. conn'[c] = f.k /\ net'[c] = n
    BY SMTT(60), <1>4, <2>1
  <2>9. CASE wrong
    <3>1. /\ b.k.state = "Open" /\ conn[c].state = "Open" /\ b.k = conn[c]
          /\ conn[c].backend # Unknown /\ net[c].replies \notin {{}, {conn[c].backend}}
      BY Zenon, <1>3, <1>10, <2>3, <2>9 DEF wrong, Wrong
    <3>2. PICK id \in Backends : net[c].replies = {id} /\ id # conn[c].backend
      BY <2>4, <3>1
    <3>3. conn[c].backend \in Backends
      BY <1>4, <3>1 DEF Conn, Known
    <3>4. n.ids = {conn[c].backend, id}
      BY <1>8, <2>2, <3>1, <3>2
    <3>5. f.k.state = "Broken"
      BY Zenon, <2>5, <2>6, <2>9
    <3>6. Heard(c)'
      BY Zenon, <2>8, <3>2, <3>3, <3>4, <3>5 DEF Heard
    <3>7. One(Cardinality(n.ids) > 1) = 1 /\ One(wrong) = 1
      <4>1. Cardinality(n.ids) > 1
        <5>1. \A i, j : i # j /\ n.ids = {i, j} => Cardinality(n.ids) > 1
          BY Zenon, IdsCount
        <5>. QED
          BY <3>2, <3>4, <5>1, Zenon
      <4>. QED
        BY <2>9, <4>1 DEF One
    <3>8. f.t.broken["wrong_backend"] = tally.broken["wrong_backend"]
            + One(Cardinality(n.ids) > 1) - One(Cardinality(net[c].ids) > 1)
      <4>1. f.t.broken["wrong_backend"] = tally.broken["wrong_backend"] + One(wrong)
        BY Zenon, <2>3, <2>5, <2>6
      <4>. QED
        BY <1>6, <1>9, <3>7, <4>1
    <3>9. start # {} => /\ f.k.state # "Connecting"
                        /\ f.k.state = "Open" => conn[c].state = "Open" /\ f.k.backend = conn[c].backend
      BY Zenon, <3>5
    <3>. QED
      BY Zenon, <1>7, <2>1, <2>2, <2>6, <2>7, <3>6, <3>8, <3>9, ConnStep
  <2>10. CASE ~wrong
    <3>1. n.ids = {f.k.backend} \ {Unknown}
      <4>1. CASE net[c].replies = {}
        BY Zenon, <1>8, <2>2, <2>3, <2>5, <2>6, <4>1
      <4>2. CASE net[c].replies # {}
        <5>1. conn[c].state = "Open" /\ b.k = conn[c] /\ b.k.state = "Open"
          BY Zenon, <1>3, <1>10, <2>3, <4>2
        <5>2. PICK id \in Backends : net[c].replies = {id}
          BY <2>4, <4>2
        <5>3. id # Unknown
          BY CCAssumption DEF Unknown
        <5>4. conn[c].backend \in {Unknown, id}
          BY <2>10, <4>2, <5>1, <5>2 DEF wrong, Wrong
        <5>5. r.k.backend = id
          BY Zenon, <2>5, <4>2, <5>1, <5>2, <5>4
        <5>6. f.k.backend = id
          BY Zenon, <2>6, <5>5
        <5>. QED
          BY Zenon, <1>8, <2>2, <5>2, <5>3, <5>4, <5>6
      <4>. QED
        BY Zenon, <4>1, <4>2
    <3>2. f.k.state \in {"Open", "Broken"}
      BY Zenon, <2>3, <2>5, <2>6, <2>10
    <3>3. Heard(c)'
      BY Zenon, <2>8, <3>1, <3>2 DEF Heard
    <3>4. One(Cardinality(n.ids) > 1) = 0 /\ One(wrong) = 0
      BY ZenonT(60), <2>10, <3>1, IdsCount DEF One
    <3>5. f.t.broken["wrong_backend"] = tally.broken["wrong_backend"]
            + One(Cardinality(n.ids) > 1) - One(Cardinality(net[c].ids) > 1)
      <4>1. f.t.broken["wrong_backend"] = tally.broken["wrong_backend"] + One(wrong)
        BY Zenon, <2>3, <2>5, <2>6
      <4>. QED
        BY <1>6, <1>9, <3>4, <4>1
    <3>6. start # {} => /\ f.k.state # "Connecting"
                        /\ f.k.state = "Open" => conn[c].state = "Open" /\ f.k.backend = conn[c].backend
      BY Zenon, <1>11, <2>3, <2>5, <2>6, <3>2
    <3>. QED
      BY Zenon, <1>7, <2>1, <2>2, <2>6, <2>7, <3>3, <3>5, <3>6, ConnStep
  <2>. QED
    BY <2>9, <2>10
<1>. QED
  BY <1>12, <1>13

\* scan
LEMMA ScanInv ==
  ASSUME CCInv, NEW c \in Conns, Scan(c)
  PROVE  CCInv'
<1>1. CCTypeOK /\ LoopOK /\ Settled /\ Heard(c)
  BY DEF CCInv
<1>2. /\ pc = "scan" /\ pc' \in {"top", "scan"} /\ todo' = todo \ {c}
      /\ UNCHANGED <<clock, now, next_idx, start, end, answered, batch>>
  BY DEF Scan
<1>3. /\ conn[c] \in Conn /\ net[c] \in Net /\ tally \in Tally /\ todo \subseteq Conns
      /\ now \in Nat /\ conn \in [Conns -> Conn] /\ net \in [Conns -> Net]
      /\ next_idx \in 0 .. N
  BY <1>1 DEF CCTypeOK
<1>4. tally.broken["wrong_backend"] \in Int
  BY <1>3 DEF Tally, Causes
<1> DEFINE send == conn[c].state = "Open" /\ conn[c].sent = NoHb /\ now >= conn[c].next
           n == [net[c] EXCEPT !.hb = send \/ @]
<1>5. PICK r : /\ Set(c, r) /\ net' = [net EXCEPT ![c].hb = send \/ @]
               /\ \/ conn[c].state = "Connecting" /\ r = FailConnect(conn[c], tally)
                  \/ conn[c].state = "Open" /\ r = BreakConn(conn[c], tally, "timeout")
                  \/ conn[c].state = "Open" /\ r = SendHeartbeat(c, conn[c], tally)
                  \/ ~send /\ r = [k |-> conn[c], t |-> tally]
  BY DEF Scan
<1>6. n \in Net /\ n.ids = net[c].ids /\ n.replies = net[c].replies
      /\ (conn[c].state # "Open" => n.hb = net[c].hb)
  <2>1. (send \/ net[c].hb) \in BOOLEAN /\ net[c].hb \in BOOLEAN
    BY <1>3 DEF Net
  <2>2. conn[c].state # "Open" => (send \/ net[c].hb) = net[c].hb
    BY <2>1
  <2> HIDE DEF send
  <2>. QED
    BY ZenonT(60), <1>3, <2>1, <2>2 DEF Net
<1>7. conn' = [conn EXCEPT ![c] = r.k] /\ tally' = r.t /\ net' = [net EXCEPT ![c] = n]
  BY <1>3, <1>5 DEF Set
<1> HIDE DEF n, send
<1>8. conn'[c] = r.k /\ net'[c] = n
  BY <1>3, <1>7
<1>9. /\ r.k \in Conn /\ r.t \in Tally /\ Balanced(conn[c], tally, r.k, r.t)
      /\ r.k.backend = conn[c].backend
      /\ \/ r.k.state = conn[c].state
         \/ conn[c].state = "Connecting" /\ r.k.state = "ConnectFailed"
         \/ conn[c].state = "Open" /\ r.k.state = "Broken"
      /\ r.t.broken["wrong_backend"] = tally.broken["wrong_backend"]
  <2>1. CASE conn[c].state = "Connecting" /\ r = FailConnect(conn[c], tally)
    BY Zenon, <1>3, <2>1, FailConnectFacts
  <2>2. CASE conn[c].state = "Open" /\ r = BreakConn(conn[c], tally, "timeout")
    <3>1. "timeout" \in Causes /\ "timeout" # "wrong_backend"
      BY DEF Causes
    <3>2. conn[c] \in Conn /\ tally \in Tally
      BY SMTT(60), <1>3
    <3>3. Broke(conn[c], tally, "timeout", r)
      BY Zenon, <2>2, <3>1, <3>2, BreakConnFacts
    <3>. QED
      BY Zenon, <1>4, <2>2, <3>1, <3>3 DEF Broke
  <2>3. CASE conn[c].state = "Open" /\ r = SendHeartbeat(c, conn[c], tally)
    BY Zenon, <1>3, <2>3, SendFacts
  <2>4. CASE r = [k |-> conn[c], t |-> tally]
    BY Zenon, <1>3, <2>4, BalancedSame
  <2>. QED
    BY <1>5, <2>1, <2>2, <2>3, <2>4
<1>10. CASE conn[c].state = "Idle"
  <2>1. r = [k |-> conn[c], t |-> tally] /\ ~send
    BY <1>5, <1>10
  <2>2. conn' = conn /\ tally' = tally
    BY <1>3, <1>7, <2>1
  <2>3. net' = net
    <3>1. (send \/ net[c].hb) = net[c].hb
      BY <1>3, <2>1 DEF Net
    <3>. QED
      BY <1>3, <1>5, <3>1 DEF Net
  <2>4. CCTypeOK'
    BY <1>1, <1>2, <2>2, <2>3 DEF CCTypeOK
  <2>5. LoopOK'
    BY SMTT(60), <1>1, <1>2, <2>2 DEF LoopOK
  <2>6. Settled'
    BY Zenon, <1>1, <1>2, <2>2 DEF Settled, Snapshot
  <2>. QED
    BY <2>2, <2>3, <2>4, <2>5, <2>6, IdleStep
<1>11. CASE conn[c].state # "Idle"
  <2>1. c <= next_idx
    <3>1. ~(c > next_idx)
      BY <1>1, <1>11 DEF LoopOK
    <3>2. c \in Nat /\ next_idx \in Nat
      BY <1>3, CCAssumption DEF Conns
    <3>. QED
      BY <3>1, <3>2
  <2>2. /\ pc # "done" /\ pc' # "done" /\ pc' # "events"
        /\ next_idx' \in {next_idx, next_idx + 1} /\ next_idx' \in 0 .. N /\ c <= next_idx'
        /\ UNCHANGED <<clock, now, start, end, answered, batch>> /\ todo' \subseteq Conns
    BY <1>2, <1>3, <2>1
  <2>3. tally'.broken["wrong_backend"] = tally.broken["wrong_backend"]
            + One(Cardinality(n.ids) > 1) - One(Cardinality(net[c].ids) > 1)
    <3>1. tally'.broken["wrong_backend"] = tally.broken["wrong_backend"] /\ n.ids = net[c].ids
      BY Zenon, <1>6, <1>7, <1>9
    <3>2. One(Cardinality(n.ids) > 1) = One(Cardinality(net[c].ids) > 1)
      BY Zenon, <3>1
    <3>3. One(Cardinality(net[c].ids) > 1) \in Int
      BY SMTT(60), OneType
    <3>. QED
      BY <1>4, <3>1, <3>2, <3>3
  <2>4. Heard(c)'
    <3>1. \/ net'[c].ids = {conn'[c].backend} \ {Unknown}
          \/ conn'[c].state = "Broken" /\ \E a, b \in Backends : a # b /\ net'[c].ids = {a, b}
      BY Zenon, <1>1, <1>6, <1>8, <1>9 DEF Heard
    <3>2. conn'[c].state \in {"Idle", "Connecting", "ConnectFailed"} =>
             conn'[c].backend = Unknown /\ ~net'[c].hb /\ net'[c].replies = {}
      BY Zenon, <1>1, <1>6, <1>8, <1>9 DEF Heard
    <3>. QED
      BY Zenon, <3>1, <3>2 DEF Heard
  <2>5. start # {} => /\ r.k.state # "Connecting"
                      /\ r.k.state = "Open" => conn[c].state = "Open" /\ r.k.backend = conn[c].backend
    BY Zenon, <1>1, <1>2, <1>9 DEF Settled
  <2>. QED
    BY ZenonT(60), <1>6, <1>7, <1>9, <2>2, <2>3, <2>4, <2>5, ConnStep
<1>. QED
  BY <1>10, <1>11

\* The network and the server: they write nothing the client has read.
LEMMA OutsideInv ==
  ASSUME CCInv, NEW c \in Conns, Outside(c)
  PROVE  CCInv'
<1>1. CCTypeOK /\ Ledger /\ WrongBackendsCounted /\ LoopOK /\ Settled /\ \A d \in Conns : Heard(d)
  BY DEF CCInv
<1>2. /\ conn[c].state \in {"Connecting", "Open"}
      /\ UNCHANGED <<clock, now, pc, todo, next_idx, conn, tally, start, end, answered, batch>>
  BY DEF Outside
<1>3. conn[c] \in Conn /\ net[c] \in Net /\ tally \in Tally /\ net \in [Conns -> Net]
  BY <1>1 DEF CCTypeOK
<1>4. conn[c].state = "Connecting" => ~net[c].hb /\ net[c].replies = {}
  BY <1>1 DEF Heard
<1>5. PICK n \in Net : /\ net' = [net EXCEPT ![c] = n] /\ n.ids = net[c].ids
                       /\ conn[c].state = "Connecting" => ~n.hb /\ n.replies = {}
  <2>1. CASE Network(c)
    BY <1>3, <1>4, <2>1 DEF Network, Net
  <2>2. CASE ServerReplies(c)
    <3>1. PICK b \in Backends : net' = [net EXCEPT ![c].hb = FALSE, ![c].replies = {b}]
      BY Zenon, <2>2 DEF ServerReplies
    <3> DEFINE m == [net[c] EXCEPT !.hb = FALSE, !.replies = {b}]
    <3>2. m \in Net /\ m.ids = net[c].ids
      BY Zenon, <1>3 DEF Net
    <3>3. net' = [net EXCEPT ![c] = m]
      BY Zenon, <1>3, <3>1
    <3>4. conn[c].state # "Connecting"
      BY <1>4, <2>2 DEF ServerReplies
    <3> HIDE DEF m
    <3>. QED
      BY Zenon, <3>2, <3>3, <3>4
  <2>. QED
    BY Zenon, <2>1, <2>2 DEF Outside
<1>6. net'[c] = n /\ \A d \in Conns \ {c} : net'[d] = net[d]
  BY <1>3, <1>5
<1>7. CCTypeOK'
  BY Zenon, <1>1, <1>2, <1>5 DEF CCTypeOK
<1>8. Ledger' /\ LoopOK' /\ Settled'
  <2>1. Ledger'
    BY Zenon, <1>1, <1>2 DEF Ledger, Count, BrokenTotal
  <2>2. LoopOK'
    BY Zenon, <1>1, <1>2 DEF LoopOK
  <2>3. Settled'
    BY Zenon, <1>1, <1>2 DEF Settled, Snapshot
  <2>. QED
    BY SMTT(60), <2>1, <2>2, <2>3
<1>9. WrongBackendsCounted'
  <2>1. \A d \in Conns : net'[d].ids = net[d].ids
    BY <1>5, <1>6
  <2>2. {d \in Conns : Cardinality(net'[d].ids) > 1} = {d \in Conns : Cardinality(net[d].ids) > 1}
    BY Zenon, <2>1
  <2>. QED
    BY Zenon, <1>1, <1>2, <2>2 DEF WrongBackendsCounted
<1>10. Heard(c)'
  BY Zenon, <1>1, <1>2, <1>5, <1>6 DEF Heard
<1>11. \A d \in Conns \ {c} : Heard(d)'
  BY Zenon, <1>1, <1>2, <1>6, HeardSame
<1>. QED
  BY <1>7, <1>8, <1>9, <1>10, <1>11 DEF CCInv

\* The steps of the loop that leave the connections alone; the two snapshots are taken
\* here.
LEMMA LoopInv ==
  ASSUME CCInv, Tick \/ Top \/ EndRamp \/ Wait \/ EventsDone
  PROVE  CCInv'
<1>1. CCTypeOK /\ Ledger /\ LoopOK /\ Settled
  BY DEF CCInv
<1>2. UNCHANGED <<conn, net, tally, next_idx>> /\ Snapshot' = Snapshot
  BY Zenon DEF Tick, Top, Finish, EndRamp, Wait, EventsDone, Snapshot
<1>3. \A b \in Known : Snapshot[b] <= Snapshot[b]
  BY SnapshotType
<1>4. CASE Tick
  <2>1. CCTypeOK'
    BY <1>1, <1>4 DEF CCTypeOK, Tick
  <2>2. LoopOK'
    BY ZenonT(60), <1>1, <1>4 DEF LoopOK, Tick
  <2>3. Settled'
    BY <1>1, <1>2, <1>4 DEF Settled, Tick
  <2>. QED
    BY <1>2, <2>1, <2>2, <2>3, IdleStep
<1>5. CASE Top
  <2>1. CCTypeOK'
    <3>1. start' \subseteq [Known -> Nat] /\ end' \subseteq [Known -> Nat]
      BY <1>1, <1>5, SnapshotType DEF CCTypeOK, Top, Finish
    <3>. QED
      BY <1>1, <1>5, <3>1 DEF CCTypeOK, Top
  <2>2. LoopOK'
    BY <1>1, <1>2, <1>5 DEF LoopOK, Top, Finish
  <2>3. Settled'
    <3>1. CASE pc' = "ramp" /\ UNCHANGED <<start, end>>
      BY Zenon, <1>1, <1>2, <1>5, <3>1 DEF Settled, Top
    <3>2. CASE Finish
      BY Zenon, <1>1, <1>2, <1>3, <3>2 DEF Settled, Finish
    <3>. QED
      BY <1>5, <3>1, <3>2 DEF Top
  <2>. QED
    BY <1>2, <2>1, <2>2, <2>3, IdleStep
<1>6. CASE EndRamp
  <2>1. CCTypeOK'
    <3>1. start' \subseteq [Known -> Nat]
      BY Zenon, <1>1, <1>6, SnapshotType DEF CCTypeOK, EndRamp
    <3>. QED
      BY Zenon, <1>1, <1>6, <3>1 DEF CCTypeOK, EndRamp
  <2>2. LoopOK'
    <3>1. pc' # "events"
      BY Zenon, <1>6 DEF EndRamp
    <3>. QED
      BY <1>1, <1>2, <3>1 DEF LoopOK
  <2>3. Settled'
    <3>1. end' = {} /\ pc' = "wait" /\ pc # "done"
      BY Zenon, <1>1, <1>6 DEF Settled, EndRamp
    <3>2. CASE start' = start
      BY Zenon, <1>1, <1>2, <3>1, <3>2 DEF Settled
    <3>3. CASE /\ start = {} /\ next_idx = N /\ tally.pending = 0 /\ start' = {Snapshot}
               /\ \A c \in Conns : conn[c].state = "Open" => conn[c].backend # Unknown
      <4>1. Cardinality({c \in Conns : conn[c].state = "Connecting"}) = 0
        BY Zenon, <1>1, <3>3 DEF Ledger, Count
      <4>2. IsFiniteSet({c \in Conns : conn[c].state = "Connecting"})
        BY ConnsFinite, FS_Subset
      <4>3. {c \in Conns : conn[c].state = "Connecting"} = {}
        BY <4>1, <4>2, FS_EmptySet
      <4>4. \A c \in Conns : conn[c].state # "Connecting"
        BY <4>3
      <4>. QED
        BY Zenon, <1>2, <1>3, <3>1, <3>3, <4>4 DEF Settled
    <3>. QED
      BY Zenon, <1>6, <3>2, <3>3 DEF EndRamp
  <2>. QED
    BY <1>2, <2>1, <2>2, <2>3, IdleStep
<1>7. CASE Wait
  <2>1. todo' \subseteq {c \in Conns : Ready(c)}
    BY Zenon, <1>7 DEF Wait, kSubset
  <2>2. CCTypeOK'
    <3>1. todo' \subseteq Conns /\ answered' \subseteq Conns /\ batch' \subseteq Conns
      BY Zenon, <1>7, <2>1 DEF Wait
    <3>. QED
      BY Zenon, <1>1, <1>7, <3>1 DEF CCTypeOK, Wait
  <2>3. LoopOK'
    BY <1>1, <1>2, <2>1 DEF LoopOK, Ready
  <2>4. Settled'
    BY Zenon, <1>1, <1>2, <1>7 DEF Settled, Wait
  <2>. QED
    BY <1>2, <2>2, <2>3, <2>4, IdleStep
<1>8. CASE EventsDone
  <2>1. CCTypeOK'
    BY <1>1, <1>8 DEF CCTypeOK, EventsDone
  <2>2. LoopOK'
    BY ZenonT(60), <1>1, <1>8 DEF LoopOK, EventsDone
  <2>3. Settled'
    BY Zenon, <1>1, <1>2, <1>8 DEF Settled, EventsDone
  <2>. QED
    BY <1>2, <2>1, <2>2, <2>3, IdleStep
<1>. QED
  BY <1>4, <1>5, <1>6, <1>7, <1>8

LEMMA CCNextInv == CCInv /\ [CCNext]_ccvars => CCInv'
<1>1. ASSUME CCInv, UNCHANGED ccvars PROVE CCInv'
  <2>1. CCTypeOK' /\ LoopOK'
    BY Zenon, <1>1 DEF ccvars, CCInv, CCTypeOK, LoopOK
  <2>2. Settled'
    BY Zenon, <1>1 DEF ccvars, CCInv, Settled, Snapshot
  <2>. QED
    BY <1>1, <2>1, <2>2, IdleStep DEF ccvars
<1>2. ASSUME CCInv, CCNext PROVE CCInv'
  BY <1>2, LoopInv, StartConnectInv, OutsideInv, HandleEventInv, ScanInv DEF CCNext
<1>. QED
  BY <1>1, <1>2

------------------------------------------------------------------------------
\* The inductive invariant of conncheck, for any number of connections and backends and
\* any limits.
THEOREM CCInvariant == CCSpec => []CCInv
<1>1. CCInit => CCInv
  BY CCInitInv
<1>2. CCInv /\ [CCNext]_ccvars => CCInv'
  BY CCNextInv
<1>. QED
  BY <1>1, <1>2, PTL DEF CCSpec

\* conncheck.cpp:245-281, 426-432: the books balance in every state.
THEOREM LedgerAlways == CCSpec => []Ledger
<1>1. CCInv => Ledger
  BY DEF CCInv
<1>. QED
  BY <1>1, CCInvariant, PTL

\* conncheck.cpp:17: the connections that read two ids are the ones counted as
\* wrong_backend.
THEOREM WrongBackendsCountedAlways == CCSpec => []WrongBackendsCounted
<1>1. CCInv => WrongBackendsCounted
  BY DEF CCInv
<1>. QED
  BY <1>1, CCInvariant, PTL

\* conncheck.cpp:177-186, 207-208: backends_at_end is within backends_at_start.
THEOREM EndWithinStartAlways == CCSpec => []EndWithinStart
<1>1. CCInv => EndWithinStart
  BY DEF CCInv, Settled, EndWithinStart
<1>. QED
  BY <1>1, CCInvariant, PTL

------------------------------------------------------------------------------
\* epoll_wait returns every ready connection, or as many as the array has room for.
LEMMA LeftOutWhenFull ==
  ASSUME Wait
  PROVE  /\ todo' \subseteq {c \in Conns : Ready(c)}
         /\ todo' # {c \in Conns : Ready(c)} => Cardinality(todo') = MaxEvents
<1> DEFINE ready == {c \in Conns : Ready(c)}
           m == Min({MaxEvents, Cardinality(ready)})
<1>1. todo' \in SUBSET ready /\ Cardinality(todo') = m
  BY DEF Wait, kSubset
<1>2. IsFiniteSet(Conns) /\ Cardinality(Conns) = N /\ N \in Nat /\ MaxEvents \in Nat
  <2>1. N \in Nat \ {0} /\ MaxEvents \in Nat
    BY CCAssumption
  <2>2. Cardinality(1 .. N) = IF 1 > N THEN 0 ELSE N - 1 + 1
    BY <2>1, FS_Interval
  <2>. QED
    BY <2>1, <2>2, ConnsFinite DEF Conns
<1>3. ready \in SUBSET Conns
  OBVIOUS
<1> HIDE DEF ready
<1>4. IsFiniteSet(ready) /\ Cardinality(ready) \in Nat /\ Cardinality(ready) <= N
  BY <1>2, <1>3, FS_Subset, FS_CardinalityType
<1>5. m \in {MaxEvents, Cardinality(ready)}
  <2>1. \E x \in {MaxEvents, Cardinality(ready)} :
           \A y \in {MaxEvents, Cardinality(ready)} : x =< y
    BY <1>2, <1>4
  <2>. QED
    BY <2>1 DEF Min
<1> HIDE DEF m
<1>6. todo' # ready => Cardinality(todo') = MaxEvents
  BY <1>1, <1>4, <1>5, FS_Subset
<1>. QED
  BY <1>1, <1>6 DEF ready

\* What one step does to a connection: only handle_event and scan touch one that is
\* open, and only the one they are about.
LEMMA AnswersReadStep ==
  ASSUME CCInv, AnswersRead, CCNext
  PROVE  AnswersRead'
<1>1. CCTypeOK /\ LoopOK
  BY DEF CCInv
<1>2. conn \in [Conns -> Conn] /\ net \in [Conns -> Net] /\ now \in Nat /\ tally \in Tally
      /\ answered \subseteq Conns
  BY <1>1 DEF CCTypeOK
<1>3. CASE Wait
  <2>1. /\ todo' \subseteq {c \in Conns : Ready(c)}
        /\ todo' # {c \in Conns : Ready(c)} => Cardinality(todo') = MaxEvents
    BY Zenon, <1>3, LeftOutWhenFull
  <2>2. /\ batch' = todo'
        /\ answered' = {c \in Conns : conn[c].state = "Open" /\ net[c].replies # {}}
        /\ UNCHANGED <<conn, net>> /\ pc' = "events"
    BY Zenon, <1>3 DEF Wait
  <2>3. answered' \subseteq {c \in Conns : Ready(c)}
    BY <2>2 DEF Ready
  <2>. QED
    BY Zenon, <2>1, <2>2, <2>3 DEF AnswersRead
<1>4. CASE Tick \/ Top \/ EndRamp
  <2>1. UNCHANGED <<conn, net, answered, batch>> /\ pc' \notin {"events", "scan"}
    BY Zenon, <1>4 DEF Tick, Top, Finish, EndRamp
  <2>. QED
    BY <2>1 DEF AnswersRead
<1>5. CASE EventsDone
  <2>1. UNCHANGED <<conn, net, answered, batch>> /\ pc' = "scan" /\ pc = "events" /\ todo = {}
    BY <1>5 DEF EventsDone
  <2>. QED
    BY Zenon, <2>1 DEF AnswersRead
<1>6. CASE StartConnect
  <2>1. /\ pc' = "ramp" /\ UNCHANGED <<answered, batch>> /\ next_idx \in Nat
    BY <1>1, <1>6 DEF StartConnect, CCTypeOK
  <2>2. next_idx + 1 \in Conns
    BY <1>6, <2>1, CCAssumption DEF StartConnect, Conns
  <2>3. PICK r : conn' = [conn EXCEPT ![next_idx + 1] = r]
    BY <1>6 DEF StartConnect, Set
  <2>4. conn[next_idx + 1].state = "Idle"
    BY <1>1, <2>1, <2>2 DEF LoopOK
  <2>5. \A d \in answered : d # next_idx + 1
    BY <2>4 DEF AnswersRead
  <2>6. \A d \in answered : conn'[d] = conn[d]
    BY <1>2, <2>3, <2>5
  <2>. QED
    BY Zenon, <2>1, <2>6 DEF AnswersRead
<1>7. ASSUME NEW c \in Conns, Outside(c) PROVE AnswersRead'
  <2>1. UNCHANGED <<pc, todo, conn, answered, batch>>
    BY SMTT(60), <1>7 DEF Outside
  <2>2. \A d \in Conns : net[d].replies # {} => net'[d].replies # {}
    <3>1. CASE Network(c)
      BY <1>2, <3>1 DEF Network, Net
    <3>2. CASE ServerReplies(c)
      BY <1>2, <3>2 DEF ServerReplies, Net
    <3>. QED
      BY Zenon, <1>7, <3>1, <3>2 DEF Outside
  <2>. QED
    BY Zenon, <1>2, <2>1, <2>2 DEF AnswersRead
<1>8. ASSUME NEW c \in Conns, HandleEvent(c) PROVE AnswersRead'
  <2>1. pc = "events" /\ pc' = "events" /\ todo' = todo \ {c}
        /\ UNCHANGED <<answered, batch>>
    BY Zenon, <1>8 DEF HandleEvent
  <2>2. \A d \in Conns \ {c} : conn'[d] = conn[d] /\ net'[d] = net[d]
    BY ZenonT(60), <1>2, <1>8 DEF HandleEvent, Set
  <2>3. \A d \in answered \ {c} :
           /\ conn'[d].state \in {"Open", "Broken"}
           /\ d \in batch /\ conn'[d].state = "Open" /\ conn'[d].sent # NoHb => d \in todo' /\ net'[d].replies # {}
    BY Zenon, <1>2, <2>1, <2>2 DEF AnswersRead
  <2>4. ASSUME c \in answered
        PROVE  /\ conn'[c].state \in {"Open", "Broken"}
               /\ c \in batch => conn'[c].sent = NoHb
    <3> DEFINE r == ConsumeLines(conn[c], tally, net[c].replies)
               f == IF net[c].ended = "no" THEN r ELSE BreakConn(r.k, r.t, net[c].ended)
    <3>1. conn[c].state = "Open" /\ conn[c] \in Conn /\ net[c] \in Net
      BY Zenon, <1>1, <1>2, <1>8, <2>4 DEF HandleEvent, LoopOK, AnswersRead
    <3>2. c \in batch => conn[c].sent = NoHb \/ net[c].replies # {}
      BY Zenon, <2>1, <2>4, <3>1 DEF AnswersRead
    <3>3. conn'[c] = f.k
      <4>1. Set(c, f)
        BY <1>8, <3>1 DEF HandleEvent
      <4> HIDE DEF f
      <4>. QED
        BY <1>2, <4>1 DEF Set
    <3>4. net[c].replies \in {{}} \cup {{x} : x \in Backends}
      BY <3>1 DEF Net
    <3>5. /\ r.k \in Conn /\ r.k.state \in {"Open", "Broken"}
          /\ c \in batch => r.k.sent = NoHb
      <4>1. now \in Nat /\ tally \in Tally /\ conn[c] \in Conn
        BY SMTT(60), <1>2, <3>1
      <4>2. /\ r.k \in Conn
            /\ r.k.state \in {"Broken", conn[c].state}
            /\ net[c].replies # {} /\ conn[c].state = "Open" => r.k.sent = NoHb
            /\ net[c].replies = {} => r.k = conn[c]
        <5>1. Consumed(conn[c], tally, net[c].replies, r)
          BY Zenon, <3>4, <4>1, ConsumeFacts
        <5> HIDE DEF r
        <5>. QED
          BY Zenon, <5>1 DEF Consumed
      <4> HIDE DEF r
      <4>. QED
        BY Zenon, <3>1, <3>2, <4>2
    <3> HIDE DEF r
    <3>6. f.k = r.k \/ f.k = [r.k EXCEPT !.state = "Broken"]
      BY DEF BreakConn
    <3> HIDE DEF f
    <3>7. /\ f.k.state \in {"Open", "Broken"}
          /\ c \in batch => f.k.sent = NoHb
      BY <3>5, <3>6 DEF Conn
    <3>. QED
      BY SMTT(60), <3>3, <3>7
  <2>. QED
    BY Zenon, <1>2, <2>1, <2>3, <2>4 DEF AnswersRead
<1>9. ASSUME NEW c \in Conns, Scan(c) PROVE AnswersRead'
  <2>1. /\ pc = "scan" /\ pc' \in {"top", "scan"} /\ todo' = todo \ {c}
        /\ UNCHANGED <<answered, batch>>
        /\ c \in todo
    BY <1>9 DEF Scan
  <2>2. \A d \in Conns \ {c} : conn'[d] = conn[d]
    BY <1>2, <1>9 DEF Scan, Set
  <2>3. ASSUME c \in answered PROVE conn'[c].state \in {"Open", "Broken"}
    <3>1. conn[c].state \in {"Open", "Broken"} /\ conn[c] \in Conn
      BY Zenon, <1>2, <2>3 DEF AnswersRead
    <3>2. PICK r : Set(c, r) /\ (r = BreakConn(conn[c], tally, "timeout")
                                  \/ r = SendHeartbeat(c, conn[c], tally)
                                  \/ r = [k |-> conn[c], t |-> tally])
      BY <1>9, <3>1 DEF Scan
    <3>3. r.k.state \in {"Open", "Broken"}
      BY <3>1, <3>2 DEF BreakConn, SendHeartbeat, Conn
    <3>. QED
      BY <1>2, <3>2, <3>3 DEF Set
  <2>. QED
    BY Zenon, <1>2, <2>1, <2>2, <2>3 DEF AnswersRead
<1>. QED
  BY <1>3, <1>4, <1>5, <1>6, <1>7, <1>8, <1>9 DEF CCNext

\* conncheck.cpp:161 and 188-205, for every number of connections and every size of the
\* array: a heartbeat that was answered in time is counted as a timeout only if
\* epoll_wait's array was full and the connection was not in it.
THEOREM TimeoutOnlyLeftOutAlways == CCSpec => TimeoutOnlyLeftOut
<1>1. CCInit => CCInv /\ AnswersRead
  BY Zenon, CCInitInv DEF CCInit, AnswersRead
<1>2. CCInv /\ AnswersRead /\ [CCNext]_ccvars => (CCInv /\ AnswersRead)'
  <2>1. CCInv /\ AnswersRead /\ UNCHANGED ccvars => AnswersRead'
    BY Zenon DEF ccvars, AnswersRead
  <2>. QED
    BY <2>1, CCNextInv, AnswersReadStep
<1>3. CCInv /\ AnswersRead /\ [CCNext]_ccvars =>
        [ \A c \in Conns : TimesOut(c) /\ c \in answered =>
              c \notin batch /\ Cardinality(batch) = MaxEvents ]_ccvars
  <2> SUFFICES ASSUME CCInv, AnswersRead, CCNext, NEW c \in Conns, pc = "scan",
                      conn[c].sent # NoHb, conn[c].state = "Open", conn'[c].state = "Broken",
                      c \in answered
               PROVE  c \notin batch /\ Cardinality(batch) = MaxEvents
    BY DEF TimesOut
  <2>1. conn'[c] # conn[c]
    OBVIOUS
  <2>2. PICK d \in Conns : Scan(d)
    BY <2>1 DEF CCNext, Tick, Top, StartConnect, EndRamp, Wait, EventsDone, Outside, HandleEvent
  <2>3. d = c
    BY <2>1, <2>2 DEF Scan, Set, CCInv, CCTypeOK
  <2>. QED
    BY <2>2, <2>3 DEF Scan, AnswersRead
<1>. QED
  BY <1>1, <1>2, <1>3, PTL DEF CCSpec, TimeoutOnlyLeftOut
==============================================================================
