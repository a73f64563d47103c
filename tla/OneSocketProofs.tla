--------------------------- MODULE OneSocketProofs ---------------------------
(***************************************************************************)
(* Theorems about rooms that one socket drives, for any personas, any      *)
(* number of resets and transcripts of any length: pointers only advance;  *)
(* unless the socket drops or the server stops in mid-turn, a session is   *)
(* told nothing twice; and if it is not reset either, it remembers what    *)
(* its persona said.  With two sockets none of this holds.                 *)
(***************************************************************************)
EXTENDS TurnsProofs

\* One page is open on the room.
OnePage == \E d : Drivers = {d}

\* While a turn is under way the stored pointer is at most the one it read, which lies
\* in its snapshot; a worker that has not started has a pointer in the shared snapshot.
PointersOK(d, p) ==
    LET t == turn[<<d, p>>]
    IN  /\ t.at # "idle" => session[p].seen <= t.seen /\ p \notin waiting[d]
        /\ t.at \in {"running", "replied"} => t.seen <= t.snap
        /\ p \in waiting[d] => session[p].seen <= base[d]
        /\ ~driving[d] => waiting[d] = {}

PointersInv == \A d \in Drivers, p \in Personas : PointersOK(d, p)

\* Types of what pointers are compared with.
LEMMA PointerTypes ==
    ASSUME TurnsInv, NEW d \in Drivers, NEW p \in Personas
    PROVE  /\ session[p].seen \in 0..Len(log) /\ base[d] \in 0..Len(log)
           /\ session[p].sid \in 0..Len(harness) /\ turn[<<d, p>>].sid \in 0..Len(harness)
           /\ turn[<<d, p>>].seen \in Nat /\ turn[<<d, p>>].snap \in Nat
           /\ turn[<<d, p>>].at \in {"idle", "running", "replied", "control"}
           /\ Len(log) \in Nat /\ Len(harness) \in Nat
<1>1. /\ TypeOK /\ SessionOK(p, session[p], log, harness)
      /\ TurnOK(p, turn[<<d, p>>], log, harness)
  BY DEF TurnsInv
<1>2. Len(log) \in Nat /\ Len(harness) \in Nat
  BY NothingWritten, LenProperties DEF TurnsInv, TypeOK
<1>3. /\ session[p] \in SessionType(Len(log), Len(harness))
      /\ turn[<<d, p>>] \in TurnType(Len(log), Len(harness))
  BY <1>1 DEF SessionOK, TurnOK
<1>4. base[d] \in 0..Len(log)
  BY <1>1 DEF TypeOK
<1> QED
  BY <1>2, <1>3, <1>4 DEF SessionType, TurnType

\* In a room with one socket every step keeps the pointers in order, and moves none
\* back but for a reset.
LEMMA PointersKept ==
    ASSUME OnePage, TurnsInv, PointersInv, [Next]_vars
    PROVE  /\ PointersInv'
           /\ \A p \in Personas :
                 session'[p].seen >= session[p].seen \/ resets'[p] > resets[p]
<1> DEFINE Advances(p) == session'[p].seen >= session[p].seen \/ resets'[p] > resets[p]
<1>1. PICK d : Drivers = {d}
  BY DEF OnePage
<1> SUFFICES ASSUME NEW p \in Personas PROVE PointersOK(d, p)' /\ Advances(p)
  BY <1>1 DEF PointersInv
<1>2. PointersOK(d, p)
  BY <1>1 DEF PointersInv
<1>3. /\ session[p].seen \in 0..Len(log) /\ base[d] \in 0..Len(log)
      /\ turn[<<d, p>>].seen \in Nat /\ turn[<<d, p>>].snap \in Nat
      /\ Len(log) \in Nat
  BY <1>1, PointerTypes
<1>4. /\ session = [q \in Personas |-> session[q]] /\ resets \in [Personas -> Nat]
      /\ driving = [e \in {d} |-> driving[e]] /\ base = [e \in {d} |-> base[e]]
      /\ waiting = [e \in {d} |-> waiting[e]]
      /\ turn = [dp \in {d} \X Personas |-> turn[dp]]
  BY <1>1 DEF TurnsInv, TypeOK
<1>5. ASSUME NEW targets \in SUBSET Personas, Post(d, targets)
      PROVE  PointersOK(d, p)' /\ Advances(p)
  <2>1. /\ turn[<<d, p>>].at = "idle" /\ driving'[d] /\ turn' = turn /\ session' = session
        /\ p \in waiting'[d] => base'[d] = Len(log) + 1
    BY <1>4, <1>5 DEF Post, Quiet
  <2> QED
    BY <1>3, <2>1 DEF PointersOK
<1>6. CASE FinishPost(d)
  <2>1. waiting' = waiting /\ waiting[d] = {} /\ turn' = turn /\ session' = session
    BY <1>6 DEF FinishPost
  <2> QED
    BY <1>2, <1>3, <2>1 DEF PointersOK
<1>7. CASE Disconnect(d) \/ Crash
  <2>1. /\ turn'[<<d, p>>] = Idle /\ waiting'[d] = {} /\ session' = session
    BY <1>1, <1>4, <1>7 DEF Disconnect, Crash
  <2> QED
    BY <1>3, <2>1 DEF PointersOK, Idle
<1>8. ASSUME NEW q \in Personas, NEW snap \in Nat, BeginTurn(d, q, snap) \/ StaleTurn(q, snap),
             q \notin waiting'[d], waiting'[d] \subseteq waiting[d],
             q = p => turn[<<d, p>>].at = "idle",
             UNCHANGED <<session, resets, driving, base>>
      PROVE  PointersOK(d, p)' /\ Advances(p)
  <2>1. CASE q = p /\ BeginTurn(d, q, snap)
    <3>1. /\ turn'[<<d, p>>] = [at |-> "running", sid |-> session[p].sid,
                               seen |-> session[p].seen, snap |-> snap, era |-> resets[p]]
          /\ session[p].seen <= snap
      BY <1>4, <2>1 DEF BeginTurn, PointerFound
    <3> QED
      BY <1>2, <1>3, <1>8, <2>1, <3>1 DEF PointersOK
  <2>2. CASE q # p \/ StaleTurn(q, snap)
    <3>1. turn'[<<d, p>>] = turn[<<d, p>>]
      BY <1>4, <1>8, <2>2 DEF BeginTurn, StaleTurn
    <3> QED
      BY <1>2, <1>3, <1>8, <3>1 DEF PointersOK
  <2> QED
    BY <1>8, <2>1, <2>2
<1>9. ASSUME NEW q \in Personas, StartSequential(d, q)
      PROVE  PointersOK(d, p)' /\ Advances(p)
  <2>1. /\ BeginTurn(d, q, Len(log)) \/ StaleTurn(q, Len(log))
        /\ waiting' = waiting /\ waiting[d] = {} /\ turn[<<d, p>>].at = "idle"
        /\ UNCHANGED <<session, resets, driving, base>>
    BY <1>9 DEF StartSequential, Quiet
  <2> QED
    BY <1>3, <1>8, <2>1
<1>10. ASSUME NEW q \in Personas, StartParallel(d, q)
       PROVE  PointersOK(d, p)' /\ Advances(p)
  <2>1. /\ BeginTurn(d, q, base[d]) \/ StaleTurn(q, base[d])
        /\ waiting'[d] = waiting[d] \ {q} /\ q \in waiting[d]
        /\ UNCHANGED <<session, resets, driving, base>>
    BY <1>4, <1>10 DEF StartParallel
  <2>2. q = p => turn[<<d, p>>].at = "idle"
    BY <1>2, <2>1 DEF PointersOK
  <2> QED
    BY <1>3, <1>8, <2>1, <2>2
<1>11. ASSUME NEW q \in Personas, Reply(d, q)
       PROVE  PointersOK(d, p)' /\ Advances(p)
  <2>1. UNCHANGED <<session, resets, driving, base, waiting>> /\ turn[<<d, q>>].at = "running"
    BY <1>11 DEF Reply
  <2>2. \/ turn'[<<d, p>>] = turn[<<d, p>>]
        \/ /\ turn[<<d, p>>].at = "running" /\ turn'[<<d, p>>].at = "replied"
           /\ turn'[<<d, p>>].seen = turn[<<d, p>>].seen
           /\ turn'[<<d, p>>].snap = turn[<<d, p>>].snap
    <3>1. CASE q = p
      BY <1>4, <1>11, <3>1 DEF Reply
    <3>2. CASE q # p
      BY <1>4, <1>11, <3>2 DEF Reply
    <3> QED
      BY <3>1, <3>2
  <2> QED
    BY <1>2, <1>3, <2>1, <2>2 DEF PointersOK
<1>12. ASSUME NEW q \in Personas, Fail(d, q) \/ FailControl(d, q)
       PROVE  PointersOK(d, p)' /\ Advances(p)
  <2>1. /\ UNCHANGED <<session, resets, driving, base, waiting>>
        /\ turn'[<<d, p>>] \in {turn[<<d, p>>], Idle}
    BY <1>4, <1>12 DEF Fail, FailControl
  <2> QED
    BY <1>2, <1>3, <2>1 DEF PointersOK, Idle
<1>13. ASSUME NEW q \in Personas, SaveSession(d, q) \/ EndControl(d, q)
       PROVE  PointersOK(d, p)' /\ Advances(p)
  <2>1. UNCHANGED <<resets, driving, base, waiting>>
    BY <1>13 DEF SaveSession, EndControl
  <2>2. CASE q # p
    <3>1. turn'[<<d, p>>] = turn[<<d, p>>] /\ session'[p] = session[p]
      BY <1>4, <1>13, <2>2 DEF SaveSession, EndControl
    <3> QED
      BY <1>2, <1>3, <2>1, <3>1 DEF PointersOK
  <2>3. CASE q = p
    <3>1. /\ turn'[<<d, p>>] = Idle /\ turn[<<d, p>>].at \in {"replied", "control"}
          /\ \/ turn[<<d, p>>].at = "replied" /\ session'[p].seen = turn[<<d, p>>].snap
             \/ session'[p].seen = turn[<<d, p>>].seen
      BY <1>4, <1>13, <2>3 DEF SaveSession, SessionAfter, PointerAfter, EndControl, ControlPointer
    <3>2. p \notin waiting[d] /\ session'[p].seen >= session[p].seen
      BY <1>2, <1>3, <3>1 DEF PointersOK
    <3> QED
      BY <1>2, <2>1, <3>1, <3>2 DEF PointersOK, Idle
  <2> QED
    BY <2>2, <2>3
<1>14. ASSUME NEW q \in Personas, BeginControl(d, q)
       PROVE  PointersOK(d, p)' /\ Advances(p)
  <2>1. /\ UNCHANGED <<session, resets, driving, base, waiting>> /\ ~driving[d]
    BY <1>14 DEF BeginControl
  <2>2. \/ turn'[<<d, p>>] = turn[<<d, p>>]
        \/ turn'[<<d, p>>].at = "control" /\ turn'[<<d, p>>].seen = session[p].seen
    <3>1. CASE q = p
      BY <1>4, <1>14, <3>1 DEF BeginControl
    <3>2. CASE q # p
      BY <1>4, <1>14, <3>2 DEF BeginControl
    <3> QED
      BY <3>1, <3>2
  <2> QED
    BY <1>2, <1>3, <2>1, <2>2 DEF PointersOK
<1>15. ASSUME NEW q \in Personas, ResetSession(q)
       PROVE  PointersOK(d, p)' /\ Advances(p)
  <2>1. /\ UNCHANGED <<driving, base, waiting, turn>>
        /\ \/ session'[p] = session[p]
           \/ session'[p].seen = 0 /\ resets'[p] = resets[p] + 1
    BY <1>4, <1>15 DEF ResetSession
  <2> QED
    BY <1>2, <1>3, <1>4, <2>1 DEF PointersOK
<1>16. CASE UNCHANGED vars
  BY <1>2, <1>3, <1>16 DEF vars, PointersOK
<1> HIDE DEF Advances
<1> QED
  BY <1>1, <1>5, <1>6, <1>7, <1>9, <1>10, <1>11, <1>12, <1>13, <1>14, <1>15, <1>16 DEF Next

\* Initially there is no pointer and no turn.
LEMMA PointersStart == Init => PointersInv
BY DEF Init, PointersInv, PointersOK, Idle

\* In a room with one socket no turn meets a stale pointer (delta_messages never raises),
\* whatever is reset or cut short.
THEOREM NoStalePointers == OnePage => (Spec => []NeverStale)
<1> SUFFICES ASSUME OnePage PROVE Spec => []NeverStale
  OBVIOUS
<1>1. PointersInv /\ TurnsInv /\ [Next]_vars => PointersInv'
  BY PointersKept
<1>2. ASSUME PointersInv, TurnsInv PROVE NeverStale
  <2> SUFFICES ASSUME NEW d \in Drivers, NEW p \in Personas
               PROVE  /\ p \in waiting[d] => PointerFound(p, base[d])
                      /\ PointerFound(p, Len(log))
    BY DEF NeverStale
  <2>1. session[p].seen \in 0..Len(log) /\ Len(log) \in Nat
    BY <1>2, PointerTypes
  <2>2. PointersOK(d, p)
    BY <1>2 DEF PointersInv
  <2> QED
    BY <2>1, <2>2 DEF PointersOK, PointerFound
<1> QED
  BY <1>1, <1>2, PointersStart, PairsAreTold, PTL DEF Spec

\* In a room with one socket last_seen_message_id moves back only by a reset.
THEOREM PointersOnlyAdvance == OnePage => (Spec => PointersAdvance)
<1> SUFFICES ASSUME OnePage PROVE Spec => PointersAdvance
  OBVIOUS
<1> DEFINE Advance == \A p \in Personas :
                          session'[p].seen >= session[p].seen \/ resets'[p] > resets[p]
<1>1. PointersInv /\ TurnsInv /\ [Next]_vars => PointersInv' /\ Advance
  BY PointersKept
<1>2. PointersAdvance <=> [][Advance]_vars
  BY DEF PointersAdvance
<1> HIDE DEF Advance
<1> QED
  BY <1>1, <1>2, PointersStart, PairsAreTold, PTL DEF Spec

-----------------------------------------------------------------------------
\* A step writes at most one message, and a message that is a persona's own is its
\* reply.
LEMMA StepWrites ==
    ASSUME [Next]_vars
    PROVE  \/ log' = log
           \/ \E entry \in LogEntry :
                 /\ log' = Append(log, entry)
                 /\ \A p \in Personas :
                       entry.author = p /\ entry.good => \E d \in Drivers : Reply(d, p)
<1>1. /\ [author |-> Human, good |-> TRUE] \in LogEntry
      /\ \A p \in Personas : /\ [author |-> p, good |-> TRUE] \in LogEntry
                             /\ [author |-> p, good |-> FALSE] \in LogEntry
  BY DEF LogEntry
<1>2. ASSUME NEW d \in Drivers, NEW p \in Personas,
             \/ StartSequential(d, p) \/ StartParallel(d, p) \/ Fail(d, p)
             \/ SaveSession(d, p) \/ BeginControl(d, p) \/ EndControl(d, p) \/ FailControl(d, p)
      PROVE  log' = log \/ log' = Append(log, [author |-> p, good |-> FALSE])
  BY <1>2 DEF StartSequential, StartParallel, BeginTurn, StaleTurn, Fail, SaveSession,
              BeginControl, EndControl, FailControl
<1>3. ASSUME NEW d \in Drivers, NEW p \in Personas, Reply(d, p)
      PROVE  log' = Append(log, [author |-> p, good |-> TRUE])
  BY <1>3 DEF Reply
<1>4. ASSUME NEW d \in Drivers, NEW targets \in SUBSET Personas, Post(d, targets)
      PROVE  log' = Append(log, [author |-> Human, good |-> TRUE])
  BY <1>4 DEF Post
<1>5. ASSUME \/ UNCHANGED vars \/ Crash
             \/ \E d \in Drivers : FinishPost(d) \/ Disconnect(d)
             \/ \E p \in Personas : ResetSession(p)
      PROVE  log' = log
  BY <1>5 DEF vars, FinishPost, Disconnect, ResetSession, Crash
<1>6. \/ log' = log
      \/ log' = Append(log, [author |-> Human, good |-> TRUE])
      \/ \E p \in Personas : log' = Append(log, [author |-> p, good |-> FALSE])
      \/ \E d \in Drivers, p \in Personas :
            Reply(d, p) /\ log' = Append(log, [author |-> p, good |-> TRUE])
  BY <1>2, <1>3, <1>4, <1>5 DEF Next
<1>7. CASE log' = Append(log, [author |-> Human, good |-> TRUE])
  BY <1>1, <1>7, HumanAssumption
<1>8. ASSUME NEW p \in Personas, log' = Append(log, [author |-> p, good |-> FALSE])
      PROVE  \E entry \in LogEntry : log' = Append(log, entry) /\ ~entry.good
  BY <1>1, <1>8
<1>9. ASSUME NEW d \in Drivers, NEW p \in Personas, Reply(d, p),
             log' = Append(log, [author |-> p, good |-> TRUE])
      PROVE  \E entry \in LogEntry : log' = Append(log, entry) /\ entry.author = p
  BY <1>1, <1>9
<1> QED
  BY <1>6, <1>7, <1>8, <1>9

\* A message keeps its place for good: what a transcript says up to some point is
\* what any later one says.
LEMMA MessagesStay ==
    ASSUME TurnsInv, [Next]_vars
    PROVE  /\ Len(log) \in Nat /\ Len(log') \in Nat /\ Len(log) <= Len(log')
           /\ \A i \in 1..Len(log) : log'[i] = log[i]
           /\ \A i \in 1..Len(log'), p \in Personas :
                 Own(i, p)' => (i \in 1..Len(log) /\ Own(i, p)) \/ \E d \in Drivers : Reply(d, p)
<1>1. Len(log) \in Nat /\ log \in Seq(LogEntry)
  BY LenProperties DEF TurnsInv, TypeOK, LogEntry
<1>2. CASE log' = log
  BY <1>1, <1>2 DEF Own
<1>3. ASSUME NEW entry \in LogEntry, log' = Append(log, entry),
             \A p \in Personas :
                 entry.author = p /\ entry.good => \E d \in Drivers : Reply(d, p)
      PROVE  /\ Len(log') = Len(log) + 1
             /\ \A i \in 1..Len(log) : log'[i] = log[i]
             /\ \A i \in 1..Len(log'), p \in Personas :
                 Own(i, p)' => (i \in 1..Len(log) /\ Own(i, p)) \/ \E d \in Drivers : Reply(d, p)
  <2>1. /\ Len(log') = Len(log) + 1 /\ log'[Len(log) + 1] = entry
        /\ \A i \in 1..Len(log) : log'[i] = log[i]
    BY <1>1, <1>3, AppendProperties
  <2> QED
    BY <1>1, <1>3, <2>1 DEF Own
<1> QED
  BY <1>1, <1>2, <1>3, StepWrites

\* A session is told nothing but by the reply of a turn that resumed it.
LEMMA SessionsStay ==
    ASSUME TurnsInv, [Next]_vars, NEW sid \in 0..Len(harness),
           \A d \in Drivers, q \in Personas :
              Reply(d, q) => sid = 0 \/ turn[<<d, q>>].sid # sid
    PROVE  Remembered(sid)' = Remembered(sid)
<1>1. /\ Len(harness) \in Nat /\ harness \in Seq(HarnessType(Len(log)))
  BY NothingWritten, LenProperties DEF TurnsInv, TypeOK, HarnessType
<1>2. CASE harness' = harness
  BY <1>2 DEF Remembered
<1>3. ASSUME NEW s, harness' = Append(harness, s) PROVE Remembered(sid)' = Remembered(sid)
  BY <1>1, <1>3 DEF Remembered
<1>4. ASSUME NEW k, NEW told, k # sid, harness' = [harness EXCEPT ![k].told = told]
      PROVE  Remembered(sid)' = Remembered(sid)
  BY <1>1, <1>4 DEF Remembered
<1>5. ASSUME NEW d \in Drivers, NEW q \in Personas, Reply(d, q)
      PROVE  Remembered(sid)' = Remembered(sid)
  <2>1. sid = 0 \/ turn[<<d, q>>].sid # sid
    BY <1>5
  <2>2. \/ \E told : harness' = [harness EXCEPT ![turn[<<d, q>>].sid].told = told]
        \/ \E s : harness' = Append(harness, s)
    BY <1>5 DEF Reply
  <2>3. sid = 0 => Remembered(sid)' = Remembered(sid)
    BY DEF Remembered
  <2> QED
    BY <1>3, <1>4, <2>1, <2>2, <2>3
<1>6. ASSUME NEW d \in Drivers, NEW q \in Personas, EndControl(d, q)
      PROVE  Remembered(sid)' = Remembered(sid)
  <2>1. harness' = harness \/ \E s : harness' = Append(harness, s)
    BY <1>6 DEF EndControl
  <2> QED
    BY <1>2, <1>3, <2>1
<1>7. \/ harness' = harness
      \/ \E d \in Drivers, q \in Personas : Reply(d, q) \/ EndControl(d, q)
  BY DEF Next, vars, Post, FinishPost, Disconnect, StartSequential, StartParallel,
         Fail, SaveSession, BeginControl, FailControl, ResetSession, Crash
<1> QED
  BY <1>2, <1>5, <1>6, <1>7

\* Session sid was told nothing beyond n but what p said itself.
Confined(p, sid, n) == \A i \in Remembered(sid) : i <= n \/ Own(i, p)

\* The sessions that p's row and p's turn name.
Held(d, p) == {session[p].sid, turn[<<d, p>>].sid} \ {0}

\* Row and turn of a persona agree, and no two personas have a session in common, so
\* that a reply can bring no other turn's session beyond its pointer.
ConfinedOK(d, p) ==
    LET t == turn[<<d, p>>]
    IN  /\ t.at = "idle" => Confined(p, session[p].sid, session[p].seen)
        /\ t.at \in {"running", "control"} =>
              /\ Confined(p, t.sid, t.seen)
              /\ \/ session[p].sid = t.sid /\ session[p].seen = t.seen
                 \/ session[p].sid = 0
        /\ t.at = "replied" => Confined(p, t.sid, t.snap)

Apart(d) == \A p, q \in Personas : p # q => Held(d, p) \cap Held(d, q) = {}

ConfinedInv == \A d \in Drivers : Apart(d) /\ \A p \in Personas : ConfinedOK(d, p)

\* What p said stays p's, and what was confined stays so while its session is told
\* nothing.
LEMMA ConfinedStays ==
    ASSUME TurnsInv, [Next]_vars, NEW p \in Personas, NEW sid \in 0..Len(harness), NEW n,
           \A d \in Drivers, q \in Personas :
              Reply(d, q) => sid = 0 \/ turn[<<d, q>>].sid # sid,
           Confined(p, sid, n)
    PROVE  \A i \in Remembered(sid)' : i <= n \/ Own(i, p)'
<1>1. Remembered(sid)' = Remembered(sid)
  BY SessionsStay
<1>2. harness \in Seq(HarnessType(Len(log)))
  BY DEF TurnsInv, TypeOK, HarnessType
<1>3. Remembered(sid) \subseteq 1..Len(log)
  BY <1>2, RememberedType
<1>4. \A i \in 1..Len(log) : Own(i, p) => Own(i, p)'
  BY MessagesStay DEF Own
<1> QED
  BY <1>1, <1>3, <1>4 DEF Confined

\* A step gives at most one persona a session, which is new.
LEMMA ApartKept ==
    ASSUME NEW d, Drivers = {d}, TurnsInv, Apart(d), [Next]_vars
    PROVE  Apart(d)'
<1>1. /\ session = [q \in Personas |-> session[q]] /\ turn = [dp \in {d} \X Personas |-> turn[dp]]
  BY DEF TurnsInv, TypeOK
<1>2. \A q \in Personas : Held(d, q) \subseteq 1..Len(harness)
  BY PointerTypes DEF Held
<1>3. Len(harness) \in Nat
  BY NothingWritten, LenProperties DEF TurnsInv, TypeOK
<1>4. CASE \A p \in Personas : Held(d, p)' \subseteq Held(d, p)
  BY <1>4 DEF Apart
<1>5. ASSUME NEW p \in Personas, Held(d, p)' \subseteq Held(d, p) \cup {Len(harness) + 1},
             \A q \in Personas \ {p} : Held(d, q)' \subseteq Held(d, q)
      PROVE  Apart(d)'
  BY <1>2, <1>3, <1>5 DEF Apart
<1>6. ASSUME NEW p \in Personas,
             \E s : /\ turn' = [turn EXCEPT ![<<d, p>>] = s]
                    /\ s.sid \in {0, session[p].sid, turn[<<d, p>>].sid, Len(harness) + 1},
             session' = session
      PROVE  Apart(d)'
  <2>1. Held(d, p)' \subseteq Held(d, p) \cup {Len(harness) + 1}
    BY <1>1, <1>6 DEF Held
  <2>2. \A q \in Personas \ {p} : Held(d, q)' = Held(d, q)
    BY <1>1, <1>6 DEF Held
  <2> QED
    BY <1>5, <2>1, <2>2
<1>7. ASSUME NEW p \in Personas, turn' = [turn EXCEPT ![<<d, p>>] = Idle],
             \E n : \E sid \in {turn[<<d, p>>].sid, Len(harness) + 1} :
                session' = [session EXCEPT ![p] = [sid |-> sid, seen |-> n]]
      PROVE  Apart(d)'
  <2>1. Held(d, p)' \subseteq Held(d, p) \cup {Len(harness) + 1}
    BY <1>1, <1>7 DEF Held, Idle
  <2>2. \A q \in Personas \ {p} : Held(d, q)' = Held(d, q)
    BY <1>1, <1>7 DEF Held
  <2> QED
    BY <1>5, <2>1, <2>2
<1>8. ASSUME turn' = turn, session' = session PROVE Apart(d)'
  BY <1>4, <1>8 DEF Held
<1>9. ASSUME NEW p \in Personas, NEW snap, BeginTurn(d, p, snap) \/ StaleTurn(p, snap),
             session' = session
      PROVE  Apart(d)'
  BY <1>6, <1>8, <1>9 DEF BeginTurn, StaleTurn
<1>10. ASSUME NEW p \in Personas, StartSequential(d, p) \/ StartParallel(d, p) PROVE Apart(d)'
  BY <1>9, <1>10 DEF StartSequential, StartParallel
<1>11. ASSUME NEW p \in Personas, Reply(d, p) PROVE Apart(d)'
  BY <1>6, <1>11 DEF Reply
<1>12. ASSUME NEW p \in Personas, Fail(d, p) \/ FailControl(d, p) \/ BeginControl(d, p)
       PROVE  Apart(d)'
  <2>1. Idle.sid = 0
    BY DEF Idle
  <2>2. CASE Fail(d, p) \/ FailControl(d, p)
    BY <1>6, <2>1, <2>2 DEF Fail, FailControl
  <2>3. CASE BeginControl(d, p)
    <3> DEFINE s == [at |-> "control", sid |-> session[p].sid,
                     seen |-> session[p].seen, snap |-> 0, era |-> resets[p]]
    <3>1. s.sid = session[p].sid
      OBVIOUS
    <3>2. turn' = [turn EXCEPT ![<<d, p>>] = s] /\ session' = session
      BY <2>3 DEF BeginControl
    <3> QED
      BY <1>6, <3>1, <3>2
  <2> QED
    BY <1>12, <2>2, <2>3
<1>13. ASSUME NEW p \in Personas, SaveSession(d, p) PROVE Apart(d)'
  BY <1>7, <1>13 DEF SaveSession, SessionAfter, PointerAfter
<1>14. ASSUME NEW p \in Personas, EndControl(d, p) PROVE Apart(d)'
  <2>1. /\ turn' = [turn EXCEPT ![<<d, p>>] = Idle]
        /\ \E sid \in {turn[<<d, p>>].sid, Len(harness) + 1} :
              session' = [session EXCEPT ![p] =
                             [sid |-> sid, seen |-> ControlPointer(turn[<<d, p>>])]]
    BY <1>14 DEF EndControl
  <2> QED
    BY <1>7, <2>1
<1>15. ASSUME NEW p \in Personas, ResetSession(p) PROVE Apart(d)'
  <2>1. \A q \in Personas : Held(d, q)' \subseteq Held(d, q)
    BY <1>1, <1>15 DEF ResetSession, Held
  <2> QED
    BY <1>4, <2>1
<1>16. CASE Disconnect(d) \/ Crash
  <2>1. \A q \in Personas : Held(d, q)' \subseteq Held(d, q)
    BY <1>1, <1>16 DEF Disconnect, Crash, Held, Idle
  <2> QED
    BY <1>4, <2>1
<1>17. ASSUME \/ UNCHANGED vars
              \/ FinishPost(d)
              \/ \E targets \in SUBSET Personas : Post(d, targets)
       PROVE  Apart(d)'
  BY <1>8, <1>17 DEF vars, FinishPost, Post
<1> QED
  BY <1>10, <1>11, <1>12, <1>13, <1>14, <1>15, <1>16, <1>17 DEF Next

\* A step keeps rows and turns confined in a room with one socket that does not drop.
LEMMA ConfinedKept ==
    ASSUME OnePage, ~MayCrash, TurnsInv, PointersInv, ConfinedInv, [Next]_vars
    PROVE  ConfinedInv'
<1>1. PICK d : Drivers = {d}
  BY DEF OnePage
<1>2. Apart(d) /\ Apart(d)'
  BY <1>1, ApartKept DEF ConfinedInv
<1> SUFFICES ASSUME NEW p \in Personas PROVE ConfinedOK(d, p)'
  BY <1>1, <1>2 DEF ConfinedInv
<1>3. ConfinedOK(d, p) /\ PointersOK(d, p)
  BY <1>1 DEF ConfinedInv, PointersInv
<1>4. /\ session[p].seen \in Nat /\ session[p].sid \in 0..Len(harness)
      /\ turn[<<d, p>>].sid \in 0..Len(harness) /\ turn[<<d, p>>].seen \in Nat
      /\ turn[<<d, p>>].snap \in Nat
      /\ turn[<<d, p>>].at \in {"idle", "running", "replied", "control"}
      /\ Len(log) \in Nat /\ Len(harness) \in Nat
  BY <1>1, PointerTypes
<1>5. /\ session = [q \in Personas |-> session[q]]
      /\ turn = [dp \in {d} \X Personas |-> turn[dp]]
      /\ harness \in Seq(HarnessType(Len(log)))
  BY <1>1 DEF TurnsInv, TypeOK, HarnessType
<1> DEFINE After(sid, n) ==
               \A i \in IF sid = 0 THEN {} ELSE harness'[sid].told :
                   i <= n \/ (log'[i].author = p /\ log'[i].good)
           was == turn[<<d, p>>]
           now == turn'[<<d, p>>]
           row == session'[p]
           InOrder == /\ now.at = "idle" => After(row.sid, row.seen)
                      /\ now.at \in {"running", "control"} =>
                            /\ After(now.sid, now.seen)
                            /\ (row.sid = now.sid /\ row.seen = now.seen) \/ row.sid = 0
                      /\ now.at = "replied" => After(now.sid, now.snap)
<1>6. InOrder => ConfinedOK(d, p)'
  BY DEF ConfinedOK, Confined, Remembered, Own
<1>7. ASSUME NEW sid \in 0..Len(harness), NEW n, Confined(p, sid, n),
             \A q \in Personas : Reply(d, q) => sid = 0 \/ turn[<<d, q>>].sid # sid
      PROVE  After(sid, n)
  <2>1. \A i \in Remembered(sid)' : i <= n \/ Own(i, p)'
    BY <1>1, <1>7, ConfinedStays
  <2> QED
    BY <2>1 DEF Remembered, Own
\* Steps that tell p's sessions nothing and leave p's turn and row as they are.
<1>8. ASSUME now = was, row = session[p],
             \A q \in Personas : Reply(d, q) =>
                 \A sid \in {was.sid, session[p].sid} : sid = 0 \/ turn[<<d, q>>].sid # sid
      PROVE  InOrder
  <2>1. \A n : Confined(p, was.sid, n) => After(was.sid, n)
    BY <1>4, <1>7, <1>8
  <2>2. \A n : Confined(p, session[p].sid, n) => After(session[p].sid, n)
    BY <1>4, <1>7, <1>8
  <2> HIDE DEF After
  <2> QED
    BY <1>3, <1>8, <2>1, <2>2 DEF ConfinedOK
\* Steps that write no reply.
<1>9. ASSUME \A q \in Personas : ~Reply(d, q)
      PROVE  /\ \A n : Confined(p, was.sid, n) => After(was.sid, n)
             /\ \A n : Confined(p, session[p].sid, n) => After(session[p].sid, n)
  BY <1>4, <1>7, <1>9
<1>10. After(0, 0)
  OBVIOUS
<1> HIDE DEF After, InOrder, was, now, row
<1>11. ASSUME NEW q \in Personas, q # p, Reply(d, q) PROVE InOrder
  <2>1. now = was /\ row = session[p] /\ turn[<<d, q>>].at = "running"
    BY <1>5, <1>11 DEF Reply, now, was, row
  <2>2. \A r \in Personas : Reply(d, r) => r = q
    <3> SUFFICES ASSUME NEW r \in Personas, Reply(d, r), r # q PROVE FALSE
      OBVIOUS
    <3>1. PICK mine : turn' = [turn EXCEPT ![<<d, q>>] = mine] /\ mine.at = "replied"
      BY <1>11 DEF Reply
    <3>2. PICK his : turn' = [turn EXCEPT ![<<d, r>>] = his]
      BY DEF Reply
    <3>3. turn'[<<d, q>>] = mine
      BY <1>5, <3>1
    <3>4. turn'[<<d, q>>] = turn[<<d, q>>]
      BY <1>5, <3>2
    <3> QED
      BY <2>1, <3>1, <3>3, <3>4
  <2>3. \A sid \in {was.sid, session[p].sid} : sid = 0 \/ turn[<<d, q>>].sid # sid
    BY <1>2, <1>11 DEF Apart, Held, was
  <2> QED
    BY <1>8, <2>1, <2>2, <2>3
\* p's own reply: what its session is told lies in the snapshot, or is p's.
<1>12. ASSUME Reply(d, p) PROVE InOrder
  <2> DEFINE told == Remembered(was.sid) \cup Prompted(p, was.seen, was.snap) \cup {Len(log) + 1}
             Replied(sid) == [at |-> "replied", sid |-> sid, seen |-> was.seen,
                              snap |-> was.snap, era |-> was.era]
             Resumed == /\ was.sid # 0 /\ harness' = [harness EXCEPT ![was.sid].told = told]
                        /\ turn' = [turn EXCEPT ![<<d, p>>] = Replied(was.sid)]
             Opened == /\ harness' = Append(harness, [told |-> told, era |-> Era(was)])
                       /\ turn' = [turn EXCEPT ![<<d, p>>] = Replied(Len(harness) + 1)]
  <2>1. /\ was.at = "running" /\ log' = Append(log, [author |-> p, good |-> TRUE])
        /\ Resumed \/ Opened
    BY <1>12 DEF Reply, was
  <2>2. now.at = "replied" /\ now.snap = was.snap /\ harness'[now.sid].told = told
    <3> HIDE DEF told
    <3>1. CASE Resumed
      <4>1. now = Replied(was.sid)
        BY <1>5, <3>1 DEF now
      <4>2. was.sid \in 1..Len(harness)
        BY <1>4, <3>1 DEF was
      <4>3. harness'[was.sid].told = told
        BY <1>4, <1>5, <3>1, <4>2
      <4> QED
        BY <4>1, <4>3
    <3>2. CASE Opened
      <4>1. now = Replied(Len(harness) + 1)
        BY <1>5, <3>2 DEF now
      <4>2. harness'[Len(harness) + 1].told = told
        BY <1>5, <3>2, AppendProperties
      <4> QED
        BY <4>1, <4>2
    <3> QED
      BY <2>1, <3>1, <3>2
  <2>3. /\ log \in Seq(LogEntry) /\ [author |-> p, good |-> TRUE] \in LogEntry
    BY DEF TurnsInv, TypeOK, LogEntry
  <2>4. /\ log'[Len(log) + 1] = [author |-> p, good |-> TRUE]
        /\ \A i \in 1..Len(log) : log'[i] = log[i]
    BY <2>1, <2>3, AppendProperties
  <2>5. Remembered(was.sid) \subseteq 1..Len(log)
    BY <1>4, <1>5, RememberedType DEF was
  <2>6. \A i \in Remembered(was.sid) : i <= was.snap \/ (log'[i].author = p /\ log'[i].good)
    <3>1. was.seen <= was.snap /\ was.seen \in Nat /\ was.snap \in Nat
      BY <1>3, <1>4, <2>1 DEF PointersOK, was
    <3>2. \A i \in Remembered(was.sid) : i <= was.seen \/ Own(i, p)
      BY <1>3, <2>1 DEF ConfinedOK, Confined, was
    <3> QED
      BY <1>4, <2>4, <2>5, <3>1, <3>2 DEF Own
  <2>7. \A i \in Prompted(p, was.seen, was.snap) : i <= was.snap
    BY <1>4 DEF Prompted, was
  <2>8. \A i \in told : i <= was.snap \/ (log'[i].author = p /\ log'[i].good)
    BY <2>4, <2>6, <2>7
  <2>9. After(now.sid, now.snap)
    BY <2>1, <2>2, <2>8 DEF After
  <2> QED
    BY <2>2, <2>9 DEF InOrder
<1>13. ASSUME NEW q \in Personas, Fail(d, q) \/ FailControl(d, q), \A r \in Personas : ~Reply(d, r)
       PROVE  InOrder
  <2>1. row = session[p] /\ (q # p => now = was)
    BY <1>5, <1>13 DEF Fail, FailControl, row, now, was
  <2>2. CASE q = p
    <3>1. now = Idle /\ was.at \in {"running", "control"}
      BY <1>5, <1>13, <2>2 DEF Fail, FailControl, now, was
    <3>2. /\ Confined(p, was.sid, was.seen)
          /\ (session[p].sid = was.sid /\ session[p].seen = was.seen) \/ session[p].sid = 0
      BY <1>3, <3>1 DEF ConfinedOK, was
    <3>3. Confined(p, 0, session[p].seen)
      BY DEF Confined, Remembered
    <3>4. After(session[p].sid, session[p].seen)
      BY <1>9, <1>13, <3>2, <3>3
    <3> QED
      BY <2>1, <3>1, <3>4 DEF InOrder, Idle
  <2> QED
    BY <1>8, <1>13, <2>1, <2>2
<1>14. ASSUME NEW q \in Personas, SaveSession(d, q), \A r \in Personas : ~Reply(d, r)
       PROVE  InOrder
  <2>1. q # p => now = was /\ row = session[p]
    BY <1>5, <1>14 DEF SaveSession, row, now, was
  <2>2. CASE q = p
    <3>1. now = Idle /\ was.at = "replied" /\ row.sid = was.sid /\ row.seen = was.snap
      BY <1>5, <1>14, <2>2 DEF SaveSession, SessionAfter, PointerAfter, now, was, row
    <3>2. Confined(p, was.sid, was.snap)
      BY <1>3, <3>1 DEF ConfinedOK, was
    <3>3. After(row.sid, row.seen)
      BY <1>9, <1>14, <3>1, <3>2
    <3> QED
      BY <3>1, <3>3 DEF InOrder, Idle
  <2> QED
    BY <1>8, <1>14, <2>1, <2>2
<1>15. ASSUME NEW q \in Personas, EndControl(d, q), \A r \in Personas : ~Reply(d, r)
       PROVE  InOrder
  <2>1. q # p => now = was /\ row = session[p]
    BY <1>5, <1>15 DEF EndControl, row, now, was
  <2>2. CASE q = p
    <3>1. /\ now = Idle /\ was.at = "control" /\ row.seen = was.seen
          /\ \/ row.sid = was.sid
             \/ row.sid = Len(harness) + 1 /\ harness' = Append(harness, harness[was.sid])
          /\ log' = log
      BY <1>5, <1>15, <2>2 DEF EndControl, ControlPointer, now, was, row
    <3>2. Confined(p, was.sid, was.seen) /\ was.sid # 0
      BY <1>1, <1>3, <3>1 DEF ConfinedOK, was, TurnsInv, TurnOK
    <3>3. After(was.sid, was.seen)
      BY <1>9, <1>15, <3>2
    <3>4. ASSUME row.sid = Len(harness) + 1, harness' = Append(harness, harness[was.sid])
          PROVE  After(row.sid, row.seen)
      <4>1. was.sid \in 1..Len(harness)
        BY <1>4, <3>2 DEF was
      <4>2. harness'[row.sid] = harness[was.sid] /\ harness'[was.sid] = harness[was.sid]
        BY <1>4, <1>5, <3>4, <4>1
      <4> QED
        BY <3>1, <3>2, <3>3, <4>2 DEF After
    <3>5. After(row.sid, row.seen)
      BY <3>1, <3>3, <3>4
    <3> QED
      BY <3>1, <3>5 DEF InOrder, Idle
  <2> QED
    BY <1>8, <1>15, <2>1, <2>2
\* A turn or a command begins with p's row.
<1>16. ASSUME now.at \in {"running", "control"}, now.sid = session[p].sid,
              now.seen = session[p].seen, row = session[p], was.at = "idle",
              \A r \in Personas : ~Reply(d, r)
       PROVE  InOrder
  <2>1. Confined(p, session[p].sid, session[p].seen)
    BY <1>3, <1>16 DEF ConfinedOK, was
  <2>2. After(now.sid, now.seen)
    BY <1>9, <1>16, <2>1
  <2> QED
    BY <1>16, <2>2 DEF InOrder
<1>17. ASSUME NEW q \in Personas, StartSequential(d, q) \/ StartParallel(d, q) \/ BeginControl(d, q),
              \A r \in Personas : ~Reply(d, r)
       PROVE  InOrder
  <2>1. row = session[p]
    BY <1>17 DEF StartSequential, StartParallel, BeginControl, row
  <2>2. \/ now = was
        \/ q = p /\ now.at \in {"running", "control"} /\ now.sid = session[p].sid
           /\ now.seen = session[p].seen
    <3>1. CASE \E snap : BeginTurn(d, q, snap)
      BY <1>5, <3>1 DEF BeginTurn, now, was
    <3>2. CASE \E snap : StaleTurn(q, snap)
      BY <3>2 DEF StaleTurn, now, was
    <3>3. CASE BeginControl(d, q)
      BY <1>5, <3>3 DEF BeginControl, now, was
    <3> QED
      BY <1>17, <3>1, <3>2, <3>3 DEF StartSequential, StartParallel
  <2>3. q = p => was.at = "idle"
    <3>1. CASE StartSequential(d, q) \/ BeginControl(d, q)
      BY <3>1 DEF StartSequential, BeginControl, Quiet, was
    <3>2. CASE StartParallel(d, q)
      BY <1>3, <3>2 DEF StartParallel, PointersOK, was
    <3> QED
      BY <1>17, <3>1, <3>2
  <2> QED
    BY <1>8, <1>16, <1>17, <2>1, <2>2, <2>3
<1>18. ASSUME NEW q \in Personas, ResetSession(q), \A r \in Personas : ~Reply(d, r)
       PROVE  InOrder
  <2>1. now = was /\ (row = session[p] \/ (row.sid = 0 /\ row.seen = 0))
    BY <1>5, <1>18 DEF ResetSession, now, was, row
  <2>2. CASE row.sid = 0 /\ row.seen = 0
    <3>1. \A n : Confined(p, was.sid, n) => After(was.sid, n)
      BY <1>9, <1>18
    <3> QED
      BY <1>3, <1>10, <2>1, <2>2, <3>1 DEF InOrder, ConfinedOK, was
  <2> QED
    BY <1>8, <1>18, <2>1, <2>2
<1>19. ASSUME \/ UNCHANGED vars
              \/ FinishPost(d)
              \/ \E targets \in SUBSET Personas : Post(d, targets),
              \A r \in Personas : ~Reply(d, r)
       PROVE  InOrder
  <2>1. now = was /\ row = session[p] /\ harness' = harness
    BY <1>19 DEF vars, FinishPost, Post, now, was, row
  <2> QED
    BY <1>8, <1>19, <2>1
<1>20. ~(Disconnect(d) \/ Crash)
  BY DEF Disconnect, Crash
<1> QED
  <2>1. CASE \E q \in Personas : Reply(d, q)
    BY <1>6, <1>11, <1>12, <2>1
  <2>2. CASE \A q \in Personas : ~Reply(d, q)
    <3>1. InOrder
      BY <1>1, <1>13, <1>14, <1>15, <1>17, <1>18, <1>19, <1>20, <2>2 DEF Next
    <3> QED
      BY <1>6, <3>1
  <2> QED
    BY <2>1, <2>2

\* Initially nothing was told.
LEMMA ConfinedStart == Init => ConfinedInv
BY DEF Init, ConfinedInv, Apart, Held, ConfinedOK, Confined, Remembered, Idle

\* In a room with one socket that does not drop, however many sessions are reset
\* meanwhile, no turn is shown what the session it resumes was told already.
THEOREM NothingIsRetold == OnePage /\ ~MayCrash => (Spec => []NeverRetold)
<1> SUFFICES ASSUME OnePage, ~MayCrash PROVE Spec => []NeverRetold
  OBVIOUS
<1>1. PointersInv /\ ConfinedInv /\ TurnsInv /\ [Next]_vars => PointersInv' /\ ConfinedInv'
  BY PointersKept, ConfinedKept
<1>2. ASSUME ConfinedInv, TurnsInv PROVE NeverRetold
  <2> SUFFICES ASSUME NEW dp \in Running
               PROVE  Prompted(dp[2], turn[dp].seen, turn[dp].snap)
                          \cap Remembered(turn[dp].sid) = {}
    BY DEF NeverRetold
  <2>1. PICK d \in Drivers, p \in Personas : dp = <<d, p>>
    BY DEF Running
  <2>2. turn[dp].at = "running" /\ dp[2] = p
    BY <2>1 DEF Running
  <2>3. Confined(p, turn[dp].sid, turn[dp].seen)
    BY <1>2, <2>1, <2>2 DEF ConfinedInv, ConfinedOK
  <2>4. turn[dp].seen \in Nat
    BY <1>2, <2>1, PointerTypes
  <2> QED
    BY <2>2, <2>3, <2>4 DEF Confined, Prompted
<1> QED
  BY <1>1, <1>2, PointersStart, ConfinedStart, PairsAreTold, PTL DEF Spec

-----------------------------------------------------------------------------
\* Session sid was told all that p said.
Full(p, sid) == \A i \in 1..Len(log) : Own(i, p) => i \in Remembered(sid)

\* The session of p's turn, or else of p's row, was told all that p said.
FullOK(d, p) ==
    LET t == turn[<<d, p>>]
    IN  /\ t.at = "idle" => Full(p, session[p].sid)
        /\ t.at # "idle" => Full(p, t.sid)
        /\ t.at \in {"running", "control"} => session[p].sid = t.sid

FullInv == \A d \in Drivers, p \in Personas : FullOK(d, p)

\* A session forgets nothing.
LEMMA SessionsLearn ==
    ASSUME TurnsInv, [Next]_vars, NEW sid \in 0..Len(harness)
    PROVE  Remembered(sid) \subseteq Remembered(sid)'
<1>1. CASE \A d \in Drivers, q \in Personas :
              Reply(d, q) => sid = 0 \/ turn[<<d, q>>].sid # sid
  BY <1>1, SessionsStay
<1>2. ASSUME NEW d \in Drivers, NEW q \in Personas, Reply(d, q), sid # 0,
             turn[<<d, q>>].sid = sid
      PROVE  Remembered(sid) \subseteq Remembered(sid)'
  <2>1. harness \in Seq(HarnessType(Len(log))) /\ Len(harness) \in Nat
    BY NothingWritten, LenProperties DEF TurnsInv, TypeOK, HarnessType
  <2> DEFINE u == turn[<<d, q>>]
             told == Remembered(u.sid) \cup Prompted(q, u.seen, u.snap) \cup {Len(log) + 1}
  <2>2. \/ harness' = [harness EXCEPT ![sid].told = told]
        \/ \E s : harness' = Append(harness, s)
    BY <1>2 DEF Reply
  <2>3. ASSUME harness' = [harness EXCEPT ![sid].told = told]
        PROVE  Remembered(sid) \subseteq Remembered(sid)'
    <3>1. Remembered(sid) \subseteq told
      BY <1>2
    <3> HIDE DEF told
    <3> QED
      BY <1>2, <2>1, <2>3, <3>1 DEF Remembered
  <2>4. ASSUME NEW s, harness' = Append(harness, s)
        PROVE  Remembered(sid) \subseteq Remembered(sid)'
    BY <1>2, <2>1, <2>4 DEF Remembered
  <2> QED
    BY <2>2, <2>3, <2>4
<1> QED
  BY <1>1, <1>2

\* What p said before, p's session remembers.
LEMMA FullStays ==
    ASSUME TurnsInv, [Next]_vars, NEW p \in Personas, NEW sid \in 0..Len(harness),
           \A d \in Drivers : ~Reply(d, p), Full(p, sid)
    PROVE  \A i \in 1..Len(log') : Own(i, p)' => i \in Remembered(sid)'
BY MessagesStay, SessionsLearn DEF Full

\* A step keeps own replies remembered in a room with one socket that does not drop
\* and without resets.
LEMMA FullKept ==
    ASSUME OnePage, ~MayCrash, MaxResets = 0, TurnsInv, PointersInv, FullInv, [Next]_vars
    PROVE  FullInv'
<1>1. PICK d : Drivers = {d}
  BY DEF OnePage
<1> SUFFICES ASSUME NEW p \in Personas PROVE FullOK(d, p)'
  BY <1>1 DEF FullInv
<1>3. FullOK(d, p) /\ PointersOK(d, p)
  BY <1>1 DEF FullInv, PointersInv
<1>4. /\ session[p].sid \in 0..Len(harness) /\ turn[<<d, p>>].sid \in 0..Len(harness)
      /\ turn[<<d, p>>].at \in {"idle", "running", "replied", "control"}
      /\ Len(log) \in Nat /\ Len(harness) \in Nat
  BY <1>1, PointerTypes
<1>5. /\ session = [q \in Personas |-> session[q]]
      /\ turn = [dp \in {d} \X Personas |-> turn[dp]]
      /\ harness \in Seq(HarnessType(Len(log))) /\ resets \in [Personas -> Nat]
  BY <1>1 DEF TurnsInv, TypeOK, HarnessType
<1> DEFINE After(sid) ==
               \A i \in 1..Len(log') : log'[i].author = p /\ log'[i].good =>
                   i \in IF sid = 0 THEN {} ELSE harness'[sid].told
           was == turn[<<d, p>>]
           now == turn'[<<d, p>>]
           row == session'[p]
           InOrder == /\ now.at = "idle" => After(row.sid)
                      /\ now.at # "idle" => After(now.sid)
                      /\ now.at \in {"running", "control"} => row.sid = now.sid
<1>6. InOrder => FullOK(d, p)'
  BY DEF FullOK, Full, Remembered, Own
<1>7. ASSUME ~Reply(d, p)
      PROVE  /\ Full(p, was.sid) => After(was.sid)
             /\ Full(p, session[p].sid) => After(session[p].sid)
  <2>1. ASSUME NEW sid \in 0..Len(harness), Full(p, sid) PROVE After(sid)
    <3>1. \A i \in 1..Len(log') : Own(i, p)' => i \in Remembered(sid)'
      BY <1>1, <1>7, <2>1, FullStays
    <3> QED
      BY <3>1 DEF Remembered, Own
  <2> HIDE DEF After
  <2> QED
    BY <1>4, <2>1
<1> HIDE DEF After, InOrder, was, now, row
\* Steps that leave p's turn and row as they are.
<1>8. ASSUME now = was, row = session[p], ~Reply(d, p) PROVE InOrder
  BY <1>3, <1>7, <1>8 DEF InOrder, FullOK, was
\* p's own reply: its session is told the reply, and remembers the others.
<1>9. ASSUME Reply(d, p) PROVE InOrder
  <2> DEFINE told == Remembered(was.sid) \cup Prompted(p, was.seen, was.snap) \cup {Len(log) + 1}
             Replied(sid) == [at |-> "replied", sid |-> sid, seen |-> was.seen,
                              snap |-> was.snap, era |-> was.era]
             Resumed == /\ was.sid # 0 /\ harness' = [harness EXCEPT ![was.sid].told = told]
                        /\ turn' = [turn EXCEPT ![<<d, p>>] = Replied(was.sid)]
             Opened == /\ harness' = Append(harness, [told |-> told, era |-> Era(was)])
                       /\ turn' = [turn EXCEPT ![<<d, p>>] = Replied(Len(harness) + 1)]
  <2>1. /\ was.at = "running" /\ log' = Append(log, [author |-> p, good |-> TRUE])
        /\ Resumed \/ Opened
    BY <1>9 DEF Reply, was
  <2>2. now.at = "replied" /\ harness'[now.sid].told = told /\ now.sid # 0
    <3> HIDE DEF told
    <3>1. CASE Resumed
      <4>1. now = Replied(was.sid)
        BY <1>5, <3>1 DEF now
      <4>2. was.sid \in 1..Len(harness)
        BY <1>4, <3>1 DEF was
      <4>3. harness'[was.sid].told = told
        BY <1>4, <1>5, <3>1, <4>2
      <4> QED
        BY <3>1, <4>1, <4>3
    <3>2. CASE Opened
      <4>1. now = Replied(Len(harness) + 1)
        BY <1>5, <3>2 DEF now
      <4>2. harness'[Len(harness) + 1].told = told
        BY <1>5, <3>2, AppendProperties
      <4> QED
        BY <1>4, <4>1, <4>2
    <3> QED
      BY <2>1, <3>1, <3>2
  <2>3. log \in Seq(LogEntry)
    BY DEF TurnsInv, TypeOK, LogEntry
  <2>4. /\ Len(log') = Len(log) + 1 /\ \A i \in 1..Len(log) : log'[i] = log[i]
    BY <2>1, <2>3, AppendProperties
  <2>5. \A i \in 1..Len(log) : Own(i, p) => i \in Remembered(was.sid)
    BY <1>3, <2>1 DEF FullOK, Full, was
  <2>6. \A i \in 1..Len(log') : log'[i].author = p /\ log'[i].good => i \in told
    BY <1>4, <2>4, <2>5 DEF Own
  <2>7. After(now.sid)
    <3> HIDE DEF told
    <3> QED
      BY <2>2, <2>6 DEF After
  <2> QED
    BY <2>2, <2>7 DEF InOrder
<1>10. ASSUME NEW q \in Personas, Reply(d, q), q # p PROVE InOrder
  <2>1. now = was /\ row = session[p]
    BY <1>5, <1>10 DEF Reply, now, was, row
  <2>2. ~Reply(d, p)
    <3> SUFFICES ASSUME Reply(d, p) PROVE FALSE
      OBVIOUS
    <3>1. turn'[<<d, p>>].at = "replied" /\ turn[<<d, p>>].at = "running"
      BY <1>5 DEF Reply
    <3> QED
      BY <2>1, <3>1 DEF now, was
  <2> QED
    BY <1>8, <2>1, <2>2
<1>11. ASSUME NEW q \in Personas, Fail(d, q) \/ FailControl(d, q), ~Reply(d, p) PROVE InOrder
  <2>1. row = session[p] /\ (q # p => now = was)
    BY <1>5, <1>11 DEF Fail, FailControl, row, now, was
  <2>2. CASE q = p
    <3>1. now = Idle /\ was.at \in {"running", "control"}
      BY <1>5, <1>11, <2>2 DEF Fail, FailControl, now, was
    <3>2. Full(p, session[p].sid)
      BY <1>3, <3>1 DEF FullOK, was
    <3>3. After(row.sid)
      BY <1>7, <1>11, <2>1, <3>2
    <3> QED
      BY <3>1, <3>3 DEF InOrder, Idle
  <2> QED
    BY <1>8, <1>11, <2>1, <2>2
<1>12. ASSUME NEW q \in Personas, SaveSession(d, q) \/ EndControl(d, q), ~Reply(d, p)
       PROVE  InOrder
  <2>1. q # p => now = was /\ row = session[p]
    BY <1>5, <1>12 DEF SaveSession, EndControl, row, now, was
  <2>2. CASE q = p
    <3>1. /\ now = Idle /\ was.at \in {"replied", "control"}
          /\ \/ row.sid = was.sid
             \/ /\ was.at = "control" /\ row.sid = Len(harness) + 1
                /\ harness' = Append(harness, harness[was.sid])
      BY <1>5, <1>12, <2>2 DEF SaveSession, SessionAfter, EndControl, now, was, row
    <3>2. Full(p, was.sid)
      BY <1>3, <3>1 DEF FullOK, was
    <3>3. After(was.sid)
      BY <1>7, <1>12, <3>2
    <3>4. ASSUME was.at = "control", row.sid = Len(harness) + 1,
                 harness' = Append(harness, harness[was.sid])
          PROVE  After(row.sid)
      <4>1. was.sid \in 1..Len(harness)
        BY <1>1, <1>4, <3>4 DEF was, TurnsInv, TurnOK
      <4>2. harness'[row.sid] = harness[was.sid] /\ harness'[was.sid] = harness[was.sid]
        BY <1>4, <1>5, <3>4, <4>1
      <4> QED
        BY <1>4, <3>3, <3>4, <4>1, <4>2 DEF After
    <3>5. After(row.sid)
      BY <3>1, <3>3, <3>4
    <3> QED
      BY <3>1, <3>5 DEF InOrder, Idle
  <2> QED
    BY <1>8, <1>12, <2>1, <2>2
<1>13. ASSUME NEW q \in Personas, StartSequential(d, q) \/ StartParallel(d, q) \/ BeginControl(d, q),
              ~Reply(d, p)
       PROVE  InOrder
  <2>1. row = session[p]
    BY <1>13 DEF StartSequential, StartParallel, BeginControl, row
  <2>2. \/ now = was
        \/ q = p /\ now.at \in {"running", "control"} /\ now.sid = session[p].sid
    <3>1. CASE \E snap : BeginTurn(d, q, snap)
      BY <1>5, <3>1 DEF BeginTurn, now, was
    <3>2. CASE \E snap : StaleTurn(q, snap)
      BY <3>2 DEF StaleTurn, now, was
    <3>3. CASE BeginControl(d, q)
      BY <1>5, <3>3 DEF BeginControl, now, was
    <3> QED
      BY <1>13, <3>1, <3>2, <3>3 DEF StartSequential, StartParallel
  <2>3. q = p => was.at = "idle"
    <3>1. CASE StartSequential(d, q) \/ BeginControl(d, q)
      BY <3>1 DEF StartSequential, BeginControl, Quiet, was
    <3>2. CASE StartParallel(d, q)
      BY <1>3, <3>2 DEF StartParallel, PointersOK, was
    <3> QED
      BY <1>13, <3>1, <3>2
  <2>4. CASE q = p /\ now.at \in {"running", "control"} /\ now.sid = session[p].sid
    <3>1. Full(p, session[p].sid)
      BY <1>3, <2>3, <2>4 DEF FullOK, was
    <3>2. After(now.sid)
      BY <1>7, <1>13, <2>4, <3>1
    <3> QED
      BY <2>1, <2>4, <3>2 DEF InOrder
  <2> QED
    BY <1>8, <1>13, <2>1, <2>2, <2>4
<1>14. ASSUME \/ UNCHANGED vars
              \/ FinishPost(d)
              \/ \E targets \in SUBSET Personas : Post(d, targets),
              ~Reply(d, p)
       PROVE  InOrder
  <2>1. now = was /\ row = session[p]
    BY <1>14 DEF vars, FinishPost, Post, now, was, row
  <2> QED
    BY <1>8, <1>14, <2>1
<1>15. ~(Disconnect(d) \/ Crash) /\ \A q \in Personas : ~ResetSession(q)
  BY <1>5 DEF Disconnect, Crash, ResetSession
<1>16. ASSUME ~Reply(d, p) PROVE InOrder
  BY <1>1, <1>10, <1>11, <1>12, <1>13, <1>14, <1>15, <1>16 DEF Next
<1> QED
  BY <1>6, <1>9, <1>16

\* Initially nobody has said anything.
LEMMA FullStart == Init => FullInv
BY DEF Init, FullInv, FullOK, Full, Idle

\* In a room with one socket that does not drop, and without resets, the session a turn
\* resumes remembers every reply of its persona, so that the prompt may leave them out.
THEOREM OwnAreRemembered == OnePage /\ ~MayCrash /\ MaxResets = 0 => (Spec => []OwnRemembered)
<1> SUFFICES ASSUME OnePage, ~MayCrash, MaxResets = 0 PROVE Spec => []OwnRemembered
  OBVIOUS
<1>1. PointersInv /\ FullInv /\ TurnsInv /\ [Next]_vars => PointersInv' /\ FullInv'
  BY PointersKept, FullKept
<1>2. ASSUME FullInv, TurnsInv PROVE OwnRemembered
  <2> SUFFICES ASSUME NEW dp \in Running, NEW i \in 1..turn[dp].snap, Own(i, dp[2])
               PROVE  i \in Remembered(turn[dp].sid)
    BY DEF OwnRemembered
  <2>1. PICK d \in Drivers, p \in Personas : dp = <<d, p>>
    BY DEF Running
  <2>2. turn[dp].at = "running" /\ dp[2] = p
    BY <2>1 DEF Running
  <2>3. Full(p, turn[dp].sid)
    BY <1>2, <2>1, <2>2 DEF FullInv, FullOK
  <2>4. turn[dp].snap \in 0..Len(log) /\ Len(log) \in Nat
    BY <1>2, <2>1, PointerTypes DEF TurnsInv, TurnOK, TurnType
  <2> QED
    BY <2>2, <2>3, <2>4 DEF Full
<1> QED
  BY <1>1, <1>2, PointersStart, FullStart, PairsAreTold, PTL DEF Spec
=============================================================================
