----------------------------- MODULE TurnsProofs -----------------------------
(***************************************************************************)
(* Theorems about what turns are told, for any number of sockets, personas, *)
(* resets and restarts, and transcripts of any length.                     *)
(*                                                                         *)
(* OthersTold speaks of running turns only.  The inductive invariant is    *)
(* about every pair of a session id and a pointer, stored in the table or  *)
(* held by a turn or a command that may still store it: the session was    *)
(* told all that others said up to the pointer.  The operators below take  *)
(* transcript and sessions as arguments, so that "it stays true while both  *)
(* grow" is a lemma about values.                                          *)
(***************************************************************************)
EXTENDS Turns, SequenceTheorems, TLAPS

LogEntry == [author : Personas \cup {Human}, good : BOOLEAN]

SessionType(n, s) == [sid : 0..s, seen : 0..n]

TurnType(n, s) ==
    [at : {"idle", "running", "replied", "control"},
     sid : 0..s, seen : 0..n, snap : 0..n, era : Nat]

HarnessType(n) == [told : SUBSET (1..n), era : Nat]

\* On transcript l, session sid of h was told all that others than p said up to n.
Told(l, h, p, sid, n) ==
    \A i \in 1..n : \/ l[i].author = p /\ l[i].good
                    \/ sid # 0 /\ i \in h[sid].told

\* How far the session of a turn was told: when its reply is written, up to its
\* snapshot, before that up to the pointer it began with.
Claim(t) == IF t.at = "replied" THEN t.snap ELSE t.seen

SessionOK(p, s, l, h) ==
    /\ s \in SessionType(Len(l), Len(h))
    /\ Told(l, h, p, s.sid, s.seen)

TurnOK(p, t, l, h) ==
    /\ t \in TurnType(Len(l), Len(h))
    /\ t.at \in {"replied", "control"} => t.sid # 0
    /\ Told(l, h, p, t.sid, Claim(t))

TurnsInv ==
    /\ TypeOK
    /\ \A p \in Personas : SessionOK(p, session[p], log, harness)
    /\ \A dp \in Drivers \X Personas : TurnOK(dp[2], turn[dp], log, harness)

\* From l and h to l2 and h2 the transcript is extended and sessions only learn.
Grows(l, h, l2, h2) ==
    /\ Len(l) \in Nat /\ Len(l2) \in Nat /\ Len(l) <= Len(l2)
    /\ Len(h) \in Nat /\ Len(h2) \in Nat /\ Len(h) <= Len(h2)
    /\ \A i \in 1..Len(l) : l2[i] = l[i]
    /\ \A s \in 1..Len(h) : h[s].told \subseteq h2[s].told

-----------------------------------------------------------------------------
\* What a session was told up to a pointer stays told (no message is ever changed
\* or removed, no session forgets).
LEMMA ToldKept ==
    ASSUME NEW l, NEW h, NEW l2, NEW h2, Grows(l, h, l2, h2),
           NEW p, NEW sid \in 0..Len(h), NEW n \in 0..Len(l),
           Told(l, h, p, sid, n)
    PROVE  Told(l2, h2, p, sid, n)
<1>1. \A i \in 1..n : l2[i] = l[i]
  BY DEF Grows
<1>2. sid # 0 => h[sid].told \subseteq h2[sid].told
  BY DEF Grows
<1> QED
  BY <1>1, <1>2 DEF Told

\* A stored session (SessionRepo) stays as good as it was.
LEMMA SessionKept ==
    ASSUME NEW l, NEW h, NEW l2, NEW h2, Grows(l, h, l2, h2),
           NEW p, NEW s, SessionOK(p, s, l, h)
    PROVE  SessionOK(p, s, l2, h2)
<1>1. s \in SessionType(Len(l), Len(h)) /\ Told(l, h, p, s.sid, s.seen)
  BY DEF SessionOK
<1>2. s \in SessionType(Len(l2), Len(h2))
  BY <1>1 DEF SessionType, Grows
<1>3. s.sid \in 0..Len(h) /\ s.seen \in 0..Len(l)
  BY <1>1 DEF SessionType
<1>4. Told(l2, h2, p, s.sid, s.seen)
  BY <1>1, <1>3, ToldKept
<1> QED
  BY <1>2, <1>4 DEF SessionOK

\* So does a turn (the locals of _run_turn and send_control).
LEMMA TurnKept ==
    ASSUME NEW l, NEW h, NEW l2, NEW h2, Grows(l, h, l2, h2),
           NEW p, NEW t, TurnOK(p, t, l, h)
    PROVE  TurnOK(p, t, l2, h2)
<1>1. /\ t \in TurnType(Len(l), Len(h))
      /\ t.at \in {"replied", "control"} => t.sid # 0
      /\ Told(l, h, p, t.sid, Claim(t))
  BY DEF TurnOK
<1>2. t \in TurnType(Len(l2), Len(h2))
  BY <1>1 DEF TurnType, Grows
<1>3. t.sid \in 0..Len(h) /\ Claim(t) \in 0..Len(l)
  BY <1>1 DEF TurnType, Claim
<1>4. Told(l2, h2, p, t.sid, Claim(t))
  BY <1>1, <1>3, ToldKept
<1> QED
  BY <1>1, <1>2, <1>4 DEF TurnOK

\* A persona whose turn is over holds nothing (Idle).
LEMMA IdleOK ==
    ASSUME NEW p, NEW l, NEW h, Len(l) \in Nat, Len(h) \in Nat
    PROVE  TurnOK(p, Idle, l, h)
<1>1. Idle \in TurnType(Len(l), Len(h))
  BY DEF Idle, TurnType
<1>2. Claim(Idle) = 0 /\ Idle.at = "idle"
  BY DEF Claim, Idle
<1>3. Told(l, h, p, Idle.sid, 0)
  BY DEF Told
<1> QED
  BY <1>1, <1>2, <1>3 DEF TurnOK

\* A step keeps the invariant if transcript and sessions only grow, and what it
\* writes to the session table or to a turn is in order.
LEMMA StepKeepsInv ==
    ASSUME TurnsInv, Grows(log, harness, log', harness'),
           log' \in Seq(LogEntry), harness' \in Seq(HarnessType(Len(log'))),
           resets' \in [Personas -> Nat], driving' \in [Drivers -> BOOLEAN],
           base' \in [Drivers -> 0..Len(log')],
           waiting' \in [Drivers -> SUBSET Personas],
           session' = [p \in Personas |-> session'[p]],
           \A p \in Personas :
              session'[p] = session[p] \/ SessionOK(p, session'[p], log', harness'),
           turn' = [dp \in Drivers \X Personas |-> turn'[dp]],
           \A dp \in Drivers \X Personas :
              turn'[dp] = turn[dp] \/ TurnOK(dp[2], turn'[dp], log', harness')
    PROVE  TurnsInv'
<1>1. \A p \in Personas : SessionOK(p, session'[p], log', harness')
  BY SessionKept DEF TurnsInv
<1>2. \A dp \in Drivers \X Personas : TurnOK(dp[2], turn'[dp], log', harness')
  BY TurnKept DEF TurnsInv
<1>3. session' \in [Personas -> SessionType(Len(log'), Len(harness'))]
  BY <1>1 DEF SessionOK
<1>4. turn' \in [Drivers \X Personas -> TurnType(Len(log'), Len(harness'))]
  BY <1>2 DEF TurnOK
<1>5. TypeOK'
  BY <1>3, <1>4 DEF TypeOK, LogEntry, SessionType, TurnType, HarnessType
<1> QED
  BY <1>1, <1>2, <1>5 DEF TurnsInv

\* The invariant holds of an empty room.
LEMMA InitInv == Init => TurnsInv
<1> SUFFICES ASSUME Init PROVE TurnsInv
  OBVIOUS
<1>1. log = <<>> /\ harness = <<>> /\ Len(log) = 0 /\ Len(harness) = 0
  BY DEF Init
<1>2. \A dp \in Drivers \X Personas : TurnOK(dp[2], turn[dp], log, harness)
  BY <1>1, IdleOK DEF Init
<1>3. \A p \in Personas : SessionOK(p, session[p], log, harness)
  BY <1>1 DEF Init, SessionOK, SessionType, Told
<1>4. TypeOK
  BY <1>1, <1>2 DEF Init, TypeOK, TurnOK, TurnType
<1> QED
  BY <1>2, <1>3, <1>4 DEF TurnsInv

-----------------------------------------------------------------------------
\* A step that writes neither a message nor a harness session.
LEMMA NothingWritten ==
    ASSUME TurnsInv, log' = log, harness' = harness
    PROVE  /\ Grows(log, harness, log', harness')
           /\ log' \in Seq(LogEntry) /\ harness' \in Seq(HarnessType(Len(log')))
           /\ Len(log) \in Nat /\ Len(harness) \in Nat
<1>1. log \in Seq(LogEntry) /\ harness \in Seq(HarnessType(Len(log)))
  BY DEF TurnsInv, TypeOK, LogEntry, HarnessType
<1> QED
  BY <1>1, LenProperties DEF Grows

\* A message goes to the end of the transcript (MessageRepo.create): what was
\* there keeps its place, and what sessions were told still lies in it.
LEMMA MessageAppended ==
    ASSUME TurnsInv, NEW entry \in LogEntry, log' = Append(log, entry)
    PROVE  /\ log' \in Seq(LogEntry) /\ harness \in Seq(HarnessType(Len(log')))
           /\ Len(log) \in Nat /\ Len(harness) \in Nat
           /\ Len(log') = Len(log) + 1
           /\ \A i \in 1..Len(log) : log'[i] = log[i]
<1>1. log \in Seq(LogEntry) /\ harness \in Seq(HarnessType(Len(log)))
  BY DEF TurnsInv, TypeOK, LogEntry, HarnessType
<1>2. Len(log) \in Nat /\ Len(harness) \in Nat
  BY <1>1, LenProperties
<1>3. /\ log' \in Seq(LogEntry) /\ Len(log') = Len(log) + 1
      /\ \A i \in 1..Len(log) : log'[i] = log[i]
  BY <1>1, AppendProperties
<1>4. HarnessType(Len(log)) \subseteq HarnessType(Len(log'))
  BY <1>2, <1>3 DEF HarnessType
<1>5. harness \in Seq(HarnessType(Len(log')))
  BY <1>1, <1>4, SeqMonotonic
<1> QED
  BY <1>2, <1>3, <1>5

\* A step that writes a message and no harness session.
LEMMA MessageWritten ==
    ASSUME TurnsInv, NEW entry \in LogEntry,
           log' = Append(log, entry), harness' = harness
    PROVE  /\ Grows(log, harness, log', harness')
           /\ log' \in Seq(LogEntry) /\ harness' \in Seq(HarnessType(Len(log')))
           /\ Len(log) \in Nat /\ Len(harness) \in Nat /\ Len(log') = Len(log) + 1
<1>1. /\ log' \in Seq(LogEntry) /\ harness \in Seq(HarnessType(Len(log')))
      /\ Len(log) \in Nat /\ Len(harness) \in Nat
      /\ Len(log') = Len(log) + 1
      /\ \A i \in 1..Len(log) : log'[i] = log[i]
  BY MessageAppended
<1> QED
  BY <1>1 DEF Grows

\* post_message writes the operator's message and takes the shared snapshot.
LEMMA PostKeepsInv ==
    ASSUME TurnsInv, NEW d \in Drivers, NEW targets \in SUBSET Personas,
           Post(d, targets)
    PROVE  TurnsInv'
<1>1. [author |-> Human, good |-> TRUE] \in LogEntry
  BY DEF LogEntry
<1>2. log' = Append(log, [author |-> Human, good |-> TRUE]) /\ harness' = harness
  BY DEF Post
<1>3. /\ Grows(log, harness, log', harness')
      /\ log' \in Seq(LogEntry) /\ harness' \in Seq(HarnessType(Len(log')))
      /\ Len(log) \in Nat /\ Len(log') = Len(log) + 1
  BY <1>1, <1>2, MessageWritten
<1>4. base' \in [Drivers -> 0..Len(log')]
  BY <1>3 DEF Post, TurnsInv, TypeOK
<1>5. waiting' \in [Drivers -> SUBSET Personas] /\ driving' \in [Drivers -> BOOLEAN]
      /\ resets' \in [Personas -> Nat]
  BY DEF Post, TurnsInv, TypeOK
<1>6. session' = [p \in Personas |-> session'[p]] /\ session' = session
  BY DEF Post, TurnsInv, TypeOK
<1>7. turn' = [dp \in Drivers \X Personas |-> turn'[dp]] /\ turn' = turn
  BY DEF Post, TurnsInv, TypeOK
<1> QED
  BY <1>3, <1>4, <1>5, <1>6, <1>7, StepKeepsInv

\* The first steps of _run_turn: a turn copies the stored session, which was told
\* what its pointer says, or a stale pointer leaves an error marker.
LEMMA BeginKeepsInv ==
    ASSUME TurnsInv, NEW d \in Drivers, NEW p \in Personas, NEW snap \in 0..Len(log),
           BeginTurn(d, p, snap) \/ StaleTurn(p, snap),
           waiting' \in [Drivers -> SUBSET Personas],
           UNCHANGED <<session, resets, driving, base, harness>>
    PROVE  TurnsInv'
<1>1. /\ resets' \in [Personas -> Nat] /\ driving' \in [Drivers -> BOOLEAN]
      /\ session' = [q \in Personas |-> session'[q]] /\ session' = session
  BY DEF TurnsInv, TypeOK
<1>2. CASE BeginTurn(d, p, snap)
  <2> DEFINE t == [at |-> "running", sid |-> session[p].sid,
                   seen |-> session[p].seen, snap |-> snap, era |-> resets[p]]
  <2>1. log' = log /\ turn' = [turn EXCEPT ![<<d, p>>] = t]
    BY <1>2 DEF BeginTurn
  <2>2. /\ Grows(log, harness, log', harness')
        /\ log' \in Seq(LogEntry) /\ harness' \in Seq(HarnessType(Len(log')))
    BY <2>1, NothingWritten
  <2>3. SessionOK(p, session[p], log, harness) /\ resets[p] \in Nat
    BY DEF TurnsInv, TypeOK
  <2>4. t \in TurnType(Len(log), Len(harness))
    BY <2>3 DEF SessionOK, SessionType, TurnType
  <2>5. Claim(t) = session[p].seen
    BY DEF Claim
  <2>6. TurnOK(p, t, log, harness)
    BY <2>3, <2>4, <2>5 DEF SessionOK, TurnOK
  <2>7. turn' = [dp \in Drivers \X Personas |-> turn'[dp]]
        /\ turn'[<<d, p>>] = t
        /\ \A dp \in Drivers \X Personas : dp # <<d, p>> => turn'[dp] = turn[dp]
    BY <2>1 DEF TurnsInv, TypeOK
  <2>8. \A dp \in Drivers \X Personas :
           turn'[dp] = turn[dp] \/ TurnOK(dp[2], turn'[dp], log', harness')
    BY <2>1, <2>6, <2>7
  <2>9. base' \in [Drivers -> 0..Len(log')]
    BY <2>1 DEF TurnsInv, TypeOK
  <2> HIDE DEF t
  <2> QED
    BY <1>1, <2>2, <2>7, <2>8, <2>9, StepKeepsInv
<1>3. CASE StaleTurn(p, snap)
  <2>1. [author |-> p, good |-> FALSE] \in LogEntry
    BY DEF LogEntry
  <2>2. log' = Append(log, [author |-> p, good |-> FALSE]) /\ turn' = turn
    BY <1>3 DEF StaleTurn
  <2>3. /\ Grows(log, harness, log', harness')
        /\ log' \in Seq(LogEntry) /\ harness' \in Seq(HarnessType(Len(log')))
        /\ Len(log) \in Nat /\ Len(log') = Len(log) + 1
    BY <2>1, <2>2, MessageWritten
  <2>4. base' \in [Drivers -> 0..Len(log')]
    BY <2>3 DEF TurnsInv, TypeOK
  <2>5. turn' = [dp \in Drivers \X Personas |-> turn'[dp]]
    BY <2>2 DEF TurnsInv, TypeOK
  <2> QED
    BY <1>1, <2>2, <2>3, <2>4, <2>5, StepKeepsInv
<1> QED
  BY <1>2, <1>3

\* Turns that end, or are forgotten (FinishPost, Disconnect, Crash, FailControl,
\* reset_session and the upsert of SaveSession): nothing is written to the
\* transcript, and any session row written is in order.
LEMMA EndingKeepsInv ==
    ASSUME TurnsInv, log' = log, harness' = harness,
           resets' \in [Personas -> Nat], driving' \in [Drivers -> BOOLEAN],
           base' \in [Drivers -> 0..Len(log)],
           waiting' \in [Drivers -> SUBSET Personas],
           session' = [p \in Personas |-> session'[p]],
           \A p \in Personas :
              session'[p] = session[p] \/ SessionOK(p, session'[p], log, harness),
           turn' = [dp \in Drivers \X Personas |-> turn'[dp]],
           \A dp \in Drivers \X Personas : turn'[dp] = turn[dp] \/ turn'[dp] = Idle
    PROVE  TurnsInv'
<1>1. /\ Grows(log, harness, log', harness')
      /\ log' \in Seq(LogEntry) /\ harness' \in Seq(HarnessType(Len(log')))
      /\ Len(log) \in Nat /\ Len(harness) \in Nat
  BY NothingWritten
<1>2. \A dp \in Drivers \X Personas :
         turn'[dp] = turn[dp] \/ TurnOK(dp[2], turn'[dp], log', harness')
  BY <1>1, IdleOK
<1> QED
  BY <1>1, <1>2, StepKeepsInv

\* An empty row (reset_session) claims nothing.
LEMMA EmptyRowOK ==
    ASSUME NEW p, NEW l, NEW h, Len(l) \in Nat, Len(h) \in Nat
    PROVE  SessionOK(p, [sid |-> 0, seen |-> 0], l, h)
<1>1. Told(l, h, p, 0, 0)
  BY DEF Told
<1> QED
  BY <1>1 DEF SessionOK, SessionType

\* The upsert at the end of _run_turn stores the turn's session with its snapshot:
\* the delta ended there, and PARALLEL siblings wrote beyond it.
LEMMA SaveKeepsInv ==
    ASSUME TurnsInv, NEW d \in Drivers, NEW p \in Personas, SaveSession(d, p)
    PROVE  TurnsInv'
<1> DEFINE t == turn[<<d, p>>]
           row == [sid |-> t.sid, seen |-> t.snap]
<1>1. TurnOK(p, t, log, harness) /\ t.at = "replied"
  BY DEF TurnsInv, SaveSession
<1>2. Claim(t) = t.snap
  BY <1>1 DEF Claim
<1>3. SessionOK(p, row, log, harness)
  BY <1>1, <1>2 DEF TurnOK, TurnType, SessionOK, SessionType
<1>4. session' = [session EXCEPT ![p] = row]
  BY DEF SaveSession, SessionAfter, PointerAfter
<1> HIDE DEF row
<1>5. /\ session' = [q \in Personas |-> session'[q]]
      /\ \A q \in Personas :
            session'[q] = session[q] \/ SessionOK(q, session'[q], log, harness)
  BY <1>3, <1>4 DEF TurnsInv, TypeOK
<1>6. /\ turn' = [dp \in Drivers \X Personas |-> turn'[dp]]
      /\ \A dp \in Drivers \X Personas : turn'[dp] = turn[dp] \/ turn'[dp] = Idle
  BY DEF SaveSession, TurnsInv, TypeOK
<1>7. /\ log' = log /\ harness' = harness
      /\ resets' \in [Personas -> Nat] /\ driving' \in [Drivers -> BOOLEAN]
      /\ base' \in [Drivers -> 0..Len(log)]
      /\ waiting' \in [Drivers -> SUBSET Personas]
  BY DEF SaveSession, TurnsInv, TypeOK
<1> QED
  BY <1>5, <1>6, <1>7, EndingKeepsInv

\* A failed run leaves an error marker and the session untouched.
LEMMA FailKeepsInv ==
    ASSUME TurnsInv, NEW d \in Drivers, NEW p \in Personas, Fail(d, p)
    PROVE  TurnsInv'
<1>1. [author |-> p, good |-> FALSE] \in LogEntry
  BY DEF LogEntry
<1>2. log' = Append(log, [author |-> p, good |-> FALSE]) /\ harness' = harness
  BY DEF Fail
<1>3. /\ Grows(log, harness, log', harness')
      /\ log' \in Seq(LogEntry) /\ harness' \in Seq(HarnessType(Len(log')))
      /\ Len(log) \in Nat /\ Len(harness) \in Nat /\ Len(log') = Len(log) + 1
  BY <1>1, <1>2, MessageWritten
<1>4. /\ turn' = [dp \in Drivers \X Personas |-> turn'[dp]]
      /\ \A dp \in Drivers \X Personas : turn'[dp] = turn[dp] \/ turn'[dp] = Idle
  BY DEF Fail, TurnsInv, TypeOK
<1>5. \A dp \in Drivers \X Personas :
         turn'[dp] = turn[dp] \/ TurnOK(dp[2], turn'[dp], log', harness')
  BY <1>2, <1>3, <1>4, IdleOK
<1>6. /\ session' = [q \in Personas |-> session'[q]] /\ session' = session
      /\ resets' \in [Personas -> Nat] /\ driving' \in [Drivers -> BOOLEAN]
      /\ waiting' \in [Drivers -> SUBSET Personas]
  BY DEF Fail, TurnsInv, TypeOK
<1>7. base' \in [Drivers -> 0..Len(log')]
  BY <1>3 DEF Fail, TurnsInv, TypeOK
<1> QED
  BY <1>3, <1>4, <1>5, <1>6, <1>7, StepKeepsInv

\* A harness session that the tool opened, or goes on under, comes last.
LEMMA SessionOpened ==
    ASSUME NEW n, NEW h \in Seq(HarnessType(n)), NEW s \in HarnessType(n)
    PROVE  /\ Append(h, s) \in Seq(HarnessType(n)) /\ Len(h) \in Nat
           /\ Len(Append(h, s)) = Len(h) + 1 /\ Append(h, s)[Len(h) + 1] = s
           /\ \A i \in 1..Len(h) : Append(h, s)[i] = h[i]
BY AppendProperties, LenProperties

\* What a session of the tool holds is of its type.
LEMMA RememberedType ==
    ASSUME NEW n, harness \in Seq(HarnessType(n)), NEW sid \in 0..Len(harness)
    PROVE  /\ Remembered(sid) \subseteq 1..n
           /\ sid # 0 => harness[sid] \in HarnessType(n)
<1>1. Len(harness) \in Nat
  BY LenProperties
<1>2. sid # 0 => harness[sid] \in HarnessType(n)
  BY <1>1, ElementOfSeq
<1> QED
  BY <1>2 DEF Remembered, HarnessType

\* The reply of a successful run.  Its session was told the messages up to the
\* turn's pointer before, and the prompt adds the rest of the snapshot, except
\* what the persona said itself.
LEMMA ReplyKeepsInv ==
    ASSUME TurnsInv, NEW d \in Drivers, NEW p \in Personas, Reply(d, p)
    PROVE  TurnsInv'
<1> DEFINE t == turn[<<d, p>>]
           told == Remembered(t.sid) \cup Prompted(p, t.seen, t.snap) \cup {Len(log) + 1}
           replied(sid) == [at |-> "replied", sid |-> sid, seen |-> t.seen,
                            snap |-> t.snap, era |-> t.era]
<1>1. /\ t \in TurnType(Len(log), Len(harness)) /\ t.at = "running"
      /\ Told(log, harness, p, t.sid, t.seen)
  BY DEF TurnsInv, TurnOK, Claim, Reply
<1>2. [author |-> p, good |-> TRUE] \in LogEntry
  BY DEF LogEntry
<1>3. log' = Append(log, [author |-> p, good |-> TRUE])
  BY DEF Reply
<1>4. /\ log' \in Seq(LogEntry) /\ harness \in Seq(HarnessType(Len(log')))
      /\ Len(log) \in Nat /\ Len(harness) \in Nat
      /\ Len(log') = Len(log) + 1
      /\ \A i \in 1..Len(log) : log'[i] = log[i]
  BY <1>2, <1>3, MessageAppended
<1>5. t.sid \in 0..Len(harness) /\ t.seen \in 0..Len(log) /\ t.snap \in 0..Len(log)
      /\ t.era \in Nat
  BY <1>1 DEF TurnType
<1> HIDE DEF t
<1>6. Remembered(t.sid) \subseteq 1..Len(log')
  BY <1>4, <1>5, RememberedType
<1>7. Prompted(p, t.seen, t.snap) \subseteq 1..Len(log')
  BY <1>4, <1>5 DEF Prompted
<1>8. told \in SUBSET (1..Len(log'))
  BY <1>4, <1>6, <1>7
<1>9. \A i \in 1..t.snap : (log'[i].author = p /\ log'[i].good) \/ i \in told
  <2> SUFFICES ASSUME NEW i \in 1..t.snap, ~(log'[i].author = p /\ log'[i].good)
               PROVE  i \in Remembered(t.sid) \cup Prompted(p, t.seen, t.snap)
    OBVIOUS
  <2>1. ~Own(i, p)
    BY <1>4, <1>5 DEF Own
  <2>2. CASE i <= t.seen
    BY <1>1, <1>5, <2>1, <2>2 DEF Told, Own, Remembered
  <2>3. CASE i > t.seen
    BY <1>5, <2>1, <2>3 DEF Prompted
  <2> QED
    BY <1>5, <2>2, <2>3
<1>10. /\ session' = [q \in Personas |-> session'[q]] /\ session' = session
       /\ resets' \in [Personas -> Nat] /\ driving' \in [Drivers -> BOOLEAN]
       /\ waiting' \in [Drivers -> SUBSET Personas]
  BY DEF Reply, TurnsInv, TypeOK
<1>11. base' \in [Drivers -> 0..Len(log')]
  BY <1>4 DEF Reply, TurnsInv, TypeOK
<1> HIDE DEF told
\* Both ways on end alike: the new turn holds a session that was told "told".
<1>12. ASSUME NEW sid \in 1..Len(harness'), harness'[sid].told = told,
              harness' \in Seq(HarnessType(Len(log'))),
              Grows(log, harness, log', harness'),
              turn' = [turn EXCEPT ![<<d, p>>] = replied(sid)]
       PROVE  TurnsInv'
  <2> DEFINE u == replied(sid)
  <2>1. u \in TurnType(Len(log'), Len(harness')) /\ u.at = "replied" /\ u.sid = sid
        /\ u.snap = t.snap
    BY <1>4, <1>5, <1>12 DEF TurnType, Grows
  <2>2. Told(log', harness', p, sid, t.snap)
    BY <1>9, <1>12 DEF Told
  <2>3. TurnOK(p, u, log', harness')
    BY <2>1, <2>2, <1>4, <1>12 DEF TurnOK, Claim, Grows
  <2>4. /\ turn' = [dp \in Drivers \X Personas |-> turn'[dp]] /\ turn'[<<d, p>>] = u
        /\ \A dp \in Drivers \X Personas : dp # <<d, p>> => turn'[dp] = turn[dp]
    BY <1>12 DEF TurnsInv, TypeOK
  <2>5. \A dp \in Drivers \X Personas :
           turn'[dp] = turn[dp] \/ TurnOK(dp[2], turn'[dp], log', harness')
    BY <2>3, <2>4
  <2> HIDE DEF u
  <2> QED
    BY <1>4, <1>10, <1>11, <1>12, <2>4, <2>5, StepKeepsInv
\* The run went on under the id it resumed.
<1>13. CASE /\ t.sid # 0
            /\ harness' = [harness EXCEPT ![t.sid].told = told]
            /\ turn' = [turn EXCEPT ![<<d, p>>] = replied(t.sid)]
  <2> DEFINE s == [harness[t.sid] EXCEPT !.told = told]
  <2>1. t.sid \in 1..Len(harness)
    BY <1>5, <1>13
  <2>2. harness[t.sid] \in HarnessType(Len(log'))
    BY <1>4, <2>1, ElementOfSeq
  <2>3. s \in HarnessType(Len(log')) /\ s.told = told
    BY <1>8, <2>2 DEF HarnessType
  <2>4. harness' = [harness EXCEPT ![t.sid] = s]
    BY <1>13
  <2>5. Remembered(t.sid) = harness[t.sid].told /\ Remembered(t.sid) \subseteq told
    BY <1>13 DEF Remembered, told
  <2> HIDE DEF s
  <2>6. /\ harness' \in Seq(HarnessType(Len(log'))) /\ Len(harness') = Len(harness)
        /\ \A j \in 1..Len(harness) : harness'[j] = IF j = t.sid THEN s ELSE harness[j]
    BY <1>4, <2>1, <2>3, <2>4, ExceptSeq
  <2>7. Grows(log, harness, log', harness')
    BY <1>4, <2>3, <2>5, <2>6 DEF Grows
  <2> QED
    BY <1>12, <1>13, <2>1, <2>3, <2>6, <2>7
\* It opened a session, or goes on under a new id.
<1>14. CASE /\ harness' = Append(harness, [told |-> told, era |-> Era(t)])
            /\ turn' = [turn EXCEPT ![<<d, p>>] = replied(Len(harness) + 1)]
  <2> DEFINE s == [told |-> told, era |-> Era(t)]
  <2>1. Era(t) \in Nat
    BY <1>4, <1>5, RememberedType DEF Era, HarnessType
  <2>2. s \in HarnessType(Len(log')) /\ s.told = told
    BY <1>8, <2>1 DEF HarnessType
  <2> HIDE DEF s
  <2>3. /\ harness' \in Seq(HarnessType(Len(log'))) /\ Len(harness') = Len(harness) + 1
        /\ harness'[Len(harness) + 1] = s
        /\ \A j \in 1..Len(harness) : harness'[j] = harness[j]
    BY <1>4, <1>14, <2>2, SessionOpened DEF s
  <2>4. Grows(log, harness, log', harness')
    BY <1>4, <2>3 DEF Grows
  <2>5. Len(harness) + 1 \in 1..Len(harness')
    BY <1>4, <2>3
  <2> QED
    BY <1>12, <1>14, <2>2, <2>3, <2>4, <2>5
<1> QED
  BY <1>13, <1>14 DEF Reply, told, t

\* send_control starts from the stored session, which exists.
LEMMA BeginControlKeepsInv ==
    ASSUME TurnsInv, NEW d \in Drivers, NEW p \in Personas, BeginControl(d, p)
    PROVE  TurnsInv'
<1> DEFINE t == [at |-> "control", sid |-> session[p].sid,
                 seen |-> session[p].seen, snap |-> 0, era |-> resets[p]]
<1>1. /\ Grows(log, harness, log', harness')
      /\ log' \in Seq(LogEntry) /\ harness' \in Seq(HarnessType(Len(log')))
      /\ Len(log) \in Nat /\ log' = log /\ harness' = harness
  BY NothingWritten DEF BeginControl
<1>2. SessionOK(p, session[p], log, harness) /\ resets[p] \in Nat
      /\ session[p].sid # 0
  BY DEF TurnsInv, TypeOK, BeginControl
<1>3. t \in TurnType(Len(log), Len(harness)) /\ Claim(t) = session[p].seen
  BY <1>1, <1>2 DEF SessionOK, SessionType, TurnType, Claim
<1>4. TurnOK(p, t, log, harness)
  BY <1>2, <1>3 DEF SessionOK, TurnOK
<1>5. /\ turn' = [dp \in Drivers \X Personas |-> turn'[dp]] /\ turn'[<<d, p>>] = t
      /\ \A dp \in Drivers \X Personas : dp # <<d, p>> => turn'[dp] = turn[dp]
  BY DEF BeginControl, TurnsInv, TypeOK
<1>6. \A dp \in Drivers \X Personas :
         turn'[dp] = turn[dp] \/ TurnOK(dp[2], turn'[dp], log', harness')
  BY <1>1, <1>4, <1>5
<1> HIDE DEF t
<1>7. /\ session' = [q \in Personas |-> session'[q]] /\ session' = session
      /\ resets' \in [Personas -> Nat] /\ driving' \in [Drivers -> BOOLEAN]
      /\ base' \in [Drivers -> 0..Len(log')]
      /\ waiting' \in [Drivers -> SUBSET Personas]
  BY DEF BeginControl, TurnsInv, TypeOK
<1> QED
  BY <1>1, <1>5, <1>6, <1>7, StepKeepsInv

\* send_control stores the pointer it started with, under the id the tool reports:
\* the same session, or one that goes on from it.
LEMMA EndControlKeepsInv ==
    ASSUME TurnsInv, NEW d \in Drivers, NEW p \in Personas, EndControl(d, p)
    PROVE  TurnsInv'
<1> DEFINE t == turn[<<d, p>>]
           row(sid) == [sid |-> sid, seen |-> t.seen]
<1>1. /\ t \in TurnType(Len(log), Len(harness)) /\ t.at = "control" /\ t.sid # 0
      /\ Told(log, harness, p, t.sid, t.seen)
  BY DEF TurnsInv, TurnOK, Claim, EndControl
<1>2. /\ log \in Seq(LogEntry) /\ harness \in Seq(HarnessType(Len(log)))
      /\ Len(log) \in Nat /\ Len(harness) \in Nat
  BY LenProperties DEF TurnsInv, TypeOK, LogEntry, HarnessType
<1>3. t.sid \in 1..Len(harness) /\ t.seen \in 0..Len(log)
  BY <1>1, <1>2 DEF TurnType
<1>4. /\ turn' = [dp \in Drivers \X Personas |-> turn'[dp]]
      /\ \A dp \in Drivers \X Personas : turn'[dp] = turn[dp] \/ turn'[dp] = Idle
  BY DEF EndControl, TurnsInv, TypeOK
<1>5. /\ log' = log /\ resets' \in [Personas -> Nat] /\ driving' \in [Drivers -> BOOLEAN]
      /\ base' \in [Drivers -> 0..Len(log)]
      /\ waiting' \in [Drivers -> SUBSET Personas]
  BY DEF EndControl, TurnsInv, TypeOK
<1>6. ASSUME NEW sid \in 1..Len(harness'), session' = [session EXCEPT ![p] = row(sid)],
             Grows(log, harness, log', harness'),
             harness' \in Seq(HarnessType(Len(log'))),
             harness'[sid].told = harness[t.sid].told
      PROVE  TurnsInv'
  <2>1. Told(log', harness', p, sid, t.seen)
    <3> HIDE DEF t, row
    <3>1. sid # 0
      BY <1>6 DEF Grows
    <3> QED
      BY <1>1, <1>5, <1>6, <3>1 DEF Told
  <2>2. SessionOK(p, row(sid), log', harness')
    BY <1>3, <1>5, <1>6, <2>1 DEF SessionOK, SessionType, Grows
  <2> HIDE DEF row
  <2>3. /\ session' = [q \in Personas |-> session'[q]]
        /\ \A q \in Personas :
              session'[q] = session[q] \/ SessionOK(q, session'[q], log', harness')
    BY <1>6, <2>2 DEF TurnsInv, TypeOK
  <2>4. Len(log') \in Nat /\ Len(harness') \in Nat
    BY <1>6 DEF Grows
  <2>5. \A dp \in Drivers \X Personas :
           turn'[dp] = turn[dp] \/ TurnOK(dp[2], turn'[dp], log', harness')
    BY <1>4, <2>4, IdleOK
  <2> QED
    BY <1>2, <1>4, <1>5, <1>6, <2>3, <2>5, StepKeepsInv
<1>7. CASE session' = [session EXCEPT ![p] = row(t.sid)] /\ harness' = harness
  <2>1. Grows(log, harness, log', harness')
    BY <1>2, <1>5, <1>7 DEF Grows
  <2> QED
    BY <1>2, <1>3, <1>5, <1>6, <1>7, <2>1
<1>8. CASE /\ session' = [session EXCEPT ![p] = row(Len(harness) + 1)]
           /\ harness' = Append(harness, harness[t.sid])
  <2>1. harness[t.sid] \in HarnessType(Len(log))
    BY <1>2, <1>3, ElementOfSeq
  <2>2. /\ harness' \in Seq(HarnessType(Len(log))) /\ Len(harness') = Len(harness) + 1
        /\ harness'[Len(harness) + 1] = harness[t.sid]
        /\ \A j \in 1..Len(harness) : harness'[j] = harness[j]
    BY <1>2, <1>8, <2>1, SessionOpened
  <2>3. Grows(log, harness, log', harness')
    BY <1>2, <1>5, <2>2 DEF Grows
  <2>4. Len(harness) + 1 \in 1..Len(harness')
    BY <1>2, <2>2
  <2> HIDE DEF row
  <2> QED
    BY <1>5, <1>6, <1>8, <2>2, <2>3, <2>4
<1> QED
  BY <1>7, <1>8 DEF EndControl, ControlPointer

\* Every step of the room keeps the invariant.
LEMMA NextKeepsInv ==
    ASSUME TurnsInv, [Next]_vars
    PROVE  TurnsInv'
<1>1. ASSUME NEW d \in Drivers, NEW targets \in SUBSET Personas, Post(d, targets)
      PROVE  TurnsInv'
  BY <1>1, PostKeepsInv
<1>2. ASSUME NEW d \in Drivers, FinishPost(d)
      PROVE  TurnsInv'
  <2>1. base' \in [Drivers -> 0..Len(log)] /\ driving' \in [Drivers -> BOOLEAN]
    BY <1>2, NothingWritten DEF FinishPost, TurnsInv, TypeOK
  <2> QED
    BY <1>2, <2>1, EndingKeepsInv DEF FinishPost, TurnsInv, TypeOK
<1>3. ASSUME NEW d \in Drivers, Disconnect(d)
      PROVE  TurnsInv'
  <2>1. /\ base' \in [Drivers -> 0..Len(log)] /\ driving' \in [Drivers -> BOOLEAN]
        /\ waiting' \in [Drivers -> SUBSET Personas]
    BY <1>3, NothingWritten DEF Disconnect, TurnsInv, TypeOK
  <2>2. /\ turn' = [dp \in Drivers \X Personas |-> turn'[dp]]
        /\ \A dp \in Drivers \X Personas : turn'[dp] = turn[dp] \/ turn'[dp] = Idle
    BY <1>3 DEF Disconnect
  <2> QED
    BY <1>3, <2>1, <2>2, EndingKeepsInv DEF Disconnect, TurnsInv, TypeOK
<1>4. ASSUME NEW d \in Drivers, NEW p \in Personas, StartSequential(d, p)
      PROVE  TurnsInv'
  <2>1. Len(log) \in 0..Len(log) /\ waiting' \in [Drivers -> SUBSET Personas]
    BY <1>4, NothingWritten DEF StartSequential, TurnsInv, TypeOK, LogEntry
  <2> QED
    BY <1>4, <2>1, BeginKeepsInv DEF StartSequential
<1>5. ASSUME NEW d \in Drivers, NEW p \in Personas, StartParallel(d, p)
      PROVE  TurnsInv'
  <2>1. base[d] \in 0..Len(log) /\ waiting' \in [Drivers -> SUBSET Personas]
    BY <1>5 DEF StartParallel, TurnsInv, TypeOK
  <2> QED
    BY <1>5, <2>1, BeginKeepsInv DEF StartParallel
<1>6. ASSUME NEW d \in Drivers, NEW p \in Personas,
             Reply(d, p) \/ Fail(d, p) \/ SaveSession(d, p)
      PROVE  TurnsInv'
  BY <1>6, ReplyKeepsInv, FailKeepsInv, SaveKeepsInv
<1>7. ASSUME NEW d \in Drivers, NEW p \in Personas,
             BeginControl(d, p) \/ EndControl(d, p)
      PROVE  TurnsInv'
  BY <1>7, BeginControlKeepsInv, EndControlKeepsInv
<1>8. ASSUME NEW d \in Drivers, NEW p \in Personas, FailControl(d, p)
      PROVE  TurnsInv'
  <2>1. /\ turn' = [dp \in Drivers \X Personas |-> turn'[dp]]
        /\ \A dp \in Drivers \X Personas : turn'[dp] = turn[dp] \/ turn'[dp] = Idle
    BY <1>8 DEF FailControl, TurnsInv, TypeOK
  <2> QED
    BY <1>8, <2>1, EndingKeepsInv DEF FailControl, TurnsInv, TypeOK
<1>9. ASSUME NEW p \in Personas, ResetSession(p)
      PROVE  TurnsInv'
  <2>1. SessionOK(p, [sid |-> 0, seen |-> 0], log, harness)
    BY LenProperties, EmptyRowOK DEF TurnsInv, TypeOK
  <2>2. /\ session' = [q \in Personas |-> session'[q]]
        /\ \A q \in Personas :
              session'[q] = session[q] \/ SessionOK(q, session'[q], log, harness)
    BY <1>9, <2>1 DEF ResetSession, TurnsInv, TypeOK
  <2>3. resets' \in [Personas -> Nat]
    BY <1>9 DEF ResetSession, TurnsInv, TypeOK
  <2> QED
    BY <1>9, <2>2, <2>3, EndingKeepsInv DEF ResetSession, TurnsInv, TypeOK
<1>10. CASE Crash
  <2>1. /\ base' \in [Drivers -> 0..Len(log)] /\ driving' \in [Drivers -> BOOLEAN]
        /\ waiting' \in [Drivers -> SUBSET Personas]
    BY <1>10, LenProperties DEF Crash, TurnsInv, TypeOK
  <2> QED
    BY <1>10, <2>1, EndingKeepsInv DEF Crash, TurnsInv, TypeOK
<1>11. CASE UNCHANGED vars
  BY <1>11, EndingKeepsInv DEF vars, TurnsInv, TypeOK
<1> QED
  BY <1>1, <1>2, <1>3, <1>4, <1>5, <1>6, <1>7, <1>8, <1>9, <1>10, <1>11 DEF Next

-----------------------------------------------------------------------------
\* A turn that resumes a session told all that others said up to its pointer is
\* shown, by delta_messages, the rest of its snapshot.
LEMMA InvImpliesOthersTold == TurnsInv => OthersTold
<1> SUFFICES ASSUME TurnsInv, NEW dp \in Running, NEW i \in 1..turn[dp].snap,
                    ~Own(i, dp[2])
             PROVE  i \in Remembered(turn[dp].sid)
                          \cup Prompted(dp[2], turn[dp].seen, turn[dp].snap)
  BY DEF OthersTold
<1> DEFINE t == turn[dp]
<1>1. /\ dp \in Drivers \X Personas /\ t \in TurnType(Len(log), Len(harness))
      /\ Told(log, harness, dp[2], t.sid, t.seen)
  BY DEF Running, TurnsInv, TurnOK, Claim
<1>2. Len(log) \in Nat
  BY LenProperties DEF TurnsInv, TypeOK
<1>3. t.seen \in Nat /\ t.snap \in Nat
  BY <1>1, <1>2 DEF TurnType
<1>4. CASE i <= t.seen
  BY <1>1, <1>3, <1>4 DEF Told, Own, Remembered
<1>5. CASE i > t.seen
  BY <1>3, <1>5 DEF Prompted
<1> QED
  BY <1>3, <1>4, <1>5

\* The inductive invariant holds in every reachable state.
THEOREM PairsAreTold == Spec => []TurnsInv
BY InitInv, NextKeepsInv, PTL DEF Spec

\* The tables and the turns keep their types: no pointer ever leads beyond the
\* transcript (a stored last_seen_message_id names a message that exists), and no
\* stored id names a session the tool never opened.
THEOREM TurnsTypeCorrect == Spec => []TypeOK
<1>1. TurnsInv => TypeOK
  BY DEF TurnsInv
<1> QED
  BY <1>1, PairsAreTold, PTL

\* No running turn misses anything that another author said before its snapshot
\* (_run_turn's pairing of captured_session_id with pre_reply_tail).
THEOREM OthersAreTold == Spec => []OthersTold
BY PairsAreTold, InvImpliesOthersTold, PTL
=============================================================================
