------------------------------- MODULE Turns -------------------------------
(***************************************************************************)
(* What a persona gets to see: the transcript of one room, the stored      *)
(* (room, persona) sessions, and the turns that read and advance them      *)
(* (orchestrator._run_turn, _run_sequential, _run_parallel, send_control;  *)
(* transcript.delta_messages, own_successful; SessionStore.reset_session).  *)
(*                                                                         *)
(* A driver is one open socket of the room: it drives one post or one      *)
(* command at a time, but two sockets, and the REST threads behind         *)
(* reset_session, interleave with each other.  A message id is its         *)
(* position in the transcript; a harness session id is its position in     *)
(* the sequence of sessions the command-line tools have created.  The      *)
(* variable harness is history: what each of those sessions was told by    *)
(* turns that completed (a failed turn leaves the pointer where it was, so *)
(* that its delta is shown again).  The tools are assumed to report the    *)
(* session that a successful run opened.                                   *)
(***************************************************************************)
EXTENDS Integers, Sequences, FiniteSets

CONSTANTS
    Drivers,      \* the sockets open on the room
    Personas,     \* its members
    Human,        \* the author of operator messages
    MaxLog,       \* bound: no post or turn starts on a longer transcript
    MaxSessions,  \* bound: no tool goes on under a new session id beyond it
    MaxResets,    \* bound: session resets
    MayCrash      \* may a socket drop, or the server stop, in mid-turn?

ASSUME HumanAssumption  == Human \notin Personas
ASSUME BoundsAssumption == /\ MaxLog \in Nat /\ MaxSessions \in Nat
                           /\ MaxResets \in Nat /\ MayCrash \in BOOLEAN

VARIABLES
    log,       \* the message table: author, and FALSE for an error marker
    session,   \* the persona_session table: sid (0 is NULL) and seen (0 is NULL)
    resets,    \* how often each persona's session was reset
    driving,   \* is the socket draining a post?
    base,      \* PARALLEL: snapshot shared by the workers not yet started
    waiting,   \* PARALLEL: the personas of those workers
    turn,      \* the turn, or control command, a driver runs for a persona
    harness    \* history: what each harness session was told, and its reset era

vars == <<log, session, resets, driving, base, waiting, turn, harness>>

-----------------------------------------------------------------------------
Idle == [at |-> "idle", sid |-> 0, seen |-> 0, snap |-> 0, era |-> 0]

Own(i, p) == log[i].author = p /\ log[i].good

\* delta_messages and own_successful: what the prompt of a turn shows.
Prompted(p, seen, snap) == {i \in (seen + 1)..snap : ~Own(i, p)}

Remembered(sid) == IF sid = 0 THEN {} ELSE harness[sid].told

\* The era of the harness session a turn ends with.
Era(t) == IF t.sid = 0 THEN t.era ELSE harness[t.sid].era

TypeOK ==
    /\ log \in Seq([author : Personas \cup {Human}, good : BOOLEAN])
    /\ session \in [Personas -> [sid : 0..Len(harness), seen : 0..Len(log)]]
    /\ resets \in [Personas -> Nat]
    /\ driving \in [Drivers -> BOOLEAN]
    /\ base \in [Drivers -> 0..Len(log)]
    /\ waiting \in [Drivers -> SUBSET Personas]
    /\ turn \in [Drivers \X Personas ->
                    [at   : {"idle", "running", "replied", "control"},
                     sid  : 0..Len(harness), seen : 0..Len(log),
                     snap : 0..Len(log),     era  : Nat]]
    /\ harness \in Seq([told : SUBSET (1..Len(log)), era : Nat])

Init ==
    /\ log = <<>>
    /\ session = [p \in Personas |-> [sid |-> 0, seen |-> 0]]
    /\ resets = [p \in Personas |-> 0]
    /\ driving = [d \in Drivers |-> FALSE]
    /\ base = [d \in Drivers |-> 0]
    /\ waiting = [d \in Drivers |-> {}]
    /\ turn = [dp \in Drivers \X Personas |-> Idle]
    /\ harness = <<>>

-----------------------------------------------------------------------------
\* The event loop runs from a persisted reply to the saved session without an
\* await, so only a REST thread or a crash comes in between.
LoopFree == \A dp \in Drivers \X Personas : turn[dp].at # "replied"

Quiet(d) == \A p \in Personas : turn[<<d, p>>].at = "idle"

\* post_message: the human message is persisted; PARALLEL takes its snapshot at
\* once and creates one worker for each target (none: SEQUENTIAL).
Post(d, targets) ==
    /\ LoopFree /\ ~driving[d] /\ Quiet(d) /\ Len(log) < MaxLog
    /\ log' = Append(log, [author |-> Human, good |-> TRUE])
    /\ driving' = [driving EXCEPT ![d] = TRUE]
    /\ base' = [base EXCEPT ![d] = IF targets = {} THEN 0 ELSE Len(log) + 1]
    /\ waiting' = [waiting EXCEPT ![d] = targets]
    /\ UNCHANGED <<session, resets, turn, harness>>

\* The prompt can be built: the pointer lies in the snapshot.
PointerFound(p, snap) == session[p].seen <= snap

\* _run_turn up to the first event of the backend.
BeginTurn(d, p, snap) ==
    /\ PointerFound(p, snap)
    /\ turn' = [turn EXCEPT ![<<d, p>>] =
                   [at |-> "running", sid |-> session[p].sid,
                    seen |-> session[p].seen, snap |-> snap, era |-> resets[p]]]
    /\ UNCHANGED log

\* _run_turn on a stale pointer: TranscriptError becomes an error marker.
StaleTurn(p, snap) ==
    /\ ~PointerFound(p, snap)
    /\ log' = Append(log, [author |-> p, good |-> FALSE])
    /\ UNCHANGED turn

\* SEQUENTIAL targets, and every turn of a deliberation: the transcript is read
\* again for each turn.
StartSequential(d, p) ==
    /\ LoopFree /\ driving[d] /\ waiting[d] = {} /\ Quiet(d) /\ Len(log) < MaxLog
    /\ BeginTurn(d, p, Len(log)) \/ StaleTurn(p, Len(log))
    /\ UNCHANGED <<session, resets, driving, base, waiting, harness>>

\* A PARALLEL worker starts on the snapshot of its post.
StartParallel(d, p) ==
    /\ LoopFree /\ p \in waiting[d]
    /\ waiting' = [waiting EXCEPT ![d] = @ \ {p}]
    /\ BeginTurn(d, p, base[d]) \/ StaleTurn(p, base[d])
    /\ UNCHANGED <<session, resets, driving, base, harness>>

\* The run succeeded: its reply is persisted.  A run that resumed nothing opened
\* a harness session; one that resumed may report that it went on under a new id.
Reply(d, p) ==
    LET t == turn[<<d, p>>]
        told == Remembered(t.sid) \cup Prompted(p, t.seen, t.snap) \cup {Len(log) + 1}
        Replied(sid) == [at |-> "replied", sid |-> sid, seen |-> t.seen,
                         snap |-> t.snap, era |-> t.era]
    IN  /\ LoopFree /\ t.at = "running"
        /\ log' = Append(log, [author |-> p, good |-> TRUE])
        /\ \/ /\ t.sid # 0
              /\ harness' = [harness EXCEPT ![t.sid].told = told]
              /\ turn' = [turn EXCEPT ![<<d, p>>] = Replied(t.sid)]
           \/ /\ t.sid = 0 \/ Len(harness) < MaxSessions
              /\ harness' = Append(harness, [told |-> told, era |-> Era(t)])
              /\ turn' = [turn EXCEPT ![<<d, p>>] = Replied(Len(harness) + 1)]
        /\ UNCHANGED <<session, resets, driving, base, waiting>>

\* The run failed: an error marker, and the session is left as it was.
Fail(d, p) ==
    /\ LoopFree /\ turn[<<d, p>>].at = "running"
    /\ log' = Append(log, [author |-> p, good |-> FALSE])
    /\ turn' = [turn EXCEPT ![<<d, p>>] = Idle]
    /\ UNCHANGED <<session, resets, driving, base, waiting, harness>>

\* The pointer a successful turn stores: its pre_reply_tail.
PointerAtReply(t) == Len(log)
PointerBeyond(t) == Len(log) + 1
PointerNotAdvanced(t) == t.seen
PointerAfter(t) == t.snap

\* The session row of a successful turn: the id its RunDone carried.
SessionUncaptured(t) == [sid |-> 0, seen |-> PointerAfter(t)]
SessionAfter(t) == [sid |-> t.sid, seen |-> PointerAfter(t)]

\* sessions.upsert at the end of a successful turn.
SaveSession(d, p) ==
    LET t == turn[<<d, p>>]
    IN  /\ t.at = "replied"
        /\ session' = [session EXCEPT ![p] = SessionAfter(t)]
        /\ turn' = [turn EXCEPT ![<<d, p>>] = Idle]
        /\ UNCHANGED <<log, resets, driving, base, waiting, harness>>

\* The stream of a post is drained: turn_complete.
FinishPost(d) ==
    /\ LoopFree /\ driving[d] /\ waiting[d] = {} /\ Quiet(d)
    /\ driving' = [driving EXCEPT ![d] = FALSE]
    /\ base' = [base EXCEPT ![d] = 0]
    /\ UNCHANGED <<log, session, resets, waiting, turn, harness>>

\* send_control (/compact, /clear) on a live session.
BeginControl(d, p) ==
    /\ LoopFree /\ ~driving[d] /\ Quiet(d) /\ session[p].sid # 0
    /\ turn' = [turn EXCEPT ![<<d, p>>] =
                   [at |-> "control", sid |-> session[p].sid,
                    seen |-> session[p].seen, snap |-> 0, era |-> resets[p]]]
    /\ UNCHANGED <<log, session, resets, driving, base, waiting, harness>>

\* The pointer a command stores: the one it read at its start.
ControlPointerDropped(t) == 0
ControlPointer(t) == t.seen

\* The command ran: the session id the tool reports is stored, which may be new,
\* with the pointer read at the start.  (What a /clear drops was told all the
\* same: forgetting it is what the operator asked for.)
EndControl(d, p) ==
    LET t == turn[<<d, p>>]
    IN  /\ LoopFree /\ t.at = "control"
        /\ \/ /\ session' = [session EXCEPT ![p] = [sid  |-> t.sid,
                                                    seen |-> ControlPointer(t)]]
              /\ UNCHANGED harness
           \/ /\ Len(harness) < MaxSessions
              /\ session' = [session EXCEPT ![p] = [sid  |-> Len(harness) + 1,
                                                    seen |-> ControlPointer(t)]]
              /\ harness' = Append(harness, harness[t.sid])
        /\ turn' = [turn EXCEPT ![<<d, p>>] = Idle]
        /\ UNCHANGED <<log, resets, driving, base, waiting>>

FailControl(d, p) ==
    /\ LoopFree /\ turn[<<d, p>>].at = "control"
    /\ turn' = [turn EXCEPT ![<<d, p>>] = Idle]
    /\ UNCHANGED <<log, session, resets, driving, base, waiting, harness>>

\* reset_session, on a REST thread: nothing asks whether a turn is running.
ResetSession(p) ==
    /\ resets[p] < MaxResets
    /\ session' = [session EXCEPT ![p] = [sid |-> 0, seen |-> 0]]
    /\ resets' = [resets EXCEPT ![p] = @ + 1]
    /\ UNCHANGED <<log, driving, base, waiting, turn, harness>>

\* The socket drops: its generators are closed where they stand.
Disconnect(d) ==
    /\ MayCrash /\ LoopFree /\ (driving[d] \/ ~Quiet(d))
    /\ driving' = [driving EXCEPT ![d] = FALSE]
    /\ base' = [base EXCEPT ![d] = 0]
    /\ waiting' = [waiting EXCEPT ![d] = {}]
    /\ turn' = [dp \in Drivers \X Personas |-> IF dp[1] = d THEN Idle ELSE turn[dp]]
    /\ UNCHANGED <<log, session, resets, harness>>

\* The server stops and is started again: only the tables survive.
Crash ==
    /\ MayCrash /\ \E d \in Drivers : driving[d] \/ ~Quiet(d)
    /\ driving' = [d \in Drivers |-> FALSE]
    /\ base' = [d \in Drivers |-> 0]
    /\ waiting' = [d \in Drivers |-> {}]
    /\ turn' = [dp \in Drivers \X Personas |-> Idle]
    /\ UNCHANGED <<log, session, resets, harness>>

Next ==
    \/ \E d \in Drivers :
          \/ \E targets \in SUBSET Personas : Post(d, targets)
          \/ FinishPost(d)
          \/ Disconnect(d)
          \/ \E p \in Personas :
                \/ StartSequential(d, p) \/ StartParallel(d, p)
                \/ Reply(d, p) \/ Fail(d, p) \/ SaveSession(d, p)
                \/ BeginControl(d, p) \/ EndControl(d, p) \/ FailControl(d, p)
    \/ \E p \in Personas : ResetSession(p)
    \/ Crash

Spec == Init /\ [][Next]_vars

-----------------------------------------------------------------------------
Running == {dp \in Drivers \X Personas : turn[dp].at = "running"}

\* Every turn knows all that others said before its snapshot, error markers
\* included: it is in the prompt, or the resumed session was told.  However
\* sockets, resets and crashes interleave, no message falls between the pointer
\* and the session it is stored with.
OthersTold ==
    \A dp \in Running :
        LET t == turn[dp] IN
        \A i \in 1..t.snap :
            Own(i, dp[2]) \/ i \in Remembered(t.sid) \cup Prompted(dp[2], t.seen, t.snap)

\* Why own replies are left out of the delta: "its resumed session already
\* remembers them" (transcript.py, assemble_context).
OwnRemembered ==
    \A dp \in Running :
        \A i \in 1..turn[dp].snap : Own(i, dp[2]) => i \in Remembered(turn[dp].sid)

\* A turn is not shown again what its session was told by an earlier turn ("it
\* must not re-see, on its next turn, the messages that were already in this
\* turn's delta").
NeverRetold ==
    \A dp \in Running :
        Prompted(dp[2], turn[dp].seen, turn[dp].snap) \cap Remembered(turn[dp].sid) = {}

\* After reset_session, "the next turn finds no resume id and starts a brand-new
\* harness session": no turn resumes a session begun before the last reset that
\* precedes the turn.
ResetHonored ==
    \A dp \in Running :
        turn[dp].sid # 0 => harness[turn[dp].sid].era = turn[dp].era

\* No turn meets a stale pointer (the TranscriptError that delta_messages calls
\* "an invariant violation").
NeverStale ==
    \A d \in Drivers, p \in Personas :
        /\ p \in waiting[d] => PointerFound(p, base[d])
        /\ PointerFound(p, Len(log))

\* A stored pointer never moves back, other than by a reset.
PointersAdvance ==
    [][\A p \in Personas :
          session'[p].seen >= session[p].seen \/ resets'[p] > resets[p]]_vars
=============================================================================
