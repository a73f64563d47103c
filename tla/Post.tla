-------------------------------- MODULE Post --------------------------------
(***************************************************************************)
(* The life of one post: the WebSocket handler that drains it (ws.py,       *)
(* _handle_post), the orchestrator's generators (post_message, _drive,      *)
(* _run_sequential, _run_parallel, _run_deliberation, _run_turn), the run   *)
(* records and child processes of its turns, and the scheduler of module    *)
(* Deliberation, whose actions are steps of this module.                    *)
(*                                                                         *)
(* A turn runs in one of two ways.  In the merged wave of a PARALLEL post   *)
(* each turn is a task of its own that queues its events.  Elsewhere the    *)
(* turn is a generator, suspended at its yield for as long as the handler   *)
(* is busy sending: it resumes when the outbox is empty again.              *)
(*                                                                         *)
(* A turn shows one text event, then its terminal event.  REST threads may  *)
(* delete the room or a persona under the post, and the client may leave,   *)
(* which the handler notices when it next sends.                            *)
(***************************************************************************)
EXTENDS Deliberation

CONSTANTS
    Modes,       \* the reply modes the operator may choose
    MaxMentions, \* bound: mentions in the operator's message
    Room,        \* the room of the post
    Wired,       \* the personas whose provider has a backend
    MaxDeletes,  \* bound: rows deleted under the post
    SlowClient   \* may a send take longer than the run's time limit?

ASSUME ModesAssumption == Modes \subseteq {"sequential", "parallel"}
ASSUME RoomAssumption  == Room \notin Personas
ASSUME WorldAssumption == /\ Wired \subseteq Personas
                          /\ MaxDeletes \in Nat /\ SlowClient \in BOOLEAN
                          /\ MaxMentions \in Nat

VARIABLES
    mode,        \* reply_mode
    delegation,  \* delegation_on
    stage,       \* where the handler is in the post
    started,     \* how many of the targets have begun their turn
    work,        \* the state of each persona's current turn
    sink,        \* the _TurnSink of that turn
    open,        \* personas whose current run record is not finalized
    children,    \* personas whose child process is alive
    outbox,      \* events the handler has not sent yet
    active,      \* personas with an activity token in the SessionStore
    deleted,     \* rows deleted under the post
    owed,        \* history: turns begun whose terminal event was not sent
    unwritten,   \* history: turns begun that wrote no message
    unmet        \* history: <<by, of>> mentions its target was not yet shown

turnVars == <<work, sink, open, children, outbox>>
postVars == <<mode, delegation, stage, started, turnVars, active, deleted,
              owed, unwritten, unmet>>
vars     == <<delibVars, postVars>>

-----------------------------------------------------------------------------
(* Routing: the post's targets are the members its text mentions.          *)

\* find_mentions: the handles a text mentions, in order, repetitions included.
Texts == UNION {[1..n -> Personas \cup {"everyone"}] : n \in 1..MaxMentions}

\* list_members: the room's members, in room order.
Rosters == Ordered(Personas)

\* The mention, and the place in the room, that got a member among the targets.
Naming(text, p) == {i \in DOMAIN text : text[i] \in {p, "everyone"}}
NamedBefore(text, room, p, q) ==
    \E i \in Naming(text, p) :
        \/ \A j \in Naming(text, q) : i < j
        \/ /\ \A j \in Naming(text, q) : i <= j
           /\ \E k, l \in DOMAIN room : k < l /\ room[k] = p /\ room[l] = q

\* resolve_targets: every member that is named, once, in the order they are named.
\* A mention of anybody else is ignored.
Resolves(text, room, result) ==
    /\ Range(result) = {p \in Range(room) : Naming(text, p) # {}}
    /\ \A k, l \in DOMAIN result : k < l => NamedBefore(text, room, result[k], result[l])

\* The targets of a post that starts any turn.
Routes ==
    {result \in Ordered(Personas) \ {<<>>} :
        \E text \in Texts, room \in Rosters : Resolves(text, room, result)}

-----------------------------------------------------------------------------
NoReply == [ok |-> FALSE, mentions |-> <<>>]

\* What a run may leave in the sink; a blank reply counts as none.
Replies(p) ==
    {NoReply} \cup
    [ok : {TRUE}, mentions : IF delegation THEN Ordered(Personas \ {p}) ELSE {<<>>}]

Working == stage \in {"initial", "deliberating"}
Over    == stage \in {"complete", "gone", "torn"}

\* The wave whose turns are tasks that queue their events.
Merged == mode = "parallel" /\ stage = "initial"

\* May a turn take its next step?  The tasks of a merged wave all make their
\* first one before any makes its second.
Resumable ==
    /\ Working
    /\ IF Merged THEN started = Len(targets) ELSE outbox = <<>>

\* What the client is sent of an event: whose it is, and whether it ends the turn.
Event(p, kind) == [who |-> p, kind |-> kind]

PostTypeOK ==
    /\ mode \in Modes /\ delegation \in BOOLEAN
    /\ stage \in {"initial", "deliberating", "closing", "complete", "gone", "torn"}
    /\ started \in 0..Len(targets)
    /\ work \in [Personas -> {"idle", "running", "speaking", "finishing",
                              "failing", "ended"}]
    /\ DOMAIN sink = Personas /\ \A p \in Personas : sink[p] \in Replies(p)
    /\ open \subseteq Personas /\ children \subseteq Personas
    /\ outbox \in Seq([who : Personas, kind : {"text", "done", "error"}])
    /\ active \subseteq Personas
    /\ deleted \subseteq Personas \cup {Room}
    /\ owed \in [Personas -> Nat] /\ unwritten \in [Personas -> Nat]
    /\ unmet \subseteq Personas \X Personas

PostInit ==
    /\ Init /\ targets \in Routes
    /\ mode \in Modes /\ delegation \in BOOLEAN
    /\ stage = "initial" /\ started = 0
    /\ work = [p \in Personas |-> "idle"]
    /\ sink = [p \in Personas |-> NoReply]
    /\ open = {} /\ children = {} /\ outbox = <<>> /\ active = {}
    /\ deleted = {}
    /\ owed = [p \in Personas |-> 0] /\ unwritten = [p \in Personas |-> 0]
    /\ unmet = {}

-----------------------------------------------------------------------------
\* The turn is over, its run record finalized.
EndTurn(p) ==
    /\ work' = [work EXCEPT ![p] = "ended"]
    /\ open' = open \ {p}

\* An exception leaves _run_turn.  A worker's task swallows it; elsewhere the
\* generators unwind and the post is torn down.
Escape(p) ==
    /\ EndTurn(p)
    /\ IF Merged THEN UNCHANGED <<stage, active>>
                 ELSE stage' = "torn" /\ active' = {}

\* _run_turn up to its first event.  get_backend raises outside the try.
BeginTurn(p) ==
    /\ owed' = [owed EXCEPT ![p] = @ + 1]
    /\ unwritten' = [unwritten EXCEPT ![p] = @ + 1]
    /\ sink' = [sink EXCEPT ![p] = NoReply]
    /\ unmet' = IF Merged THEN unmet ELSE {u \in unmet : u[2] # p}
    /\ IF p \in Wired
       THEN /\ work' = [work EXCEPT ![p] = "running"]
            /\ open' = open \cup {p}
            /\ children' = children \cup {p}
            /\ UNCHANGED <<stage, active>>
       ELSE Escape(p) /\ UNCHANGED children
    /\ UNCHANGED <<mode, delegation, outbox, deleted>>

\* The targets begin in routing order: SEQUENTIAL one after the other, PARALLEL
\* without waiting.
PreviousBegun == TRUE
PreviousOver == \A i \in 1..started : work[targets[i]] = "ended"

BeginInitial(p) ==
    /\ stage = "initial"
    /\ started < Len(targets) /\ p = targets[started + 1]
    /\ Merged \/ (PreviousOver /\ outbox = <<>>)
    /\ started' = started + 1
    /\ BeginTurn(p)
    /\ UNCHANGED delibVars

\* _run_directed_turn: a turn of the current wave, or the closing turn.
BeginDirected(p) ==
    /\ stage = "deliberating" /\ work[p] = "idle"
    /\ \/ /\ phase = "talking" /\ wavesUsed > 0
          /\ due # <<>> /\ p = Head(due) /\ p \notin deleted
       \/ phase = "closing" /\ p = Closer
    /\ BeginTurn(p)
    /\ UNCHANGED <<delibVars, started>>

Say(p) ==
    /\ Resumable /\ work[p] = "running"
    /\ work' = [work EXCEPT ![p] = "speaking"]
    /\ outbox' = Append(outbox, Event(p, "text"))
    /\ UNCHANGED <<delibVars, mode, delegation, stage, started, sink, open,
                   children, active, deleted, owed, unwritten, unmet>>

\* The child is gone and RunDone was yielded.
Finish(p) ==
    /\ Resumable /\ work[p] \in {"running", "speaking"}
    /\ work' = [work EXCEPT ![p] = "finishing"]
    /\ children' = children \ {p}
    /\ outbox' = Append(outbox, Event(p, "done"))
    /\ UNCHANGED <<delibVars, mode, delegation, stage, started, sink, open,
                   active, deleted, owed, unwritten, unmet>>

\* The run failed or ran out of time: _emit_error writes the marker, then yields.
\* Without the room the marker cannot be written, and that error escapes.
FailRun(p) ==
    /\ Resumable /\ work[p] \in {"running", "speaking"}
    /\ children' = children \ {p}
    /\ IF Room \in deleted
       THEN Escape(p) /\ UNCHANGED <<outbox, unwritten>>
       ELSE /\ work' = [work EXCEPT ![p] = "failing"]
            /\ outbox' = Append(outbox, Event(p, "error"))
            /\ unwritten' = [unwritten EXCEPT ![p] = @ - 1]
            /\ UNCHANGED <<stage, open, active>>
    /\ UNCHANGED <<delibVars, mode, delegation, started, sink, deleted, owed, unmet>>

EndFailed(p) ==
    /\ Resumable /\ work[p] = "failing"
    /\ EndTurn(p)
    /\ UNCHANGED <<delibVars, mode, delegation, stage, started, sink, children,
                   outbox, active, deleted, owed, unwritten, unmet>>

\* The mentions of a reply that are still to reach their targets.
Asked(p, reply) ==
    IF phase = "closing" THEN {} ELSE {p} \X (Range(reply.mentions) \ deleted)

\* The stream of the run is exhausted, its reply not yet written.
StorableAgain(p) == work[p] \in {"finishing", "ended"}
Storable(p) == work[p] = "finishing"

\* The reply is written and the session saved: the first needs the room's row,
\* the second the persona's, and either error escapes.
StoreReply(p, reply) ==
    /\ Resumable /\ Storable(p)
    /\ IF Room \in deleted
       THEN Escape(p) /\ UNCHANGED <<unwritten, sink, unmet>>
       ELSE /\ unwritten' = [unwritten EXCEPT ![p] = @ - 1]
            /\ sink' = [sink EXCEPT ![p] = reply]
            /\ unmet' = unmet \cup Asked(p, reply)
            /\ IF p \in deleted THEN Escape(p)
                                ELSE EndTurn(p) /\ UNCHANGED <<stage, active>>
    /\ UNCHANGED <<delibVars, mode, delegation, started, children, outbox,
                   deleted, owed>>

-----------------------------------------------------------------------------
\* Who is busy once the event e was sent: _track_start, _track_end.
MarkActive(p) == active \cup {p}
MarkDone(p) == active \ {p}
BusyForgotten(e) == MarkActive(e.who)
BusyAfter(e) == IF e.kind = "text" THEN MarkActive(e.who) ELSE MarkDone(e.who)

\* The handler sends the next event.
Send ==
    /\ Working /\ outbox # <<>>
    /\ outbox' = Tail(outbox)
    /\ active' = BusyAfter(Head(outbox))
    /\ owed' = IF Head(outbox).kind = "text" THEN owed
               ELSE [owed EXCEPT ![Head(outbox).who] = @ - 1]
    /\ UNCHANGED <<delibVars, mode, delegation, stage, started, work, sink, open,
                   children, deleted, unwritten, unmet>>

\* The wave of the targets is drained.
InitialDrainedEarly == stage = "initial" /\ started = Len(targets) /\ outbox = <<>>
InitialDrained ==
    /\ stage = "initial" /\ started = Len(targets) /\ PreviousOver
    /\ outbox = <<>>

\* The generators are exhausted.
Drained ==
    \/ InitialDrained /\ ~delegation
    \/ stage = "deliberating" /\ phase = "done"

StartDeliberation ==
    /\ InitialDrained /\ delegation
    /\ stage' = "deliberating"
    /\ UNCHANGED <<delibVars, mode, delegation, started, turnVars, active, deleted,
                   owed, unwritten, unmet>>

\* turn_complete; the finally of _handle_post clears what is still active.
TurnComplete ==
    /\ Drained
    /\ stage' = "complete"
    /\ active' = {}
    /\ UNCHANGED <<delibVars, mode, delegation, started, turnVars, deleted, owed,
                   unwritten, unmet>>

\* _resolve_delegations: the mentions of a turn that name a persona.
Honored(p) == Range(sink[p].mentions) \ deleted

\* Pulling a mentioned persona into a room that is gone raises.
PullInFails(p) ==
    /\ stage = "deliberating" /\ phase = "talking" /\ outbox = <<>>
    /\ due # <<>> /\ p = Head(due) /\ work[p] = "ended"
    /\ Room \in deleted /\ Honored(p) # {}
    /\ stage' = "torn" /\ active' = {}
    /\ UNCHANGED <<delibVars, mode, delegation, started, turnVars, deleted, owed,
                   unwritten, unmet>>

\* The personas of a set, in the order they were mentioned.
MentionedIn(mentions, S, result) ==
    /\ Range(result) = S
    /\ \A k, l \in DOMAIN result : k < l =>
          \E i, j \in DOMAIN mentions :
             i < j /\ mentions[i] = result[k] /\ mentions[j] = result[l]

\* _outcome_of and observe: the next turn of the wave is reported.
Observe(p) ==
    /\ stage = "deliberating" /\ outbox = <<>> /\ work[p] = "ended"
    /\ Room \in deleted => Honored(p) = {}
    /\ IF sink[p].ok
       THEN \E fresh \in Ordered(NewRequests(p)) :
               /\ MentionedIn(sink[p].mentions, Honored(p) \cap NewRequests(p), fresh)
               /\ ObserveReply(p, fresh, Honored(p) \cap OldRequests(p))
       ELSE ObserveFailure(p)
    /\ work' = [work EXCEPT ![p] = "idle"]
    /\ UNCHANGED <<mode, delegation, stage, started, sink, open, children, outbox,
                   active, deleted, owed, unwritten, unmet>>

\* A persona deleted before its turn: the attempt is spent all the same.
SkipDeleted(p) ==
    /\ stage = "deliberating" /\ wavesUsed > 0
    /\ p \in deleted /\ work[p] = "idle"
    /\ ObserveFailure(p)
    /\ UNCHANGED postVars

\* next_wave and closing_turn.
Plan ==
    /\ stage = "deliberating"
    /\ \/ StopQuiescent \/ StopWaveCap \/ StopBudget \/ IssueWave
       \/ CloseNatural \/ CloseNone \/ CloseForced
    /\ UNCHANGED postVars

ReportClose ==
    /\ stage = "deliberating" /\ outbox = <<>>
    /\ Closer # None /\ work[Closer] = "ended"
    /\ ObserveClose
    /\ work' = [work EXCEPT ![Closer] = "idle"]
    /\ UNCHANGED <<mode, delegation, stage, started, sink, open, children, outbox,
                   active, deleted, owed, unwritten, unmet>>

-----------------------------------------------------------------------------
\* The client has left, and a send fails.  aclose() reaches the workers of a
\* merged wave, which are cancelled and awaited; the generator of any other turn
\* is only dropped.
Disconnect ==
    /\ Working /\ (outbox # <<>> \/ Drained)
    /\ outbox' = <<>>
    /\ IF Merged THEN stage' = "closing" /\ UNCHANGED active
                 ELSE stage' = "gone" /\ active' = {}
    /\ UNCHANGED <<delibVars, mode, delegation, started, work, sink, open, children,
                   deleted, owed, unwritten, unmet>>

\* A cancelled worker kills its child and finalizes its record.
CancelWorkerNot(p) == FALSE
CancelWorker(p) ==
    /\ stage = "closing" /\ p \in open
    /\ EndTurn(p)
    /\ children' = children \ {p}
    /\ UNCHANGED <<delibVars, mode, delegation, stage, started, sink, outbox, active,
                   deleted, owed, unwritten, unmet>>

\* The workers are gathered.
CloseMerged ==
    /\ stage = "closing" /\ open = {}
    /\ stage' = "gone" /\ active' = {}
    /\ UNCHANGED <<delibVars, mode, delegation, started, turnVars, deleted, owed,
                   unwritten, unmet>>

\* The time limit of a run also covers the time its consumer takes to send: it
\* then cancels the handler's own task.
TimeoutInSend ==
    /\ SlowClient /\ Working /\ ~Merged /\ outbox # <<>>
    /\ \E p \in Personas : work[p] = "speaking"
    /\ outbox' = <<>>
    /\ stage' = "torn" /\ active' = {}
    /\ UNCHANGED <<delibVars, mode, delegation, started, work, sink, open, children,
                   deleted, owed, unwritten, unmet>>

\* The event loop closes the dropped generator of a turn, then that of its run.
DropRecord(p) ==
    /\ stage \in {"gone", "torn"} /\ p \in open
    /\ EndTurn(p)
    /\ UNCHANGED <<delibVars, mode, delegation, stage, started, sink, children, outbox,
                   active, deleted, owed, unwritten, unmet>>

DropChild(p) ==
    /\ stage \in {"gone", "torn"} /\ p \in children \ open
    /\ children' = children \ {p}
    /\ UNCHANGED <<delibVars, mode, delegation, stage, started, work, sink, open, outbox,
                   active, deleted, owed, unwritten, unmet>>

\* A REST thread deletes the room or a persona.
Delete(x) ==
    /\ Working /\ x \notin deleted /\ Cardinality(deleted) < MaxDeletes
    /\ deleted' = deleted \cup {x}
    /\ unmet' = {u \in unmet : u[2] # x}
    /\ UNCHANGED <<delibVars, mode, delegation, stage, started, turnVars, active, owed,
                   unwritten>>

Finished == Over /\ open = {} /\ children = {} /\ UNCHANGED vars

-----------------------------------------------------------------------------
\* The steps of the event loop.
LoopStep ==
    \/ \E p \in Personas :
          \/ BeginInitial(p) \/ BeginDirected(p) \/ Say(p) \/ Finish(p)
          \/ FailRun(p) \/ EndFailed(p)
          \/ \E reply \in Replies(p) : StoreReply(p, reply)
          \/ Observe(p) \/ PullInFails(p) \/ SkipDeleted(p)
          \/ CancelWorker(p) \/ DropRecord(p) \/ DropChild(p)
    \/ Send \/ StartDeliberation \/ TurnComplete \/ Plan \/ ReportClose
    \/ CloseMerged

PostNext ==
    \/ LoopStep
    \/ Disconnect \/ TimeoutInSend
    \/ \E x \in Personas \cup {Room} : Delete(x)
    \/ Finished

\* The event loop never stops with work to do: a run ends or is timed out, and a
\* send is accepted or fails.
PostSpec == PostInit /\ [][PostNext]_vars /\ WF_vars(LoopStep)

-----------------------------------------------------------------------------
\* A post that completes has told the client the outcome of every turn it ran,
\* and wrote each turn's message before turn_complete, as the client then
\* fetches the transcript (ws.py, "canonical message ids").  Only the room's
\* deletion, or a target without a backend in a merged wave, is excepted.
EveryTurnReports ==
    stage = "complete" /\ Room \notin deleted /\ Range(targets) \subseteq Wired =>
        /\ started = Len(targets)
        /\ \A p \in Personas : owed[p] = 0 /\ unwritten[p] = 0

\* Nothing a persona does keeps another from its turn: unless the client leaves,
\* every target takes its turn (orchestrator.py, "NEVER aborts the post or the
\* other personas").
Isolation == stage \in {"complete", "torn"} => started = Len(targets)

\* Only the turns of a merged wave run side by side, and a post that completes
\* leaves no run record open and no child running.  No persona has two turns under
\* way, however it is asked: it begins one only when the outcome of its last was
\* sent and the message of it written.  (That much is not asked of a room deleted
\* under the post or of a target without a backend, whose turns end with neither.)
OneAtATime ==
    /\ Cardinality(open) > 1 => mode = "parallel" /\ stage \in {"initial", "closing"}
    /\ stage = "complete" => open = {} /\ children = {}
    /\ /\ stage \in {"initial", "deliberating", "complete"}
       /\ Room \notin deleted /\ Range(targets) \subseteq Wired
       => \A p \in Personas : owed[p] <= 1 /\ unwritten[p] <= 1

\* A persona shown as busy has a turn whose outcome is still owed, and nobody is
\* left busy by a post that is over, however it ended.
BusyHonest ==
    /\ \A p \in active : owed[p] > 0
    /\ Over => active = {}

\* One turn satisfies every mention that preceded it, and no mention is lost: a
\* deliberation that ends of itself leaves no successful reply's mention of a
\* teammate unseen by that teammate (deliberation.py, "causal eligibility").
MentionsMet ==
    stage = "complete" /\ delegation /\ stopReason = "quiescent" => unmet = {}

\* In a SEQUENTIAL post that much holds: a target is shown what was said before
\* its turn, and one that had its turn is asked again.
MentionsMetInTurn == mode = "sequential" => MentionsMet

\* The handler returns with the harness processes of its post reaped (ws.py,
\* serve: "so in-flight harness subprocesses are reaped").
ReapedOnReturn == stage = "gone" => children = {}

\* However a post ends, it is soon over and leaves no process, no open record
\* and nobody busy.
AllReleased == <>[](Over /\ open = {} /\ children = {} /\ active = {})
=============================================================================
