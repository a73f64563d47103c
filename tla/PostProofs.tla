----------------------------- MODULE PostProofs -----------------------------
(***************************************************************************)
(* Theorems about the life of a post, for every team, budget, set of       *)
(* deleted rows and way of ending: the invariant that ties turns to their  *)
(* run records, child processes and events, and what follows from it.      *)
(***************************************************************************)
EXTENDS Post, DeliberationProofs

(* The inductive invariant, in parts.                                      *)

\* The scheduler's own invariant: Post drives it as its protocol demands.
Scheduled == SafetyInv /\ Coalesced

\* A run record is open exactly as long as its turn is under way, and only a turn
\* that still streams has a child process (run_scope, run_process).
UnderWay == {"running", "speaking", "finishing", "failing"}
RecordsMatch == \A p \in Personas : p \in open <=> work[p] \in UnderWay
ChildrenMatch ==
    /\ stage \in {"initial", "deliberating", "complete"} =>
          \A p \in children : work[p] \in {"running", "speaking"}
    /\ stage = "closing" => children \subseteq open

\* Before the deliberation the scheduler has not been asked anything, and only
\* targets whose turn has come have taken it.
TargetsFirst ==
    stage \in {"initial", "closing"} =>
        /\ phase = "talking" /\ wavesUsed = 0 /\ due = targets
        /\ \A p \in Personas : work[p] # "idle" => \E i \in 1..started : targets[i] = p

\* In the deliberation a turn is that of the next persona of the wave, or the
\* closer's; the targets' turns are over when it starts.
OneOfWave ==
    stage = "deliberating" =>
        /\ started = Len(targets)
        /\ phase = "talking" /\ wavesUsed = 0 =>
              \A p \in Personas : work[p] = IF p \in Range(due) THEN "ended" ELSE "idle"
        /\ phase = "talking" /\ wavesUsed > 0 =>
              \A p \in Personas : work[p] # "idle" => due # <<>> /\ p = Head(due)
        /\ phase = "closing" => \A p \in Personas : work[p] # "idle" => p = Closer
        /\ phase \in {"stopped", "done"} => \A p \in Personas : work[p] = "idle"

\* Only the tasks of a merged wave run side by side.
OneRecord ==
    ~(mode = "parallel" /\ stage \in {"initial", "closing"}) =>
        \A p, q \in open : p = q

\* A post that completed has run every turn and sent every event, and whoever was
\* busy is not once a post is over.
AllClosed ==
    /\ stage = "complete" => open = {} /\ outbox = <<>> /\ started = Len(targets)
    /\ Over => active = {}

\* An event on the way to the client: a turn's last event comes after its others,
\* once the run is over, and all are owed to the client.
Terminal(i) == outbox[i].kind # "text"
EventsInOrder ==
    /\ \A i \in DOMAIN outbox :
          /\ work[outbox[i].who] # "idle"
          /\ owed[outbox[i].who] > 0
          /\ Terminal(i) =>
                /\ work[outbox[i].who] \notin {"running", "speaking"}
                /\ \A j \in DOMAIN outbox : outbox[j].who = outbox[i].who => j <= i
    /\ \A p \in Personas : work[p] \in {"running", "speaking"} => owed[p] > 0
    /\ \A p \in active : owed[p] > 0

\* A turn that may still write its message has not.
MessagesOwed ==
    \A p \in Personas :
        work[p] \in {"running", "speaking", "finishing"} => unwritten[p] > 0

\* As long as nothing took a row or a backend away, no outcome gets lost: one that
\* is owed is on its way, and so is a message that is still to be written.
Unharmed ==
    /\ stage \in {"initial", "deliberating", "complete"}
    /\ Room \notin deleted /\ Range(targets) \subseteq Wired
OutcomeDue(p) ==
    \/ work[p] \in {"running", "speaking"}
    \/ \E i \in DOMAIN outbox : outbox[i].who = p /\ Terminal(i)
MessageDue(p) == work[p] \in {"running", "speaking", "finishing"}
OwedOf(p) ==
    /\ owed[p] > 0 => owed[p] = 1 /\ OutcomeDue(p)
    /\ unwritten[p] > 0 => unwritten[p] = 1 /\ MessageDue(p)
OwedExactly == Unharmed => \A p \in Personas : OwedOf(p)

PostInv ==
    /\ Scheduled /\ PostTypeOK
    /\ RecordsMatch /\ ChildrenMatch /\ TargetsFirst /\ OneOfWave /\ OneRecord
    /\ AllClosed /\ EventsInOrder /\ MessagesOwed /\ OwedExactly

\* A SEQUENTIAL post begins a target's turn when those before it are over.
InTurn ==
    stage = "initial" /\ mode = "sequential" =>
        \A i \in 1..started : i < started => work[targets[i]] = "ended"

\* Until the first wave the scheduler hears of the targets in their order, and awaits
\* exactly those it has not heard of.
TargetsAwaited ==
    /\ IsInjective(targets)
    /\ wavesUsed = 0 =>
          /\ Len(due) <= Len(targets)
          /\ \A k \in DOMAIN due : due[k] = targets[k + (Len(targets) - Len(due))]
    /\ wavesUsed = 0 /\ phase = "talking" => awaiting = Range(due)
    /\ wavesUsed > 0 => awaiting = {}

\* What a persona was asked and has not been shown is pending, or is put to it by a
\* turn still to come, or was said in a turn that is still to be reported and came
\* after its own.
YetToStart(p) == \E i \in DOMAIN targets : i > started /\ targets[i] = p
SpokeBefore(p, q) == \E i, j \in DOMAIN targets : i < j /\ targets[i] = p /\ targets[j] = q
ToBeReported(by, of) ==
    /\ phase = "talking" /\ by \in Range(due) /\ work[by] = "ended"
    /\ sink[by].ok /\ of \in Range(sink[by].mentions)
    /\ wavesUsed = 0 /\ of \in Range(targets) => YetToStart(of) \/ SpokeBefore(of, by)
ToBeTaken(of) == phase = "talking" /\ wavesUsed > 0 /\ of \in Range(due) /\ work[of] = "idle"
Requested(of) ==
    /\ of \in Range(pending)
    /\ phase = "talking" /\ of \in Range(due) => wavesUsed > 0 /\ work[of] = "idle"
MentionKept(by, of) ==
    /\ by # of /\ of \notin deleted
    /\ ToBeReported(by, of) \/ ToBeTaken(of) \/ Requested(of)
MentionsKept ==
    /\ mode = "sequential" /\ delegation /\ stage \in {"initial", "deliberating", "complete"} =>
          \A u \in unmet : MentionKept(u[1], u[2])
    /\ stage = "complete" /\ delegation => phase = "done"

MentionInv == PostInv /\ InTurn /\ TargetsAwaited /\ MentionsKept

-----------------------------------------------------------------------------
\* Whatever happens to a post, its calls of the scheduler are calls the scheduler
\* expects, in the order it expects them.
LEMMA PostStepIsNext == [PostNext]_vars => [Next]_delibVars
<1> SUFFICES ASSUME [PostNext]_vars PROVE [Next]_delibVars
  OBVIOUS
<1>1. ASSUME NEW p \in Personas, Observe(p) PROVE Next
  <2>1. CASE sink[p].ok
    <3>1. PICK fresh \in Ordered(NewRequests(p)) :
             ObserveReply(p, fresh, Honored(p) \cap OldRequests(p))
      BY <1>1, <2>1 DEF Observe
    <3> QED
      BY <3>1 DEF Next
  <2>2. CASE ~sink[p].ok
    BY <1>1, <2>2 DEF Observe, Next
  <2> QED
    BY <2>1, <2>2
<1>2. ASSUME NEW p \in Personas, SkipDeleted(p) PROVE Next
  BY <1>2 DEF SkipDeleted, Next
<1>3. CASE Plan
  BY <1>3 DEF Plan, Next
<1>4. CASE ReportClose
  BY <1>4 DEF ReportClose, Next
<1>5. ASSUME NEW p \in Personas, NEW reply,
             \/ BeginInitial(p) \/ BeginDirected(p) \/ Say(p) \/ Finish(p)
             \/ FailRun(p) \/ EndFailed(p) \/ StoreReply(p, reply)
             \/ PullInFails(p) \/ CancelWorker(p) \/ DropRecord(p) \/ DropChild(p)
      PROVE  UNCHANGED delibVars
  BY <1>5 DEF BeginInitial, BeginDirected, Say, Finish, FailRun, EndFailed,
     StoreReply, PullInFails, CancelWorker, DropRecord, DropChild
<1>6. ASSUME \/ Send \/ StartDeliberation \/ TurnComplete \/ CloseMerged
             \/ Disconnect \/ TimeoutInSend \/ (\E x : Delete(x))
             \/ UNCHANGED vars
      PROVE  UNCHANGED delibVars
  BY <1>6 DEF Send, StartDeliberation, TurnComplete, CloseMerged, Disconnect,
     TimeoutInSend, Delete, vars
<1> QED
  BY <1>1, <1>2, <1>3, <1>4, <1>5, <1>6 DEF PostNext, LoopStep, Finished

\* Hence a post, with all that can happen to it, is a behaviour of the scheduler.
THEOREM PostImplementsScheduler == PostSpec => Init /\ [][Next]_delibVars
<1>1. PostInit => Init
  BY DEF PostInit
<1> QED
  BY <1>1, PostStepIsNext, PTL DEF PostSpec

\* The scheduler of a new post is in order.
LEMMA ScheduledInit == PostInit => Scheduled
  BY SafetyInit, CoalescedInit DEF PostInit, Scheduled

\* Every step of a post leaves its scheduler in order.
LEMMA ScheduledStep == Scheduled /\ [PostNext]_vars => Scheduled'
<1> SUFFICES ASSUME Scheduled, [PostNext]_vars PROVE Scheduled'
  OBVIOUS
<1>1. [Next]_delibVars
  BY PostStepIsNext
<1> QED
  BY <1>1, SafetyStep, CoalescedStep DEF Scheduled, SafetyInv

\* The scheduler of a post is always in order.
LEMMA PostIsScheduled == PostSpec => []Scheduled
  BY ScheduledInit, ScheduledStep, PTL DEF PostSpec

\* No post overdraws its budget, whatever is deleted, fails or leaves under it.
THEOREM PostKeepsBudget == PostSpec => []BudgetConserved
<1>1. Scheduled => BudgetConserved
  BY DEF Scheduled, SafetyInv
<1> QED
  BY <1>1, PostIsScheduled, PTL

\* A delegated post that runs to its end has its closer's word, or says it has none.
THEOREM PostIsClosed == PostSpec => []CloseGuaranteed
<1>1. Scheduled => CloseGuaranteed
  BY DEF Scheduled, SafetyInv
<1> QED
  BY <1>1, PostIsScheduled, PTL

\* The targets, the mode and the room's delegation are read once.
LEMMA FixedByPost ==
    ASSUME [PostNext]_vars
    PROVE  targets' = targets /\ mode' = mode /\ delegation' = delegation
<1>1. targets' = targets
  BY PostStepIsNext DEF Next, ObserveFailure, ObserveReply, StopQuiescent, StopWaveCap,
     StopBudget, StopWith, IssueWave, CloseNatural, CloseNone, CloseForced,
     ObserveClose, Terminated, delibVars
<1>2. delegation' = delegation /\ mode' = mode
  BY DEF PostNext, LoopStep, BeginInitial, BeginDirected, BeginTurn, Say, Finish, FailRun,
     EndFailed, StoreReply, Observe, PullInFails, SkipDeleted, CancelWorker,
     DropRecord, DropChild, Send, StartDeliberation, TurnComplete, Plan, ReportClose,
     CloseMerged, Disconnect, TimeoutInSend, Delete, Finished, vars, postVars
<1> QED
  BY <1>1, <1>2

-----------------------------------------------------------------------------
(* Queues.                                                                 *)

\* The first of a queue, and where the others go when it is taken off.
LEMMA FirstAndRest ==
    ASSUME NEW S, NEW s \in Seq(S), s # <<>>
    PROVE  /\ 1 \in DOMAIN s /\ Head(s) = s[1] /\ Head(s) \in S
           /\ Tail(s) \in Seq(S)
           /\ \A i \in DOMAIN Tail(s) : i + 1 \in DOMAIN s /\ Tail(s)[i] = s[i + 1]
           /\ \A i \in DOMAIN s : i # 1 => i - 1 \in DOMAIN Tail(s)
<1>1. /\ Head(s) \in S /\ Tail(s) \in Seq(S) /\ Len(Tail(s)) = Len(s) - 1
      /\ \A i \in 1..Len(Tail(s)) : Tail(s)[i] = s[i + 1]
  BY HeadTailProperties
<1>2. Len(s) \in Nat /\ Len(s) # 0
  OBVIOUS
<1>3. DOMAIN s = 1..Len(s) /\ DOMAIN Tail(s) = 1..(Len(s) - 1)
  BY <1>1
<1>4. Head(s) = s[1]
  OBVIOUS
<1> QED
  BY <1>1, <1>2, <1>3, <1>4

\* A queue with one more at its end.
LEMMA OneMore ==
    ASSUME NEW S, NEW s \in Seq(S), NEW e \in S
    PROVE  /\ Append(s, e) \in Seq(S)
           /\ Len(s) \in Nat /\ DOMAIN s = 1..Len(s)
           /\ DOMAIN Append(s, e) = 1..(Len(s) + 1)
           /\ \A i \in DOMAIN s : Append(s, e)[i] = s[i]
           /\ Append(s, e)[Len(s) + 1] = e
  BY AppendProperties

-----------------------------------------------------------------------------
(* Types.                                                                  *)

\* An event is a persona's.
LEMMA EventsTyped ==
    ASSUME PostTypeOK
    PROVE  /\ outbox # <<>> => 1 \in DOMAIN outbox
           /\ \A i \in DOMAIN outbox : /\ outbox[i].who \in Personas
                                       /\ outbox[i].kind \in {"text", "done", "error"}
<1> DEFINE Events == [who : Personas, kind : {"text", "done", "error"}]
<1>1. outbox \in Seq(Events)
  BY DEF PostTypeOK
<1>2. \A e \in Events : e.who \in Personas /\ e.kind \in {"text", "done", "error"}
  OBVIOUS
<1> HIDE DEF Events
<1>3. \A i \in DOMAIN outbox : outbox[i] \in Events
  BY <1>1
<1>4. outbox # <<>> => 1 \in DOMAIN outbox
  BY <1>1, FirstAndRest
<1> QED
  BY <1>2, <1>3, <1>4

\* A reply mentions personas other than its author.
LEMMA ReplyMentions ==
    ASSUME NEW p \in Personas, NEW reply \in Replies(p)
    PROVE  Range(reply.mentions) \subseteq Personas \ {p}
<1>1. CASE reply = NoReply
  BY <1>1 DEF NoReply, Range
<1>2. CASE reply.mentions = <<>>
  BY <1>2 DEF Range
<1>3. CASE reply.mentions \in Ordered(Personas \ {p})
  <2>1. IsFiniteSet(Personas \ {p})
    BY PersonasAssumption, FS_Subset
  <2>2. reply.mentions \in Seq(Personas \ {p})
    BY <1>3, <2>1, OrderedIsSeq
  <2> QED
    BY <2>2 DEF Range
<1> QED
  BY <1>1, <1>2, <1>3 DEF Replies

\* A new post has its types.
LEMMA PostTypeInit == PostInit => PostTypeOK
<1> SUFFICES ASSUME PostInit PROVE PostTypeOK
  OBVIOUS
<1>1. 0 \in 0..Len(targets)
  BY TypeInit DEF PostInit, TypeOK
<1>2. outbox \in Seq([who : Personas, kind : {"text", "done", "error"}])
  BY DEF PostInit
<1>3. \A p \in Personas : sink[p] \in Replies(p)
  BY DEF PostInit, Replies
<1> QED
  BY <1>1, <1>2, <1>3 DEF PostInit, PostTypeOK

\* No step of a post leaves its types; in particular no outcome is told, and no
\* message written, more often than it is owed.
LEMMA PostTypeStep ==
    ASSUME Scheduled, PostTypeOK, EventsInOrder, MessagesOwed, [PostNext]_vars
    PROVE  PostTypeOK'
<1>0. TypeOK /\ TypeOK'
  BY ScheduledStep DEF Scheduled, SafetyInv
<1>a. targets' = targets /\ delegation' = delegation
  BY FixedByPost
<1>c. \A q \in Personas : Replies(q)' = Replies(q) /\ NoReply \in Replies(q)
  BY <1>a DEF Replies
<1> DEFINE Events == [who : Personas, kind : {"text", "done", "error"}]
<1> USE DEF PostTypeOK
<1>1. ASSUME NEW p \in Personas, BeginInitial(p) PROVE PostTypeOK'
  <2>1. started' \in 0..Len(targets)
    BY <1>0, <1>1 DEF BeginInitial, TypeOK
  <2>2. owed' \in [Personas -> Nat] /\ unwritten' \in [Personas -> Nat]
    BY <1>1 DEF BeginInitial, BeginTurn
  <2>3. DOMAIN sink' = Personas /\ \A q \in Personas : sink'[q] \in Replies(q)
    BY <1>1, <1>c DEF BeginInitial, BeginTurn
  <2>4. /\ work' \in [Personas -> {"idle", "running", "speaking", "finishing",
                                   "failing", "ended"}]
        /\ stage' \in {"initial", "torn"} /\ active' \subseteq Personas
        /\ mode' = mode /\ delegation' = delegation /\ outbox' = outbox
        /\ deleted' = deleted
        /\ open' \subseteq Personas /\ children' \subseteq Personas
        /\ unmet' \subseteq unmet
    BY <1>1 DEF BeginInitial, BeginTurn, Escape, EndTurn
  <2> QED
    BY <1>a, <1>c, <2>1, <2>2, <2>3, <2>4
<1>2. ASSUME NEW p \in Personas, BeginDirected(p) PROVE PostTypeOK'
  <2>2. owed' \in [Personas -> Nat] /\ unwritten' \in [Personas -> Nat]
    BY <1>2 DEF BeginDirected, BeginTurn
  <2>3. DOMAIN sink' = Personas /\ \A q \in Personas : sink'[q] \in Replies(q)
    BY <1>c, <1>2 DEF BeginDirected, BeginTurn
  <2> QED
    BY <1>a, <1>c, <1>2, <2>2, <2>3 DEF BeginDirected, BeginTurn, Escape, EndTurn
<1>3. ASSUME NEW p \in Personas, Say(p) PROVE PostTypeOK'
  BY <1>a, <1>c, <1>3 DEF Say, Event
<1>4. ASSUME NEW p \in Personas, Finish(p) PROVE PostTypeOK'
  BY <1>a, <1>c, <1>4 DEF Finish, Event
<1>5. ASSUME NEW p \in Personas, FailRun(p) PROVE PostTypeOK'
  <2>1. unwritten[p] \in Nat /\ unwritten[p] > 0
    BY <1>5 DEF FailRun, MessagesOwed
  <2>2. unwritten[p] - 1 \in Nat
    BY <2>1
  <2>3. unwritten' \in [Personas -> Nat]
    BY <1>5, <2>2 DEF FailRun
  <2>4. outbox' \in Seq(Events)
    <3>1. CASE Room \in deleted
      BY <1>5, <3>1 DEF FailRun
    <3>2. CASE Room \notin deleted
      <4>1. outbox' = Append(outbox, [who |-> p, kind |-> "error"])
        BY <1>5, <3>2 DEF FailRun, Event
      <4>2. [who |-> p, kind |-> "error"] \in Events
        OBVIOUS
      <4> QED
        BY <4>1, <4>2, OneMore
    <3> QED
      BY <3>1, <3>2
  <2> QED
    BY <1>a, <1>c, <1>5, <2>3, <2>4 DEF FailRun, Escape, EndTurn
<1>6. ASSUME NEW p \in Personas, EndFailed(p) PROVE PostTypeOK'
  BY <1>a, <1>c, <1>6 DEF EndFailed, EndTurn
<1>7. ASSUME NEW p \in Personas, NEW reply \in Replies(p), StoreReply(p, reply)
      PROVE  PostTypeOK'
  <2>1. unwritten[p] \in Nat /\ unwritten[p] > 0
    BY <1>7 DEF StoreReply, Storable, MessagesOwed
  <2>2. unwritten[p] - 1 \in Nat
    BY <2>1
  <2>3. unwritten' \in [Personas -> Nat]
    BY <1>7, <2>2 DEF StoreReply
  <2>4. unmet' \subseteq Personas \X Personas
    BY <1>7, ReplyMentions DEF StoreReply, Asked
  <2>5. DOMAIN sink' = Personas /\ \A q \in Personas : sink'[q] \in Replies(q)
    BY <1>7 DEF StoreReply
  <2> QED
    BY <1>a, <1>c, <1>7, <2>3, <2>4, <2>5 DEF StoreReply, Escape, EndTurn
<1>8. ASSUME NEW p \in Personas, Observe(p) PROVE PostTypeOK'
  BY <1>a, <1>c, <1>8 DEF Observe
<1>9. ASSUME NEW p \in Personas,
             \/ PullInFails(p) \/ SkipDeleted(p) \/ CancelWorker(p)
             \/ DropRecord(p) \/ DropChild(p)
      PROVE  PostTypeOK'
  BY <1>a, <1>c, <1>9 DEF PullInFails, SkipDeleted, CancelWorker, DropRecord, DropChild,
     EndTurn, postVars, turnVars
<1>10. CASE Send
  <2> DEFINE e == Head(outbox)
  <2>0. outbox \in Seq(Events) /\ outbox # <<>>
    BY <1>10 DEF Send
  <2>1. 1 \in DOMAIN outbox /\ e = outbox[1] /\ e \in Events
    BY <2>0, FirstAndRest
  <2>2. owed[e.who] \in Nat /\ owed[e.who] > 0
    BY <2>1 DEF EventsInOrder
  <2>3. owed[e.who] - 1 \in Nat
    BY <2>2
  <2>4. owed' \in [Personas -> Nat]
    BY <1>10, <2>3 DEF Send
  <2>5. outbox' \in Seq(Events)
    BY <1>10, HeadTailProperties DEF Send
  <2>6. active' \subseteq Personas
    BY <1>10, <2>1 DEF Send, BusyAfter, MarkActive, MarkDone
  <2> QED
    BY <1>a, <1>c, <1>10, <2>4, <2>5, <2>6 DEF Send
<1>11. CASE Plan \/ StartDeliberation \/ TurnComplete \/ CloseMerged
  BY <1>a, <1>c, <1>11 DEF Plan, StartDeliberation, TurnComplete, CloseMerged,
     postVars, turnVars
<1>12. CASE ReportClose
  BY <1>a, <1>c, <1>12 DEF ReportClose
<1>13. CASE Disconnect \/ TimeoutInSend
  BY <1>a, <1>c, <1>13, EmptySeq DEF Disconnect, TimeoutInSend
<1>14. ASSUME NEW x \in Personas \cup {Room}, Delete(x) PROVE PostTypeOK'
  BY <1>a, <1>c, <1>14 DEF Delete, turnVars
<1>15. CASE UNCHANGED vars
  BY <1>c, <1>15 DEF vars, delibVars, postVars, turnVars
<1> QED
  BY <1>1, <1>2, <1>3, <1>4, <1>5, <1>6, <1>7, <1>8, <1>9, <1>10, <1>11, <1>12,
     <1>13, <1>14, <1>15 DEF PostNext, LoopStep, Finished

-----------------------------------------------------------------------------
(* Turns, their records and their children.                                *)

\* Every step of a turn opens or closes its record with it.
LEMMA RecordsStep ==
    ASSUME PostTypeOK, RecordsMatch, [PostNext]_vars
    PROVE  RecordsMatch'
<1> USE DEF PostTypeOK, RecordsMatch, UnderWay, EndTurn, Escape
<1>1. ASSUME NEW p \in Personas, BeginInitial(p) \/ BeginDirected(p) PROVE RecordsMatch'
  BY <1>1 DEF BeginInitial, BeginDirected, BeginTurn
<1>2. ASSUME NEW p \in Personas, Say(p) \/ Finish(p) \/ EndFailed(p) PROVE RecordsMatch'
  BY <1>2 DEF Say, Finish, EndFailed
<1>3. ASSUME NEW p \in Personas, FailRun(p) PROVE RecordsMatch'
  BY <1>3 DEF FailRun
<1>4. ASSUME NEW p \in Personas, NEW reply, StoreReply(p, reply) PROVE RecordsMatch'
  BY <1>4 DEF StoreReply, Storable
<1>5. ASSUME NEW p \in Personas, Observe(p) PROVE RecordsMatch'
  BY <1>5 DEF Observe
<1>6. ASSUME NEW p \in Personas,
             \/ PullInFails(p) \/ SkipDeleted(p) \/ CancelWorker(p)
             \/ DropRecord(p) \/ DropChild(p)
      PROVE  RecordsMatch'
  BY <1>6 DEF PullInFails, SkipDeleted, CancelWorker, DropRecord, DropChild, postVars,
     turnVars
<1>7. CASE ReportClose
  BY <1>7 DEF ReportClose
<1>8. ASSUME UNCHANGED <<work, open>> PROVE RecordsMatch'
  BY <1>8
<1> QED
  BY <1>1, <1>2, <1>3, <1>4, <1>5, <1>6, <1>7, <1>8
     DEF PostNext, LoopStep, Finished, Send, StartDeliberation, TurnComplete, Plan,
         CloseMerged, Disconnect, TimeoutInSend, Delete, vars, postVars, turnVars

\* The targets take their turns in order, each once, before anything is delegated.
LEMMA TargetsStep ==
    ASSUME TypeOK, PostTypeOK, RecordsMatch, TargetsFirst, [PostNext]_vars
    PROVE  TargetsFirst'
<1>0. targets' = targets
  BY FixedByPost
<1> USE DEF PostTypeOK, TargetsFirst, EndTurn, Escape
<1>1. ASSUME NEW p \in Personas, BeginInitial(p) PROVE TargetsFirst'
  <2>1. started \in Nat /\ started' = started + 1 /\ p = targets[started + 1]
    BY <1>1 DEF BeginInitial, TypeOK
  <2>2. \A q \in Personas : work'[q] # "idle" => q = p \/ work[q] # "idle"
    BY <1>1 DEF BeginInitial, BeginTurn
  <2>3. ASSUME NEW q \in Personas, work'[q] # "idle"
        PROVE  \E i \in 1..started' : targets'[i] = q
    <3>1. CASE q = p
      BY <1>0, <2>1, <3>1
    <3>2. CASE work[q] # "idle"
      <4>1. PICK i \in 1..started : targets[i] = q
        BY <1>1, <3>2 DEF BeginInitial
      <4>2. i \in 1..started'
        BY <2>1
      <4> QED
        BY <1>0, <4>1, <4>2
    <3> QED
      BY <2>2, <2>3, <3>1, <3>2
  <2> QED
    BY <1>0, <1>1, <2>3 DEF BeginInitial, delibVars, schedVars
<1>2. ASSUME NEW p \in Personas, work[p] # "idle", NEW v, work' = [work EXCEPT ![p] = v],
             UNCHANGED <<delibVars, stage, started>>
      PROVE  TargetsFirst'
  BY <1>2 DEF delibVars, schedVars
<1>a. ASSUME NEW p \in Personas, Say(p) \/ Finish(p) \/ EndFailed(p)
      PROVE  TargetsFirst'
  <2>1. work[p] # "idle" /\ UNCHANGED <<delibVars, stage, started>>
    BY <1>a DEF Say, Finish, EndFailed
  <2> QED
    BY <1>a, <1>2, <2>1 DEF Say, Finish, EndFailed
<1>b. ASSUME NEW p \in Personas, CancelWorker(p) PROVE TargetsFirst'
  <2>1. work[p] # "idle"
    BY <1>b DEF CancelWorker, RecordsMatch, UnderWay
  <2> QED
    BY <1>b, <1>2, <2>1 DEF CancelWorker
<1>3. ASSUME NEW p \in Personas, FailRun(p) PROVE TargetsFirst'
  BY <1>3 DEF FailRun, delibVars, schedVars
<1>4. ASSUME NEW p \in Personas, NEW reply, StoreReply(p, reply) PROVE TargetsFirst'
  BY <1>4 DEF StoreReply, Storable, delibVars, schedVars
<1>5. ASSUME stage' \notin {"initial", "closing"} PROVE TargetsFirst'
  BY <1>5
<1>6. ASSUME UNCHANGED <<delibVars, work, started>>, stage \in {"initial", "closing"}
      PROVE  TargetsFirst'
  BY <1>6 DEF delibVars, schedVars
<1>7. ASSUME NEW p \in Personas,
             \/ Observe(p) \/ SkipDeleted(p) \/ BeginDirected(p) \/ PullInFails(p)
             \/ DropRecord(p) \/ DropChild(p)
      PROVE  TargetsFirst'
  BY <1>7, <1>5 DEF Observe, SkipDeleted, BeginDirected, BeginTurn, PullInFails,
     DropRecord, DropChild, postVars
<1>8. CASE Send \/ (\E x : Delete(x)) \/ Disconnect \/ UNCHANGED vars
  BY <1>8, <1>5, <1>6 DEF Send, Delete, Disconnect, Merged, Working, vars, postVars, turnVars
<1>9. CASE Plan \/ ReportClose \/ StartDeliberation \/ TurnComplete \/ CloseMerged
           \/ TimeoutInSend
  BY <1>9, <1>5 DEF Plan, ReportClose, StartDeliberation, TurnComplete, CloseMerged,
     TimeoutInSend, postVars
<1> QED
  BY <1>1, <1>a, <1>b, <1>3, <1>4, <1>7, <1>8, <1>9 DEF PostNext, LoopStep, Finished

\* When a target begins its turn it is its first.
LEMMA BeginsIdle ==
    ASSUME TypeOK, PostTypeOK, Coalesced, TargetsFirst,
           NEW p \in Personas, BeginInitial(p) \/ BeginDirected(p)
    PROVE  work[p] = "idle"
<1>1. CASE BeginDirected(p)
  BY <1>1 DEF BeginDirected
<1>2. CASE BeginInitial(p)
  <2>1. /\ due = targets /\ started \in Nat /\ started < Len(targets)
        /\ p = targets[started + 1] /\ Len(targets) \in Nat
        /\ DOMAIN targets = 1..Len(targets)
    BY <1>2 DEF BeginInitial, TargetsFirst, PostTypeOK, TypeOK
  <2>2. ASSUME NEW i \in 1..started PROVE targets[i] # p
    <3>1. i \in DOMAIN targets /\ started + 1 \in DOMAIN targets /\ i # started + 1
      BY <2>1
    <3> QED
      BY <2>1, <3>1 DEF Coalesced, IsInjective
  <2> QED
    BY <1>2, <2>2 DEF BeginInitial, TargetsFirst
<1> QED
  BY <1>1, <1>2

\* Only a turn that streams has a child; whatever ends the run, ends the child.
LEMMA ChildrenStep ==
    ASSUME TypeOK, PostTypeOK, Coalesced, TargetsFirst, RecordsMatch, ChildrenMatch,
           [PostNext]_vars
    PROVE  ChildrenMatch'
<1> USE DEF PostTypeOK, RecordsMatch, ChildrenMatch, UnderWay, EndTurn, Escape
<1>1. ASSUME NEW p \in Personas, BeginInitial(p) \/ BeginDirected(p) PROVE ChildrenMatch'
  <2>1. work[p] = "idle" /\ stage \in {"initial", "deliberating"}
    BY <1>1, BeginsIdle DEF BeginInitial, BeginDirected
  <2>2. p \notin children
    BY <2>1
  <2>3. \/ stage' = "torn"
        \/ stage' = stage /\ work' = [work EXCEPT ![p] = "running"] /\ children' = children \cup {p}
        \/ stage' = stage /\ work' = [work EXCEPT ![p] = "ended"] /\ children' = children
    BY <1>1 DEF BeginInitial, BeginDirected, BeginTurn
  <2> QED
    BY <2>1, <2>2, <2>3
<1>2. ASSUME NEW p \in Personas, Say(p) \/ Finish(p) \/ EndFailed(p)
      PROVE  ChildrenMatch'
  BY <1>2 DEF Say, Finish, EndFailed, Resumable, Working
<1>3. ASSUME NEW p \in Personas, FailRun(p) PROVE ChildrenMatch'
  BY <1>3 DEF FailRun, Resumable, Working
<1>4. ASSUME NEW p \in Personas, NEW reply, StoreReply(p, reply) PROVE ChildrenMatch'
  BY <1>4 DEF StoreReply, Storable, Resumable, Working
<1>5. ASSUME NEW p \in Personas, Observe(p) PROVE ChildrenMatch'
  BY <1>5 DEF Observe
<1>6. ASSUME NEW p \in Personas,
             \/ PullInFails(p) \/ SkipDeleted(p) \/ CancelWorker(p)
             \/ DropRecord(p) \/ DropChild(p)
      PROVE  ChildrenMatch'
  BY <1>6 DEF PullInFails, SkipDeleted, CancelWorker, DropRecord, DropChild, postVars,
     turnVars
<1>7. CASE ReportClose
  BY <1>7 DEF ReportClose
<1>8. CASE Send \/ Plan \/ (\E x : Delete(x)) \/ UNCHANGED vars
  BY <1>8 DEF Send, Plan, Delete, vars, postVars, turnVars
<1>9. CASE StartDeliberation \/ TurnComplete
  BY <1>9 DEF StartDeliberation, InitialDrained, TurnComplete, Drained, turnVars
<1>10. CASE Disconnect \/ TimeoutInSend \/ CloseMerged
  BY <1>10 DEF Disconnect, TimeoutInSend, CloseMerged, Merged, Working, turnVars
<1> QED
  BY <1>1, <1>2, <1>3, <1>4, <1>5, <1>6, <1>7, <1>8, <1>9, <1>10
     DEF PostNext, LoopStep, Finished
\* What is left of a queue without repetition when its first is taken off.
LEMMA RestOfQueue ==
    ASSUME NEW S, NEW s \in Seq(S), s # <<>>, IsInjective(s)
    PROVE  Range(Tail(s)) = Range(s) \ {Head(s)} /\ Head(s) \in Range(s)
<1>1. /\ Tail(s) \in Seq(S) /\ Len(Tail(s)) = Len(s) - 1 /\ Head(s) = s[1]
      /\ \A i \in 1..Len(Tail(s)) : Tail(s)[i] = s[i + 1]
  BY HeadTailProperties
<1>2. Len(s) \in Nat /\ Len(s) # 0
  OBVIOUS
<1>3. DOMAIN s = 1..Len(s) /\ DOMAIN Tail(s) = 1..(Len(s) - 1)
  BY <1>1
<1>4. ASSUME NEW x \in Range(Tail(s)) PROVE x \in Range(s) /\ x # Head(s)
  <2>1. PICK i \in 1..(Len(s) - 1) : Tail(s)[i] = x
    BY <1>3 DEF Range
  <2>2. x = s[i + 1] /\ i + 1 \in DOMAIN s /\ 1 \in DOMAIN s /\ i + 1 # 1
    BY <1>1, <1>2, <1>3, <2>1
  <2> QED
    BY <1>1, <2>2 DEF Range, IsInjective
<1>5. ASSUME NEW x \in Range(s), x # Head(s) PROVE x \in Range(Tail(s))
  <2>1. PICK i \in 1..Len(s) : s[i] = x
    BY <1>3 DEF Range
  <2>2. i # 1
    BY <1>1, <1>5, <2>1
  <2>3. i - 1 \in 1..Len(Tail(s)) /\ (i - 1) + 1 = i
    BY <1>1, <1>2, <2>1, <2>2
  <2>4. Tail(s)[i - 1] = x /\ i - 1 \in DOMAIN Tail(s)
    BY <1>1, <1>2, <1>3, <2>1, <2>3
  <2> QED
    BY <2>4 DEF Range
<1>6. Head(s) \in Range(s)
  BY <1>1, <1>2, <1>3 DEF Range
<1> QED
  BY <1>4, <1>5, <1>6

\* The scheduler's state after it was told of a turn.
LEMMA AfterReport ==
    ASSUME NEW p \in Personas, Observe(p) \/ SkipDeleted(p)
    PROVE  /\ phase = "talking" /\ phase' = "talking" /\ wavesUsed' = wavesUsed
           /\ due # <<>> /\ p = Head(due) /\ due' = Tail(due)
           /\ stage = "deliberating" /\ stage' = stage /\ started' = started
           /\ work' = [work EXCEPT ![p] = "idle"] \/ (work' = work /\ work[p] = "idle" /\ wavesUsed > 0)
<1>1. ASSUME ObserveFailure(p) \/ (\E fresh, again : ObserveReply(p, fresh, again))
      PROVE  /\ phase = "talking" /\ phase' = "talking" /\ wavesUsed' = wavesUsed
             /\ due # <<>> /\ p = Head(due) /\ due' = Tail(due)
  BY <1>1 DEF ObserveFailure, ObserveReply
<1>2. ASSUME Observe(p)
      PROVE  ObserveFailure(p) \/ (\E fresh, again : ObserveReply(p, fresh, again))
  BY <1>2 DEF Observe
<1>3. CASE Observe(p)
  <2>1. /\ stage = "deliberating" /\ stage' = stage /\ started' = started
        /\ work' = [work EXCEPT ![p] = "idle"]
    BY <1>3 DEF Observe
  <2> QED
    BY <1>1, <1>2, <1>3, <2>1
<1>4. CASE SkipDeleted(p)
  BY <1>1, <1>4 DEF SkipDeleted, postVars, turnVars
<1> QED
  BY <1>3, <1>4

\* The turns of a deliberation are those of its scheduler, one after the other.
LEMMA WaveStep ==
    ASSUME Scheduled, PostTypeOK, RecordsMatch, TargetsFirst, OneOfWave, [PostNext]_vars
    PROVE  OneOfWave'
<1>0. targets' = targets /\ TypeOK /\ Coalesced
  BY FixedByPost DEF Scheduled, SafetyInv
<1> USE DEF PostTypeOK, OneOfWave
<1>1. ASSUME stage' # "deliberating" PROVE OneOfWave'
  BY <1>1
<1>2. ASSUME UNCHANGED <<delibVars, stage, started, work>> PROVE OneOfWave'
  BY <1>2 DEF delibVars, schedVars, Closer
<1>3. ASSUME NEW p \in Personas, work[p] \in UnderWay, NEW v, v # "idle",
             work' = [work EXCEPT ![p] = v], stage' \in {stage, "torn"},
             UNCHANGED <<delibVars, started>>
      PROVE  OneOfWave'
  <2>1. UNCHANGED <<phase, wavesUsed, due, targets>> /\ Closer' = Closer
    BY <1>3 DEF delibVars, schedVars, Closer
  <2>2. \A q \in Personas : work'[q] # "idle" => work[q] # "idle"
    BY <1>3 DEF UnderWay
  <2>3. stage' = "deliberating" => ~(phase = "talking" /\ wavesUsed = 0)
    BY <1>3 DEF UnderWay
  <2> QED
    BY <1>3, <2>1, <2>2, <2>3
<1>4. ASSUME NEW p \in Personas, BeginInitial(p) PROVE OneOfWave'
  BY <1>4, <1>1 DEF BeginInitial, BeginTurn, Escape
<1>5. ASSUME NEW p \in Personas, BeginDirected(p) PROVE OneOfWave'
  <2>1. UNCHANGED <<phase, wavesUsed, due, targets, started>> /\ Closer' = Closer
    BY <1>5 DEF BeginDirected, delibVars, schedVars, Closer
  <2>2. \A q \in Personas : work'[q] # "idle" => q = p \/ work[q] # "idle"
    BY <1>5 DEF BeginDirected, BeginTurn, Escape, EndTurn
  <2>3. /\ stage = "deliberating"
        /\ \/ phase = "closing" /\ p = Closer
           \/ phase = "talking" /\ wavesUsed > 0 /\ due # <<>> /\ p = Head(due)
    BY <1>5 DEF BeginDirected
  <2>4. wavesUsed \in Nat
    BY <1>0 DEF TypeOK
  <2> QED
    BY <2>1, <2>2, <2>3, <2>4
<1>6. ASSUME NEW p \in Personas, Say(p) \/ Finish(p) PROVE OneOfWave'
  BY <1>6, <1>3 DEF Say, Finish, UnderWay
<1>7. ASSUME NEW p \in Personas, FailRun(p) PROVE OneOfWave'
  <2>1. work[p] \in UnderWay /\ UNCHANGED <<delibVars, started>> /\ stage' \in {stage, "torn"}
    BY <1>7 DEF FailRun, UnderWay, Escape
  <2>2. work' = [work EXCEPT ![p] = "ended"] \/ work' = [work EXCEPT ![p] = "failing"]
    BY <1>7 DEF FailRun, Escape, EndTurn
  <2> QED
    BY <1>3, <2>1, <2>2
<1>8. ASSUME NEW p \in Personas, EndFailed(p) PROVE OneOfWave'
  BY <1>8, <1>3 DEF EndFailed, EndTurn, UnderWay
<1>9. ASSUME NEW p \in Personas, NEW reply, StoreReply(p, reply) PROVE OneOfWave'
  <2>1. work[p] \in UnderWay /\ UNCHANGED <<delibVars, started>> /\ stage' \in {stage, "torn"}
    BY <1>9 DEF StoreReply, Storable, UnderWay, Escape
  <2>2. work' = [work EXCEPT ![p] = "ended"]
    BY <1>9 DEF StoreReply, Escape, EndTurn
  <2> QED
    BY <1>3, <2>1, <2>2
<1>10. ASSUME NEW p \in Personas, Observe(p) \/ SkipDeleted(p) PROVE OneOfWave'
  <2>1. /\ phase = "talking" /\ phase' = "talking" /\ wavesUsed' = wavesUsed
        /\ due # <<>> /\ p = Head(due) /\ due' = Tail(due)
        /\ stage = "deliberating" /\ stage' = stage /\ started' = started
        /\ work' = [work EXCEPT ![p] = "idle"] \/ (work' = work /\ work[p] = "idle" /\ wavesUsed > 0)
    BY <1>10, AfterReport
  <2>2. wavesUsed \in Nat /\ due \in Seq(Personas) /\ IsInjective(due)
    BY <1>0 DEF TypeOK, Coalesced
  <2>3. Range(due') = Range(due) \ {p}
    BY <2>1, <2>2, RestOfQueue
  <2> QED
    BY <1>0, <2>1, <2>2, <2>3
<1>11. ASSUME Plan, stage = "deliberating" PROVE OneOfWave'
  <2>1. UNCHANGED <<stage, started, work>> /\ wavesUsed \in Nat
    BY <1>0, <1>11 DEF Plan, postVars, turnVars, TypeOK
  <2>2. CASE StopQuiescent \/ StopWaveCap \/ StopBudget
    <3>1. phase = "talking" /\ due = <<>> /\ phase' = "stopped"
      BY <2>2 DEF StopQuiescent, StopWaveCap, StopBudget, StopWith
    <3>2. Range(due) = {}
      BY <3>1 DEF Range
    <3>3. \A q \in Personas : work[q] = "idle"
      BY <1>11, <2>1, <3>1, <3>2
    <3> QED
      BY <1>0, <1>11, <2>1, <3>1, <3>3
  <2>3. CASE IssueWave
    <3>1. phase = "talking" /\ due = <<>> /\ phase' = phase /\ wavesUsed' = wavesUsed + 1
      BY <2>3 DEF IssueWave, CountWave
    <3>2. Range(due) = {}
      BY <3>1 DEF Range
    <3>3. \A q \in Personas : work[q] = "idle"
      BY <1>11, <2>1, <3>1, <3>2
    <3> QED
      BY <1>0, <1>11, <2>1, <3>1, <3>3
  <2>4. CASE CloseNatural \/ CloseNone \/ CloseForced
    <3>1. phase = "stopped" /\ phase' \in {"done", "closing"}
      BY <2>4 DEF CloseNatural, CloseNone, CloseForced
    <3>3. \A q \in Personas : work[q] = "idle"
      BY <1>11, <3>1
    <3> QED
      BY <1>0, <1>11, <2>1, <3>1, <3>3
  <2> QED
    BY <1>11, <2>2, <2>3, <2>4 DEF Plan
<1>12. CASE ReportClose
  <2>1. /\ stage = "deliberating" /\ phase = "closing" /\ phase' = "done"
        /\ work' = [work EXCEPT ![Closer] = "idle"] /\ UNCHANGED <<stage, started>>
    BY <1>12 DEF ReportClose, ObserveClose
  <2> QED
    BY <1>0, <2>1
<1>13. CASE StartDeliberation
  <2>1. /\ stage = "initial" /\ started = Len(targets) /\ PreviousOver
        /\ UNCHANGED <<delibVars, work, started>>
    BY <1>13 DEF StartDeliberation, InitialDrained, turnVars
  <2>2. phase = "talking" /\ wavesUsed = 0 /\ due = targets
    BY <2>1 DEF TargetsFirst
  <2>3. UNCHANGED <<phase, wavesUsed, due>>
    BY <2>1 DEF delibVars, schedVars
  <2>4. DOMAIN targets = 1..started
    BY <1>0, <2>1 DEF TypeOK
  <2>5. ASSUME NEW q \in Personas
        PROVE  work[q] = IF q \in Range(targets) THEN "ended" ELSE "idle"
    <3>1. q \in Range(targets) => work[q] = "ended"
      BY <2>1, <2>4 DEF PreviousOver, Range
    <3>2. work[q] # "idle" => q \in Range(targets)
      BY <2>1, <2>4 DEF TargetsFirst, Range
    <3> QED
      BY <3>1, <3>2
  <2> QED
    BY <1>0, <2>1, <2>2, <2>3, <2>5
<1>14. ASSUME NEW p \in Personas,
              \/ PullInFails(p) \/ CancelWorker(p) \/ DropRecord(p) \/ DropChild(p)
       PROVE  OneOfWave'
  BY <1>1, <1>14 DEF PullInFails, CancelWorker, DropRecord, DropChild
<1>15. CASE Send \/ (\E x : Delete(x)) \/ UNCHANGED vars
  BY <1>2, <1>15 DEF Send, Delete, vars, postVars, turnVars
<1>16. CASE TurnComplete \/ CloseMerged \/ Disconnect \/ TimeoutInSend
  BY <1>1, <1>16 DEF TurnComplete, CloseMerged, Disconnect, TimeoutInSend
<1>17. Plan => stage = "deliberating"
  BY DEF Plan
<1> QED
  BY <1>4, <1>5, <1>6, <1>7, <1>8, <1>9, <1>10, <1>11, <1>12, <1>13, <1>14, <1>15,
     <1>16, <1>17 DEF PostNext, LoopStep, Finished
\* A wave whose turns are over has no record open.
LEMMA NoneOpen ==
    ASSUME TypeOK, PostTypeOK, RecordsMatch, TargetsFirst, stage = "initial", PreviousOver
    PROVE  open = {}
<1>1. ASSUME NEW p \in open PROVE FALSE
  <2>1. p \in Personas /\ work[p] \in UnderWay
    BY <1>1 DEF PostTypeOK, RecordsMatch
  <2>2. work[p] # "idle" /\ work[p] # "ended"
    BY <2>1 DEF UnderWay
  <2>3. PICK i \in 1..started : targets[i] = p
    BY <2>1, <2>2 DEF TargetsFirst
  <2> QED
    BY <2>2, <2>3 DEF PreviousOver
<1> QED
  BY <1>1

\* Whenever a turn begins outside a merged wave, the one before it is over.
LEMMA OneRecordStep ==
    ASSUME Scheduled, PostTypeOK, RecordsMatch, TargetsFirst, OneOfWave, OneRecord,
           AllClosed, [PostNext]_vars
    PROVE  OneRecord'
<1>0. targets' = targets /\ mode' = mode /\ TypeOK
  BY FixedByPost DEF Scheduled, SafetyInv
<1> USE DEF PostTypeOK, OneRecord, Merged
<1>1. ASSUME open' \subseteq open,
             \/ stage' = stage
             \/ ~Merged /\ stage \in {"initial", "deliberating"}
             \/ stage' = "closing" /\ Merged
             \/ open = {}
      PROVE  OneRecord'
  BY <1>0, <1>1
<1>2. ASSUME NEW p \in Personas, open = {}, open' \subseteq open \cup {p} PROVE OneRecord'
  BY <1>2
<1>3. ASSUME NEW p \in Personas, BeginInitial(p) PROVE OneRecord'
  <2>1. CASE Merged
    <3>1. stage' = "initial" /\ mode' = "parallel"
      BY <1>0, <1>3, <2>1 DEF BeginInitial, BeginTurn, Escape
    <3> QED
      BY <3>1
  <2>2. CASE ~Merged
    <3>1. open = {}
      BY <1>0, <1>3, <2>2, NoneOpen DEF BeginInitial
    <3>2. open' \subseteq open \cup {p}
      BY <1>3 DEF BeginInitial, BeginTurn, Escape, EndTurn
    <3> QED
      BY <1>2, <3>1, <3>2
  <2> QED
    BY <2>1, <2>2
<1>4. ASSUME NEW p \in Personas, BeginDirected(p) PROVE OneRecord'
  <2>1. \A q \in Personas : work[q] = "idle"
    BY <1>4 DEF BeginDirected, OneOfWave
  <2>2. open = {}
    BY <2>1 DEF RecordsMatch, UnderWay
  <2>3. open' \subseteq open \cup {p}
    BY <1>4 DEF BeginDirected, BeginTurn, Escape, EndTurn
  <2> QED
    BY <1>2, <2>2, <2>3
<1>5. ASSUME NEW p \in Personas, NEW reply, FailRun(p) \/ StoreReply(p, reply)
      PROVE  OneRecord'
  <2>1. open' \subseteq open
    BY <1>5 DEF FailRun, StoreReply, Escape, EndTurn
  <2>2. stage' = stage \/ (~Merged /\ stage \in {"initial", "deliberating"})
    BY <1>5 DEF FailRun, StoreReply, Escape, Resumable, Working
  <2> QED
    BY <1>1, <2>1, <2>2
<1>6. ASSUME NEW p \in Personas,
             \/ Say(p) \/ Finish(p) \/ EndFailed(p) \/ CancelWorker(p) \/ DropRecord(p)
             \/ DropChild(p) \/ Observe(p) \/ SkipDeleted(p) \/ PullInFails(p)
      PROVE  OneRecord'
  BY <1>1, <1>6 DEF Say, Finish, EndFailed, CancelWorker, DropRecord, DropChild, Observe,
     SkipDeleted, PullInFails, EndTurn, postVars, turnVars
<1>7. CASE Send \/ Plan \/ ReportClose \/ (\E x : Delete(x)) \/ UNCHANGED vars
  BY <1>1, <1>7 DEF Send, Plan, ReportClose, Delete, vars, postVars, turnVars
<1>8. CASE StartDeliberation \/ TurnComplete \/ CloseMerged
  <2>1. stage = "initial" => open = {}
    BY <1>0, <1>8, NoneOpen DEF StartDeliberation, TurnComplete, CloseMerged, Drained,
       InitialDrained
  <2>2. stage = "closing" => open = {}
    BY <1>8 DEF StartDeliberation, TurnComplete, CloseMerged, Drained, InitialDrained
  <2>3. open' = open /\ stage \in {"initial", "deliberating", "closing"}
    BY <1>8 DEF StartDeliberation, TurnComplete, CloseMerged, Drained, InitialDrained,
       turnVars
  <2> QED
    BY <1>1, <2>1, <2>2, <2>3
<1>9. CASE Disconnect \/ TimeoutInSend
  BY <1>1, <1>9 DEF Disconnect, TimeoutInSend, Working
<1> QED
  BY <1>3, <1>4, <1>5, <1>6, <1>7, <1>8, <1>9 DEF PostNext, LoopStep, Finished

\* A post completes with nothing under way, and is over with nobody busy.
LEMMA AllClosedStep ==
    ASSUME Scheduled, PostTypeOK, RecordsMatch, TargetsFirst, OneOfWave, AllClosed,
           EventsInOrder, [PostNext]_vars
    PROVE  AllClosed'
<1>0. targets' = targets /\ TypeOK
  BY FixedByPost DEF Scheduled, SafetyInv
<1> USE DEF AllClosed, Over
<1>1. ASSUME stage' \in {"initial", "deliberating", "closing"} PROVE AllClosed'
  BY <1>1
<1>2. ASSUME stage' \in {"gone", "torn"}, active' = {} PROVE AllClosed'
  BY <1>2
<1>3. ASSUME NEW p \in Personas, NEW reply,
             \/ BeginInitial(p) \/ BeginDirected(p) \/ FailRun(p) \/ StoreReply(p, reply)
             \/ Say(p) \/ Finish(p) \/ EndFailed(p)
      PROVE  AllClosed'
  <2>1. stage \in {"initial", "deliberating"}
    BY <1>3 DEF BeginInitial, BeginDirected, FailRun, StoreReply, Say, Finish, EndFailed,
       Resumable, Working
  <2>2. stage' = stage \/ (stage' = "torn" /\ active' = {})
    BY <1>3 DEF BeginInitial, BeginDirected, BeginTurn, FailRun, StoreReply, Say, Finish,
       EndFailed, Escape
  <2> QED
    BY <1>1, <1>2, <2>1, <2>2
<1>4. ASSUME NEW p \in Personas,
             \/ Observe(p) \/ SkipDeleted(p) \/ PullInFails(p) \/ CancelWorker(p)
      PROVE  AllClosed'
  BY <1>1, <1>2, <1>4 DEF Observe, SkipDeleted, PullInFails, CancelWorker, postVars
<1>5. ASSUME NEW p \in Personas, DropRecord(p) \/ DropChild(p) PROVE AllClosed'
  BY <1>2, <1>5 DEF DropRecord, DropChild
<1>6. CASE Send \/ Plan \/ ReportClose \/ StartDeliberation \/ (\E x : Delete(x))
  BY <1>1, <1>6 DEF Send, Plan, ReportClose, StartDeliberation, Delete, Working, postVars
<1>7. CASE CloseMerged \/ Disconnect \/ TimeoutInSend
  BY <1>1, <1>2, <1>7 DEF CloseMerged, Disconnect, TimeoutInSend
<1>8. CASE TurnComplete
  <2>1. CASE InitialDrained
    <3>1. open = {} /\ outbox = <<>> /\ started = Len(targets)
      BY <1>0, <2>1, NoneOpen DEF InitialDrained
    <3> QED
      BY <1>0, <1>8, <3>1 DEF TurnComplete, turnVars
  <2>2. CASE stage = "deliberating" /\ phase = "done"
    <3>1. started = Len(targets) /\ \A p \in Personas : work[p] = "idle"
      BY <2>2 DEF OneOfWave
    <3>2. open = {}
      BY <3>1 DEF PostTypeOK, RecordsMatch, UnderWay
    <3>3. outbox = <<>>
      <4>1. SUFFICES ASSUME outbox # <<>> PROVE FALSE
        OBVIOUS
      <4>2. 1 \in DOMAIN outbox /\ outbox[1].who \in Personas
        BY <4>1, EventsTyped
      <4> QED
        BY <3>1, <4>2 DEF EventsInOrder
    <3> QED
      BY <1>0, <1>8, <3>1, <3>2, <3>3 DEF TurnComplete, turnVars
  <2> QED
    BY <1>8, <2>1, <2>2 DEF TurnComplete, Drained
<1>9. CASE UNCHANGED vars
  BY <1>0, <1>9 DEF vars, postVars, turnVars
<1> QED
  BY <1>3, <1>4, <1>5, <1>6, <1>7, <1>8, <1>9 DEF PostNext, LoopStep, Finished

-----------------------------------------------------------------------------
(* Events and messages.                                                    *)

\* A turn that goes on leaves the events under way in their order.
LEMMA TurnGoesOn ==
    ASSUME PostTypeOK, EventsInOrder, NEW p \in Personas, NEW v, v # "idle",
           work' = [work EXCEPT ![p] = v],
           v \in {"running", "speaking"} => work[p] \in {"running", "speaking"},
           UNCHANGED <<outbox, owed>>, active' \in {active, {}}
    PROVE  EventsInOrder'
BY DEF PostTypeOK, EventsInOrder, Terminal

\* A turn that starts has no event under way, and owes its outcome.
LEMMA TurnStarts ==
    ASSUME PostTypeOK, EventsInOrder, NEW p \in Personas, NEW v, work[p] = "idle", v # "idle",
           work' = [work EXCEPT ![p] = v], owed' = [owed EXCEPT ![p] = @ + 1],
           outbox' = outbox, active' \subseteq active
    PROVE  EventsInOrder'
<1>1. \A q \in Personas : owed[q] \in Nat
  BY DEF PostTypeOK
<1>2. \A q \in Personas : owed'[q] = IF q = p THEN owed[q] + 1 ELSE owed[q]
  BY DEF PostTypeOK
<1>3. \A q \in Personas : owed[q] > 0 \/ q = p => owed'[q] > 0
  BY <1>1, <1>2
<1>4. \A i \in DOMAIN outbox : outbox[i].who \in Personas /\ outbox[i].who # p
  BY EventsTyped DEF EventsInOrder
<1>5. \A q \in Personas : work'[q] = IF q = p THEN v ELSE work[q]
  BY DEF PostTypeOK
<1>6. active \subseteq Personas
  BY DEF PostTypeOK
<1>7. \A i \in DOMAIN outbox' :
          /\ work'[outbox'[i].who] # "idle"
          /\ owed'[outbox'[i].who] > 0
          /\ outbox'[i].kind # "text" =>
                /\ work'[outbox'[i].who] \notin {"running", "speaking"}
                /\ \A j \in DOMAIN outbox' : outbox'[j].who = outbox'[i].who => j <= i
  BY <1>3, <1>4, <1>5 DEF EventsInOrder, Terminal
<1>8. /\ \A q \in Personas : work'[q] \in {"running", "speaking"} => owed'[q] > 0
      /\ \A q \in active' : owed'[q] > 0
  BY <1>3, <1>5, <1>6 DEF EventsInOrder
<1> QED
  BY <1>7, <1>8 DEF EventsInOrder, Terminal

\* A turn that streams queues an event, its last one when its run is over.
LEMMA TurnTells ==
    ASSUME PostTypeOK, EventsInOrder, NEW p \in Personas, work[p] \in {"running", "speaking"},
           NEW v, work' = [work EXCEPT ![p] = v], NEW kind,
           \/ v = "speaking" /\ kind = "text"
           \/ v = "finishing" /\ kind = "done"
           \/ v = "failing" /\ kind = "error",
           outbox' = Append(outbox, [who |-> p, kind |-> kind]),
           UNCHANGED <<owed, active>>
    PROVE  /\ EventsInOrder'
           /\ DOMAIN outbox \subseteq DOMAIN outbox'
           /\ \A i \in DOMAIN outbox : outbox'[i] = outbox[i]
           /\ Len(outbox) + 1 \in DOMAIN outbox'
           /\ outbox'[Len(outbox) + 1] = [who |-> p, kind |-> kind]
<1> DEFINE e == [who |-> p, kind |-> kind]
           n == Len(outbox)
<1>1. outbox \in Seq([who : Personas, kind : {"text", "done", "error"}])
  BY DEF PostTypeOK
<1>2. /\ n \in Nat /\ DOMAIN outbox = 1..n /\ DOMAIN outbox' = 1..(n + 1)
      /\ \A i \in DOMAIN outbox : outbox'[i] = outbox[i]
      /\ outbox'[n + 1] = e
  BY <1>1, OneMore
<1>3. e.who = p /\ e.kind = kind
  OBVIOUS
<1>4. \A q \in Personas : work'[q] = IF q = p THEN v ELSE work[q]
  BY DEF PostTypeOK
<1>5. \A i \in DOMAIN outbox' : i \in DOMAIN outbox \/ i = n + 1
  BY <1>2
<1>6. \A i \in DOMAIN outbox : outbox[i].who \in Personas /\ (Terminal(i) => outbox[i].who # p)
  BY EventsTyped DEF EventsInOrder
<1> HIDE DEF e, n
<1>7. ASSUME NEW i \in DOMAIN outbox'
      PROVE  /\ work'[outbox'[i].who] # "idle" /\ owed'[outbox'[i].who] > 0
             /\ Terminal(i)' => work'[outbox'[i].who] \notin {"running", "speaking"}
  <2>1. CASE i \in DOMAIN outbox
    BY <1>2, <1>4, <1>6, <2>1 DEF EventsInOrder, Terminal
  <2>2. CASE i = n + 1
    BY <1>2, <1>3, <1>4, <2>2 DEF EventsInOrder, Terminal
  <2> QED
    BY <1>5, <2>1, <2>2
<1>8. ASSUME NEW i \in DOMAIN outbox', Terminal(i)',
             NEW j \in DOMAIN outbox', outbox'[j].who = outbox'[i].who
      PROVE  j <= i
  <2>1. CASE i = n + 1
    BY <1>2, <2>1
  <2>2. CASE i \in DOMAIN outbox
    <3>1. Terminal(i)
      BY <1>2, <1>8, <2>2 DEF Terminal
    <3>2. j # n + 1
      BY <1>2, <1>3, <1>6, <1>8, <2>2, <3>1
    <3>3. j \in DOMAIN outbox /\ outbox[j].who = outbox[i].who
      BY <1>2, <1>5, <1>8, <2>2, <3>2
    <3> QED
      BY <2>2, <3>1, <3>3 DEF EventsInOrder
  <2> QED
    BY <1>5, <2>1, <2>2
<1>9. \A q \in Personas : work'[q] \in {"running", "speaking"} => owed'[q] > 0
  BY <1>4 DEF EventsInOrder
<1>10. EventsInOrder'
  <2>1. \A i \in DOMAIN outbox' :
           /\ work'[outbox'[i].who] # "idle" /\ owed'[outbox'[i].who] > 0
           /\ Terminal(i)' =>
                 /\ work'[outbox'[i].who] \notin {"running", "speaking"}
                 /\ \A j \in DOMAIN outbox' : outbox'[j].who = outbox'[i].who => j <= i
    BY <1>7, <1>8
  <2>2. \A q \in active' : owed'[q] > 0
    BY DEF EventsInOrder
  <2> QED
    BY <1>9, <2>1, <2>2 DEF EventsInOrder
<1> QED
  BY <1>2, <1>10 DEF e, n
\* The events that are left when the first is sent.
LEMMA SentEvents ==
    ASSUME PostTypeOK, outbox # <<>>, outbox' = Tail(outbox)
    PROVE  /\ 1 \in DOMAIN outbox /\ Head(outbox) = outbox[1]
           /\ \A i \in DOMAIN outbox' :
                 i + 1 \in DOMAIN outbox /\ outbox'[i] = outbox[i + 1] /\ i \in Nat /\ i > 0
           /\ \A i \in DOMAIN outbox :
                 i # 1 => i - 1 \in DOMAIN outbox' /\ outbox'[i - 1] = outbox[i]
<1> DEFINE Events == [who : Personas, kind : {"text", "done", "error"}]
<1>1. outbox \in Seq(Events)
  BY DEF PostTypeOK
<1> HIDE DEF Events
<1>2. Tail(outbox) \in Seq(Events) /\ 1 \in DOMAIN outbox /\ Head(outbox) = outbox[1]
  BY <1>1, FirstAndRest
<1>3. \A i \in DOMAIN outbox' : i \in Nat /\ i > 0
  BY <1>2
<1>4. \A i \in DOMAIN outbox' : i + 1 \in DOMAIN outbox /\ outbox'[i] = outbox[i + 1]
  BY <1>1, FirstAndRest
<1>5. \A i \in DOMAIN outbox : i # 1 => i - 1 \in DOMAIN outbox'
  BY <1>1, FirstAndRest
<1>6. \A i \in DOMAIN outbox : i \in Nat /\ (i - 1) + 1 = i
  BY <1>1
<1>7. \A i \in DOMAIN outbox : i # 1 => outbox'[i - 1] = outbox[i]
  BY <1>4, <1>5, <1>6
<1> QED
  BY <1>2, <1>3, <1>4, <1>5, <1>7

\* Events reach the queue, and leave it, in the order of their turn.
LEMMA EventsStep ==
    ASSUME TypeOK, PostTypeOK, Coalesced, TargetsFirst, RecordsMatch, EventsInOrder,
           [PostNext]_vars
    PROVE  EventsInOrder'
<1>1. ASSUME UNCHANGED <<work, owed, outbox>>, active' \subseteq active PROVE EventsInOrder'
  BY <1>1 DEF EventsInOrder, Terminal
<1>2. ASSUME outbox' = <<>>, UNCHANGED <<work, owed>>, active' \subseteq active
      PROVE  EventsInOrder'
  BY <1>2 DEF EventsInOrder
<1>3. ASSUME NEW p \in Personas, BeginInitial(p) \/ BeginDirected(p) PROVE EventsInOrder'
  <2>1. work[p] = "idle"
    BY <1>3, BeginsIdle
  <2>2. work' = [work EXCEPT ![p] = "running"] \/ work' = [work EXCEPT ![p] = "ended"]
    BY <1>3 DEF BeginInitial, BeginDirected, BeginTurn, Escape, EndTurn
  <2>3. owed' = [owed EXCEPT ![p] = @ + 1] /\ outbox' = outbox /\ active' \subseteq active
    BY <1>3 DEF BeginInitial, BeginDirected, BeginTurn, Escape
  <2> QED
    BY <2>1, <2>2, <2>3, TurnStarts
<1>4. ASSUME NEW p \in Personas, Say(p) PROVE EventsInOrder'
  <2>1. /\ work[p] = "running" /\ work' = [work EXCEPT ![p] = "speaking"]
        /\ outbox' = Append(outbox, [who |-> p, kind |-> "text"])
        /\ UNCHANGED <<owed, active>>
    BY <1>4 DEF Say, Event
  <2> QED
    BY <2>1, TurnTells
<1>5. ASSUME NEW p \in Personas, Finish(p) PROVE EventsInOrder'
  <2>1. /\ work[p] \in {"running", "speaking"} /\ work' = [work EXCEPT ![p] = "finishing"]
        /\ outbox' = Append(outbox, [who |-> p, kind |-> "done"])
        /\ UNCHANGED <<owed, active>>
    BY <1>5 DEF Finish, Event
  <2> QED
    BY <2>1, TurnTells
<1>6. ASSUME NEW p \in Personas, FailRun(p) PROVE EventsInOrder'
  <2>1. work[p] \in {"running", "speaking"} /\ owed' = owed
    BY <1>6 DEF FailRun
  <2>2. CASE Room \in deleted
    <3>1. /\ work' = [work EXCEPT ![p] = "ended"]
          /\ outbox' = outbox /\ active' \in {active, {}}
      BY <1>6, <2>2 DEF FailRun, Escape, EndTurn
    <3> QED
      BY <2>1, <3>1, TurnGoesOn
  <2>3. CASE Room \notin deleted
    <3>1. /\ work' = [work EXCEPT ![p] = "failing"]
          /\ outbox' = Append(outbox, [who |-> p, kind |-> "error"])
          /\ active' = active
      BY <1>6, <2>3 DEF FailRun, Event
    <3> QED
      BY <2>1, <3>1, TurnTells
  <2> QED
    BY <2>2, <2>3
<1>7. ASSUME NEW p \in Personas, NEW reply, StoreReply(p, reply) PROVE EventsInOrder'
  <2>1. /\ work' = [work EXCEPT ![p] = "ended"] /\ UNCHANGED <<outbox, owed>>
        /\ active' \in {active, {}}
    BY <1>7 DEF StoreReply, Escape, EndTurn
  <2> QED
    BY <2>1, TurnGoesOn
<1>8. ASSUME NEW p \in Personas, EndFailed(p) \/ CancelWorker(p) \/ DropRecord(p)
      PROVE  EventsInOrder'
  <2>1. work' = [work EXCEPT ![p] = "ended"] /\ UNCHANGED <<outbox, owed, active>>
    BY <1>8 DEF EndFailed, CancelWorker, DropRecord, EndTurn
  <2> QED
    BY <2>1, TurnGoesOn
<1>9. ASSUME NEW p, Observe(p) \/ (ReportClose /\ p = Closer) PROVE EventsInOrder'
  <2>1. /\ outbox = <<>> /\ outbox' = <<>> /\ UNCHANGED <<owed, active>>
        /\ work' = [work EXCEPT ![p] = "idle"]
    BY <1>9 DEF Observe, ReportClose
  <2> QED
    BY <2>1 DEF EventsInOrder, PostTypeOK
<1>10. CASE Send
  <2> DEFINE e == Head(outbox)
  <2>1. /\ outbox # <<>> /\ outbox' = Tail(outbox) /\ active' = BusyAfter(e)
        /\ owed' = IF e.kind = "text" THEN owed ELSE [owed EXCEPT ![e.who] = @ - 1]
        /\ work' = work
    BY <1>10 DEF Send
  <2>2. /\ 1 \in DOMAIN outbox /\ e = outbox[1]
        /\ \A i \in DOMAIN outbox' : i + 1 \in DOMAIN outbox /\ outbox'[i] = outbox[i + 1]
                                     /\ i \in Nat /\ i > 0
    BY <2>1, SentEvents
  <2>3. e.who \in Personas /\ work[e.who] # "idle" /\ owed[e.who] > 0
    BY <2>2, EventsTyped DEF EventsInOrder
  <2> HIDE DEF e
  <2>4. ASSUME e.kind # "text"
        PROVE  /\ work[e.who] \notin {"running", "speaking"}
               /\ \A i \in DOMAIN outbox' : outbox'[i].who # e.who
    <3>1. Terminal(1)
      BY <2>2, <2>4 DEF Terminal
    <3>2. \A j \in DOMAIN outbox : outbox[j].who = e.who => j <= 1
      BY <2>2, <3>1 DEF EventsInOrder
    <3> QED
      BY <2>2, <3>1, <3>2 DEF EventsInOrder
  <2>5. \A q \in Personas : owed'[q] = owed[q] \/ (e.kind # "text" /\ q = e.who)
    BY <2>1 DEF PostTypeOK
  <2>6. \A i \in DOMAIN outbox' : outbox'[i].who \in Personas /\ owed'[outbox'[i].who] > 0
                                  /\ work'[outbox'[i].who] # "idle"
    BY <2>1, <2>2, <2>4, <2>5, EventsTyped DEF EventsInOrder
  <2>7. ASSUME NEW i \in DOMAIN outbox', Terminal(i)'
        PROVE  /\ work'[outbox'[i].who] \notin {"running", "speaking"}
               /\ \A j \in DOMAIN outbox' : outbox'[j].who = outbox'[i].who => j <= i
    <3>1. Terminal(i + 1) /\ i + 1 \in DOMAIN outbox /\ i \in Nat
      BY <2>2, <2>7 DEF Terminal
    <3>2. /\ work[outbox[i + 1].who] \notin {"running", "speaking"}
          /\ \A j \in DOMAIN outbox : outbox[j].who = outbox[i + 1].who => j <= i + 1
      BY <3>1 DEF EventsInOrder
    <3>3. \A j \in DOMAIN outbox' : outbox'[j].who = outbox'[i].who => j + 1 <= i + 1
      BY <2>2, <3>2
    <3> QED
      BY <2>1, <2>2, <3>1, <3>2, <3>3
  <2>8. \A q \in Personas : work'[q] \in {"running", "speaking"} => owed'[q] > 0
    BY <2>1, <2>4, <2>5 DEF EventsInOrder
  <2>9. \A q \in active' : owed'[q] > 0
    <3>1. CASE e.kind = "text"
      BY <2>1, <2>3, <3>1 DEF BusyAfter, MarkActive, EventsInOrder
    <3>2. CASE e.kind # "text"
      BY <2>1, <2>5, <3>2 DEF BusyAfter, MarkDone, EventsInOrder, PostTypeOK
    <3> QED
      BY <3>1, <3>2
  <2> QED
    BY <2>6, <2>7, <2>8, <2>9 DEF EventsInOrder
<1>11. ASSUME NEW p \in Personas, PullInFails(p) \/ SkipDeleted(p) \/ DropChild(p)
       PROVE  EventsInOrder'
  BY <1>1, <1>11 DEF PullInFails, SkipDeleted, DropChild, postVars, turnVars
<1>12. CASE StartDeliberation \/ TurnComplete \/ Plan \/ CloseMerged \/ (\E x : Delete(x))
            \/ UNCHANGED vars
  BY <1>1, <1>12 DEF StartDeliberation, TurnComplete, Plan, CloseMerged, Delete, vars,
     postVars, turnVars
<1>13. CASE Disconnect \/ TimeoutInSend
  BY <1>2, <1>13 DEF Disconnect, TimeoutInSend
<1> QED
  BY <1>3, <1>4, <1>5, <1>6, <1>7, <1>8, <1>9, <1>10, <1>11, <1>12, <1>13
     DEF PostNext, LoopStep, Finished
\* A message is written only by a turn that owes one.
LEMMA MessagesStep ==
    ASSUME TypeOK, PostTypeOK, Coalesced, TargetsFirst, RecordsMatch, MessagesOwed,
           [PostNext]_vars
    PROVE  MessagesOwed'
<1> USE DEF PostTypeOK, MessagesOwed
<1>1. ASSUME NEW p \in Personas, BeginInitial(p) \/ BeginDirected(p) PROVE MessagesOwed'
  <2>1. /\ unwritten' = [unwritten EXCEPT ![p] = @ + 1] /\ unwritten[p] \in Nat
        /\ work' = [work EXCEPT ![p] = "running"] \/ work' = [work EXCEPT ![p] = "ended"]
    BY <1>1 DEF BeginInitial, BeginDirected, BeginTurn, Escape, EndTurn
  <2> QED
    BY <2>1
<1>2. ASSUME NEW p \in Personas, Say(p) \/ Finish(p) PROVE MessagesOwed'
  BY <1>2 DEF Say, Finish
<1>3. ASSUME NEW p \in Personas, FailRun(p) PROVE MessagesOwed'
  BY <1>3 DEF FailRun, Escape, EndTurn
<1>4. ASSUME NEW p \in Personas, NEW reply, StoreReply(p, reply) PROVE MessagesOwed'
  BY <1>4 DEF StoreReply, Escape, EndTurn
<1>5. ASSUME NEW p \in Personas, EndFailed(p) \/ CancelWorker(p) \/ DropRecord(p)
      PROVE  MessagesOwed'
  BY <1>5 DEF EndFailed, CancelWorker, DropRecord, EndTurn
<1>6. ASSUME NEW p, Observe(p) \/ (ReportClose /\ p = Closer) PROVE MessagesOwed'
  BY <1>6 DEF Observe, ReportClose
<1>7. ASSUME UNCHANGED <<work, unwritten>> PROVE MessagesOwed'
  BY <1>7
<1> QED
  BY <1>1, <1>2, <1>3, <1>4, <1>5, <1>6, <1>7
     DEF PostNext, LoopStep, Finished, Send, StartDeliberation, TurnComplete, Plan,
         CloseMerged, Disconnect, TimeoutInSend, Delete, PullInFails, SkipDeleted,
         DropChild, vars, postVars, turnVars
-----------------------------------------------------------------------------
(* Outcomes.                                                               *)

\* What was taken from a post is not given back.
LEMMA HarmIsForever == [PostNext]_vars => (Unharmed' => Unharmed)
<1> SUFFICES ASSUME [PostNext]_vars, Unharmed' PROVE Unharmed
  OBVIOUS
<1>0. targets' = targets
  BY FixedByPost
<1>1. ASSUME NEW p, NEW reply,
             \/ BeginInitial(p) \/ BeginDirected(p) \/ Say(p) \/ Finish(p)
             \/ FailRun(p) \/ EndFailed(p) \/ StoreReply(p, reply)
      PROVE  Unharmed
  <2>1. stage \in {"initial", "deliberating"} /\ deleted' = deleted
    BY <1>1 DEF BeginInitial, BeginDirected, BeginTurn, Say, Finish, FailRun, EndFailed,
       StoreReply, Resumable, Working
  <2> QED
    BY <1>0, <2>1 DEF Unharmed
<1>2. ASSUME NEW p,
             \/ Observe(p) \/ PullInFails(p) \/ SkipDeleted(p) \/ CancelWorker(p)
             \/ DropRecord(p) \/ DropChild(p)
      PROVE  Unharmed
  BY <1>0, <1>2 DEF Observe, PullInFails, SkipDeleted, CancelWorker, DropRecord, DropChild,
     Unharmed, postVars
<1>3. CASE Send \/ StartDeliberation \/ TurnComplete \/ Plan \/ ReportClose \/ CloseMerged
           \/ Disconnect \/ TimeoutInSend \/ (\E x : Delete(x)) \/ UNCHANGED vars
  BY <1>0, <1>3 DEF Send, StartDeliberation, TurnComplete, Plan, ReportClose, CloseMerged,
     Drained, InitialDrained, Disconnect, TimeoutInSend, Delete, Working, Unharmed, vars,
     postVars
<1> QED
  BY <1>1, <1>2, <1>3 DEF PostNext, LoopStep, Finished

\* Unless it was harmed, a post owes each outcome and each message once, and has it
\* on its way.
LEMMA OwedStep ==
    ASSUME Scheduled, PostTypeOK, RecordsMatch, TargetsFirst, EventsInOrder, MessagesOwed,
           OwedExactly, [PostNext]_vars
    PROVE  OwedExactly'
<1>0. targets' = targets /\ TypeOK /\ Coalesced
  BY FixedByPost DEF Scheduled, SafetyInv
<1> SUFFICES ASSUME Unharmed' PROVE \A p \in Personas : OwedOf(p)'
  BY DEF OwedExactly
<1>1. Unharmed /\ \A p \in Personas : OwedOf(p)
  BY HarmIsForever DEF OwedExactly
<1>n. \A p \in Personas : owed[p] \in Nat /\ unwritten[p] \in Nat
  BY DEF PostTypeOK
\* A persona keeps what it owes, as long as it also keeps that on its way.
<1>2. ASSUME NEW q \in Personas,
             owed'[q] = owed[q], OutcomeDue(q) => OutcomeDue(q)' \/ owed[q] = 0,
             unwritten'[q] = unwritten[q],
             MessageDue(q) => MessageDue(q)' \/ unwritten[q] = 0
      PROVE  OwedOf(q)'
  BY <1>1, <1>2, <1>n DEF OwedOf
<1>3. ASSUME NEW q \in Personas, work'[q] = work[q], outbox' = outbox,
             owed'[q] = owed[q], unwritten'[q] = unwritten[q]
      PROVE  OwedOf(q)'
  BY <1>2, <1>3 DEF OutcomeDue, MessageDue, Terminal
<1>4. ASSUME NEW q \in Personas, work'[q] = work[q], DOMAIN outbox \subseteq DOMAIN outbox',
             \A i \in DOMAIN outbox : outbox'[i] = outbox[i],
             owed'[q] = owed[q], unwritten'[q] = unwritten[q]
      PROVE  OwedOf(q)'
  BY <1>2, <1>4 DEF OutcomeDue, MessageDue, Terminal
<1>5. ASSUME NEW p \in Personas, BeginInitial(p) \/ BeginDirected(p)
      PROVE  \A q \in Personas : OwedOf(q)'
  <2>1. work[p] = "idle"
    BY <1>0, <1>5, BeginsIdle
  <2>2. ~OutcomeDue(p) /\ ~MessageDue(p)
    BY <2>1 DEF OutcomeDue, MessageDue, EventsInOrder
  <2>3. owed[p] = 0 /\ unwritten[p] = 0
    BY <1>1, <1>n, <2>2 DEF OwedOf
  <2>4. /\ owed' = [owed EXCEPT ![p] = @ + 1] /\ unwritten' = [unwritten EXCEPT ![p] = @ + 1]
        /\ outbox' = outbox
    BY <1>5 DEF BeginInitial, BeginDirected, BeginTurn
  <2>5. owed'[p] = 1 /\ unwritten'[p] = 1
    BY <2>3, <2>4 DEF PostTypeOK
  <2>6. CASE p \in Wired
    <3>1. work' = [work EXCEPT ![p] = "running"]
      BY <1>5, <2>6 DEF BeginInitial, BeginDirected, BeginTurn
    <3>2. OwedOf(p)'
      BY <2>5, <3>1 DEF OwedOf, OutcomeDue, MessageDue, PostTypeOK
    <3>3. ASSUME NEW q \in Personas, q # p PROVE OwedOf(q)'
      BY <1>3, <2>4, <3>1, <3>3 DEF PostTypeOK
    <3> QED
      BY <3>2, <3>3
  <2>7. CASE p \notin Wired
    <3>1. CASE BeginInitial(p)
      <4>1. p = targets[started + 1] /\ started + 1 \in DOMAIN targets
        BY <1>0, <3>1 DEF BeginInitial, PostTypeOK, TypeOK
      <4>2. p \in Range(targets)
        BY <4>1 DEF Range
      <4> QED
        BY <1>1, <2>7, <4>2 DEF Unharmed
    <3>2. CASE BeginDirected(p)
      <4>1. stage' = "torn"
        BY <2>7, <3>2 DEF BeginDirected, BeginTurn, Escape, Merged
      <4> QED
        BY <4>1 DEF Unharmed
    <3> QED
      BY <1>5, <3>1, <3>2
  <2> QED
    BY <2>6, <2>7
<1>6. ASSUME NEW p \in Personas, Say(p) PROVE \A q \in Personas : OwedOf(q)'
  <2>1. /\ work[p] = "running" /\ work' = [work EXCEPT ![p] = "speaking"]
        /\ outbox' = Append(outbox, [who |-> p, kind |-> "text"])
        /\ UNCHANGED <<owed, unwritten, active>>
    BY <1>6 DEF Say, Event
  <2>2. /\ DOMAIN outbox \subseteq DOMAIN outbox'
        /\ \A i \in DOMAIN outbox : outbox'[i] = outbox[i]
    BY <2>1, TurnTells
  <2>3. OwedOf(p)'
    BY <1>2, <2>1 DEF OutcomeDue, MessageDue, PostTypeOK
  <2>4. ASSUME NEW q \in Personas, q # p PROVE OwedOf(q)'
    BY <1>4, <2>1, <2>2, <2>4 DEF PostTypeOK
  <2> QED
    BY <2>3, <2>4
<1>7. ASSUME NEW p \in Personas, Finish(p) PROVE \A q \in Personas : OwedOf(q)'
  <2>1. /\ work[p] \in {"running", "speaking"} /\ work' = [work EXCEPT ![p] = "finishing"]
        /\ outbox' = Append(outbox, [who |-> p, kind |-> "done"])
        /\ UNCHANGED <<owed, unwritten, active>>
    BY <1>7 DEF Finish, Event
  <2>2. /\ DOMAIN outbox \subseteq DOMAIN outbox'
        /\ \A i \in DOMAIN outbox : outbox'[i] = outbox[i]
        /\ Len(outbox) + 1 \in DOMAIN outbox'
        /\ outbox'[Len(outbox) + 1] = [who |-> p, kind |-> "done"]
    BY <2>1, TurnTells
  <2>3. OutcomeDue(p)' /\ MessageDue(p)'
    BY <2>1, <2>2 DEF OutcomeDue, MessageDue, Terminal, PostTypeOK
  <2>4. OwedOf(p)'
    BY <1>2, <2>1, <2>3
  <2>5. ASSUME NEW q \in Personas, q # p PROVE OwedOf(q)'
    BY <1>4, <2>1, <2>2, <2>5 DEF PostTypeOK
  <2> QED
    BY <2>4, <2>5
<1>8. ASSUME NEW p \in Personas, FailRun(p) PROVE \A q \in Personas : OwedOf(q)'
  <2>0. Room \notin deleted
    BY <1>1 DEF Unharmed
  <2>1. /\ work[p] \in {"running", "speaking"} /\ work' = [work EXCEPT ![p] = "failing"]
        /\ outbox' = Append(outbox, [who |-> p, kind |-> "error"])
        /\ UNCHANGED <<owed, active>> /\ unwritten' = [unwritten EXCEPT ![p] = @ - 1]
    BY <1>8, <2>0 DEF FailRun, Event
  <2>2. /\ DOMAIN outbox \subseteq DOMAIN outbox'
        /\ \A i \in DOMAIN outbox : outbox'[i] = outbox[i]
        /\ Len(outbox) + 1 \in DOMAIN outbox'
        /\ outbox'[Len(outbox) + 1] = [who |-> p, kind |-> "error"]
    BY <2>1, TurnTells
  <2>3. OutcomeDue(p)'
    BY <2>2 DEF OutcomeDue, Terminal
  <2>4. unwritten[p] = 1 /\ unwritten'[p] = 0
    BY <1>1, <2>1 DEF MessagesOwed, OwedOf, PostTypeOK
  <2>5. OwedOf(p)'
    BY <1>1, <2>1, <2>3, <2>4 DEF OwedOf
  <2>6. ASSUME NEW q \in Personas, q # p PROVE OwedOf(q)'
    BY <1>4, <2>1, <2>2, <2>6 DEF PostTypeOK
  <2> QED
    BY <2>5, <2>6
<1>9. ASSUME NEW p \in Personas, EndFailed(p) PROVE \A q \in Personas : OwedOf(q)'
  <2>1. /\ work[p] = "failing" /\ work' = [work EXCEPT ![p] = "ended"]
        /\ UNCHANGED <<outbox, owed, unwritten>>
    BY <1>9 DEF EndFailed, EndTurn
  <2>2. OwedOf(p)'
    BY <1>2, <2>1 DEF OutcomeDue, MessageDue, Terminal
  <2>3. ASSUME NEW q \in Personas, q # p PROVE OwedOf(q)'
    BY <1>3, <2>1, <2>3 DEF PostTypeOK
  <2> QED
    BY <2>2, <2>3
<1>10. ASSUME NEW p \in Personas, NEW reply, StoreReply(p, reply)
       PROVE  \A q \in Personas : OwedOf(q)'
  <2>0. Room \notin deleted
    BY <1>1 DEF Unharmed
  <2>1. /\ work[p] = "finishing" /\ work' = [work EXCEPT ![p] = "ended"]
        /\ UNCHANGED <<outbox, owed>> /\ unwritten' = [unwritten EXCEPT ![p] = @ - 1]
    BY <1>10, <2>0 DEF StoreReply, Storable, Escape, EndTurn
  <2>2. unwritten[p] = 1 /\ unwritten'[p] = 0
    BY <1>1, <2>1 DEF MessagesOwed, OwedOf, PostTypeOK
  <2>3. OutcomeDue(p) => OutcomeDue(p)'
    BY <2>1 DEF OutcomeDue, Terminal
  <2>4. OwedOf(p)'
    BY <1>1, <2>1, <2>2, <2>3 DEF OwedOf
  <2>5. ASSUME NEW q \in Personas, q # p PROVE OwedOf(q)'
    BY <1>3, <2>1, <2>5 DEF PostTypeOK
  <2> QED
    BY <2>4, <2>5
<1>11. ASSUME NEW p, Observe(p) \/ (ReportClose /\ p = Closer)
       PROVE  \A q \in Personas : OwedOf(q)'
  <2>1. /\ work[p] = "ended" /\ work' = [work EXCEPT ![p] = "idle"]
        /\ outbox = <<>> /\ UNCHANGED <<outbox, owed, unwritten>>
    BY <1>11 DEF Observe, ReportClose
  <2> SUFFICES ASSUME NEW q \in Personas PROVE OwedOf(q)'
    OBVIOUS
  <2>2. CASE q = p
    <3>1. ~OutcomeDue(q) /\ ~MessageDue(q)
      BY <2>1, <2>2 DEF OutcomeDue, MessageDue
    <3> QED
      BY <1>2, <2>1, <3>1
  <2>3. CASE q # p
    BY <1>3, <2>1, <2>3 DEF PostTypeOK
  <2> QED
    BY <2>2, <2>3
<1>12. CASE Send
  <2> DEFINE e == Head(outbox)
  <2>1. /\ outbox # <<>> /\ outbox' = Tail(outbox)
        /\ owed' = IF e.kind = "text" THEN owed ELSE [owed EXCEPT ![e.who] = @ - 1]
        /\ UNCHANGED <<work, unwritten>>
    BY <1>12 DEF Send
  <2>2. /\ 1 \in DOMAIN outbox /\ e = outbox[1]
        /\ \A i \in DOMAIN outbox :
              i # 1 => i - 1 \in DOMAIN outbox' /\ outbox'[i - 1] = outbox[i]
    BY <2>1, SentEvents
  <2>3. e.who \in Personas
    BY <2>2, EventsTyped
  <2> HIDE DEF e
  <2> SUFFICES ASSUME NEW q \in Personas PROVE OwedOf(q)'
    OBVIOUS
  <2>4. CASE e.kind # "text" /\ q = e.who
    <3>1. owed[q] > 0
      BY <2>2, <2>4 DEF EventsInOrder
    <3>2. owed'[q] = 0
      BY <1>1, <2>1, <2>4, <3>1 DEF OwedOf, PostTypeOK
    <3> QED
      BY <1>1, <2>1, <3>2 DEF OwedOf, MessageDue
  <2>5. CASE e.kind = "text" \/ q # e.who
    <3>1. owed'[q] = owed[q]
      BY <2>1, <2>3, <2>5 DEF PostTypeOK
    <3>2. ASSUME OutcomeDue(q) PROVE OutcomeDue(q)'
      <4>1. CASE work[q] \in {"running", "speaking"}
        BY <2>1, <4>1 DEF OutcomeDue
      <4>2. ASSUME NEW i \in DOMAIN outbox, outbox[i].who = q, Terminal(i)
            PROVE  OutcomeDue(q)'
        <5>1. i # 1
          BY <2>2, <2>5, <4>2 DEF Terminal
        <5> QED
          BY <2>2, <4>2, <5>1 DEF OutcomeDue, Terminal
      <4> QED
        BY <3>2, <4>1, <4>2 DEF OutcomeDue
    <3> QED
      BY <1>2, <2>1, <3>1, <3>2 DEF MessageDue
  <2> QED
    BY <2>4, <2>5
<1>13. ASSUME UNCHANGED <<work, outbox, owed, unwritten>>
       PROVE  \A q \in Personas : OwedOf(q)'
  BY <1>3, <1>13
<1>14. ASSUME NEW p, CancelWorker(p) \/ DropRecord(p)
       PROVE  \A q \in Personas : OwedOf(q)'
  BY <1>1, <1>14 DEF CancelWorker, DropRecord, Unharmed
<1>15. CASE Disconnect \/ TimeoutInSend
  BY <1>15 DEF Disconnect, TimeoutInSend, Unharmed
<1>16. ASSUME NEW p, PullInFails(p) \/ SkipDeleted(p) \/ DropChild(p)
       PROVE  \A q \in Personas : OwedOf(q)'
  BY <1>13, <1>16 DEF PullInFails, SkipDeleted, DropChild, postVars, turnVars
<1>17. CASE StartDeliberation \/ TurnComplete \/ Plan \/ CloseMerged \/ (\E x : Delete(x))
            \/ UNCHANGED vars
  BY <1>13, <1>17 DEF StartDeliberation, TurnComplete, Plan, CloseMerged, Delete, vars,
     postVars, turnVars
<1> QED
  BY <1>5, <1>6, <1>7, <1>8, <1>9, <1>10, <1>11, <1>12, <1>14, <1>15, <1>16, <1>17
     DEF PostNext, LoopStep, Finished

-----------------------------------------------------------------------------
(* The invariant, and what it says.                                        *)

\* A new post, none of whose turns has begun, satisfies the invariant.
LEMMA PostInvInit == PostInit => PostInv
<1> SUFFICES ASSUME PostInit PROVE PostInv
  OBVIOUS
<1>1. Scheduled /\ PostTypeOK /\ TypeOK
  BY ScheduledInit, PostTypeInit DEF Scheduled, SafetyInv
<1>2. /\ stage = "initial" /\ started = 0 /\ outbox = <<>> /\ open = {} /\ children = {}
      /\ active = {} /\ \A p \in Personas : work[p] = "idle" /\ owed[p] = 0 /\ unwritten[p] = 0
      /\ phase = "talking" /\ wavesUsed = 0 /\ due = targets
  BY DEF PostInit, Init
<1>3. RecordsMatch /\ ChildrenMatch /\ TargetsFirst /\ OneOfWave /\ OneRecord /\ AllClosed
  BY <1>2 DEF RecordsMatch, UnderWay, ChildrenMatch, TargetsFirst, OneOfWave, OneRecord,
     AllClosed, Over
<1>4. EventsInOrder /\ MessagesOwed
  BY <1>2 DEF EventsInOrder, MessagesOwed
<1>5. OwedExactly
  BY <1>2 DEF OwedExactly, OwedOf
<1> QED
  BY <1>1, <1>3, <1>4, <1>5 DEF PostInv

\* The invariant is inductive: each part needs only some of the others.
LEMMA PostInvStep == PostInv /\ [PostNext]_vars => PostInv'
<1> SUFFICES ASSUME PostInv, [PostNext]_vars PROVE PostInv'
  OBVIOUS
<1> USE DEF PostInv
<1>1. TypeOK /\ Coalesced
  BY DEF Scheduled, SafetyInv
<1>2. Scheduled' /\ PostTypeOK'
  BY ScheduledStep, PostTypeStep
<1>3. RecordsMatch' /\ TargetsFirst' /\ ChildrenMatch'
  BY <1>1, RecordsStep, TargetsStep, ChildrenStep
<1>4. OneOfWave' /\ OneRecord' /\ AllClosed'
  BY WaveStep, OneRecordStep, AllClosedStep
<1>5. EventsInOrder' /\ MessagesOwed' /\ OwedExactly'
  BY <1>1, EventsStep, MessagesStep, OwedStep
<1> QED
  BY <1>2, <1>3, <1>4, <1>5

\* The invariant holds of every post.
LEMMA PostInvariant == PostSpec => []PostInv
  BY PostInvInit, PostInvStep, PTL DEF PostSpec

\* No post leaves its types: what it owes never falls below zero.
THEOREM PostTypeCorrect == PostSpec => []PostTypeOK
<1>1. PostInv => PostTypeOK
  BY DEF PostInv
<1> QED
  BY <1>1, PostInvariant, PTL

\* Outside a merged wave no two run records are open at once, a post that completes
\* leaves no record open and no child alive, and no persona has two turns under way.
THEOREM OneTurnAtATime == PostSpec => []OneAtATime
<1>1. PostInv => OneAtATime
  <2> SUFFICES ASSUME PostInv PROVE OneAtATime
    OBVIOUS
  <2>1. ASSUME ~(mode = "parallel" /\ stage \in {"initial", "closing"})
        PROVE  ~(Cardinality(open) > 1)
    <3>1. CASE open = {}
      BY <3>1, FS_EmptySet
    <3>2. CASE open # {}
      <4>1. PICK p : p \in open
        BY <3>2
      <4>2. open = {p}
        BY <2>1, <4>1 DEF PostInv, OneRecord
      <4> QED
        BY <4>2, FS_Singleton
    <3> QED
      BY <3>1, <3>2
  <2>2. ASSUME stage = "complete" PROVE open = {} /\ children = {}
    <3>1. open = {}
      BY <2>2 DEF PostInv, AllClosed
    <3>2. ASSUME NEW p \in children PROVE FALSE
      <4>1. p \in Personas /\ work[p] \in {"running", "speaking"}
        BY <2>2, <3>2 DEF PostInv, PostTypeOK, ChildrenMatch
      <4> QED
        BY <3>1, <4>1 DEF PostInv, RecordsMatch, UnderWay
    <3> QED
      BY <3>1, <3>2
  <2>3. ASSUME stage \in {"initial", "deliberating", "complete"},
               Room \notin deleted, Range(targets) \subseteq Wired,
               NEW p \in Personas
        PROVE  owed[p] <= 1 /\ unwritten[p] <= 1
    <3>1. OwedOf(p)
      BY <2>3 DEF PostInv, OwedExactly, Unharmed
    <3>2. owed[p] \in Nat /\ unwritten[p] \in Nat
      BY DEF PostInv, PostTypeOK
    <3> QED
      BY <3>1, <3>2 DEF OwedOf
  <2> QED
    BY <2>1, <2>2, <2>3 DEF OneAtATime
<1> QED
  BY <1>1, PostInvariant, PTL

\* Whoever is shown as busy owes an outcome, and nobody is once the post is over.
THEOREM BusyIsHonest == PostSpec => []BusyHonest
<1>1. PostInv => BusyHonest
  BY DEF PostInv, EventsInOrder, AllClosed, BusyHonest
<1> QED
  BY <1>1, PostInvariant, PTL

\* A post that completes in a room that still exists has told every outcome and
\* written every message.
THEOREM EveryTurnIsReported == PostSpec => []EveryTurnReports
<1>1. PostInv => EveryTurnReports
  <2> SUFFICES ASSUME PostInv, stage = "complete", Room \notin deleted,
                      Range(targets) \subseteq Wired
               PROVE  /\ started = Len(targets)
                      /\ \A p \in Personas : owed[p] = 0 /\ unwritten[p] = 0
    BY DEF EveryTurnReports
  <2>1. open = {} /\ outbox = <<>> /\ started = Len(targets)
    BY DEF PostInv, AllClosed
  <2>2. ASSUME NEW p \in Personas PROVE owed[p] = 0 /\ unwritten[p] = 0
    <3>1. work[p] \notin UnderWay
      BY <2>1 DEF PostInv, RecordsMatch
    <3>2. ~OutcomeDue(p) /\ ~MessageDue(p)
      BY <2>1, <3>1 DEF OutcomeDue, MessageDue, UnderWay
    <3>3. owed[p] \in Nat /\ unwritten[p] \in Nat
      BY DEF PostInv, PostTypeOK
    <3> QED
      BY <3>2, <3>3 DEF PostInv, OwedExactly, Unharmed, OwedOf
  <2> QED
    BY <2>1, <2>2
<1> QED
  BY <1>1, PostInvariant, PTL
-----------------------------------------------------------------------------
(* Mentions.                                                               *)

\* SEQUENTIAL targets wait for one another.
LEMMA InTurnStep ==
    ASSUME TypeOK, PostTypeOK, Coalesced, RecordsMatch, TargetsFirst, InTurn, [PostNext]_vars
    PROVE  InTurn'
<1>0. targets' = targets /\ mode' = mode
  BY FixedByPost
<1> USE DEF PostTypeOK, InTurn
<1>1. ASSUME stage' # "initial" PROVE InTurn'
  BY <1>1
<1>2. ASSUME stage' = stage, started' = started, NEW p \in Personas, work[p] # "ended", NEW v,
             work' = [work EXCEPT ![p] = v]
      PROVE  InTurn'
  BY <1>0, <1>2
<1>3. ASSUME NEW p \in Personas, BeginInitial(p) PROVE InTurn'
  <2>1. CASE mode = "sequential"
    <3>0. work[p] = "idle"
      BY <1>3, BeginsIdle
    <3>1. PreviousOver /\ started \in Nat /\ started' = started + 1 /\ work[p] = "idle"
      BY <1>3, <2>1, <3>0 DEF BeginInitial, Merged, TypeOK
    <3>2. \A q \in Personas : q # p => work'[q] = work[q]
      BY <1>3 DEF BeginInitial, BeginTurn, Escape, EndTurn
    <3>3. ASSUME NEW i \in 1..started', i < started' PROVE work'[targets[i]] = "ended"
      <4>1. i \in 1..started
        BY <3>1, <3>3
      <4>2. work[targets[i]] = "ended" /\ targets[i] \in Personas
        BY <3>1, <4>1 DEF PreviousOver, TypeOK
      <4> QED
        BY <3>1, <3>2, <4>2
    <3> QED
      BY <1>0, <3>3
  <2> QED
    BY <1>0, <2>1
<1>4. ASSUME NEW p \in Personas, Say(p) \/ Finish(p) PROVE InTurn'
  BY <1>2, <1>4 DEF Say, Finish
<1>5. ASSUME NEW p \in Personas, FailRun(p) PROVE InTurn'
  BY <1>1, <1>2, <1>5 DEF FailRun, Escape, EndTurn
<1>6. ASSUME NEW p \in Personas, EndFailed(p) PROVE InTurn'
  BY <1>2, <1>6 DEF EndFailed, EndTurn
<1>7. ASSUME NEW p \in Personas, NEW reply, StoreReply(p, reply) PROVE InTurn'
  BY <1>1, <1>2, <1>7 DEF StoreReply, Storable, Escape, EndTurn
<1>8. ASSUME NEW p \in Personas,
             \/ BeginDirected(p) \/ Observe(p) \/ SkipDeleted(p) \/ PullInFails(p)
             \/ CancelWorker(p) \/ DropRecord(p) \/ DropChild(p)
      PROVE  InTurn'
  BY <1>1, <1>8 DEF BeginDirected, BeginTurn, Escape, Observe, SkipDeleted, PullInFails,
     CancelWorker, DropRecord, DropChild, postVars
<1>9. ASSUME UNCHANGED <<stage, started, work>> PROVE InTurn'
  BY <1>0, <1>9
<1>10. CASE Send \/ (\E x : Delete(x)) \/ UNCHANGED vars
  BY <1>9, <1>10 DEF Send, Delete, vars, postVars, turnVars
<1>11. CASE Plan \/ ReportClose \/ StartDeliberation \/ TurnComplete \/ CloseMerged
            \/ Disconnect \/ TimeoutInSend
  BY <1>1, <1>11 DEF Plan, ReportClose, StartDeliberation, TurnComplete, CloseMerged,
     Disconnect, TimeoutInSend, postVars
<1> QED
  BY <1>3, <1>4, <1>5, <1>6, <1>7, <1>8, <1>10, <1>11 DEF PostNext, LoopStep, Finished

\* The scheduler hears of the targets in their order.
LEMMA AwaitedStep ==
    ASSUME TypeOK, Coalesced, TargetsAwaited, [PostNext]_vars
    PROVE  TargetsAwaited'
<1>0. targets' = targets
  BY FixedByPost
<1>t. due \in Seq(Personas) /\ targets \in Seq(Personas) /\ IsInjective(due) /\ wavesUsed \in Nat
  BY DEF TypeOK, Coalesced
<1> USE DEF TargetsAwaited
<1>1. ASSUME NEW p \in Personas, due # <<>>, p = Head(due), due' = Tail(due),
             awaiting' = awaiting \ {p}, wavesUsed' = wavesUsed, phase' = phase
      PROVE  TargetsAwaited'
  <2>1. /\ Len(due') = Len(due) - 1 /\ Len(due) \in Nat /\ Len(due) > 0 /\ Len(targets) \in Nat
        /\ DOMAIN due' = 1..(Len(due) - 1) /\ DOMAIN due = 1..Len(due)
        /\ \A k \in 1..(Len(due) - 1) : due'[k] = due[k + 1]
    BY <1>t, <1>1, HeadTailProperties
  <2>2. Range(due') = Range(due) \ {p}
    BY <1>t, <1>1, RestOfQueue
  <2>3. ASSUME wavesUsed = 0, NEW k \in DOMAIN due'
        PROVE  due'[k] = targets[k + (Len(targets) - Len(due'))]
    <3>1. k + 1 \in DOMAIN due /\ due'[k] = due[k + 1]
      BY <2>1
    <3>2. due[k + 1] = targets[(k + 1) + (Len(targets) - Len(due))]
      BY <2>3, <3>1
    <3>3. (k + 1) + (Len(targets) - Len(due)) = k + (Len(targets) - Len(due'))
      BY <2>1
    <3> QED
      BY <3>1, <3>2, <3>3
  <2> QED
    BY <1>0, <1>1, <2>1, <2>2, <2>3
<1>2. ASSUME NEW p \in Personas, ObserveFailure(p) PROVE TargetsAwaited'
  BY <1>1, <1>2 DEF ObserveFailure
<1>3. ASSUME NEW p \in Personas, NEW fresh, NEW again, ObserveReply(p, fresh, again)
      PROVE  TargetsAwaited'
  BY <1>1, <1>3 DEF ObserveReply
<1>4. CASE IssueWave
  <2>1. wavesUsed' > 0 /\ awaiting' = awaiting /\ phase = "talking" /\ due = <<>>
    BY <1>t, <1>4 DEF IssueWave, CountWave
  <2>2. awaiting = {}
    BY <1>t, <2>1 DEF Range
  <2> QED
    BY <1>0, <2>1, <2>2
<1>5. CASE StopQuiescent \/ StopWaveCap \/ StopBudget \/ CloseNatural \/ CloseNone
           \/ CloseForced \/ ObserveClose
  <2>1. UNCHANGED <<due, wavesUsed>> /\ phase' # "talking" /\ awaiting' \subseteq awaiting
    BY <1>5 DEF StopQuiescent, StopWaveCap, StopBudget, StopWith, CloseNatural, CloseNone,
       CloseForced, ObserveClose, schedVars
  <2> QED
    BY <1>0, <2>1
<1>6. CASE UNCHANGED delibVars
  BY <1>6 DEF delibVars, schedVars
<1> QED
  BY <1>2, <1>3, <1>4, <1>5, <1>6, PostStepIsNext DEF Next, Terminated
\* A mention stays where it is as long as its persona's turn does not begin, the turn
\* it was made in is not reported, and nobody is told of another wave.
LEMMA StillKept ==
    ASSUME PostTypeOK, NEW by \in Personas, NEW of \in Personas, MentionKept(by, of),
           NEW p \in Personas, NEW v, work' = [work EXCEPT ![p] = v],
           work[p] # "ended", p = of => work[p] # "idle",
           by # p => sink'[by] = sink[by], YetToStart(of) => YetToStart(of)',
           UNCHANGED <<delibVars, deleted>>
    PROVE  MentionKept(by, of)'
<1>1. UNCHANGED <<targets, wavesUsed, pending, phase, due>>
  BY DEF delibVars, schedVars
<1>2. \A q \in Personas : q # p => work'[q] = work[q]
  BY DEF PostTypeOK
<1>3. ASSUME ToBeReported(by, of) PROVE ToBeReported(by, of)'
  <2>1. by # p
    BY <1>3 DEF ToBeReported
  <2> QED
    BY <1>1, <1>2, <1>3, <2>1 DEF ToBeReported, SpokeBefore
<1>4. ASSUME ToBeTaken(of) PROVE ToBeTaken(of)'
  BY <1>1, <1>2, <1>4 DEF ToBeTaken
<1>5. ASSUME Requested(of) PROVE Requested(of)'
  BY <1>1, <1>2, <1>5 DEF Requested
<1> QED
  BY <1>3, <1>4, <1>5 DEF MentionKept

\* The mentions of a turn that ends go where they belong.
LEMMA NewMentions ==
    ASSUME Scheduled, PostTypeOK, TargetsFirst, OneOfWave, InTurn, TargetsAwaited,
           mode = "sequential", delegation,
           NEW p \in Personas, NEW reply \in Replies(p), StoreReply(p, reply),
           Room \notin deleted, stage' \in {"initial", "deliberating"},
           NEW of, <<p, of>> \in Asked(p, reply)
    PROVE  MentionKept(p, of)'
<1>0. TypeOK /\ UNCHANGED <<targets, wavesUsed, pending, phase, due, started, deleted>>
  BY DEF Scheduled, SafetyInv, StoreReply, delibVars, schedVars
<1>1. of \in Range(reply.mentions) /\ of \notin deleted /\ phase # "closing"
  BY DEF Asked
<1>2. of \in Personas /\ of # p
  BY <1>1, ReplyMentions
<1>3. reply.ok
  <2>1. reply # NoReply
    BY <1>1 DEF NoReply, Range
  <2> QED
    BY <2>1 DEF Replies
<1>4. /\ work[p] = "finishing" /\ work' = [work EXCEPT ![p] = "ended"]
      /\ sink' = [sink EXCEPT ![p] = reply] /\ stage' = stage
  BY DEF StoreReply, Storable, Escape, EndTurn
<1>5. work'[p] = "ended" /\ sink'[p] = reply
  BY <1>4 DEF PostTypeOK
<1>6. CASE stage = "initial"
  <2>1. phase = "talking" /\ wavesUsed = 0 /\ due = targets
    BY <1>6 DEF TargetsFirst
  <2>2. PICK i \in 1..started : targets[i] = p
    BY <1>4, <1>6 DEF TargetsFirst
  <2>3. started \in Nat /\ started <= Len(targets) /\ Len(targets) \in Nat
        /\ DOMAIN targets = 1..Len(targets)
    BY <1>0 DEF PostTypeOK, TypeOK
  <2>4. i = started
    <3>1. i < started \/ i = started
      BY <2>2, <2>3
    <3> QED
      BY <1>4, <1>6, <2>2, <3>1 DEF InTurn
  <2>5. p \in Range(targets)
    BY <2>2, <2>3 DEF Range
  <2>6. ASSUME of \in Range(targets) PROVE YetToStart(of) \/ SpokeBefore(of, p)
    <3>1. PICK j \in DOMAIN targets : targets[j] = of
      BY <2>6 DEF Range
    <3>2. i \in DOMAIN targets /\ j # i
      BY <1>2, <2>2, <2>3, <3>1
    <3>3. j > started \/ j < i
      BY <2>3, <2>4, <3>1, <3>2
    <3> QED
      BY <2>2, <3>1, <3>2, <3>3 DEF YetToStart, SpokeBefore
  <2> QED
    BY <1>0, <1>1, <1>2, <1>3, <1>5, <2>1, <2>5, <2>6
       DEF MentionKept, ToBeReported, YetToStart, SpokeBefore
<1>7. CASE stage = "deliberating"
  <2>1. phase = "talking" /\ wavesUsed > 0 /\ p \in Range(due)
    <3>1. phase = "talking"
      BY <1>0, <1>1, <1>4, <1>7 DEF OneOfWave, TypeOK
    <3>2. wavesUsed \in Nat /\ wavesUsed # 0
      BY <1>0, <1>4, <1>7, <3>1 DEF OneOfWave, TypeOK
    <3>3. due # <<>> /\ p = Head(due) /\ due \in Seq(Personas)
      BY <1>0, <1>4, <1>7, <3>1, <3>2 DEF OneOfWave, TypeOK
    <3>4. IsInjective(due)
      BY DEF Scheduled, Coalesced
    <3> QED
      BY <3>1, <3>2, <3>3, <3>4, RestOfQueue
  <2>2. wavesUsed # 0
    BY <1>0, <2>1 DEF TypeOK
  <2> QED
    BY <1>0, <1>1, <1>2, <1>3, <1>5, <2>1, <2>2 DEF MentionKept, ToBeReported
<1> QED
  BY <1>4, <1>6, <1>7

\* A report turns the mentions of its turn into requests, and drops nobody's else.
LEMMA ReportedMentions ==
    ASSUME Scheduled, PostTypeOK, OneOfWave, TargetsAwaited, delegation,
           NEW p \in Personas, Observe(p) \/ SkipDeleted(p),
           NEW by \in Personas, NEW of \in Personas, MentionKept(by, of)
    PROVE  MentionKept(by, of)'
<1>0. TypeOK /\ Coalesced
  BY DEF Scheduled, SafetyInv
<1>1. /\ phase = "talking" /\ phase' = "talking" /\ wavesUsed' = wavesUsed
      /\ due # <<>> /\ p = Head(due) /\ due' = Tail(due)
      /\ stage = "deliberating" /\ stage' = stage /\ started' = started
      /\ work' = [work EXCEPT ![p] = "idle"]
         \/ (work' = work /\ work[p] = "idle" /\ wavesUsed > 0)
  BY AfterReport
<1>2. Range(due') = Range(due) \ {p} /\ p \in Range(due)
  BY <1>0, <1>1, RestOfQueue DEF TypeOK, Coalesced
<1>3. targets' = targets /\ deleted' = deleted /\ sink' = sink
  <2>1. targets' = targets
    BY DEF Observe, SkipDeleted, ObserveFailure, ObserveReply
  <2> QED
    BY <2>1 DEF Observe, SkipDeleted, postVars, turnVars
<1>4. wavesUsed \in Nat /\ pending \in Seq(Personas) /\ IsInjective(pending)
  BY <1>0 DEF TypeOK, Coalesced
<1>5. \A q \in Range(pending) : q # p => q \in Range(pending')
  <2>1. ASSUME ObserveFailure(p) PROVE \A q \in Range(pending) : q # p => q \in Range(pending')
    BY <1>4, <2>1, WithoutProperties DEF ObserveFailure
  <2>2. ASSUME NEW fresh \in Ordered(NewRequests(p)), NEW again, ObserveReply(p, fresh, again)
        PROVE  \A q \in Range(pending) : q # p => q \in Range(pending')
    BY <1>0, <1>4, <2>2, ReplyQueue DEF ObserveReply
  <2> QED
    BY <2>1, <2>2 DEF Observe, SkipDeleted
<1>6. \A q \in Personas : q # p => work'[q] = work[q]
  BY <1>1 DEF PostTypeOK
<1>7. by # of /\ of \notin deleted
  BY DEF MentionKept
\* The mentions of the turn that is reported.
<1>8. ASSUME ToBeReported(by, of), by = p PROVE Requested(of)'
  <2>1. Observe(p) /\ sink[p].ok /\ of \in Honored(p)
    BY <1>7, <1>8 DEF ToBeReported, SkipDeleted, Honored
  <2>2. of \notin awaiting
    <3>1. CASE wavesUsed > 0
      BY <3>1 DEF TargetsAwaited
    <3>2. CASE wavesUsed = 0
      <4>1. awaiting = Range(due)
        BY <1>1, <3>2 DEF TargetsAwaited
      <4>2. SUFFICES ASSUME of \in Range(due) PROVE FALSE
        BY <4>1
      <4>3. /\ due \in Seq(Personas) /\ targets \in Seq(Personas) /\ Len(due) \in Nat
            /\ Len(targets) \in Nat /\ DOMAIN due = 1..Len(due)
            /\ DOMAIN targets = 1..Len(targets) /\ Len(due) > 0
        BY <1>0, <1>1 DEF TypeOK
      <4> DEFINE d == Len(targets) - Len(due)
      <4>4. Len(due) <= Len(targets) /\ \A k \in DOMAIN due : due[k] = targets[k + d]
        BY <3>2 DEF TargetsAwaited
      <4>5. d \in Nat /\ d + Len(due) = Len(targets)
        BY <4>3, <4>4
      <4> HIDE DEF d
      <4>6. PICK k \in DOMAIN due : due[k] = of
        BY <4>2 DEF Range
      <4>7. p = due[1] /\ 1 \in DOMAIN due
        BY <1>1, <4>3
      <4>8. targets[k + d] = of /\ k + d \in DOMAIN targets
            /\ targets[1 + d] = p /\ 1 + d \in DOMAIN targets
        BY <4>3, <4>4, <4>5, <4>6, <4>7
      <4>9. of \in Range(targets)
        BY <4>8 DEF Range
      <4>10. ~YetToStart(of)
        BY <1>1, <4>3 DEF YetToStart, OneOfWave
      <4>11. SpokeBefore(of, p)
        BY <1>8, <3>2, <4>9, <4>10 DEF ToBeReported
      <4>12. PICK i, j \in DOMAIN targets : i < j /\ targets[i] = of /\ targets[j] = p
        BY <4>11 DEF SpokeBefore
      <4>13. i = k + d /\ j = 1 + d
        BY <4>8, <4>12 DEF TargetsAwaited, IsInjective
      <4> QED
        BY <4>3, <4>5, <4>6, <4>12, <4>13
    <3> QED
      BY <1>4, <3>1, <3>2
  <2>3. of \in Eligible(p)
    BY <1>7, <1>8, <2>2 DEF Eligible
  <2>4. of \in Range(pending')
    <3>1. CASE of \in Range(pending)
      BY <1>5, <1>7, <1>8, <3>1
    <3>2. CASE of \notin Range(pending)
      <4>1. of \in Honored(p) \cap NewRequests(p)
        BY <2>1, <2>3, <3>2 DEF NewRequests
      <4>2. PICK fresh \in Ordered(NewRequests(p)) :
               /\ Range(fresh) = Honored(p) \cap NewRequests(p)
               /\ pending' = Without(pending, p) \o fresh
        BY <2>1 DEF Observe, MentionedIn, ObserveReply
      <4>3. IsFiniteSet(NewRequests(p)) /\ NewRequests(p) \subseteq Personas
        BY PersonasAssumption, FS_Subset DEF NewRequests, Eligible
      <4>4. fresh \in Seq(NewRequests(p))
        BY <4>3, OrderedIsSeq
      <4>5. fresh \in Seq(Personas)
        BY <4>3, <4>4
      <4>6. Without(pending, p) \in Seq(Personas)
        BY <1>4, WithoutProperties
      <4> HIDE DEF Without
      <4>7. PICK k \in 1..Len(fresh) : fresh[k] = of
        BY <4>1, <4>2, <4>4 DEF Range
      <4> DEFINE w == Without(pending, p) \o fresh
                 n == Len(Without(pending, p))
      <4>8. /\ n \in Nat /\ Len(fresh) \in Nat /\ DOMAIN w = 1..(n + Len(fresh))
            /\ w[n + k] = fresh[k] /\ n + k \in 1..(n + Len(fresh))
        <5>1. /\ w \in Seq(Personas) /\ Len(w) = n + Len(fresh) /\ n \in Nat
              /\ Len(fresh) \in Nat
              /\ \A m \in 1..Len(w) : w[m] = IF m <= n THEN Without(pending, p)[m] ELSE fresh[m - n]
          BY <4>5, <4>6, ConcatProperties
        <5> HIDE DEF w, n
        <5>2. n + k \in 1..Len(w) /\ ~(n + k <= n) /\ (n + k) - n = k
          BY <5>1
        <5>3. w[n + k] = fresh[k] /\ DOMAIN w = 1..Len(w)
          BY <5>1, <5>2
        <5> QED
          BY <5>1, <5>2, <5>3
      <4> HIDE DEF w, n
      <4>9. of \in Range(w)
        BY <4>7, <4>8 DEF Range
      <4> QED
        BY <4>2, <4>9 DEF w
    <3> QED
      BY <3>1, <3>2
  <2>5. of \in Range(due') => wavesUsed' > 0 /\ work'[of] = "idle"
    <3>1. ASSUME of \in Range(due') PROVE wavesUsed > 0
      <4>1. wavesUsed = 0 => awaiting = Range(due)
        BY <1>1 DEF TargetsAwaited
      <4> QED
        BY <1>2, <1>4, <2>2, <3>1, <4>1
    <3>2. ASSUME wavesUsed > 0 PROVE work[of] = "idle"
      BY <1>1, <1>4, <1>7, <1>8, <3>2 DEF OneOfWave
    <3> QED
      BY <1>1, <1>6, <1>7, <1>8, <3>1, <3>2
  <2> QED
    BY <1>1, <2>4, <2>5 DEF Requested
<1>9. ASSUME ToBeReported(by, of), by # p PROVE ToBeReported(by, of)'
  BY <1>1, <1>2, <1>3, <1>6, <1>9 DEF ToBeReported, YetToStart, SpokeBefore
\* A persona that is still to speak.
<1>10. ASSUME ToBeTaken(of) \/ Requested(of) PROVE of # p
  <2>1. CASE of = p
    <3>1. wavesUsed > 0 /\ work[p] = "idle"
      BY <1>1, <1>2, <1>10, <2>1 DEF ToBeTaken, Requested
    <3>2. p \in deleted
      BY <3>1 DEF Observe, SkipDeleted
    <3> QED
      BY <1>7, <2>1, <3>2
  <2> QED
    BY <2>1
<1>11. ASSUME ToBeTaken(of) PROVE ToBeTaken(of)'
  BY <1>1, <1>2, <1>6, <1>10, <1>11 DEF ToBeTaken
<1>12. ASSUME Requested(of) PROVE Requested(of)'
  BY <1>1, <1>2, <1>5, <1>6, <1>10, <1>12 DEF Requested
<1> QED
  BY <1>3, <1>7, <1>8, <1>9, <1>11, <1>12 DEF MentionKept

\* A wave serves the requests it takes, and keeps the others.
LEMMA PlannedMentions ==
    ASSUME Scheduled, PostTypeOK, OneOfWave, Plan,
           NEW by \in Personas, NEW of \in Personas, MentionKept(by, of)
    PROVE  MentionKept(by, of)'
<1>0. TypeOK /\ stage = "deliberating" /\ UNCHANGED <<deleted, work>>
  BY DEF Scheduled, SafetyInv, Plan, postVars, turnVars
<1>1. Requested(of)
  <2>1. phase = "talking" => Range(due) = {}
    BY DEF Plan, StopQuiescent, StopWaveCap, StopBudget, StopWith, IssueWave, CloseNatural,
       CloseNone, CloseForced, Range
  <2> QED
    BY <2>1 DEF MentionKept, ToBeReported, ToBeTaken
<1>2. CASE IssueWave
  <2>1. /\ phase = "talking" /\ due = <<>> /\ phase' = phase /\ wavesUsed' = wavesUsed + 1
        /\ due' = SubSeq(pending, 1, WaveSize)
        /\ pending' = SubSeq(pending, WaveSize + 1, Len(pending))
        /\ pending # <<>> /\ Available > 0
    BY <1>2 DEF IssueWave, CountWave, AfterWave
  <2>2. WaveSize \in 1..Len(pending) /\ pending \in Seq(Personas) /\ wavesUsed \in Nat
    BY <1>0, <2>1, WaveSizeBounds DEF TypeOK
  <2>3. of \in Range(due') \cup Range(pending')
    BY <1>1, <2>1, <2>2, CutProperties DEF Requested
  <2>4. work[of] = "idle"
    <3>1. Range(due) = {}
      BY <2>1 DEF Range
    <3> QED
      BY <1>0, <2>1, <2>2, <3>1 DEF OneOfWave
  <2>5. wavesUsed' > 0
    BY <2>1, <2>2
  <2> QED
    BY <1>0, <2>1, <2>3, <2>4, <2>5 DEF MentionKept, ToBeTaken, Requested
<1>3. ASSUME ~IssueWave PROVE phase' # "talking" /\ pending' = pending
  BY <1>3 DEF Plan, StopQuiescent, StopWaveCap, StopBudget, StopWith, CloseNatural,
     CloseNone, CloseForced, schedVars
<1> QED
  BY <1>0, <1>1, <1>2, <1>3 DEF MentionKept, Requested
\* No mention of a SEQUENTIAL post is lost on the way.
LEMMA MentionsKeptStep ==
    ASSUME Scheduled, PostTypeOK, TargetsFirst, OneOfWave, InTurn, TargetsAwaited,
           MentionsKept, [PostNext]_vars, mode = "sequential", delegation,
           stage \in {"initial", "deliberating", "complete"},
           stage' \in {"initial", "deliberating", "complete"}
    PROVE  \A u \in unmet' : MentionKept(u[1], u[2])'
<1>0. TypeOK /\ Coalesced /\ targets' = targets
  BY FixedByPost DEF Scheduled, SafetyInv
<1>1. \A u \in unmet : u[1] \in Personas /\ u[2] \in Personas /\ MentionKept(u[1], u[2])
  BY DEF MentionsKept, PostTypeOK
<1>m. ~Merged
  BY DEF Merged
<1>2. ASSUME NEW p \in Personas, NEW v, work' = [work EXCEPT ![p] = v],
             work[p] \notin {"ended", "idle"}, UNCHANGED <<sink, unmet, started, delibVars, deleted>>
      PROVE  \A u \in unmet' : MentionKept(u[1], u[2])'
  <2>1. \A q : YetToStart(q)' = YetToStart(q)
    BY <1>0, <1>2 DEF YetToStart
  <2> QED
    BY <1>1, <1>2, <2>1, StillKept
<1>3. ASSUME NEW p \in Personas, BeginInitial(p) \/ BeginDirected(p)
      PROVE  \A u \in unmet' : MentionKept(u[1], u[2])'
  <2>1. unmet' = {u \in unmet : u[2] # p} /\ sink' = [sink EXCEPT ![p] = NoReply]
        /\ UNCHANGED <<delibVars, deleted>>
    BY <1>3, <1>m DEF BeginInitial, BeginDirected, BeginTurn
  <2>2. work' = [work EXCEPT ![p] = "running"] \/ work' = [work EXCEPT ![p] = "ended"]
    BY <1>3 DEF BeginInitial, BeginDirected, BeginTurn, Escape, EndTurn
  <2>3. work[p] = "idle"
    BY <1>0, <1>3, BeginsIdle
  <2>4. ASSUME NEW q \in Personas, q # p, YetToStart(q) PROVE YetToStart(q)'
    <3>1. CASE BeginDirected(p)
      BY <1>0, <2>4, <3>1 DEF BeginDirected, YetToStart
    <3>2. CASE BeginInitial(p)
      <4>1. started \in Nat /\ started' = started + 1 /\ p = targets[started + 1]
        BY <1>0, <3>2 DEF BeginInitial, PostTypeOK, TypeOK
      <4>2. PICK i \in DOMAIN targets : i > started /\ targets[i] = q
        BY <2>4 DEF YetToStart
      <4>3. i \in Nat /\ i # started + 1
        BY <1>0, <2>4, <4>1, <4>2 DEF TypeOK
      <4>4. i > started'
        BY <4>1, <4>2, <4>3
      <4> QED
        BY <1>0, <4>2, <4>4 DEF YetToStart
    <3> QED
      BY <1>3, <3>1, <3>2
  <2>5. ASSUME NEW by \in Personas, NEW of \in Personas, of # p, MentionKept(by, of)
        PROVE  MentionKept(by, of)'
    <3>1. by # p => sink'[by] = sink[by]
      BY <2>1 DEF PostTypeOK
    <3>2. work[p] # "ended"
      BY <2>3
    <3> QED
      BY <2>1, <2>2, <2>4, <2>5, <3>1, <3>2, StillKept
  <2> QED
    BY <1>1, <2>1, <2>5
<1>4. ASSUME NEW p \in Personas, Say(p) \/ Finish(p) \/ FailRun(p) \/ EndFailed(p)
      PROVE  \A u \in unmet' : MentionKept(u[1], u[2])'
  <2>1. work[p] \notin {"ended", "idle"} /\ UNCHANGED <<sink, unmet, started, delibVars, deleted>>
    BY <1>4 DEF Say, Finish, FailRun, EndFailed
  <2>2. \/ work' = [work EXCEPT ![p] = "speaking"] \/ work' = [work EXCEPT ![p] = "finishing"]
        \/ work' = [work EXCEPT ![p] = "failing"] \/ work' = [work EXCEPT ![p] = "ended"]
    BY <1>4 DEF Say, Finish, FailRun, EndFailed, Escape, EndTurn
  <2> QED
    BY <1>2, <2>1, <2>2
<1>5. ASSUME NEW p \in Personas, NEW reply \in Replies(p), StoreReply(p, reply)
      PROVE  \A u \in unmet' : MentionKept(u[1], u[2])'
  <2>1. Room \notin deleted
    BY <1>5, <1>m DEF StoreReply, Escape
  <2>2. stage' = stage /\ stage \in {"initial", "deliberating"}
    BY <1>5, <1>m, <2>1 DEF StoreReply, Escape, Resumable, Working
  <2>3. /\ unmet' = unmet \cup Asked(p, reply) /\ sink' = [sink EXCEPT ![p] = reply]
        /\ work[p] = "finishing" /\ work' = [work EXCEPT ![p] = "ended"]
        /\ UNCHANGED <<delibVars, started, deleted>>
    BY <1>5, <2>1 DEF StoreReply, Storable, Escape, EndTurn
  <2>4. ASSUME NEW u \in unmet PROVE MentionKept(u[1], u[2])'
    <3>1. \A q : YetToStart(q)' = YetToStart(q)
      BY <1>0, <2>3 DEF YetToStart
    <3>2. u[1] # p => sink'[u[1]] = sink[u[1]]
      BY <1>1, <2>3 DEF PostTypeOK
    <3>3. work[p] # "ended" /\ work[p] # "idle"
      BY <2>3
    <3> QED
      BY <1>1, <2>3, <3>1, <3>2, <3>3, StillKept
  <2>5. ASSUME NEW u \in Asked(p, reply) PROVE MentionKept(u[1], u[2])'
    <3>1. PICK of : u = <<p, of>>
      BY DEF Asked
    <3>2. MentionKept(p, of)'
      BY <1>5, <2>1, <2>2, <3>1, NewMentions
    <3> QED
      BY <3>1, <3>2
  <2> QED
    BY <2>3, <2>4, <2>5
<1>6. ASSUME NEW p \in Personas, Observe(p) \/ SkipDeleted(p)
      PROVE  \A u \in unmet' : MentionKept(u[1], u[2])'
  <2>1. unmet' = unmet
    BY <1>6 DEF Observe, SkipDeleted, postVars
  <2> QED
    BY <1>1, <1>6, <2>1, ReportedMentions
<1>7. CASE Plan
  <2>1. unmet' = unmet
    BY <1>7 DEF Plan, postVars
  <2> QED
    BY <1>1, <1>7, <2>1, PlannedMentions
<1>8. CASE ReportClose
  <2>1. /\ phase = "closing" /\ phase' = "done" /\ UNCHANGED <<unmet, pending, deleted>>
    BY <1>8 DEF ReportClose, ObserveClose
  <2> QED
    BY <1>1, <2>1 DEF MentionKept, ToBeReported, ToBeTaken, Requested
<1>9. ASSUME UNCHANGED <<delibVars, work, sink, started, deleted, unmet>>
      PROVE  \A u \in unmet' : MentionKept(u[1], u[2])'
  BY <1>1, <1>9 DEF MentionKept, ToBeReported, ToBeTaken, Requested, YetToStart, SpokeBefore,
     delibVars, schedVars
<1>10. ASSUME NEW x, Delete(x) PROVE \A u \in unmet' : MentionKept(u[1], u[2])'
  BY <1>1, <1>10 DEF Delete, MentionKept, ToBeReported, ToBeTaken, Requested, YetToStart,
     SpokeBefore, delibVars, schedVars, turnVars
<1>11. CASE Send \/ StartDeliberation \/ TurnComplete \/ UNCHANGED vars
  BY <1>9, <1>11 DEF Send, StartDeliberation, TurnComplete, vars, postVars, turnVars
<1>12. CASE Disconnect \/ TimeoutInSend \/ CloseMerged
  BY <1>12 DEF Disconnect, TimeoutInSend, CloseMerged
<1>13. ASSUME NEW p, PullInFails(p) \/ CancelWorker(p) \/ DropRecord(p) \/ DropChild(p)
       PROVE  \A u \in unmet' : MentionKept(u[1], u[2])'
  BY <1>13 DEF PullInFails, CancelWorker, DropRecord, DropChild
<1> QED
  BY <1>3, <1>4, <1>5, <1>6, <1>7, <1>8, <1>10, <1>11, <1>12, <1>13
     DEF PostNext, LoopStep, Finished

\* A post goes on, or completes at the end of its deliberation.
LEMMA CompleteWhenDone ==
    ASSUME MentionsKept, [PostNext]_vars, stage' \in {"initial", "deliberating", "complete"}
    PROVE  /\ stage \in {"initial", "deliberating", "complete"}
           /\ stage' = "complete" /\ delegation => phase' = "done"
<1>1. ASSUME NEW p, NEW reply,
             \/ BeginInitial(p) \/ BeginDirected(p) \/ Say(p) \/ Finish(p)
             \/ FailRun(p) \/ EndFailed(p) \/ StoreReply(p, reply)
      PROVE  stage \in {"initial", "deliberating"} /\ stage' # "complete"
  <2>1. stage \in {"initial", "deliberating"}
    BY <1>1 DEF BeginInitial, BeginDirected, Say, Finish, FailRun, EndFailed, StoreReply,
       Resumable, Working
  <2>2. stage' = stage \/ stage' = "torn"
    BY <1>1 DEF BeginInitial, BeginDirected, BeginTurn, Say, Finish, FailRun, EndFailed,
       StoreReply, Escape
  <2> QED
    BY <2>1, <2>2
<1>2. ASSUME NEW p,
             \/ Observe(p) \/ PullInFails(p) \/ SkipDeleted(p) \/ CancelWorker(p)
             \/ DropRecord(p) \/ DropChild(p)
      PROVE  stage = "deliberating" /\ stage' # "complete"
  BY <1>2 DEF Observe, PullInFails, SkipDeleted, CancelWorker, DropRecord, DropChild, postVars
<1>3. CASE Send \/ StartDeliberation \/ Plan \/ ReportClose \/ CloseMerged
           \/ Disconnect \/ TimeoutInSend \/ (\E x : Delete(x))
  BY <1>3 DEF Send, StartDeliberation, InitialDrained, Plan, ReportClose, CloseMerged, Disconnect,
     TimeoutInSend, Delete, Working, postVars
<1>4. CASE TurnComplete
  BY <1>4 DEF TurnComplete, Drained, InitialDrained, delibVars
<1>5. CASE UNCHANGED vars
  BY <1>5 DEF vars, postVars, delibVars, MentionsKept
<1> QED
  BY <1>1, <1>2, <1>3, <1>4, <1>5 DEF PostNext, LoopStep, Finished

\* Nobody was mentioned when a post is new.
LEMMA MentionInvInit == PostInit => MentionInv
<1> SUFFICES ASSUME PostInit PROVE MentionInv
  OBVIOUS
<1>1. PostInv /\ Coalesced
  BY PostInvInit DEF PostInv, Scheduled
<1>2. /\ started = 0 /\ unmet = {} /\ stage = "initial" /\ wavesUsed = 0 /\ due = targets
      /\ awaiting = Range(targets)
  BY DEF PostInit, Init
<1>3. targets \in Seq(Personas) /\ Len(targets) \in Nat /\ DOMAIN targets = 1..Len(targets)
  BY <1>1 DEF PostInv, Scheduled, SafetyInv, TypeOK
<1>4. InTurn /\ MentionsKept
  BY <1>2 DEF InTurn, MentionsKept
<1>5. \A k \in DOMAIN due : due[k] = targets[k + (Len(targets) - Len(due))]
  BY <1>2, <1>3
<1>6. TargetsAwaited
  BY <1>1, <1>2, <1>3, <1>5 DEF TargetsAwaited, Coalesced
<1> QED
  BY <1>1, <1>4, <1>6 DEF MentionInv

\* Where the mentions are is inductive, together with the rest.
LEMMA MentionInvStep == MentionInv /\ [PostNext]_vars => MentionInv'
<1> SUFFICES ASSUME MentionInv, [PostNext]_vars PROVE MentionInv'
  OBVIOUS
<1>1. PostInv' /\ TypeOK /\ Coalesced
  BY PostInvStep DEF MentionInv, PostInv, Scheduled, SafetyInv
<1>2. InTurn' /\ TargetsAwaited'
  BY <1>1, InTurnStep, AwaitedStep DEF MentionInv, PostInv
<1>3. MentionsKept'
  <2>1. mode' = mode /\ delegation' = delegation
    BY FixedByPost
  <2>2. stage' \in {"initial", "deliberating", "complete"} =>
           /\ stage \in {"initial", "deliberating", "complete"}
           /\ stage' = "complete" /\ delegation => phase' = "done"
    BY CompleteWhenDone DEF MentionInv
  <2>3. ASSUME mode = "sequential", delegation,
               stage' \in {"initial", "deliberating", "complete"}
        PROVE  \A u \in unmet' : MentionKept(u[1], u[2])'
    BY <2>2, <2>3, MentionsKeptStep DEF MentionInv, PostInv
  <2> QED
    BY <2>1, <2>2, <2>3 DEF MentionsKept
<1> QED
  BY <1>1, <1>2, <1>3 DEF MentionInv

\* In a SEQUENTIAL post that ends of itself every mention has met its persona.
THEOREM MentionsAreMet == PostSpec => []MentionsMetInTurn
<1>1. MentionInv => MentionsMetInTurn
  <2> SUFFICES ASSUME MentionInv, mode = "sequential", stage = "complete", delegation,
                      stopReason = "quiescent"
               PROVE  unmet = {}
    BY DEF MentionsMetInTurn, MentionsMet
  <2>1. phase = "done" /\ \A u \in unmet : MentionKept(u[1], u[2])
    BY DEF MentionInv, MentionsKept
  <2>2. pending = <<>>
    BY <2>1 DEF MentionInv, PostInv, Scheduled, SafetyInv, HonestStop
  <2>3. Range(pending) = {}
    BY <2>2 DEF Range
  <2> QED
    BY <2>1, <2>3 DEF MentionKept, ToBeReported, ToBeTaken, Requested
<1>2. PostSpec => []MentionInv
  BY MentionInvInit, MentionInvStep, PTL DEF PostSpec
<1> QED
  BY <1>1, <1>2, PTL
=============================================================================
