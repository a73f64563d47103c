---------------------------- MODULE Deliberation ----------------------------
(***************************************************************************)
(* The pure scheduler of app/services/deliberation.py: after the operator's *)
(* own targets have replied, which persona speaks next, and when the       *)
(* talking stops.  The scheduler is driven in the order its docstring      *)
(* demands: observe every initial turn; then next_wave / observe until no  *)
(* wave is issued; then closing_turn / observe_close; then summary.        *)
(*                                                                         *)
(* The ordered dict _pending is a sequence without repetition.  What a     *)
(* turn said is chosen freely, as the model behind a persona may say       *)
(* anything: its honored mentions, split into those that are new requests  *)
(* (fresh, in the order of the reply) and those already pending (again).   *)
(***************************************************************************)
EXTENDS Integers, Sequences, FiniteSets, Functions

CONSTANTS
    Personas,   \* every persona of the team
    None,       \* "no persona"; Python's None
    Budget,     \* AUTONOMOUS_RUN_CAP
    WaveCap     \* DELIBERATION_WAVE_CAP

ASSUME PersonasAssumption == IsFiniteSet(Personas)
ASSUME NoneAssumption     == None \notin Personas
ASSUME BudgetAssumption   == Budget \in Nat
ASSUME WaveCapAssumption  == WaveCap \in Nat

VARIABLES
    \* the scheduler's fields
    targets,          \* initial_targets, in routing order
    budget,           \* _budget
    wavesUsed,        \* _waves_used
    runsUsed,         \* _runs_used
    awaiting,         \* _awaiting_turn
    pending,          \* _pending
    delegated,        \* _delegation_happened
    lastOkSpeaker,    \* _last_ok_speaker
    lastOkMentions,   \* _last_ok_had_mentions
    close,            \* _close
    stopReason,       \* _stop_reason
    \* the protocol of its caller
    phase,            \* what the caller does next
    due               \* turns of the current wave not yet observed, in order

schedVars == <<budget, wavesUsed, runsUsed, awaiting, pending, delegated,
               lastOkSpeaker, lastOkMentions, close, stopReason>>
delibVars == <<targets, schedVars, phase, due>>

-----------------------------------------------------------------------------
\* Sequences over S without repetition: an ordered set.
Ordered(S) ==
    UNION {{s \in [1..n -> S] : IsInjective(s)} : n \in 0..Cardinality(S)}

\* dict.pop(p, None)
Without(s, p) ==
    IF p \in Range(s)
    THEN LET i == CHOOSE k \in DOMAIN s : s[k] = p
         IN  SubSeq(s, 1, i - 1) \o SubSeq(s, i + 1, Len(s))
    ELSE s

\* The post's sole direct target owns the close (_run_deliberation).
Closer == IF Len(targets) = 1 THEN targets[1] ELSE None

ReserveForgotten == 0

Reserve == IF Closer # None THEN 1 ELSE 0

Available == budget - Reserve

WaveSizeUnbounded == Len(pending)

WaveSize == IF Available < Len(pending) THEN Available ELSE Len(pending)

TypeOK ==
    /\ targets \in Seq(Personas) /\ targets # <<>>
    /\ budget \in Nat /\ wavesUsed \in Nat /\ runsUsed \in Nat
    /\ awaiting \subseteq Personas
    /\ pending \in Seq(Personas)
    /\ delegated \in BOOLEAN
    /\ lastOkSpeaker \in Personas \cup {None}
    /\ lastOkMentions \in BOOLEAN
    /\ close \in {"none", "natural", "forced"}
    /\ stopReason \in {"unset", "quiescent", "wave_cap", "budget"}
    /\ phase \in {"talking", "stopped", "closing", "done"}
    /\ due \in Seq(Personas)

-----------------------------------------------------------------------------
Init ==
    /\ targets \in Ordered(Personas) \ {<<>>}
    /\ budget = Budget /\ wavesUsed = 0 /\ runsUsed = 0
    /\ awaiting = Range(targets)
    /\ pending = <<>>
    /\ delegated = FALSE
    /\ lastOkSpeaker = None /\ lastOkMentions = FALSE
    /\ close = "none" /\ stopReason = "unset"
    /\ phase = "talking"
    /\ due = targets

\* Personas a mention by p can still schedule: not p, and not an initial target
\* whose own turn is still to be observed.
EligibleOnce(p) == Personas \ (Range(targets) \cup {p})
Eligible(p) == Personas \ (awaiting \cup {p})

\* The eligible mentions that setdefault adds, and those it finds.
NewRequestsRepeated(p) == Eligible(p)
NewRequests(p) == Eligible(p) \ Range(pending)
OldRequests(p) == Eligible(p) \cap Range(pending)

\* observe(outcome) with ok = False: an error, an empty reply, or a persona
\* deleted while the post was running.
ObserveFailure(p) ==
    /\ phase = "talking" /\ due # <<>> /\ p = Head(due)
    /\ due' = Tail(due)
    /\ awaiting' = awaiting \ {p}
    /\ pending' = Without(pending, p)
    /\ UNCHANGED <<targets, budget, wavesUsed, runsUsed, delegated,
                   lastOkSpeaker, lastOkMentions, close, stopReason, phase>>

\* observe(outcome) with ok = True.
ObserveReply(p, fresh, again) ==
    /\ phase = "talking" /\ due # <<>> /\ p = Head(due)
    /\ due' = Tail(due)
    /\ awaiting' = awaiting \ {p}
    /\ pending' = Without(pending, p) \o fresh
    /\ lastOkSpeaker' = p
    /\ lastOkMentions' = (fresh # <<>> \/ again # {})
    /\ UNCHANGED <<targets, budget, wavesUsed, runsUsed, delegated, close,
                   stopReason, phase>>

\* next_wave() returning [], for one of its three reasons, in their order.
StopWith(reason) ==
    /\ phase = "talking" /\ due = <<>>
    /\ phase' = "stopped"
    /\ stopReason' = reason
    /\ UNCHANGED <<targets, budget, wavesUsed, runsUsed, awaiting, pending,
                   delegated, lastOkSpeaker, lastOkMentions, close, due>>

StopQuiescent == pending = <<>> /\ StopWith("quiescent")

StopWaveCapQuiet == pending # <<>> /\ wavesUsed >= WaveCap /\ StopWith("quiescent")
StopWaveCap == pending # <<>> /\ wavesUsed >= WaveCap /\ StopWith("wave_cap")

StopBudget ==
    /\ pending # <<>> /\ wavesUsed < WaveCap /\ Available <= 0
    /\ StopWith("budget")

\* What a wave of n leaves pending.
AfterWaveCleared(n) == <<>>
AfterWave(n) == SubSeq(pending, n + 1, Len(pending))

\* A wave of n turns is paid for when it is issued.
CountWaveNot(n) == UNCHANGED <<budget, runsUsed, wavesUsed>>
CountWave(n) ==
    /\ budget' = budget - n
    /\ runsUsed' = runsUsed + n
    /\ wavesUsed' = wavesUsed + 1

\* next_wave() issuing a wave: the first WaveSize pending requests.
IssueWave ==
    /\ phase = "talking" /\ due = <<>>
    /\ pending # <<>> /\ wavesUsed < WaveCap /\ Available > 0
    /\ due' = SubSeq(pending, 1, WaveSize)
    /\ pending' = AfterWave(WaveSize)
    /\ CountWave(WaveSize)
    /\ delegated' = TRUE
    /\ UNCHANGED <<targets, awaiting, lastOkSpeaker, lastOkMentions, close,
                   stopReason, phase>>

ClosedItself == lastOkSpeaker = Closer /\ ~lastOkMentions

\* closing_turn() returning None because the closer had the last word.
CloseNatural ==
    /\ phase = "stopped"
    /\ Closer # None /\ delegated /\ ClosedItself
    /\ close' = "natural"
    /\ phase' = "done"
    /\ UNCHANGED <<targets, budget, wavesUsed, runsUsed, awaiting, pending,
                   delegated, lastOkSpeaker, lastOkMentions, stopReason, due>>

\* closing_turn() returning None with nothing to close: nobody owns the close,
\* nothing was delegated, or (defensively) no run is left to pay for it.
CloseNone ==
    /\ phase = "stopped"
    /\ Closer # None /\ delegated => ~ClosedItself /\ budget <= 0
    /\ phase' = "done"
    /\ UNCHANGED <<targets, schedVars, due>>

\* closing_turn() issuing the reserved turn.
CloseForced ==
    /\ phase = "stopped"
    /\ Closer # None /\ delegated /\ ~ClosedItself /\ budget > 0
    /\ budget' = budget - 1
    /\ runsUsed' = runsUsed + 1
    /\ close' = "forced"
    /\ phase' = "closing"
    /\ UNCHANGED <<targets, wavesUsed, awaiting, pending, delegated,
                   lastOkSpeaker, lastOkMentions, stopReason, due>>

\* observe_close(outcome): its mentions and its success are ignored alike.
ObserveClose ==
    /\ phase = "closing"
    /\ awaiting' = awaiting \ {Closer}
    /\ phase' = "done"
    /\ UNCHANGED <<targets, budget, wavesUsed, runsUsed, pending, delegated,
                   lastOkSpeaker, lastOkMentions, close, stopReason, due>>

Terminated == phase = "done" /\ UNCHANGED delibVars

Next ==
    \/ \E p \in Personas : ObserveFailure(p)
    \/ \E p \in Personas :
          \E fresh \in Ordered(NewRequests(p)), again \in SUBSET OldRequests(p) :
             ObserveReply(p, fresh, again)
    \/ StopQuiescent \/ StopWaveCap \/ StopBudget
    \/ IssueWave
    \/ CloseNatural \/ CloseNone \/ CloseForced \/ ObserveClose
    \/ Terminated

\* The caller is one coroutine that always comes back with the outcome.
Spec == Init /\ [][Next]_delibVars /\ WF_delibVars(Next)

-----------------------------------------------------------------------------
\* Every autonomous turn, the close included, is paid from one budget that only
\* shrinks, and waves stay under their cap (docstring: "the whole termination
\* proof").
BudgetConserved ==
    /\ budget >= 0 /\ budget + runsUsed = Budget
    /\ wavesUsed <= WaveCap /\ wavesUsed <= runsUsed

\* Advisors never starve the synthesis: once something was delegated, a post
\* with a closer ends with the closer's word, so the defensive return of
\* closing_turn is never taken with a close owed.
CloseGuaranteed ==
    phase = "done" /\ Closer # None /\ delegated => close # "none"

\* Requests are coalesced: one turn per persona and wave, one pending request
\* per persona, whatever was said in between.
Coalesced == IsInjective(pending) /\ IsInjective(due)

\* A ceiling never passes for a natural finish: the recorded reason is
\* "quiescent" exactly when no honored request was left unserved.
HonestStop ==
    phase # "talking" => (stopReason = "quiescent" <=> pending = <<>>)

\* An honored request is never dropped while the talk goes on: it leaves the
\* queue only for a turn of its target, being issued or being reported.
NoRequestDropped ==
    [][\A p \in Range(pending) :
          \/ p \in Range(pending') \/ p \in Range(due')
          \/ due # <<>> /\ p = Head(due)]_delibVars

\* The deliberation of a post ends, whatever the personas say.
Terminates == <>(phase = "done")

-----------------------------------------------------------------------------
\* What the scheduler promises its caller, with waves, requests and protocol
\* hidden.
Bounded == INSTANCE BoundedConversation WITH
    left   <- budget,
    owned  <- Closer # None,
    opened <- delegated,
    ending <- IF phase \in {"talking", "stopped"} THEN "open" ELSE close

ImplementsBounded == Bounded!Spec
=============================================================================
