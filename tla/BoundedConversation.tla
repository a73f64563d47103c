------------------------- MODULE BoundedConversation -------------------------
(***************************************************************************)
(* What a deliberation promises the operator, whoever speaks and in what   *)
(* order: at most Budget autonomous turns are spent on a post; if the post *)
(* has an owner (its sole direct target) and was delegated at all, it ends *)
(* with the owner's word, and the last turn of the budget is kept for it;  *)
(* and it ends.                                                            *)
(***************************************************************************)
EXTENDS Integers

CONSTANT Budget

VARIABLES
    left,     \* autonomous turns that may still be spent
    owned,    \* has the post an owner?
    opened,   \* was anything delegated?
    ending    \* "open" while advisors may speak, then how it was closed

boundedVars == <<left, owned, opened, ending>>

Kept == IF owned THEN 1 ELSE 0

Init ==
    /\ left = Budget
    /\ owned \in BOOLEAN
    /\ opened = FALSE
    /\ ending = "open"

\* Some advisors are given a turn each; the owner's turn is never among them.
Delegate ==
    /\ ending = "open"
    /\ \E n \in 1..(left - Kept) : left' = left - n
    /\ opened' = TRUE
    /\ UNCHANGED <<owned, ending>>

\* The owner had the last word already, or spends the turn kept for it.
EndWithOwner ==
    /\ ending = "open" /\ owned /\ opened
    /\ \/ ending' = "natural" /\ left' = left
       \/ ending' = "forced" /\ left' = left - 1
    /\ UNCHANGED <<owned, opened>>

EndWithoutOwner ==
    /\ ending = "open" /\ ~(owned /\ opened)
    /\ ending' = "none"
    /\ UNCHANGED <<left, owned, opened>>

Next == Delegate \/ EndWithOwner \/ EndWithoutOwner

SafeSpec == Init /\ [][Next]_boundedVars

Spec == SafeSpec /\ WF_boundedVars(Next)

\* The kept turn is there for as long as it may be needed, so no post overdraws
\* its budget.
NeverOverdrawn ==
    /\ left >= 0
    /\ owned /\ opened /\ ending = "open" => left >= 1
=============================================================================
