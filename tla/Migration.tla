------------------------------ MODULE Migration ------------------------------
(***************************************************************************)
(* The persona cleanup of an existing database (scripts/migrate_personas): *)
(* the rules it applies to the tables, one operator each.  Server.tla runs *)
(* them inside one transaction.                                            *)
(***************************************************************************)
EXTENDS Tables

\* The personas the rule "handle LIKE '%-copy%'" selects, and the handle one is a copy
\* of: every trailing "-copy" stripped.  The rule also selects a handle with "-copy" in
\* its middle only; that one is its own original, and is left alone.
OneCopy(d) ==
    LET all == {i \in DOMAIN d.persona : d.persona[i].handle.copies > 0}
    IN  {i \in all : \A j \in all : i <= j}
Copies(d) == {i \in DOMAIN d.persona : d.persona[i].handle.copies > 0}
BaseHandle(handle) == Handle(handle.base, 0)
Original(d, i) == ByHandle(d, BaseHandle(d.persona[i].handle))

\* A copy without an original is reported and left alone.
Orphans(d) == {i \in Copies(d) : Original(d, i) = {}}

\* Rows keyed by (room, copy) become rows of the original, except in the rooms
\* where the original has one already: there they are dropped.
RepointRows(f, copy, original) ==
    LET kept  == {k \in DOMAIN f : k[2] # copy}
        moved == {k \in DOMAIN f : k[2] = copy}
    IN  [k \in kept \cup {<<m[1], original>> : m \in moved} |->
            IF k \in kept THEN f[k] ELSE f[<<k[1], copy>>]]

\* What a copy said was said by its original, and what it ran the original ran.
SaidBy(message, copy, original) ==
    IF message.author = copy THEN [message EXCEPT !.author = original] ELSE message
RanBy(run, copy, original) ==
    IF run.persona = copy THEN [run EXCEPT !.persona = original] ELSE run

\* All references to a copy go to its original.
RepointMessagesOnly(d, copy, original) ==
    [d EXCEPT
        !.message = [m \in DOMAIN d.message |-> SaidBy(d.message[m], copy, original)],
        !.member  = RepointRows(d.member, copy, original),
        !.session = RepointRows(d.session, copy, original)]
RepointDroppingRows(d, copy, original) ==
    [d EXCEPT
        !.message = [m \in DOMAIN d.message |-> SaidBy(d.message[m], copy, original)],
        !.run     = [n \in DOMAIN d.run |-> RanBy(d.run[n], copy, original)]]
Repoint(d, copy, original) ==
    [d EXCEPT
        !.message = [m \in DOMAIN d.message |-> SaidBy(d.message[m], copy, original)],
        !.run     = [n \in DOMAIN d.run |-> RanBy(d.run[n], copy, original)],
        !.member  = RepointRows(d.member, copy, original),
        !.session = RepointRows(d.session, copy, original)]

\* One round of the loop of _dedupe_copies.
Merge(d, copy, original) == DeletePersona(Repoint(d, copy, original), copy)

\* The team gets its human names and becomes addable; the rest of a row stays.
RenameTeam(d) ==
    [d EXCEPT !.persona = [i \in DOMAIN d.persona |->
        IF d.persona[i].handle \in {Handle(b, 0) : b \in Team}
        THEN PersonaRow(d.persona[i].handle, TRUE, FALSE) ELSE d.persona[i]]]

\* The default personas whose handle nobody has.
Missing(d) == {b \in Team : Handle(b, 0) \notin Handles(d)}
==============================================================================
