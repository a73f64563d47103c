------------------------------- MODULE Tables -------------------------------
(***************************************************************************)
(* The SQLite tables (schema.sql) as one value, and the statements the     *)
(* repositories run against them (repositories.py) as operators from a     *)
(* database to a database.  A table is a function from its primary key to  *)
(* the columns the properties tell apart; message_quote and human_author   *)
(* are sets.  What a constraint of the schema refuses is a predicate of    *)
(* its own, beside the statement: a refused statement leaves nothing.      *)
(* Ids are uuids in the code and fresh numbers here; times are the order   *)
(* of the numbers.                                                         *)
(***************************************************************************)
EXTENDS Integers, FiniteSets, Functions

CONSTANTS
    Team,        \* the base handles of DEFAULT_PERSONAS
    Dispatcher,  \* DISPATCHER_HANDLE, one of them
    Guest,       \* the base handle, and the name, of what an operator adds
    Me, Boss     \* the two default authors

ASSUME TeamAssumption    == Dispatcher \in Team /\ Team # {Dispatcher} /\ Guest \notin Team
ASSUME AuthorsAssumption == Me # Boss

Human == 0      \* author_ref of an operator's message
NoRun == 0      \* NULL
NoMessage == 0  \* NULL

\* A handle: its base and the number of "-copy" suffixes behind it.
Handle(base, copies) == [base |-> base, copies |-> copies]

\* A persona row: handle, is the display name the seeded human name, is_template.
PersonaRow(handle, human, template) ==
    [handle |-> handle, human |-> human, template |-> template]

\* The row of a default persona: a PersonaSpec of DEFAULT_PERSONAS.
SeedRow(base) == PersonaRow(Handle(base, 0), TRUE, FALSE)

\* A database before its first start: init_schema has made the tables.
NoRows == [persona |-> <<>>, author |-> {}, room |-> <<>>, member |-> <<>>,
           message |-> <<>>, quote |-> {}, session |-> <<>>, run |-> <<>>]

Put(f, k, v) == [x \in DOMAIN f \cup {k} |-> IF x = k THEN v ELSE f[x]]
Without(f, gone) == Restrict(f, DOMAIN f \ gone)

-----------------------------------------------------------------------------
Handles(d) == {d.persona[i].handle : i \in DOMAIN d.persona}

\* persona.handle is UNIQUE.
HandleAny(d, i, handle) == TRUE
HandleFree(d, i, handle) ==
    \A j \in DOMAIN d.persona \ {i} : d.persona[j].handle # handle

ByHandle(d, handle) == {i \in DOMAIN d.persona : d.persona[i].handle = handle}

InsertPersona(d, i, row) == [d EXCEPT !.persona = Put(@, i, row)]

\* An UPDATE of a row that is gone changes nothing.
UpsertPersona(d, i, row) == InsertPersona(d, i, row)
UpdatePersona(d, i, row) ==
    IF i \in DOMAIN d.persona THEN [d EXCEPT !.persona[i] = row] ELSE d

\* Memberships and sessions go with the persona; messages and run records stay.
DeletePersona(d, i) ==
    LET rows == {k \in DOMAIN d.member \cup DOMAIN d.session : k[2] = i}
    IN  [d EXCEPT !.persona = Without(@, {i}),
                  !.member  = Without(@, rows),
                  !.session = Without(@, rows)]

InsertAuthor(d, name) == [d EXCEPT !.author = @ \cup {name}]
DeleteAuthor(d, name) == [d EXCEPT !.author = @ \ {name}]

-----------------------------------------------------------------------------
\* A room row: is it archived?
InsertRoom(d, r) == [d EXCEPT !.room = Put(@, r, FALSE)]
UpdateRoom(d, r, archived) ==
    IF r \in DOMAIN d.room THEN [d EXCEPT !.room[r] = archived] ELSE d

\* Members, sessions, messages and the quotes of those messages go with the room;
\* run records stay.
DeleteRoomKeepingSessions(d, r) ==
    LET rows == {k \in DOMAIN d.member \cup DOMAIN d.session : k[1] = r}
        messages == {m \in DOMAIN d.message : d.message[m].room = r}
    IN  [d EXCEPT !.room    = Without(@, {r}),
                  !.member  = Without(@, rows),
                  !.message = Without(@, messages),
                  !.quote   = {q \in @ : q[1] \notin messages /\ q[2] \notin messages}]
DeleteRoom(d, r) ==
    LET rows == {k \in DOMAIN d.member \cup DOMAIN d.session : k[1] = r}
        messages == {m \in DOMAIN d.message : d.message[m].room = r}
    IN  [d EXCEPT !.room    = Without(@, {r}),
                  !.member  = Without(@, rows),
                  !.session = Without(@, rows),
                  !.message = Without(@, messages),
                  !.quote   = {q \in @ : q[1] \notin messages /\ q[2] \notin messages}]

\* add_member's first statement: COALESCE(MAX("order") + 1, 0).
Places(d, r) == {d.member[k] : k \in {k \in DOMAIN d.member : k[1] = r}}
NextPlaceByCount(d, r) == Cardinality(Places(d, r))
NextPlace(d, r) ==
    IF Places(d, r) = {} THEN 0
    ELSE 1 + (CHOOSE n \in Places(d, r) : \A m \in Places(d, r) : n >= m)

\* Its second statement, and what the keys of room_persona refuse.
MemberAllowed(d, r, p) ==
    /\ r \in DOMAIN d.room /\ p \in DOMAIN d.persona
    /\ <<r, p>> \notin DOMAIN d.member
InsertMember(d, r, p, place) == [d EXCEPT !.member = Put(@, <<r, p>>, place)]
DeleteMember(d, r, p) ==
    [d EXCEPT !.member = Without(@, {<<r, p>>})]

-----------------------------------------------------------------------------
\* message.room_id references room; author_ref and run_id reference nothing.
MessageAllowed(d, r) == r \in DOMAIN d.room
InsertMessage(d, m, r, author, run) ==
    [d EXCEPT !.message = Put(@, m, [room |-> r, author |-> author, run |-> run])]

\* Both columns of message_quote reference message.
QuotesAllowed(d, quoted) == quoted \subseteq DOMAIN d.message
InsertQuotes(d, m, quoted) == [d EXCEPT !.quote = @ \cup ({m} \X quoted)]

\* The last message of list_for_room.
RoomMessages(d, r) == {m \in DOMAIN d.message : d.message[m].room = r}
Tail(d, r) ==
    IF RoomMessages(d, r) = {} THEN NoMessage
    ELSE CHOOSE m \in RoomMessages(d, r) : \A n \in RoomMessages(d, r) : m >= n

\* A session row: its last_seen_message_id, which references nothing.
SessionAllowed(d, r, p) == r \in DOMAIN d.room /\ p \in DOMAIN d.persona
UpsertSession(d, r, p, seen) == [d EXCEPT !.session = Put(@, <<r, p>>, seen)]

\* A run record: where, who, and how it ended ("open": finished_at is NULL).
InsertRun(d, n, r, p) ==
    [d EXCEPT !.run = Put(@, n, [room |-> r, persona |-> p, end |-> "open"])]
FinalizeRun(d, n, end) == [d EXCEPT !.run[n].end = end]
=============================================================================
