-------------------------------- MODULE Server --------------------------------
(***************************************************************************)
(* The program around its tables: startup, REST requests on the threads of *)
(* the pool, posts and turns on the event loop, the migration script while *)
(* the program is down, and crashes between any two statements.            *)
(*                                                                         *)
(* db is what the one sqlite connection sees, disk what is committed.  Of  *)
(* every actor a step is one statement (Database.query, execute or         *)
(* transaction hold the lock for as long), so that two REST threads, the   *)
(* loop and a crash may come between the statements of a request.          *)
(***************************************************************************)
EXTENDS Migration

CONSTANTS
    Threads,      \* REST requests in flight at a time
    MaxRequests, MaxPosts, MaxTurns, MaxStops, MaxMigrations  \* bounds

ASSUME BudgetAssumption ==
    {MaxRequests, MaxPosts, MaxTurns, MaxStops, MaxMigrations} \subseteq Nat

VARIABLES
    db, disk,   \* the tables: as seen, and as committed
    tx,         \* who is inside Database.transaction: "none", "post", "script"
    phase,      \* the process: "down"; starting: "authors", "personas"; "up";
                \* the script: "script", "seeding"
    todo,       \* startup, script: what is still to be created or merged
    req,        \* the request each thread serves
    turn,       \* the turn of a persona on the event loop
    ids,        \* the last id given out, by kind
    left,       \* what is left of each bound
    asked,      \* history: the message ids each operator message was posted to quote
    lost,       \* history: runs cut off by a crash
    raced,      \* history: rooms to which two members were added at once
    settled     \* history: the tables as the last migration without orphans left them

vars == <<db, disk, tx, phase, todo, req, turn, ids, left,
          asked, lost, raced, settled>>

-----------------------------------------------------------------------------
NoRow == PersonaRow(Handle(Guest, 0), FALSE, FALSE)
Free == [op |-> "none", at |-> "idle", room |-> 0, who |-> 0,
         row |-> NoRow, place |-> 0, taken |-> {}]
NoTurn == [at |-> "idle", room |-> 0, who |-> 0, run |-> NoRun,
           tail |-> NoMessage, failed |-> FALSE]

\* Database.execute commits unless it runs inside a transaction.
Execute(d) == db' = d /\ disk' = IF tx = "none" THEN d ELSE disk
\* A query, or a statement a constraint refuses.  (The latter leaves an empty
\* transaction of sqlite's open; the next commit or rollback ends it, as empty.)
Nothing == UNCHANGED <<db, disk>>

\* Leaving Database.transaction: commit, or roll back and raise.
Commit(d) == db' = d /\ disk' = d /\ tx' = "none"
RollbackForgotten == db' = db /\ disk' = db /\ tx' = "none"
Rollback == db' = disk /\ disk' = disk /\ tx' = "none"

Spend(what) == left[what] > 0 /\ left' = [left EXCEPT ![what] = @ - 1]
Fresh(kind) == ids' = [ids EXCEPT ![kind] = @ + 1]

-----------------------------------------------------------------------------
(* Databases the program may be found with.                                *)

\* A small install that is about to serve: one author left, one room, two members,
\* one message.
Small ==
    LET d == InsertMember(InsertRoom([NoRows EXCEPT
                 !.author = {Me},
                 !.persona = [i \in 1..2 |-> SeedRow(IF i = 1 THEN Dispatcher
                                                     ELSE CHOOSE b \in Team : b # Dispatcher)]],
                 1), 1, 1, 0)
    IN  InsertMessage(InsertMember(d, 1, 2, 1), 1, 1, Human, NoRun)

\* A grown install: 1 is the dispatcher, 2 a teammate seeded as a template, 3 and 4
\* its copies by duplicate, of which 1 is kept and the others in cast; who of them
\* spoke in room 1, and so has a run and a session there, and who is a member.
Grown(cast, spoke, seated) ==
    LET base == CHOOSE b \in Team : b # Dispatcher
        Row(i) == IF i = 1 THEN SeedRow(Dispatcher)
                  ELSE PersonaRow(Handle(base, i - 2), FALSE, i = 2)
    IN  [NoRows EXCEPT
            !.author  = {Me, Boss},
            !.persona = [i \in {1} \cup cast |-> Row(i)],
            !.room    = [r \in {1} |-> FALSE],
            !.member  = [k \in {1} \X ({1} \cup seated) |-> k[2] - 1],
            !.message = [m \in spoke |-> [room |-> 1, author |-> m, run |-> m]],
            !.session = [k \in {1} \X spoke |-> k[2]],
            !.run     = [n \in spoke |-> [room |-> 1, persona |-> n, end |-> "ok"]]]

Budgets == [requests : 0..MaxRequests, posts : 0..MaxPosts, turns : 0..MaxTurns,
            stops : 0..MaxStops, migrations : 0..MaxMigrations]

\* Requests, posts and turns meet the small install; startup, crashes and the
\* script meet every install.
Init ==
    /\ \/ /\ db = Small
          /\ left = [requests |-> MaxRequests, posts |-> MaxPosts, turns |-> MaxTurns,
                     stops |-> MaxStops, migrations |-> 0]
       \/ /\ \/ db = NoRows
             \/ \E cast \in SUBSET {2, 3, 4} :
                   \E spoke \in SUBSET cast, seated \in SUBSET cast :
                      db = Grown(cast, spoke, seated)
          /\ left = [requests |-> 0, posts |-> 0, turns |-> 0,
                     stops |-> MaxStops, migrations |-> MaxMigrations]
    /\ disk = db
    /\ tx = "none" /\ phase = "down" /\ todo = {}
    /\ req = [t \in Threads |-> Free]
    /\ turn = NoTurn
    /\ ids = [persona |-> 4, room |-> 1, message |-> 4, run |-> 4]
    /\ asked = [m \in {} |-> {}]
    /\ lost = {} /\ raced = {} /\ settled = {}

-----------------------------------------------------------------------------
(* Startup (create_app): each row it seeds is committed by itself.         *)

Start ==
    /\ phase = "down"
    /\ phase' = "authors"
    /\ todo' = IF db.author = {} THEN {Me, Boss} ELSE {}
    /\ UNCHANGED <<db, disk, tx, req, turn, ids, left, asked, lost, raced, settled>>

\* ensure_defaults: Me, then Boss.
SeedAuthor ==
    /\ phase = "authors"
    /\ LET name == IF Me \in todo THEN Me ELSE Boss
       IN  /\ todo # {}
           /\ Execute(InsertAuthor(db, name))
           /\ todo' = todo \ {name}
    /\ UNCHANGED <<tx, phase, req, turn, ids, left, asked, lost, raced, settled>>

\* The default personas startup still has to create.
SeedListWhenEmpty(d) == IF d.persona = <<>> THEN Team ELSE {}
SeedList(d) == Missing(d)

\* ensure_default_personas lists the handles once, and then creates.
ListPersonas ==
    /\ phase = "authors" /\ todo = {}
    /\ phase' = "personas"
    /\ todo' = SeedList(db)
    /\ UNCHANGED <<db, disk, tx, req, turn, ids, left, asked, lost, raced, settled>>

SeedPersona ==
    /\ phase = "personas"
    /\ \E b \in todo : /\ Execute(InsertPersona(db, ids.persona + 1, SeedRow(b)))
                       /\ todo' = todo \ {b}
    /\ Fresh("persona")
    /\ UNCHANGED <<tx, phase, req, turn, left, asked, lost, raced, settled>>

Serve ==
    /\ phase = "personas" /\ todo = {}
    /\ phase' = "up"
    /\ UNCHANGED <<db, disk, tx, todo, req, turn, ids, left, asked, lost, raced, settled>>

-----------------------------------------------------------------------------
(* REST requests.  An unknown id answers 404 and leaves nothing: requests  *)
(* start on rows that exist, and may find them gone at a later statement.  *)

Idle(t) == phase = "up" /\ tx = "none" /\ req[t].op = "none"
At(t, op, at) == phase = "up" /\ tx = "none" /\ req[t].op = op /\ req[t].at = at
Goes(t, r) == req' = [req EXCEPT ![t] = r]
Answers(t) == Goes(t, Free)

\* POST /rooms/{id}/members, DELETE of the same, reset-session, PATCH and DELETE
\* /rooms/{id}: the room is read first.
StartOnRoom(t) ==
    /\ Idle(t) /\ Spend("requests")
    /\ \E r \in DOMAIN db.room :
          \/ \E op \in {"add", "remove", "reset"}, p \in DOMAIN db.persona :
                Goes(t, [Free EXCEPT !.op = op, !.at = "first", !.room = r, !.who = p])
          \/ \E op \in {"archive", "delete_room"} :
                Goes(t, [Free EXCEPT !.op = op, !.at = "first", !.room = r])
    /\ Nothing
    /\ UNCHANGED <<tx, phase, todo, turn, ids, asked, lost, raced, settled>>

\* PATCH, duplicate (and from-template, the same clone) and DELETE
\* /personas/{id}: the row is read first.
Edits(row) == {[row EXCEPT !.human = FALSE], [row EXCEPT !.handle = Handle(Guest, 0)]}
StartOnPersona(t) ==
    /\ Idle(t) /\ Spend("requests")
    /\ \E p \in DOMAIN db.persona :
          LET row == db.persona[p]
          IN  \/ \E edited \in Edits(row) :
                    Goes(t, [Free EXCEPT !.op = "patch", !.at = "first", !.who = p, !.row = edited])
              \/ Goes(t, [Free EXCEPT !.op = "duplicate", !.at = "first", !.who = p, !.row = row])
              \/ Goes(t, [Free EXCEPT !.op = "delete_persona", !.at = "first", !.who = p])
    /\ Nothing
    /\ UNCHANGED <<tx, phase, todo, turn, ids, asked, lost, raced, settled>>

\* POST /personas: one INSERT, refused on a handle that is taken.
CreatePersona(t) ==
    /\ Idle(t) /\ Spend("requests")
    /\ HandleFree(db, 0, Handle(Guest, 0))
    /\ Execute(InsertPersona(db, ids.persona + 1, PersonaRow(Handle(Guest, 0), FALSE, FALSE)))
    /\ Fresh("persona")
    /\ UNCHANGED <<tx, phase, todo, req, turn, asked, lost, raced, settled>>

\* POST and DELETE /authors.
EditAuthors(t) ==
    /\ Idle(t) /\ Spend("requests")
    /\ \/ Execute(InsertAuthor(db, Guest))
       \/ \E name \in db.author : Execute(DeleteAuthor(db, name))
    /\ UNCHANGED <<tx, phase, todo, req, turn, ids, asked, lost, raced, settled>>

\* POST /rooms, RoomService.create: the room is committed; then the dispatcher is
\* looked up and, if there is one, added as a member.
CreateRoom(t) ==
    /\ Idle(t) /\ Spend("requests")
    /\ Execute(InsertRoom(db, ids.room + 1))
    /\ Fresh("room")
    /\ Goes(t, [Free EXCEPT !.op = "create_room", !.at = "first", !.room = ids.room + 1])
    /\ UNCHANGED <<tx, phase, todo, turn, asked, lost, raced, settled>>

FindDispatcher(t) ==
    /\ At(t, "create_room", "first")
    /\ LET found == ByHandle(db, Handle(Dispatcher, 0))
       IN  \/ /\ found = {} /\ Answers(t)
           \/ \E p \in found :
                 Goes(t, [req[t] EXCEPT !.op = "add", !.at = "first", !.who = p])
    /\ Nothing
    /\ UNCHANGED <<tx, phase, todo, turn, ids, left, asked, lost, raced, settled>>

\* RoomRepo.add_member: the next place is read,
ReadPlace(t) ==
    /\ At(t, "add", "first")
    /\ Goes(t, [req[t] EXCEPT !.at = "insert", !.place = NextPlace(db, req[t].room)])
    /\ Nothing
    /\ UNCHANGED <<tx, phase, todo, turn, ids, left, asked, lost, raced, settled>>

\* and the member inserted at it, whatever was inserted since.
AddMember(t) ==
    LET r == req[t].room
        p == req[t].who
    IN  /\ At(t, "add", "insert")
        /\ \/ /\ MemberAllowed(db, r, p)
              /\ Execute(InsertMember(db, r, p, req[t].place))
              /\ raced' = IF NextPlace(db, r) > req[t].place THEN raced \cup {r} ELSE raced
           \/ /\ ~MemberAllowed(db, r, p)
              /\ Nothing /\ UNCHANGED raced
        /\ Answers(t)
        /\ UNCHANGED <<tx, phase, todo, turn, ids, left, asked, lost, settled>>

RemoveMember(t) ==
    /\ At(t, "remove", "first")
    /\ Execute(DeleteMember(db, req[t].room, req[t].who))
    /\ Answers(t)
    /\ UNCHANGED <<tx, phase, todo, turn, ids, left, asked, lost, raced, settled>>

\* SessionStore.reset_session, whose reads need a persona or a session row.
ResetSession(t) ==
    LET r == req[t].room
        p == req[t].who
    IN  /\ At(t, "reset", "first")
        /\ \/ /\ SessionAllowed(db, r, p)
              /\ Execute(UpsertSession(db, r, p, NoMessage))
           \/ /\ ~SessionAllowed(db, r, p) /\ Nothing
        /\ Answers(t)
        /\ UNCHANGED <<tx, phase, todo, turn, ids, left, asked, lost, raced, settled>>

\* RoomService.update reads the room once more and writes the whole row.  One step: the
\* write of a row that has gone since it was read changes nothing, like the refusal.
ArchiveRoom(t) ==
    /\ At(t, "archive", "first")
    /\ Execute(UpdateRoom(db, req[t].room, TRUE))
    /\ Answers(t)
    /\ UNCHANGED <<tx, phase, todo, turn, ids, left, asked, lost, raced, settled>>

DeleteRoomRequest(t) ==
    /\ At(t, "delete_room", "first")
    /\ Execute(DeleteRoom(db, req[t].room))
    /\ Answers(t)
    /\ UNCHANGED <<tx, phase, todo, turn, ids, left, asked, lost, raced, settled>>

\* PATCH: the merged row is written over whatever the row is now.
PatchPersona(t) ==
    LET p == req[t].who
    IN  /\ At(t, "patch", "first")
        /\ \/ /\ HandleFree(db, p, req[t].row.handle)
              /\ Execute(UpdatePersona(db, p, req[t].row))
           \/ /\ ~HandleFree(db, p, req[t].row.handle) /\ Nothing
        /\ Answers(t)
        /\ UNCHANGED <<tx, phase, todo, turn, ids, left, asked, lost, raced, settled>>

DeletePersonaRequest(t) ==
    /\ At(t, "delete_persona", "first")
    /\ Execute(DeletePersona(db, req[t].who))
    /\ Answers(t)
    /\ UNCHANGED <<tx, phase, todo, turn, ids, left, asked, lost, raced, settled>>

\* _unique_handle lists the handles there are,
ListHandles(t) ==
    /\ At(t, "duplicate", "first")
    /\ Goes(t, [req[t] EXCEPT !.at = "insert", !.taken = Handles(db)])
    /\ Nothing
    /\ UNCHANGED <<tx, phase, todo, turn, ids, left, asked, lost, raced, settled>>

\* appends "-copy" until the handle is none of them,
UniqueHandle(handle, taken) ==
    LET Longer(n) == Handle(handle.base, handle.copies + n)
        frees == {n \in 1..(Cardinality(taken) + 1) : Longer(n) \notin taken}
    IN  Longer(CHOOSE n \in frees : \A m \in frees : n <= m)

\* and the clone is inserted, unless another took that handle since.
InsertClone(t) ==
    LET handle == UniqueHandle(req[t].row.handle, req[t].taken)
    IN  /\ At(t, "duplicate", "insert")
        /\ \/ /\ HandleFree(db, 0, handle)
              /\ Execute(InsertPersona(db, ids.persona + 1, PersonaRow(handle, FALSE, FALSE)))
              /\ Fresh("persona")
           \/ /\ ~HandleFree(db, 0, handle)
              /\ Nothing /\ UNCHANGED ids
        /\ Answers(t)
        /\ UNCHANGED <<tx, phase, todo, turn, left, asked, lost, raced, settled>>

-----------------------------------------------------------------------------
(* The event loop.  It does not let go between a reply and the end of its  *)
(* run, so that only REST threads and a crash come in between there.       *)

LoopFree == phase = "up" /\ tx = "none" /\ turn.at \in {"idle", "running"}
LoopAt(at) == phase = "up" /\ tx = "none" /\ turn.at = at

\* MessageRepo.create of an operator's message, first statement.  A quoted id may
\* be one that no message has (NoMessage).
Post ==
    /\ LoopFree /\ Spend("posts")
    /\ \E r \in DOMAIN db.room, quoted \in SUBSET (DOMAIN db.message \cup {NoMessage}) :
          LET m == ids.message + 1
          IN  /\ db' = InsertMessage(db, m, r, Human, NoRun)
              /\ asked' = Put(asked, m, quoted)
    /\ tx' = "post" /\ UNCHANGED disk
    /\ Fresh("message")
    /\ UNCHANGED <<phase, todo, req, turn, lost, raced, settled>>

\* The quotes of the message, second statement; one that is refused takes the
\* message back with it.
Quote ==
    /\ tx = "post"
    /\ LET quoted == asked[ids.message]
       IN  \/ QuotesAllowed(db, quoted) /\ Commit(InsertQuotes(db, ids.message, quoted))
           \/ ~QuotesAllowed(db, quoted) /\ Rollback
    /\ UNCHANGED <<phase, todo, req, turn, ids, left, asked, lost, raced, settled>>

\* _run_turn of a member: the transcript's tail was read, and run_scope has created the
\* run record.  Two statements, in one step: a message ends only with its room, and the
\* turn of a room that is gone is met by Reply wherever the deletion falls.
StartTurn ==
    /\ LoopAt("idle") /\ Spend("turns")
    /\ \E k \in DOMAIN db.member :
          /\ Execute(InsertRun(db, ids.run + 1, k[1], k[2]))
          /\ turn' = [at |-> "running", room |-> k[1], who |-> k[2], run |-> ids.run + 1,
                      tail |-> Tail(db, k[1]), failed |-> FALSE]
    /\ Fresh("run")
    /\ UNCHANGED <<tx, phase, todo, req, asked, lost, raced, settled>>

\* The backend's stream ended: a reply, or (failed) the error marker of _emit_error.
\* In a room that is gone the INSERT raises.
Reply(failed) ==
    /\ LoopAt("running")
    /\ \/ /\ MessageAllowed(db, turn.room)
          /\ Execute(InsertMessage(db, ids.message + 1, turn.room, turn.who, turn.run))
          /\ turn' = [turn EXCEPT !.at = IF failed THEN "leaving" ELSE "replied",
                                  !.failed = failed]
          /\ Fresh("message")
       \/ /\ ~MessageAllowed(db, turn.room)
          /\ Nothing
          /\ turn' = [turn EXCEPT !.at = "leaving", !.failed = failed]
          /\ UNCHANGED ids
    /\ UNCHANGED <<tx, phase, todo, req, left, asked, lost, raced, settled>>

\* The client left: the generator is closed at its yield.
CutTurn ==
    /\ LoopAt("running")
    /\ Nothing
    /\ turn' = [turn EXCEPT !.at = "leaving"]
    /\ UNCHANGED <<tx, phase, todo, req, ids, left, asked, lost, raced, settled>>

\* SessionRepo.upsert after a reply; it raises when persona or room is gone.
SaveSession ==
    /\ LoopAt("replied")
    /\ \/ /\ SessionAllowed(db, turn.room, turn.who)
          /\ Execute(UpsertSession(db, turn.room, turn.who, turn.tail))
       \/ /\ ~SessionAllowed(db, turn.room, turn.who) /\ Nothing
    /\ turn' = [turn EXCEPT !.at = "leaving"]
    /\ UNCHANGED <<tx, phase, todo, req, ids, left, asked, lost, raced, settled>>

\* The finally of run_scope: exit code from the error kind, whatever raised.
EndOfRunIfSaved == IF SessionAllowed(db, turn.room, turn.who)
                   THEN FinalizeRun(db, turn.run, IF turn.failed THEN "error" ELSE "ok")
                   ELSE db
EndOfRun == FinalizeRun(db, turn.run, IF turn.failed THEN "error" ELSE "ok")
LeaveRun ==
    /\ LoopAt("leaving")
    /\ Execute(EndOfRun)
    /\ turn' = NoTurn
    /\ UNCHANGED <<tx, phase, todo, req, ids, left, asked, lost, raced, settled>>

-----------------------------------------------------------------------------
(* The migration script, with the program down: one transaction.           *)

StartScript ==
    /\ phase = "down" /\ Spend("migrations")
    /\ phase' = "script" /\ tx' = "script"
    /\ todo' = Copies(db) \ Orphans(db)
    /\ Nothing
    /\ UNCHANGED <<req, turn, ids, asked, lost, raced, settled>>

MergeCopy ==
    /\ phase = "script"
    /\ \E copy \in todo, original \in 1..ids.persona :
          /\ original \in Original(db, copy)
          /\ Execute(Merge(db, copy, original))
          /\ todo' = todo \ {copy}
    /\ UNCHANGED <<tx, phase, req, turn, ids, left, asked, lost, raced, settled>>

Rename ==
    /\ phase = "script" /\ todo = {}
    /\ Execute(RenameTeam(db))
    /\ phase' = "seeding" /\ todo' = Missing(db)
    /\ UNCHANGED <<tx, req, turn, ids, left, asked, lost, raced, settled>>

SeedMissing ==
    /\ phase = "seeding"
    /\ \E b \in todo : /\ Execute(InsertPersona(db, ids.persona + 1, SeedRow(b)))
                       /\ todo' = todo \ {b}
    /\ Fresh("persona")
    /\ UNCHANGED <<tx, phase, req, turn, left, asked, lost, raced, settled>>

\* The transaction ends: migrate commits, a --dry-run raises _Rollback instead.
Merged == phase = "seeding" /\ todo = {}
EndScript ==
    /\ Merged
    /\ phase' = "down"
    /\ \/ Rollback /\ UNCHANGED settled
       \/ Commit(db) /\ settled' = {d \in {db} : Orphans(disk) = {}}
    /\ UNCHANGED <<todo, req, turn, ids, left, asked, lost, raced>>

-----------------------------------------------------------------------------
(* The process ends: only what is committed is found again.                *)

Crash ==
    /\ phase # "down" /\ Spend("stops")
    /\ Rollback
    /\ phase' = "down" /\ todo' = {}
    /\ req' = [t \in Threads |-> Free]
    /\ turn' = NoTurn
    /\ lost' = lost \cup {n \in DOMAIN disk.run : disk.run[n].end = "open"}
    /\ UNCHANGED <<ids, asked, raced, settled>>

\* A server nobody asks anything of waits.
Waits ==
    /\ phase = "up" /\ tx = "none" /\ turn.at = "idle"
    /\ \A t \in Threads : req[t].op = "none"
    /\ UNCHANGED vars

Next ==
    \/ Start \/ SeedAuthor \/ ListPersonas \/ SeedPersona \/ Serve
    \/ \E t \in Threads :
          \/ StartOnRoom(t) \/ StartOnPersona(t) \/ CreatePersona(t) \/ EditAuthors(t)
          \/ CreateRoom(t) \/ FindDispatcher(t) \/ ReadPlace(t) \/ AddMember(t)
          \/ RemoveMember(t) \/ ResetSession(t) \/ ArchiveRoom(t) \/ DeleteRoomRequest(t)
          \/ PatchPersona(t) \/ DeletePersonaRequest(t) \/ ListHandles(t) \/ InsertClone(t)
    \/ Post \/ Quote
    \/ StartTurn \/ Reply(TRUE) \/ Reply(FALSE) \/ CutTurn \/ SaveSession \/ LeaveRun
    \/ StartScript \/ MergeCopy \/ Rename \/ SeedMissing \/ EndScript
    \/ Crash \/ Waits

Spec == Init /\ [][Next]_vars

-----------------------------------------------------------------------------
Rows == [handle : [base : Team \cup {Guest}, copies : Nat],
         human : BOOLEAN, template : BOOLEAN]

\* A table maps ids given out so far to rows, and pairs to the pairs' columns.
TablesOK(d) ==
    /\ DOMAIN d.persona \subseteq 1..ids.persona
    /\ \A i \in DOMAIN d.persona : d.persona[i] \in Rows
    /\ d.author \subseteq {Me, Boss, Guest}
    /\ DOMAIN d.room \subseteq 1..ids.room
    /\ DOMAIN d.message \subseteq 1..ids.message
    /\ DOMAIN d.run \subseteq 1..ids.run
    /\ \A n \in DOMAIN d.run : d.run[n].end \in {"open", "ok", "error"}
    /\ \A i, j \in DOMAIN d.persona :
          d.persona[i].handle = d.persona[j].handle => i = j

\* The type invariant: both views of the tables, and what the actors hold.
TypeOK ==
    /\ TablesOK(db) /\ TablesOK(disk)
    /\ tx \in {"none", "post", "script"}
    /\ tx = "none" => db = disk
    /\ phase \in {"down", "authors", "personas", "up", "script", "seeding"}
    /\ tx = "script" <=> phase \in {"script", "seeding"}
    /\ left \in Budgets
    /\ \A t \in Threads : req[t].op # "none" => phase = "up"
    /\ turn.at \in {"idle", "running", "replied", "leaving"}

\* What is committed refers to rows that are committed: members and sessions to
\* their room and persona, messages to their room, quotes to both messages, and the
\* pointer of a session (which no key of the schema protects) to a message of the
\* session's room, so that delta_messages finds it.
ReferencesHold ==
    /\ \A k \in DOMAIN disk.member \cup DOMAIN disk.session :
          k[1] \in DOMAIN disk.room /\ k[2] \in DOMAIN disk.persona
    /\ \A m \in DOMAIN disk.message : disk.message[m].room \in DOMAIN disk.room
    /\ \A q \in disk.quote : {q[1], q[2]} \subseteq DOMAIN disk.message
    /\ \A k \in DOMAIN disk.session :
          disk.session[k] # NoMessage =>
              /\ disk.session[k] \in DOMAIN disk.message
              /\ disk.message[disk.session[k]].room = k[1]

\* A message is committed with all the quotes it was posted with, or not at all
\* ("Run statements atomically", db.py), whatever refuses a quote or stops the
\* process; a quote goes only with a message it quotes.
MessageWhole ==
    \A m \in DOMAIN asked \cap DOMAIN disk.message :
        {q[2] : q \in {q \in disk.quote : q[1] = m}} = asked[m] \cap DOMAIN disk.message

\* What a persona said names the run it came from, and that run names the same
\* persona and room: after deletions ("a run's history must survive", schema.sql),
\* and after the script merged one of them.
ReplyTraceable ==
    \A m \in DOMAIN disk.message :
        LET row == disk.message[m]
        IN  row.author # Human =>
                /\ row.run \in DOMAIN disk.run
                /\ disk.run[row.run].persona = row.author
                /\ disk.run[row.run].room = row.room

\* "No run can skip the finally" (run_scope.py): a run without an end is the one
\* in progress, or was cut off by a crash.
RunsEnd ==
    {n \in DOMAIN disk.run : disk.run[n].end = "open"} \subseteq {turn.run} \cup lost

\* Members of a room have places of their own, unless two of them were added at
\* the same time (add_member reads the next place before it inserts).
PlacesDistinct ==
    \A k, l \in DOMAIN disk.member :
        (k[1] = l[1] /\ k[1] \notin raced /\ disk.member[k] = disk.member[l]) => k = l

\* The persona that stands for i once the script has merged the copies.
Heir(i) == IF i \in DOMAIN db.persona THEN i
           ELSE CHOOSE j \in Original(disk, i) : TRUE

\* When the script is about to commit, every message is where it was and said by
\* the heir of who said it ("no transcript is orphaned", migrate_personas.py), every
\* room has the heirs of its members, and every session a session of the heir.
MergeLosesNothing ==
    Merged =>
        /\ DOMAIN db.message = DOMAIN disk.message
        /\ \A m \in DOMAIN db.message :
              LET said == disk.message[m].author
              IN  db.message[m] = [disk.message[m] EXCEPT !.author =
                      IF said \in DOMAIN disk.persona THEN Heir(said) ELSE said]
        /\ DOMAIN db.member = {<<k[1], Heir(k[2])>> : k \in DOMAIN disk.member}
        /\ DOMAIN db.session = {<<k[1], Heir(k[2])>> : k \in DOMAIN disk.session}

\* "Idempotent: re-running is a no-op" (migrate_personas.py): the script changes
\* nothing on the tables it left, provided it had no orphaned copy to report.
SecondRunNoOp == Merged /\ disk \in settled => db = disk

\* Rows that are gone stay gone while the server is up: no request that read a persona
\* or a room before it was deleted, and no turn, brings it back.
NoResurrection ==
    [][ phase = "up" =>
          /\ DOMAIN disk'.persona \cap 1..ids.persona \subseteq DOMAIN disk.persona
          /\ DOMAIN disk'.room \cap 1..ids.room \subseteq DOMAIN disk.room ]_vars

\* A server that comes up has all the default personas, however often startup was
\* cut short, and an author to write as; and starting it changed no row there was
\* ("Existing personas, including operator edits, are left untouched").
StartupSeeds ==
    [][ /\ phase' = "up" /\ phase # "up" =>
              Missing(disk) = {} /\ disk.author # {}
        /\ phase \in {"authors", "personas"} =>
              \A i \in DOMAIN disk.persona :
                  i \in DOMAIN disk'.persona /\ disk'.persona[i] = disk.persona[i] ]_vars
===============================================================================
