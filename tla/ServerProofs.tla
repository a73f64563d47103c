----------------------------- MODULE ServerProofs -----------------------------
(***************************************************************************)
(* Theorems about the server on its tables: every request, turn, crash and *)
(* run of the migration script, for any team, any number of threads and    *)
(* any bounds.                                                             *)
(***************************************************************************)
EXTENDS TablesProofs
-----------------------------------------------------------------------------
(* The inductive invariant, in parts.                                      *)

\* Both views of the tables are in order, and no id is above the last given out.
DataOK == ids \in Numbers /\ Good(db, ids) /\ Good(disk, ids)

\* Who may be in a transaction when; outside of it there is one view of the tables.
PhaseOK ==
    /\ phase \in {"down", "authors", "personas", "up", "script", "seeding"}
    /\ tx \in {"none", "post", "script"}
    /\ tx = "none" => db = disk
    /\ tx = "script" <=> phase \in {"script", "seeding"}
    /\ tx = "post" => phase = "up"

\* Inside the transaction of a message, the message is all there is on top of what
\* is committed.
PostOK ==
    tx = "post" =>
        /\ db.persona = disk.persona /\ db.author = disk.author /\ db.room = disk.room
        /\ db.member = disk.member /\ db.quote = disk.quote
        /\ db.session = disk.session /\ db.run = disk.run
        /\ DOMAIN db.message = DOMAIN disk.message \cup {ids.message}
        /\ \A m \in DOMAIN disk.message : db.message[m] = disk.message[m]
        /\ ids.message \notin DOMAIN disk.message

\* What requests hold.  The handles a duplicate read are finitely many.
HandleSet == [base : Team \cup {Guest}, copies : Nat]
Requests ==
    [op : {"none", "add", "remove", "reset", "archive", "delete_room", "patch",
           "duplicate", "delete_persona", "create_room"},
     at : {"idle", "first", "insert"}, room : Nat, who : Nat, row : Rows,
     place : Nat, taken : {S \in SUBSET HandleSet : IsFiniteSet(S)}]
RequestsOK ==
    /\ req \in [Threads -> Requests]
    /\ \A t \in Threads : req[t].op # "none" => phase = "up"

\* A turn under way has its run record; its pointer leads to a message of its room,
\* unless the room is gone, which stays gone.
TurnOK ==
    /\ turn \in [at : {"idle", "running", "replied", "leaving"}, room : Nat, who : Nat,
                 run : Nat, tail : Nat, failed : BOOLEAN]
    /\ turn.at = "idle" => turn.run = NoRun
    /\ turn.at # "idle" =>
          /\ phase = "up" /\ turn.room \in 1..ids.room
          /\ turn.run \in DOMAIN disk.run
          /\ disk.run[turn.run].persona = turn.who
          /\ disk.run[turn.run].room = turn.room
          /\ turn.room \in DOMAIN disk.room /\ turn.tail # NoMessage =>
                turn.tail \in DOMAIN disk.message /\ disk.message[turn.tail].room = turn.room

\* What startup and the script have still to do.
TodoOK ==
    /\ phase = "authors" => todo \subseteq {Me, Boss} /\ (todo = {} => disk.author # {})
    /\ phase = "personas" => todo = Missing(disk) /\ disk.author # {}
    /\ phase = "script" => todo \subseteq Copies(db)
    /\ phase = "seeding" => todo = Missing(db)

ServerInv ==
    /\ DataOK /\ PhaseOK /\ PostOK /\ RequestsOK /\ TurnOK /\ TodoOK
    /\ left \in Budgets

\* Runs without an end.
OpenRuns(d) == {n \in DOMAIN d.run : d.run[n].end = "open"}
RunsOK == OpenRuns(db) \cup OpenRuns(disk) \subseteq {turn.run} \cup lost

\* A message has the quotes it was posted with, as far as they exist; it quoted only
\* earlier messages, so that no later one can be taken for one of them.
Whole(d, m) ==
    m \in DOMAIN d.message =>
        \A x : <<m, x>> \in d.quote <=> x \in asked[m] /\ x \in DOMAIN d.message
AskedOK ==
    /\ DOMAIN asked \subseteq 1..ids.message
    /\ \A m \in DOMAIN asked : \A x \in asked[m] : x \in 0..(m - 1)
    /\ \A m \in DOMAIN asked : Whole(disk, m)
    /\ \A m \in DOMAIN asked : Whole(db, m) \/ (tx = "post" /\ m = ids.message)
    /\ tx = "post" => ids.message \in DOMAIN asked

\* Members of a room have places of their own, and a place that was read is above
\* those of the room unless the room is in a race.
Distinct(d) ==
    \A k, l \in DOMAIN d.member :
        k[1] = l[1] /\ k[1] \notin raced /\ d.member[k] = d.member[l] => k = l
SeatsOK == Distinct(db) /\ Distinct(disk)
-----------------------------------------------------------------------------
(* REST requests preserve the invariant.                                   *)

RestStep(t) ==
    \/ StartOnRoom(t) \/ StartOnPersona(t) \/ CreatePersona(t) \/ EditAuthors(t)
    \/ CreateRoom(t) \/ FindDispatcher(t) \/ ReadPlace(t) \/ AddMember(t)
    \/ RemoveMember(t) \/ ResetSession(t) \/ ArchiveRoom(t) \/ DeleteRoomRequest(t)
    \/ PatchPersona(t) \/ DeletePersonaRequest(t) \/ ListHandles(t) \/ InsertClone(t)

\* What a request remembers is typed.
LEMMA RequestTypes ==
    ASSUME RequestsOK, NEW t \in Threads
    PROVE  /\ req[t] \in Requests
           /\ req[t].room \in Nat /\ req[t].who \in Nat /\ req[t].place \in Nat
           /\ req[t].row \in Rows /\ req[t].row.handle \in HandleSet
           /\ IsFiniteSet(req[t].taken)
<1>1. req[t] \in Requests
  BY DEF RequestsOK
<1>2. req[t].row \in Rows /\ req[t].taken \in {S \in SUBSET HandleSet : IsFiniteSet(S)}
  BY <1>1 DEF Requests
<1>3. req[t].room \in Nat /\ req[t].who \in Nat /\ req[t].place \in Nat
  BY <1>1 DEF Requests
<1>4. req[t].row.handle \in HandleSet
  BY <1>2 DEF Rows, HandleSet
<1> QED
  BY <1>1, <1>2, <1>3, <1>4

\* There is always a number of "-copy" that makes a handle nobody of finitely many has.
LEMMA UniqueHandleIsHandle ==
    ASSUME NEW handle \in HandleSet, NEW taken, IsFiniteSet(taken)
    PROVE  UniqueHandle(handle, taken) \in HandleSet
<1> DEFINE Longer(n) == Handle(handle.base, handle.copies + n)
           top == Cardinality(taken) + 1
           frees == {n \in 1..top : Longer(n) \notin taken}
           f == [n \in 1..top |-> Longer(n)]
<1>1. handle.base \in Team \cup {Guest} /\ handle.copies \in Nat
  BY DEF HandleSet
<1>2. top \in Nat /\ top = Cardinality(taken) + 1 /\ Cardinality(taken) < top
  BY FS_CardinalityType
<1>3. IsFiniteSet(1..top) /\ Cardinality(1..top) = top
  <2> HIDE DEF top
  <2>1. top >= 1 /\ top \in Int /\ 1 \in Int
    BY <1>2, FS_CardinalityType
  <2>2. IsFiniteSet(1..top)
    BY <2>1, FS_Interval
  <2>3. Cardinality(1..top) = IF 1 > top THEN 0 ELSE top - 1 + 1
    BY <2>1, FS_Interval, Zenon
  <2> QED
    BY <1>2, <2>1, <2>2, <2>3
<1>4. frees # {}
  <2> SUFFICES ASSUME frees = {} PROVE FALSE
    OBVIOUS
  <2> HIDE DEF top
  <2>1. f \in [1..top -> taken]
    OBVIOUS
  <2> HIDE DEF f
  <2>2. \E x, y \in 1..top : x # y /\ f[x] = f[y]
    BY <1>2, <1>3, <2>1, FS_PigeonHole
  <2>3. PICK x \in 1..top, y \in 1..top : x # y /\ f[x] = f[y]
    BY <2>2
  <2>4. Longer(x).copies = Longer(y).copies
    BY <2>3 DEF f
  <2>5. handle.copies + x = handle.copies + y
    BY <2>4 DEF Handle
  <2> QED
    BY <1>1, <1>2, <2>3, <2>5
<1>5. frees \in SUBSET Nat
  OBVIOUS
<1> HIDE DEF frees, top, f
<1>6. \E n \in frees : \A m \in frees : n <= m
  BY <1>4, <1>5, LeastNat
<1>7. (CHOOSE n \in frees : \A m \in frees : n <= m) \in Nat
  BY <1>5, <1>6
<1>8. PICK least \in Nat : least = (CHOOSE n \in frees : \A m \in frees : n <= m)
  BY <1>7
<1>9. Longer(least) \in HandleSet
  BY <1>1 DEF Handle, HandleSet
<1>10. UniqueHandle(handle, taken) = Longer(least)
  BY <1>8 DEF UniqueHandle, frees, top
<1> QED
  BY <1>9, <1>10

\* A handle that is free is nobody's.
LEMMA FreeHandles ==
    ASSUME NEW n \in Numbers, NEW d, Good(d, n), NEW handle, HandleFree(d, 0, handle)
    PROVE  handle \notin Handles(d)
<1>1. 0 \notin DOMAIN d.persona
  BY DEF Good, Within, Numbers
<1> QED
  BY <1>1 DEF HandleFree, Handles
\* What a statement of a request does: it leaves the tables in order and committed,
\* what turns and posts rely on alone, and the threads with requests.
Served ==
    /\ disk' = db' /\ Good(db', ids') /\ Calm(db, db', ids)
    /\ ids' \in Numbers /\ ids.persona <= ids'.persona /\ ids.room <= ids'.room
    /\ ids'.message = ids.message /\ ids'.run = ids.run
    /\ req' \in [Threads -> Requests]

\* The empty row is a row.
LEMMA NoRowIsRow == NoRow \in Rows
BY DEF NoRow, PersonaRow, Handle, Rows

\* An edit makes a row of a row.
LEMMA EditedRows ==
    ASSUME NEW row \in Rows
    PROVE  \A edited \in Edits(row) : edited \in Rows
<1>1. FALSE \in BOOLEAN
  OBVIOUS
<1>2. [row EXCEPT !.human = FALSE] \in Rows
  BY <1>1 DEF Rows
<1>3. Handle(Guest, 0) \in [base : Team \cup {Guest}, copies : Nat]
  BY DEF Handle
<1>4. [row EXCEPT !.handle = Handle(Guest, 0)] \in Rows
  BY <1>3 DEF Rows
<1> QED
  BY <1>2, <1>4 DEF Edits

\* Requests are typed from their first step on.
LEMMA FreeIsRequest ==
    /\ Free \in Requests
    /\ \A r \in Nat, p \in Nat : \A op \in {"add", "remove", "reset"} :
          [Free EXCEPT !.op = op, !.at = "first", !.room = r, !.who = p] \in Requests
    /\ \A r \in Nat : \A op \in {"archive", "delete_room", "create_room"} :
          [Free EXCEPT !.op = op, !.at = "first", !.room = r] \in Requests
    /\ \A p \in Nat, row \in Rows : \A op \in {"patch", "duplicate"} :
          [Free EXCEPT !.op = op, !.at = "first", !.who = p, !.row = row] \in Requests
    /\ \A p \in Nat :
          [Free EXCEPT !.op = "delete_persona", !.at = "first", !.who = p] \in Requests
<1>1. {} \in {S \in SUBSET HandleSet : IsFiniteSet(S)}
  BY FS_EmptySet
<1> DEFINE Taken == {S \in SUBSET HandleSet : IsFiniteSet(S)}
<1>2. {} \in Taken
  BY <1>1
<1>3. Requests =
        [op : {"none", "add", "remove", "reset", "archive", "delete_room", "patch",
               "duplicate", "delete_persona", "create_room"},
         at : {"idle", "first", "insert"}, room : Nat, who : Nat, row : Rows,
         place : Nat, taken : Taken]
  BY DEF Requests
<1> HIDE DEF Taken
<1> QED
  BY <1>2, <1>3, NoRowIsRow DEF Free

\* What a step of a request may count on while no transaction is open.
LEMMA RequestsInBounds ==
    ASSUME ServerInv, NEW t \in Threads, tx = "none"
    PROVE  /\ ids \in Numbers /\ Good(db, ids) /\ db = disk /\ Shape(db) /\ Bounded(db)
           /\ req \in [Threads -> Requests]
           /\ DOMAIN db.room \subseteq Nat /\ DOMAIN db.persona \subseteq Nat
           /\ \A i \in DOMAIN db.persona : db.persona[i] \in Rows
           /\ db.author \subseteq {Me, Boss, Guest}
           /\ Calm(db, db, ids)
           /\ ids.persona \in Nat /\ ids.room \in Nat
<1>1. ids \in Numbers /\ Good(db, ids) /\ db = disk /\ Shape(db) /\ Bounded(db)
  BY DEF ServerInv, DataOK, PhaseOK, Good, Sound
<1>2. DOMAIN db.room \subseteq Nat /\ DOMAIN db.persona \subseteq Nat
  BY <1>1 DEF Good, Within, Numbers
<1>3. /\ \A i \in DOMAIN db.persona : db.persona[i] \in Rows
      /\ db.author \subseteq {Me, Boss, Guest}
  BY <1>1 DEF Shape
<1>4. Calm(db, db, ids)
  BY <1>1, NothingIsCalm
<1> QED
  BY <1>1, <1>2, <1>3, <1>4 DEF ServerInv, RequestsOK, Numbers

\* Requests that start, and statements that only read.
LEMMA ReadsServe ==
    ASSUME ServerInv, NEW t \in Threads,
           \/ StartOnRoom(t) \/ StartOnPersona(t) \/ FindDispatcher(t)
           \/ ReadPlace(t) \/ ListHandles(t)
    PROVE  Served
<1>1. tx = "none" /\ db' = db /\ disk' = disk /\ ids' = ids
  BY DEF StartOnRoom, StartOnPersona, FindDispatcher, ReadPlace, ListHandles, Idle, At, Nothing
<1>2. /\ ids \in Numbers /\ Good(db, ids) /\ db = disk /\ Shape(db) /\ Bounded(db)
      /\ req \in [Threads -> Requests]
      /\ DOMAIN db.room \subseteq Nat /\ DOMAIN db.persona \subseteq Nat
      /\ \A i \in DOMAIN db.persona : db.persona[i] \in Rows
      /\ Calm(db, db, ids) /\ ids.persona \in Nat /\ ids.room \in Nat
  BY <1>1, RequestsInBounds
<1>3. RequestsOK
  BY DEF ServerInv
<1>4. ASSUME NEW r \in Requests, Goes(t, r) PROVE Served
  <2>1. req' \in [Threads -> Requests]
    BY <1>2, <1>4 DEF Goes
  <2> QED
    BY <1>1, <1>2, <2>1 DEF Served
<1>5. CASE StartOnRoom(t)
  <2>1. PICK r \in DOMAIN db.room :
          \/ \E op \in {"add", "remove", "reset"}, p \in DOMAIN db.persona :
                Goes(t, [Free EXCEPT !.op = op, !.at = "first", !.room = r, !.who = p])
          \/ \E op \in {"archive", "delete_room"} :
                Goes(t, [Free EXCEPT !.op = op, !.at = "first", !.room = r])
    BY <1>5 DEF StartOnRoom
  <2>2. CASE \E op \in {"add", "remove", "reset"}, p \in DOMAIN db.persona :
                Goes(t, [Free EXCEPT !.op = op, !.at = "first", !.room = r, !.who = p])
    BY <1>2, <1>4, <2>2, FreeIsRequest
  <2>3. CASE \E op \in {"archive", "delete_room"} :
                Goes(t, [Free EXCEPT !.op = op, !.at = "first", !.room = r])
    BY <1>2, <1>4, <2>3, FreeIsRequest
  <2> QED
    BY <2>1, <2>2, <2>3
<1>6. CASE StartOnPersona(t)
  <2>1. PICK p \in DOMAIN db.persona :
          \/ \E edited \in Edits(db.persona[p]) :
                Goes(t, [Free EXCEPT !.op = "patch", !.at = "first", !.who = p, !.row = edited])
          \/ Goes(t, [Free EXCEPT !.op = "duplicate", !.at = "first", !.who = p,
                                  !.row = db.persona[p]])
          \/ Goes(t, [Free EXCEPT !.op = "delete_persona", !.at = "first", !.who = p])
    BY <1>6 DEF StartOnPersona
  <2>2. p \in Nat /\ db.persona[p] \in Rows
    BY <1>2
  <2>3. \A edited \in Edits(db.persona[p]) : edited \in Rows
    BY <2>2, EditedRows
  <2>4. CASE \E edited \in Edits(db.persona[p]) :
                Goes(t, [Free EXCEPT !.op = "patch", !.at = "first", !.who = p, !.row = edited])
    BY <1>4, <2>2, <2>3, <2>4, FreeIsRequest
  <2>5. CASE Goes(t, [Free EXCEPT !.op = "duplicate", !.at = "first", !.who = p,
                                  !.row = db.persona[p]])
    BY <1>4, <2>2, <2>5, FreeIsRequest
  <2>6. CASE Goes(t, [Free EXCEPT !.op = "delete_persona", !.at = "first", !.who = p])
    BY <1>4, <2>2, <2>6, FreeIsRequest
  <2> QED
    BY <2>1, <2>4, <2>5, <2>6
<1>7. CASE FindDispatcher(t)
  <2>1. \A p \in ByHandle(db, Handle(Dispatcher, 0)) : p \in Nat
    BY <1>2 DEF ByHandle
  <2>2. \A p \in Nat : [req[t] EXCEPT !.op = "add", !.at = "first", !.who = p] \in Requests
    BY <1>3, RequestTypes DEF Requests
  <2>3. \/ Goes(t, Free)
        \/ \E p \in ByHandle(db, Handle(Dispatcher, 0)) :
              Goes(t, [req[t] EXCEPT !.op = "add", !.at = "first", !.who = p])
    BY <1>7 DEF FindDispatcher, Answers
  <2> QED
    BY <1>4, <2>1, <2>2, <2>3, FreeIsRequest
<1>8. CASE ReadPlace(t)
  <2>1. NextPlace(db, req[t].room) \in Nat
    BY <1>2, <1>3, RequestTypes, NextPlaceIsNext
  <2>2. [req[t] EXCEPT !.at = "insert", !.place = NextPlace(db, req[t].room)] \in Requests
    BY <1>3, <2>1, RequestTypes DEF Requests
  <2> QED
    BY <1>4, <1>8, <2>2 DEF ReadPlace
<1>9. CASE ListHandles(t)
  <2>1. Handles(db) \in SUBSET HandleSet
    BY <1>2 DEF Handles, Rows, HandleSet
  <2>2. IsFiniteSet(DOMAIN db.persona)
    <3>1. DOMAIN db.persona \in SUBSET (1..ids.persona)
      BY <1>2 DEF Good, Within
    <3>2. IsFiniteSet(1..ids.persona)
      BY <1>2, FS_Interval
    <3> QED
      BY <3>1, <3>2, FS_Subset
  <2>3. IsFiniteSet(Handles(db))
    <3> DEFINE D == DOMAIN db.persona
           f == [i \in D |-> db.persona[i].handle]
    <3>1. f \in Surjection(D, Handles(db))
      BY DEF Surjection, Handles
    <3>2. IsFiniteSet(D)
      BY <2>2
    <3> HIDE DEF D, f
    <3> QED
      BY <3>1, <3>2, FS_Surjection
  <2>4. [req[t] EXCEPT !.at = "insert", !.taken = Handles(db)] \in Requests
    <3> DEFINE Taken == {S \in SUBSET HandleSet : IsFiniteSet(S)}
    <3>1. Handles(db) \in Taken
      BY <2>1, <2>3
    <3>2. Requests =
            [op : {"none", "add", "remove", "reset", "archive", "delete_room", "patch",
                   "duplicate", "delete_persona", "create_room"},
             at : {"idle", "first", "insert"}, room : Nat, who : Nat, row : Rows,
             place : Nat, taken : Taken]
      BY DEF Requests
    <3>3. req[t] \in Requests
      BY <1>3, RequestTypes
    <3> HIDE DEF Taken
    <3> QED
      BY <3>1, <3>2, <3>3
  <2> QED
    BY <1>4, <1>9, <2>4 DEF ListHandles
<1> QED
  BY <1>5, <1>6, <1>7, <1>8, <1>9
\* Statements that write, or are refused.
LEMMA WritesServe ==
    ASSUME ServerInv, NEW t \in Threads,
           \/ CreatePersona(t) \/ EditAuthors(t) \/ CreateRoom(t) \/ AddMember(t)
           \/ RemoveMember(t) \/ ResetSession(t) \/ ArchiveRoom(t) \/ DeleteRoomRequest(t)
           \/ PatchPersona(t) \/ DeletePersonaRequest(t) \/ InsertClone(t)
    PROVE  Served
<1>1. tx = "none"
  BY DEF CreatePersona, EditAuthors, CreateRoom, AddMember, RemoveMember, ResetSession,
     ArchiveRoom, DeleteRoomRequest, PatchPersona, DeletePersonaRequest, InsertClone, Idle, At
<1>2. /\ ids \in Numbers /\ Good(db, ids) /\ db = disk /\ Shape(db)
      /\ req \in [Threads -> Requests] /\ Calm(db, db, ids)
      /\ db.author \subseteq {Me, Boss, Guest}
      /\ ids.persona \in Nat /\ ids.room \in Nat
  BY <1>1, RequestsInBounds
<1>3. /\ req[t].room \in Nat /\ req[t].who \in Nat /\ req[t].place \in Nat
      /\ req[t].row \in Rows /\ req[t].row.handle \in HandleSet
      /\ IsFiniteSet(req[t].taken)
  BY RequestTypes DEF ServerInv
<1>4. ASSUME NEW e, Execute(e), ids' = ids, Good(e, ids), Calm(db, e, ids),
             req' = req \/ Answers(t)
      PROVE  Served
  <2>1. db' = e /\ disk' = e
    BY <1>1, <1>4 DEF Execute
  <2>2. req' \in [Threads -> Requests]
    BY <1>2, <1>4, FreeIsRequest DEF Answers, Goes
  <2> QED
    BY <1>2, <1>4, <2>1, <2>2 DEF Served
<1>5. ASSUME Nothing, ids' = ids, Answers(t) PROVE Served
  <2>1. req' \in [Threads -> Requests]
    BY <1>2, <1>5, FreeIsRequest DEF Answers, Goes
  <2> QED
    BY <1>2, <1>5, <2>1 DEF Served, Nothing
<1>6. ASSUME NEW row \in Rows, HandleFree(db, 0, row.handle),
             Execute(InsertPersona(db, ids.persona + 1, row)), Fresh("persona"),
             req' = req \/ Answers(t)
      PROVE  Served
  <2>1. row.handle \notin Handles(db)
    BY <1>2, <1>6, FreeHandles
  <2> DEFINE e == InsertPersona(db, ids.persona + 1, row)
             k == [ids EXCEPT !.persona = @ + 1]
  <2>2. Good(e, k) /\ Calm(db, e, ids)
    BY <1>2, <2>1, InsertPersonaIsCalm
  <2>3. db' = e /\ disk' = e /\ ids' = k
    BY <1>1, <1>6 DEF Execute, Fresh
  <2>4. /\ k \in Numbers /\ ids.persona <= k.persona /\ ids.room <= k.room
        /\ k.message = ids.message /\ k.run = ids.run
    BY <1>2 DEF Numbers
  <2>5. req' \in [Threads -> Requests]
    BY <1>2, <1>6, FreeIsRequest DEF Answers, Goes
  <2> HIDE DEF e, k
  <2> QED
    BY <2>2, <2>3, <2>4, <2>5 DEF Served
<1>7. CASE CreatePersona(t)
  <2>1. Handle(Guest, 0) \in HandleSet
    BY DEF Handle, HandleSet
  <2>2. ASSUME NEW handle \in HandleSet
        PROVE  PersonaRow(handle, FALSE, FALSE) \in Rows
               /\ PersonaRow(handle, FALSE, FALSE).handle = handle
    <3>1. FALSE \in BOOLEAN
      OBVIOUS
    <3> QED
      BY <3>1 DEF PersonaRow, Rows, HandleSet
  <2> QED
    BY <1>6, <1>7, <2>1, <2>2 DEF CreatePersona
<1>8. CASE EditAuthors(t)
  <2>1. PICK name \in {Me, Boss, Guest} :
            Execute(InsertAuthor(db, name)) \/ Execute(DeleteAuthor(db, name))
    BY <1>2, <1>8 DEF EditAuthors
  <2>2. \A e \in {InsertAuthor(db, name), DeleteAuthor(db, name)} : Good(e, ids) /\ Calm(db, e, ids)
    BY <1>2, AuthorsAreCalm
  <2> QED
    BY <1>4, <1>8, <2>1, <2>2 DEF EditAuthors
<1>9. CASE CreateRoom(t)
  <2> DEFINE e == InsertRoom(db, ids.room + 1)
             k == [ids EXCEPT !.room = @ + 1]
  <2>1. Good(e, k) /\ Calm(db, e, ids)
    BY <1>2, InsertRoomIsCalm
  <2>2. db' = e /\ disk' = e /\ ids' = k
    BY <1>1, <1>9 DEF CreateRoom, Execute, Fresh
  <2>3. /\ k \in Numbers /\ ids.persona <= k.persona /\ ids.room <= k.room
        /\ k.message = ids.message /\ k.run = ids.run
    BY <1>2 DEF Numbers
  <2>4. ids.room + 1 \in Nat
    BY <1>2
  <2>5. [Free EXCEPT !.op = "create_room", !.at = "first", !.room = ids.room + 1] \in Requests
    BY <2>4, FreeIsRequest
  <2>6. req' \in [Threads -> Requests]
    BY <1>2, <1>9, <2>5 DEF CreateRoom, Goes
  <2> HIDE DEF e, k
  <2> QED
    BY <2>1, <2>2, <2>3, <2>6 DEF Served
<1>10. CASE AddMember(t)
  <2>1. CASE MemberAllowed(db, req[t].room, req[t].who)
    <3> DEFINE e == InsertMember(db, req[t].room, req[t].who, req[t].place)
    <3>1. Good(e, ids) /\ Calm(db, e, ids)
      BY <1>2, <1>3, <2>1, InsertMemberIsCalm
    <3>2. Execute(e) /\ ids' = ids /\ Answers(t)
      BY <1>10, <2>1 DEF AddMember
    <3> HIDE DEF e
    <3> QED
      BY <1>4, <3>1, <3>2
  <2>2. CASE ~MemberAllowed(db, req[t].room, req[t].who)
    BY <1>5, <1>10, <2>2 DEF AddMember
  <2> QED
    BY <2>1, <2>2
<1>11. CASE RemoveMember(t)
  <2> DEFINE e == DeleteMember(db, req[t].room, req[t].who)
  <2>1. Good(e, ids) /\ Calm(db, e, ids)
    BY <1>2, <1>3, DeleteMemberIsCalm
  <2>2. Execute(e) /\ ids' = ids /\ Answers(t)
    BY <1>11 DEF RemoveMember
  <2> HIDE DEF e
  <2> QED
    BY <1>4, <2>1, <2>2
<1>12. CASE ResetSession(t)
  <2>1. CASE SessionAllowed(db, req[t].room, req[t].who)
    <3> DEFINE e == UpsertSession(db, req[t].room, req[t].who, NoMessage)
    <3>0. NoMessage \in Nat
      BY DEF NoMessage
    <3>1. Good(e, ids) /\ Calm(db, e, ids)
      BY <1>2, <1>3, <2>1, <3>0, UpsertSessionIsCalm
    <3>2. Execute(e) /\ ids' = ids /\ Answers(t)
      BY <1>12, <2>1 DEF ResetSession
    <3> HIDE DEF e
    <3> QED
      BY <1>4, <3>1, <3>2
  <2>2. CASE ~SessionAllowed(db, req[t].room, req[t].who)
    BY <1>5, <1>12, <2>2 DEF ResetSession
  <2> QED
    BY <2>1, <2>2
<1>13. CASE ArchiveRoom(t)
  <2> DEFINE e == UpdateRoom(db, req[t].room, TRUE)
  <2>1. Good(e, ids) /\ Calm(db, e, ids)
    BY <1>2, <1>3, UpdateRoomIsCalm
  <2>2. Execute(e) /\ ids' = ids /\ Answers(t)
    BY <1>13 DEF ArchiveRoom
  <2> HIDE DEF e
  <2> QED
    BY <1>4, <2>1, <2>2
<1>14. CASE DeleteRoomRequest(t)
  <2> DEFINE e == DeleteRoom(db, req[t].room)
  <2>1. Good(e, ids) /\ Calm(db, e, ids)
    BY <1>2, <1>3, DeleteRoomIsCalm
  <2>2. Execute(e) /\ ids' = ids /\ Answers(t)
    BY <1>14 DEF DeleteRoomRequest
  <2> HIDE DEF e
  <2> QED
    BY <1>4, <2>1, <2>2
<1>15. CASE PatchPersona(t)
  <2>1. CASE HandleFree(db, req[t].who, req[t].row.handle)
    <3> DEFINE e == UpdatePersona(db, req[t].who, req[t].row)
    <3>1. Good(e, ids) /\ Calm(db, e, ids)
      BY <1>2, <1>3, <2>1, UpdatePersonaIsCalm
    <3>2. Execute(e) /\ ids' = ids /\ Answers(t)
      BY <1>15, <2>1 DEF PatchPersona
    <3> HIDE DEF e
    <3> QED
      BY <1>4, <3>1, <3>2
  <2>2. CASE ~HandleFree(db, req[t].who, req[t].row.handle)
    BY <1>5, <1>15, <2>2 DEF PatchPersona
  <2> QED
    BY <2>1, <2>2
<1>16. CASE DeletePersonaRequest(t)
  <2> DEFINE e == DeletePersona(db, req[t].who)
  <2>1. Good(e, ids) /\ Calm(db, e, ids)
    BY <1>2, <1>3, DeletePersonaIsCalm
  <2>2. Execute(e) /\ ids' = ids /\ Answers(t)
    BY <1>16 DEF DeletePersonaRequest
  <2> HIDE DEF e
  <2> QED
    BY <1>4, <2>1, <2>2
<1>17. CASE InsertClone(t)
  <2> DEFINE handle == UniqueHandle(req[t].row.handle, req[t].taken)
             row == PersonaRow(handle, FALSE, FALSE)
  <2>1. handle \in HandleSet
    BY <1>3, UniqueHandleIsHandle
  <2>2. row.handle = handle
    BY DEF PersonaRow
  <2>3. row \in Rows
    <3> HIDE DEF handle
    <3>1. FALSE \in BOOLEAN
      OBVIOUS
    <3> QED
      BY <2>1, <3>1 DEF PersonaRow, Rows, HandleSet
  <2>4. \/ /\ HandleFree(db, 0, row.handle)
           /\ Execute(InsertPersona(db, ids.persona + 1, row)) /\ Fresh("persona")
        \/ Nothing /\ ids' = ids
    BY <1>17, <2>2 DEF InsertClone
  <2>5. Answers(t)
    BY <1>17 DEF InsertClone
  <2> HIDE DEF row, handle
  <2> QED
    BY <1>5, <1>6, <2>3, <2>4, <2>5
<1> QED
  BY <1>7, <1>8, <1>9, <1>10, <1>11, <1>12, <1>13, <1>14, <1>15, <1>16, <1>17

\* Spending keeps the budgets.
LEMMA SpendsBudget ==
    ASSUME left \in Budgets,
           NEW what \in {"requests", "posts", "turns", "stops", "migrations"}, Spend(what)
    PROVE  left' \in Budgets
<1>1. \A top \in Nat : \A n \in 0..top : n > 0 => n - 1 \in 0..top
  OBVIOUS
<1>2. /\ MaxRequests \in Nat /\ MaxPosts \in Nat /\ MaxTurns \in Nat
      /\ MaxStops \in Nat /\ MaxMigrations \in Nat
  BY BudgetAssumption
<1> QED
  BY <1>1, <1>2 DEF Spend, Budgets

\* A turn under way survives what leaves its run and the messages of its room alone.
LEMMA CalmKeepsTurn ==
    ASSUME ServerInv, UNCHANGED <<phase, turn>>, Calm(disk, disk', ids), ids' \in Numbers,
           ids.room <= ids'.room
    PROVE  TurnOK'
<1>1. TurnOK /\ ids \in Numbers
  BY DEF ServerInv, DataOK
<1>2. turn.at = "idle" => turn.run = NoRun
  BY <1>1 DEF TurnOK
<1>3. ASSUME turn.at # "idle"
      PROVE  /\ turn.room \in 1..ids'.room
             /\ turn.run \in DOMAIN disk'.run
             /\ disk'.run[turn.run].persona = turn.who
             /\ disk'.run[turn.run].room = turn.room
             /\ turn.room \in DOMAIN disk'.room /\ turn.tail # NoMessage =>
                   /\ turn.tail \in DOMAIN disk'.message
                   /\ disk'.message[turn.tail].room = turn.room
  <2>1. /\ turn.room \in 1..ids.room /\ turn.run \in DOMAIN disk.run
        /\ disk.run[turn.run].persona = turn.who /\ disk.run[turn.run].room = turn.room
        /\ turn.room \in DOMAIN disk.room /\ turn.tail # NoMessage =>
              turn.tail \in DOMAIN disk.message /\ disk.message[turn.tail].room = turn.room
    BY <1>1, <1>3 DEF TurnOK
  <2>2. turn.room \in 1..ids'.room
    BY <1>1, <2>1 DEF Numbers
  <2> QED
    BY <2>1, <2>2 DEF Calm
<1> QED
  BY <1>1, <1>2, <1>3 DEF TurnOK

\* Every step of a request is a calm statement, leaves the rest of the system alone, and
\* keeps requests typed.
LEMMA RestIsServed ==
    ASSUME ServerInv, NEW t \in Threads, RestStep(t)
    PROVE  /\ Served /\ phase = "up" /\ tx = "none" /\ left' \in Budgets
           /\ UNCHANGED <<tx, phase, todo, turn, asked, lost, settled>>
<1>1. Served
  BY ReadsServe, WritesServe DEF RestStep
<1>2. UNCHANGED <<tx, phase, todo, turn, asked, lost, settled>>
  BY DEF RestStep, StartOnRoom, StartOnPersona, CreatePersona, EditAuthors,
     CreateRoom, FindDispatcher, ReadPlace, AddMember, RemoveMember, ResetSession,
     ArchiveRoom, DeleteRoomRequest, PatchPersona, DeletePersonaRequest, ListHandles, InsertClone
<1>3. phase = "up" /\ tx = "none"
  BY DEF RestStep, StartOnRoom, StartOnPersona, CreatePersona, EditAuthors,
     CreateRoom, FindDispatcher, ReadPlace, AddMember, RemoveMember, ResetSession,
     ArchiveRoom, DeleteRoomRequest, PatchPersona, DeletePersonaRequest, ListHandles, InsertClone,
     Idle, At
<1>4. left' = left \/ Spend("requests")
  BY DEF RestStep, StartOnRoom, StartOnPersona, CreatePersona, EditAuthors,
     CreateRoom, FindDispatcher, ReadPlace, AddMember, RemoveMember, ResetSession,
     ArchiveRoom, DeleteRoomRequest, PatchPersona, DeletePersonaRequest, ListHandles, InsertClone
<1>5. left' \in Budgets
  BY <1>4, SpendsBudget DEF ServerInv
<1> QED
  BY <1>1, <1>2, <1>3, <1>5

\* Steps of requests keep the invariant.
LEMMA RestKeeps ==
    ASSUME ServerInv, NEW t \in Threads, RestStep(t)
    PROVE  ServerInv'
<1>1. /\ Served /\ phase = "up" /\ tx = "none" /\ left' \in Budgets
      /\ UNCHANGED <<tx, phase, todo, turn, asked, lost, settled>>
  BY RestIsServed
<1>2. DataOK /\ PhaseOK /\ db = disk
  BY <1>1 DEF ServerInv, PhaseOK
<1>3. DataOK'
  BY <1>1, <1>2 DEF Served, DataOK
<1>4. PhaseOK'
  BY <1>1, <1>2 DEF Served, PhaseOK
<1>5. PostOK' /\ TodoOK'
  BY <1>1 DEF PostOK, TodoOK
<1>6. RequestsOK'
  BY <1>1 DEF Served, RequestsOK
<1>7. TurnOK'
  BY <1>1, <1>2, CalmKeepsTurn DEF Served
<1> QED
  BY <1>1, <1>3, <1>4, <1>5, <1>6, <1>7 DEF ServerInv

\* Requests open and end no run.
LEMMA RestKeepsRuns ==
    ASSUME ServerInv, RunsOK, NEW t \in Threads, RestStep(t)
    PROVE  RunsOK'
<1>1. Served /\ UNCHANGED <<turn, lost>>
  BY RestIsServed
<1>2. db'.run = db.run /\ disk'.run = db.run
  BY <1>1 DEF Served, Calm
<1> QED
  BY <1>1, <1>2 DEF RunsOK, OpenRuns

\* Requests drop quotes only with a message at either end.
LEMMA RestKeepsAsked ==
    ASSUME ServerInv, AskedOK, NEW t \in Threads, RestStep(t)
    PROVE  AskedOK'
<1>1. Served /\ tx = "none" /\ UNCHANGED <<tx, asked>>
  BY RestIsServed
<1>2. db = disk /\ ids'.message = ids.message
  BY <1>1 DEF Served, ServerInv, PhaseOK
<1>3. Calm(db, db', ids) /\ disk' = db'
  BY <1>1 DEF Served
<1>4. ASSUME NEW m \in DOMAIN asked PROVE Whole(db, m)'
  <2>1. Whole(disk, m)
    BY <1>4 DEF AskedOK
  <2> SUFFICES ASSUME m \in DOMAIN db'.message, NEW x
               PROVE  <<m, x>> \in db'.quote <=> x \in asked[m] /\ x \in DOMAIN db'.message
    BY <1>1 DEF Whole
  <2>2. <<m, x>> \in db'.quote <=>
          <<m, x>> \in db.quote /\ m \in DOMAIN db'.message /\ x \in DOMAIN db'.message
    BY <1>3 DEF Calm
  <2>3. DOMAIN db'.message \subseteq DOMAIN db.message
    BY <1>3 DEF Calm
  <2> QED
    BY <1>2, <2>1, <2>2, <2>3 DEF Whole
<1> QED
  BY <1>1, <1>2, <1>3, <1>4 DEF AskedOK, Whole

\* A request that seats a member at the place it read does so above the others of the
\* room, or the room has been raced.
LEMMA RestKeepsSeats ==
    ASSUME ServerInv, SeatsOK, NEW t \in Threads, RestStep(t)
    PROVE  SeatsOK'
<1>1. Served /\ phase = "up" /\ tx = "none"
  BY RestIsServed
<1>2. /\ ids \in Numbers /\ Good(db, ids) /\ db = disk /\ Shape(db) /\ Bounded(db)
      /\ ids.persona \in Nat /\ ids.room \in Nat
      /\ \A i \in DOMAIN db.persona : db.persona[i] \in Rows
      /\ db.author \subseteq {Me, Boss, Guest}
  BY <1>1, RequestsInBounds
<1>3. /\ req[t].room \in Nat /\ req[t].who \in Nat /\ req[t].place \in Nat
      /\ req[t].row \in Rows /\ req[t].row.handle \in HandleSet
      /\ IsFiniteSet(req[t].taken)
  BY RequestTypes DEF ServerInv
<1>4. disk' = db' /\ Distinct(db)
  BY <1>1 DEF Served, SeatsOK
<1>5. ASSUME UNCHANGED raced, db'.member = db.member PROVE SeatsOK'
  BY <1>4, <1>5 DEF SeatsOK, Distinct
<1>6. ASSUME UNCHANGED raced,
             \A x \in DOMAIN db'.member : x \in DOMAIN db.member /\ db'.member[x] = db.member[x]
      PROVE SeatsOK'
  BY <1>4, <1>6 DEF SeatsOK, Distinct
<1>7. ASSUME Nothing, UNCHANGED raced PROVE SeatsOK'
  BY <1>5, <1>7 DEF Nothing
<1>8. CASE \/ StartOnRoom(t) \/ StartOnPersona(t) \/ FindDispatcher(t)
           \/ ReadPlace(t) \/ ListHandles(t)
  BY <1>7, <1>8 DEF StartOnRoom, StartOnPersona, FindDispatcher, ReadPlace, ListHandles
<1>9. ASSUME NEW row \in Rows, Execute(InsertPersona(db, ids.persona + 1, row)), UNCHANGED raced
      PROVE  SeatsOK'
  <2>1. ids.persona + 1 \in Nat
    BY <1>2
  <2>2. InsertPersona(db, ids.persona + 1, row).member = db.member
    BY <1>2, <2>1, InsertPersonaDoes
  <2> QED
    BY <1>5, <1>9, <2>2 DEF Execute
<1>10. \A handle \in HandleSet : PersonaRow(handle, FALSE, FALSE) \in Rows
  <2>1. FALSE \in BOOLEAN
    OBVIOUS
  <2> QED
    BY <2>1 DEF PersonaRow, Rows, HandleSet
<1>11. CASE CreatePersona(t)
  <2>1. Handle(Guest, 0) \in HandleSet
    BY DEF Handle, HandleSet
  <2> QED
    BY <1>9, <1>10, <1>11, <2>1 DEF CreatePersona
<1>12. CASE EditAuthors(t)
  <2>1. PICK name \in {Me, Boss, Guest} :
            Execute(InsertAuthor(db, name)) \/ Execute(DeleteAuthor(db, name))
    BY <1>2, <1>12 DEF EditAuthors
  <2>2. \A e \in {InsertAuthor(db, name), DeleteAuthor(db, name)} : e.member = db.member
    BY <1>2, AuthorsDo
  <2> QED
    BY <1>5, <1>12, <2>1, <2>2 DEF EditAuthors, Execute
<1>13. CASE CreateRoom(t)
  <2>1. ids.room + 1 \in Nat
    BY <1>2
  <2>2. InsertRoom(db, ids.room + 1).member = db.member
    BY <1>2, <2>1, InsertRoomDoes
  <2> QED
    BY <1>5, <1>13, <2>2 DEF CreateRoom, Execute
<1>14. CASE AddMember(t)
  <2> DEFINE r == req[t].room
             p == req[t].who
             place == req[t].place
             k == <<r, p>>
  <2>1. CASE MemberAllowed(db, r, p)
    <3>1. /\ db' = InsertMember(db, r, p, place)
          /\ raced' = IF NextPlace(db, r) > place THEN raced \cup {r} ELSE raced
      BY <1>14, <2>1 DEF AddMember, Execute
    <3>2. db'.member = Put(db.member, k, place)
      BY <1>2, <1>3, <3>1, InsertMemberDoes
    <3>3. /\ NextPlace(db, r) \in Nat
          /\ \A x \in DOMAIN db.member : x[1] = r => db.member[x] < NextPlace(db, r)
      BY <1>2, <1>3, NextPlaceIsNext
    <3>4. /\ place \in Nat /\ k[1] = r /\ k \notin DOMAIN db.member
          /\ \A x \in DOMAIN db.member : db.member[x] \in Nat
      BY <1>2, <1>3, <2>1 DEF MemberAllowed, Shape
    <3> HIDE DEF r, p, place, k
    <3>5. r \in raced' \/ \A x \in DOMAIN db.member : x[1] = r => db.member[x] < place
      BY <3>1, <3>3, <3>4
    <3>6. raced \subseteq raced'
      BY <3>1
    <3>7. /\ DOMAIN db'.member = DOMAIN db.member \cup {k} /\ db'.member[k] = place
          /\ \A x \in DOMAIN db.member : db'.member[x] = db.member[x]
      BY <3>2, <3>4 DEF Put
    <3>8. \A x \in DOMAIN db.member : x[1] = r /\ r \notin raced' => db'.member[x] # db'.member[k]
      BY <3>4, <3>5, <3>7
    <3>9. Distinct(db)'
      BY <1>4, <3>4, <3>6, <3>7, <3>8 DEF Distinct
    <3> QED
      BY <1>4, <3>9 DEF SeatsOK
  <2>2. CASE ~MemberAllowed(db, r, p)
    BY <1>7, <1>14, <2>2 DEF AddMember
  <2> QED
    BY <2>1, <2>2
<1>15. CASE RemoveMember(t)
  <2> DEFINE r == req[t].room
             p == req[t].who
  <2>1. Shape(db) /\ r \in Nat /\ p \in Nat
    BY <1>2, <1>3
  <2>2. db' = DeleteMember(db, r, p) /\ UNCHANGED raced
    BY <1>15 DEF RemoveMember, Execute
  <2> HIDE DEF r, p
  <2>3. DeleteMember(db, r, p).member =
            [k \in DOMAIN db.member \ {<<r, p>>} |-> db.member[k]]
    BY <2>1, DeleteMemberDoes
  <2> QED
    BY <1>6, <2>2, <2>3
<1>16. CASE ResetSession(t)
  <2>1. Shape(db) /\ NoMessage \in Nat /\ req[t].room \in Nat /\ req[t].who \in Nat
    BY <1>2, <1>3 DEF NoMessage
  <2>2. UpsertSession(db, req[t].room, req[t].who, NoMessage).member = db.member
    BY <2>1, UpsertSessionDoes
  <2> QED
    BY <1>5, <1>7, <1>16, <2>2 DEF ResetSession, Execute
<1>17. CASE ArchiveRoom(t)
  <2>1. UpdateRoom(db, req[t].room, TRUE).member = db.member
    BY <1>2, <1>3, UpdateRoomDoes
  <2> QED
    BY <1>5, <1>17, <2>1 DEF ArchiveRoom, Execute
<1>18. CASE DeleteRoomRequest(t)
  <2> DEFINE r == req[t].room
             M == {k \in DOMAIN db.member : k[1] # r}
  <2>1. Shape(db) /\ r \in Nat
    BY <1>2, <1>3
  <2>2. db' = DeleteRoom(db, r) /\ UNCHANGED raced
    BY <1>18 DEF DeleteRoomRequest, Execute
  <2> HIDE DEF r
  <2>3. DeleteRoom(db, r).member = [k \in M |-> db.member[k]]
    BY <2>1, DeleteRoomDoes
  <2>4. M \subseteq DOMAIN db.member
    OBVIOUS
  <2> HIDE DEF M
  <2> QED
    BY <1>6, <2>2, <2>3, <2>4
<1>19. CASE PatchPersona(t)
  <2>1. UpdatePersona(db, req[t].who, req[t].row).member = db.member
    BY <1>2, <1>3, UpdatePersonaDoes
  <2> QED
    BY <1>5, <1>7, <1>19, <2>1 DEF PatchPersona, Execute
<1>20. CASE DeletePersonaRequest(t)
  <2> DEFINE p == req[t].who
             M == {k \in DOMAIN db.member : k[2] # p}
  <2>1. Shape(db) /\ p \in Nat
    BY <1>2, <1>3
  <2>2. db' = DeletePersona(db, p) /\ UNCHANGED raced
    BY <1>20 DEF DeletePersonaRequest, Execute
  <2> HIDE DEF p
  <2>3. DeletePersona(db, p).member = [k \in M |-> db.member[k]]
    BY <2>1, DeletePersonaDoes
  <2>4. M \subseteq DOMAIN db.member
    OBVIOUS
  <2> HIDE DEF M
  <2> QED
    BY <1>6, <2>2, <2>3, <2>4
<1>21. CASE InsertClone(t)
  <2> DEFINE handle == UniqueHandle(req[t].row.handle, req[t].taken)
             row == PersonaRow(handle, FALSE, FALSE)
  <2>1. handle \in HandleSet
    BY <1>3, UniqueHandleIsHandle
  <2>2. row \in Rows
    BY <1>10, <2>1
  <2>3. \/ Execute(InsertPersona(db, ids.persona + 1, row)) /\ UNCHANGED raced
        \/ Nothing /\ UNCHANGED raced
    BY <1>21 DEF InsertClone
  <2> HIDE DEF row
  <2> QED
    BY <1>7, <1>9, <2>2, <2>3
<1> QED
  BY <1>8, <1>11, <1>12, <1>13, <1>14, <1>15, <1>16, <1>17, <1>18, <1>19, <1>20, <1>21
     DEF RestStep
-----------------------------------------------------------------------------
(* Startup preserves the invariant.                                        *)

AllInv == ServerInv /\ RunsOK /\ AskedOK /\ SeatsOK

\* From d to e the runs, the messages and quotes there are, and the members stay.
Still(d, e) ==
    /\ OpenRuns(e) = OpenRuns(d) /\ DOMAIN e.message = DOMAIN d.message
    /\ e.quote = d.quote /\ e.member = d.member

\* Steps that are still keep runs, quotes and places.
LEMMA StillKeeps ==
    ASSUME RunsOK, AskedOK, SeatsOK, Still(db, db'), Still(disk, disk'),
           UNCHANGED <<tx, turn, asked, lost, raced>>, ids'.message = ids.message
    PROVE  RunsOK' /\ AskedOK' /\ SeatsOK'
<1>1. RunsOK'
  BY DEF RunsOK, Still, OpenRuns
<1>2. SeatsOK'
  BY DEF SeatsOK, Still, Distinct
<1>3. AskedOK'
  <2>1. \A m \in DOMAIN asked : (Whole(db, m) => Whole(db, m)') /\ (Whole(disk, m) => Whole(disk, m)')
    BY DEF Still, Whole
  <2> QED
    BY <2>1 DEF AskedOK
<1> QED
  BY <1>1, <1>2, <1>3

\* While the server is not up no request and no turn is under way.
LEMMA QuietKeeps ==
    ASSUME ServerInv, phase # "up", UNCHANGED <<req, turn>>
    PROVE  RequestsOK' /\ TurnOK'
<1>1. RequestsOK'
  BY DEF ServerInv, RequestsOK
<1>2. turn.at = "idle"
  BY DEF ServerInv, TurnOK
<1>3. TurnOK'
  BY <1>2 DEF ServerInv, TurnOK
<1> QED
  BY <1>1, <1>3

\* The row of a teammate is a row with the teammate's handle.
LEMMA SeedRowIsRow ==
    ASSUME NEW b \in Team
    PROVE  SeedRow(b) \in Rows /\ SeedRow(b).handle = Handle(b, 0)
<1>1. TRUE \in BOOLEAN /\ FALSE \in BOOLEAN
  OBVIOUS
<1> QED
  BY <1>1 DEF SeedRow, PersonaRow, Handle, Rows

\* Seeding a missing persona leaves the others missing, and everything else alone.
LEMMA SeedingSeeds ==
    ASSUME NEW n \in Numbers, NEW d, Good(d, n), NEW b \in Missing(d)
    PROVE  LET e == InsertPersona(d, n.persona + 1, SeedRow(b))
           IN  /\ Good(e, [n EXCEPT !.persona = @ + 1])
               /\ Still(d, e) /\ e.author = d.author
               /\ e.message = d.message /\ e.room = d.room /\ e.run = d.run /\ e.session = d.session
               /\ DOMAIN e.persona = DOMAIN d.persona \cup {n.persona + 1}
               /\ e.persona[n.persona + 1] = SeedRow(b)
               /\ \A i \in DOMAIN d.persona : i # n.persona + 1 /\ e.persona[i] = d.persona[i]
               /\ Missing(e) = Missing(d) \ {b}
<1> DEFINE i == n.persona + 1
           row == SeedRow(b)
           e == InsertPersona(d, i, row)
<1>1. b \in Team /\ Handle(b, 0) \notin Handles(d)
  BY DEF Missing
<1>2. row \in Rows /\ row.handle = Handle(b, 0)
  BY <1>1, SeedRowIsRow
<1> HIDE DEF row
<1>3. Good(e, [n EXCEPT !.persona = @ + 1])
  BY <1>1, <1>2, InsertPersonaIsCalm
<1>4. i \in Nat /\ Shape(d) /\ i \notin DOMAIN d.persona
  BY DEF Good, Sound, Within, Numbers
<1> HIDE DEF i
<1>5. /\ e.persona = Put(d.persona, i, row)
      /\ e.author = d.author /\ e.room = d.room /\ e.member = d.member
      /\ e.message = d.message /\ e.quote = d.quote
      /\ e.session = d.session /\ e.run = d.run
  BY <1>2, <1>4, InsertPersonaDoes
<1> HIDE DEF e
<1>6. Still(d, e)
  BY <1>5 DEF Still, OpenRuns
<1>7. /\ DOMAIN e.persona = DOMAIN d.persona \cup {i}
      /\ e.persona[i] = row
      /\ \A j \in DOMAIN d.persona : j # i /\ e.persona[j] = d.persona[j]
  BY <1>4, <1>5 DEF Put
<1>8. \A h : h \in Handles(e) <=> h \in Handles(d) \/ h = Handle(b, 0)
  BY <1>2, <1>7 DEF Handles
<1>9. \A c \in Team : Handle(c, 0) = Handle(b, 0) => c = b
  BY DEF Handle
<1>10. Missing(e) = Missing(d) \ {b}
  BY <1>8, <1>9 DEF Missing
<1> QED
  BY <1>3, <1>5, <1>6, <1>7, <1>10 DEF e, i, row

\* Startup is to seed the authors if there are none.
LEMMA StartKeeps ==
    ASSUME AllInv, Start
    PROVE  AllInv'
<1>1. UNCHANGED <<db, disk, tx, req, turn, ids, left, asked, lost, raced, settled>>
      /\ phase = "down" /\ phase' = "authors"
      /\ todo' = IF db.author = {} THEN {Me, Boss} ELSE {}
  BY DEF Start
<1>2. ServerInv /\ tx = "none" /\ db = disk
  BY <1>1 DEF AllInv, ServerInv, PhaseOK
<1>3. DataOK' /\ PhaseOK' /\ PostOK'
  BY <1>1, <1>2 DEF ServerInv, DataOK, PhaseOK, PostOK
<1>4. RequestsOK' /\ TurnOK'
  BY <1>1, <1>2, QuietKeeps
<1>5. TodoOK'
  BY <1>1, <1>2 DEF TodoOK
<1>6. RunsOK' /\ AskedOK' /\ SeatsOK'
  BY <1>1, StillKeeps DEF AllInv, Still
<1> QED
  BY <1>1, <1>2, <1>3, <1>4, <1>5, <1>6 DEF AllInv, ServerInv

\* What is missing is what is to be seeded.
LEMMA ListPersonasKeeps ==
    ASSUME AllInv, ListPersonas
    PROVE  AllInv'
<1>1. UNCHANGED <<db, disk, tx, req, turn, ids, left, asked, lost, raced, settled>>
      /\ phase = "authors" /\ phase' = "personas" /\ todo = {} /\ todo' = Missing(db)
  BY DEF ListPersonas, SeedList
<1>2. ServerInv /\ tx = "none" /\ db = disk
  BY <1>1 DEF AllInv, ServerInv, PhaseOK
<1>3. DataOK' /\ PhaseOK' /\ PostOK'
  BY <1>1, <1>2 DEF ServerInv, DataOK, PhaseOK, PostOK
<1>4. RequestsOK' /\ TurnOK'
  BY <1>1, <1>2, QuietKeeps
<1>5. TodoOK'
  BY <1>1, <1>2 DEF ServerInv, TodoOK, Missing, Handles
<1>6. RunsOK' /\ AskedOK' /\ SeatsOK'
  BY <1>1, StillKeeps DEF AllInv, Still
<1> QED
  BY <1>1, <1>2, <1>3, <1>4, <1>5, <1>6 DEF AllInv, ServerInv

\* The server begins to serve.
LEMMA ServeKeeps ==
    ASSUME AllInv, Serve
    PROVE  AllInv'
<1>1. UNCHANGED <<db, disk, tx, todo, req, turn, ids, left, asked, lost, raced, settled>>
      /\ phase = "personas" /\ phase' = "up"
  BY DEF Serve
<1>2. ServerInv /\ tx = "none" /\ db = disk
  BY <1>1 DEF AllInv, ServerInv, PhaseOK
<1>3. DataOK' /\ PhaseOK' /\ PostOK'
  BY <1>1, <1>2 DEF ServerInv, DataOK, PhaseOK, PostOK
<1>4. RequestsOK' /\ TurnOK'
  BY <1>1, <1>2, QuietKeeps
<1>5. TodoOK'
  BY <1>1, <1>2 DEF TodoOK
<1>6. RunsOK' /\ AskedOK' /\ SeatsOK'
  BY <1>1, StillKeeps DEF AllInv, Still
<1> QED
  BY <1>1, <1>2, <1>3, <1>4, <1>5, <1>6 DEF AllInv, ServerInv

\* An author is seeded.
LEMMA SeedAuthorKeeps ==
    ASSUME AllInv, SeedAuthor
    PROVE  AllInv'
<1> DEFINE name == IF Me \in todo THEN Me ELSE Boss
           e == InsertAuthor(db, name)
<1>1. /\ UNCHANGED <<tx, phase, req, turn, ids, left, asked, lost, raced, settled>>
      /\ phase = "authors" /\ todo # {} /\ todo' = todo \ {name} /\ Execute(e)
  BY DEF SeedAuthor
<1>2. ServerInv /\ tx = "none" /\ db = disk /\ db' = e /\ disk' = e
  BY <1>1 DEF AllInv, ServerInv, PhaseOK, Execute
<1>3. name \in {Me, Boss, Guest}
  OBVIOUS
<1> HIDE DEF name
<1>4. Good(db, ids) /\ Shape(db) /\ ids \in Numbers
  BY <1>2 DEF ServerInv, DataOK, Good, Sound
<1>5. Good(e, ids)
  BY <1>3, <1>4, AuthorsAreCalm
<1>6. /\ e.member = db.member /\ e.message = db.message /\ e.quote = db.quote
      /\ e.run = db.run /\ name \in e.author
  <2>1. name \in e.author
    BY <1>4 DEF InsertAuthor, Shape, Fields
  <2> QED
    BY <1>3, <1>4, <2>1, AuthorsDo
<1> HIDE DEF e
<1>7. DataOK' /\ PhaseOK' /\ PostOK'
  BY <1>1, <1>2, <1>4, <1>5 DEF ServerInv, DataOK, PhaseOK, PostOK
<1>8. RequestsOK' /\ TurnOK'
  BY <1>1, <1>2, QuietKeeps
<1>9. TodoOK'
  BY <1>1, <1>2, <1>6 DEF ServerInv, TodoOK
<1>10. RunsOK' /\ AskedOK' /\ SeatsOK'
  BY <1>1, <1>2, <1>6, StillKeeps DEF AllInv, Still, OpenRuns
<1> QED
  BY <1>1, <1>2, <1>7, <1>8, <1>9, <1>10 DEF AllInv, ServerInv

\* A teammate who is missing is seeded, with a handle nobody has.
LEMMA SeedPersonaKeeps ==
    ASSUME AllInv, SeedPersona
    PROVE  AllInv'
<1>1. PICK b \in todo : /\ Execute(InsertPersona(db, ids.persona + 1, SeedRow(b)))
                        /\ todo' = todo \ {b}
  BY DEF SeedPersona
<1> DEFINE e == InsertPersona(db, ids.persona + 1, SeedRow(b))
           k == [ids EXCEPT !.persona = @ + 1]
<1>2. /\ UNCHANGED <<tx, phase, req, turn, left, asked, lost, raced, settled>>
      /\ phase = "personas" /\ ids' = k
  BY DEF SeedPersona, Fresh
<1>3. ServerInv /\ tx = "none" /\ db = disk /\ db' = e /\ disk' = e
  BY <1>1, <1>2 DEF AllInv, ServerInv, PhaseOK, Execute
<1>4. Good(db, ids) /\ ids \in Numbers /\ k \in Numbers /\ k.message = ids.message
  BY <1>3 DEF ServerInv, DataOK, Numbers
<1>5. todo = Missing(db) /\ db.author # {}
  BY <1>2, <1>3 DEF ServerInv, TodoOK
<1>6. Good(e, k) /\ Still(db, e) /\ e.author = db.author /\ Missing(e) = Missing(db) \ {b}
  BY <1>1, <1>4, <1>5, SeedingSeeds
<1> HIDE DEF e, k
<1>7. DataOK' /\ PhaseOK' /\ PostOK'
  BY <1>2, <1>3, <1>4, <1>6 DEF ServerInv, DataOK, PhaseOK, PostOK
<1>8. RequestsOK' /\ TurnOK'
  BY <1>2, <1>3, QuietKeeps
<1>9. TodoOK'
  BY <1>1, <1>2, <1>3, <1>5, <1>6 DEF TodoOK, Missing, Handles
<1>10. RunsOK' /\ AskedOK' /\ SeatsOK'
  BY <1>2, <1>3, <1>4, <1>6, StillKeeps DEF AllInv
<1> QED
  BY <1>2, <1>3, <1>7, <1>8, <1>9, <1>10 DEF AllInv, ServerInv
-----------------------------------------------------------------------------
(* Posts and turns preserve the invariant.                                 *)

\* A message with the next id leaves the database in order.
LEMMA InsertMessageIsGood ==
    ASSUME NEW n \in Numbers, NEW d, Good(d, n),
           NEW r, r \in DOMAIN d.room, NEW author \in Nat, NEW run \in Nat,
           author # Human =>
               /\ run \in DOMAIN d.run
               /\ d.run[run].persona = author /\ d.run[run].room = r
    PROVE  LET m == n.message + 1
               e == InsertMessage(d, m, r, author, run)
           IN  /\ Good(e, [n EXCEPT !.message = @ + 1]) /\ Good(d, [n EXCEPT !.message = @ + 1])
               /\ m \notin DOMAIN d.message /\ DOMAIN e.message = DOMAIN d.message \cup {m}
               /\ \A x \in DOMAIN d.message : e.message[x] = d.message[x]
               /\ e.persona = d.persona /\ e.author = d.author /\ e.room = d.room
               /\ e.member = d.member /\ e.quote = d.quote
               /\ e.session = d.session /\ e.run = d.run
<1> DEFINE m == n.message + 1
           e == InsertMessage(d, m, r, author, run)
           k == [n EXCEPT !.message = @ + 1]
<1>1. /\ n.message \in Nat /\ m \in Nat /\ m = n.message + 1
      /\ k.message = m /\ k.persona = n.persona /\ k.room = n.room /\ k.run = n.run
  BY DEF Numbers
<1>2. Sound(d) /\ Shape(d) /\ Within(d, n) /\ Bounded(d) /\ r \in Nat
  BY DEF Good, Within, Sound, Numbers
<1> HIDE DEF m, k
<1>3. m \notin DOMAIN d.message
  BY <1>1, <1>2 DEF Within
<1>4. Sound(e)
  BY <1>1, <1>2, <1>3, InsertMessageKeeps
<1>5. /\ e.message = Put(d.message, m, [room |-> r, author |-> author, run |-> run])
      /\ e.persona = d.persona /\ e.author = d.author /\ e.room = d.room
      /\ e.member = d.member /\ e.quote = d.quote
      /\ e.session = d.session /\ e.run = d.run
  <2>1. Shape(d) /\ m \in Nat /\ r \in Nat
    BY <1>1, <1>2
  <2> QED
    BY <2>1, InsertMessageDoes
<1> HIDE DEF e
<1>6. /\ DOMAIN e.message = DOMAIN d.message \cup {m}
      /\ \A x \in DOMAIN d.message : e.message[x] = d.message[x]
  BY <1>3, <1>5 DEF Put
<1>7. DOMAIN e.message \subseteq 1..m /\ DOMAIN d.message \subseteq 1..m
  BY <1>1, <1>2, <1>6 DEF Within
<1>8. Good(e, k)
  BY <1>1, <1>2, <1>4, <1>5, <1>7 DEF Good, Within, Bounded
<1>9. Good(d, k)
  BY <1>1, <1>2, <1>7 DEF Good, Within
<1> QED
  BY <1>3, <1>5, <1>6, <1>8, <1>9 DEF e, k, m

\* A new message is not taken for one that an earlier message quoted.
LEMMA NewMessageKeepsWhole ==
    ASSUME NEW n \in Nat, NEW d, NEW e, e.quote = d.quote,
           DOMAIN e.message = DOMAIN d.message \cup {n + 1},
           NEW m \in 1..n, \A x \in asked[m] : x \in 0..(m - 1), Whole(d, m)
    PROVE  Whole(e, m)
<1>1. m # n + 1 /\ n + 1 \notin asked[m]
  OBVIOUS
<1> QED
  BY <1>1 DEF Whole

\* What a statement leaves alone for the turn under way.
Spares(d, e, n) ==
    /\ e.run = d.run
    /\ DOMAIN e.room \cap 1..n.room \subseteq DOMAIN d.room
    /\ \A m \in DOMAIN d.message :
          d.message[m].room \in DOMAIN e.room =>
              m \in DOMAIN e.message /\ e.message[m] = d.message[m]

TurnRecords == [at : {"idle", "running", "replied", "leaving"}, room : Nat, who : Nat,
          run : Nat, tail : Nat, failed : BOOLEAN]

\* A turn that goes on keeps what it counts on.
LEMMA TurnGoesOn ==
    ASSUME ServerInv, turn.at # "idle", phase' = phase,
           turn' \in TurnRecords, turn'.at # "idle", turn'.room = turn.room, turn'.who = turn.who,
           turn'.run = turn.run, turn'.tail = turn.tail,
           Spares(disk, disk', ids), ids' \in Numbers, ids.room <= ids'.room
    PROVE  TurnOK'
<1>1. TurnOK /\ ids \in Numbers
  BY DEF ServerInv, DataOK
<1>2. /\ phase = "up"
      /\ turn.room \in 1..ids.room /\ turn.run \in DOMAIN disk.run
      /\ disk.run[turn.run].persona = turn.who /\ disk.run[turn.run].room = turn.room
      /\ turn.room \in DOMAIN disk.room /\ turn.tail # NoMessage =>
            turn.tail \in DOMAIN disk.message /\ disk.message[turn.tail].room = turn.room
  BY <1>1 DEF TurnOK
<1>3. turn.room \in 1..ids'.room
  BY <1>1, <1>2 DEF Numbers
<1>4. turn.room \in DOMAIN disk'.room /\ turn.tail # NoMessage =>
          turn.tail \in DOMAIN disk'.message /\ disk'.message[turn.tail].room = turn.room
  BY <1>2 DEF Spares
<1>5. disk'.run = disk.run
  BY DEF Spares
<1> QED
  BY <1>2, <1>3, <1>4, <1>5 DEF TurnOK, TurnRecords

\* While no statement touches what is committed, the turn under way is as it was.
LEMMA TurnWaits ==
    ASSUME ServerInv, UNCHANGED <<phase, turn>>, Spares(disk, disk', ids), ids' \in Numbers,
           ids.room <= ids'.room
    PROVE  TurnOK'
<1>1. CASE turn.at = "idle"
  BY <1>1 DEF ServerInv, TurnOK
<1>2. CASE turn.at # "idle"
  BY <1>2, TurnGoesOn DEF ServerInv, TurnOK, TurnRecords
<1> QED
  BY <1>1, <1>2

\* The message of a post is inserted, its transaction still open.
LEMMA PostKeeps ==
    ASSUME AllInv, Post
    PROVE  AllInv'
<1>1. /\ phase = "up" /\ tx = "none" /\ Spend("posts") /\ tx' = "post" /\ disk' = disk
      /\ ids' = [ids EXCEPT !.message = @ + 1]
      /\ UNCHANGED <<phase, todo, req, turn, lost, raced, settled>>
  BY DEF Post, LoopFree, Fresh
<1>a. PICK m \in Nat : m = ids.message + 1
  BY DEF AllInv, ServerInv, DataOK, Numbers
<1>2. PICK r \in DOMAIN db.room, quoted \in SUBSET (DOMAIN db.message \cup {NoMessage}) :
          /\ db' = InsertMessage(db, m, r, Human, NoRun)
          /\ asked' = Put(asked, m, quoted)
  BY <1>a DEF Post
<1>3. ServerInv /\ RunsOK /\ AskedOK /\ SeatsOK /\ db = disk
  BY <1>1 DEF AllInv, ServerInv, PhaseOK
<1>4. Good(db, ids) /\ ids \in Numbers
  BY <1>3 DEF ServerInv, DataOK
<1>5. /\ Good(db', ids') /\ Good(db, ids')
      /\ m \notin DOMAIN db.message /\ DOMAIN db'.message = DOMAIN db.message \cup {m}
      /\ \A x \in DOMAIN db.message : db'.message[x] = db.message[x]
      /\ db'.persona = db.persona /\ db'.author = db.author /\ db'.room = db.room
      /\ db'.member = db.member /\ db'.quote = db.quote
      /\ db'.session = db.session /\ db'.run = db.run
  <2>1. Human \in Nat /\ NoRun \in Nat
    BY DEF Human, NoRun
  <2> QED
    BY <1>1, <1>a, <1>2, <1>4, <2>1, InsertMessageIsGood
<1>6. /\ ids' \in Numbers /\ ids'.message = m /\ ids'.room = ids.room
      /\ ids.message \in Nat /\ m = ids.message + 1 /\ ids.room \in Nat
  BY <1>1, <1>a, <1>4 DEF Numbers
<1>7. DataOK' /\ PhaseOK' /\ PostOK'
  BY <1>1, <1>3, <1>5, <1>6 DEF ServerInv, DataOK, PhaseOK, PostOK
<1>8. RequestsOK' /\ TodoOK'
  BY <1>1, <1>3 DEF ServerInv, RequestsOK, TodoOK
<1>9. TurnOK'
  <2>1. Spares(disk, disk', ids)
    BY <1>1 DEF Spares
  <2> QED
    BY <1>1, <1>3, <1>6, <2>1, TurnWaits
<1>10. left' \in Budgets
  BY <1>1, <1>3, SpendsBudget DEF ServerInv
<1>11. RunsOK' /\ SeatsOK'
  BY <1>1, <1>3, <1>5 DEF RunsOK, OpenRuns, SeatsOK, Distinct
<1>12. AskedOK'
  <2>1. /\ DOMAIN asked \subseteq 1..ids.message
        /\ \A x \in DOMAIN asked : \A y \in asked[x] : y \in 0..(x - 1)
        /\ \A x \in DOMAIN asked : Whole(disk, x)
    BY <1>3 DEF AskedOK
  <2>2. /\ DOMAIN asked' = DOMAIN asked \cup {m} /\ asked'[m] = quoted
        /\ \A x \in DOMAIN asked : x # m /\ asked'[x] = asked[x]
    BY <1>2, <1>6, <2>1 DEF Put
  <2>3. DOMAIN asked' \subseteq 1..m
    BY <1>6, <2>1, <2>2
  <2>4. \A y \in quoted : y \in 0..(m - 1)
    <3>1. DOMAIN db.message \subseteq 1..ids.message
      BY <1>4 DEF Good, Within
    <3> QED
      BY <1>6, <3>1 DEF NoMessage
  <2>5. \A x \in DOMAIN asked' : \A y \in asked'[x] : y \in 0..(x - 1)
    BY <2>1, <2>2, <2>4
  <2>6. ASSUME NEW x \in DOMAIN asked PROVE Whole(disk, x)' /\ Whole(db, x)'
    <3>1. Whole(db, x)
      BY <1>3, <2>1, <2>6
    <3>2. Whole(db', x)
      BY <1>5, <1>6, <2>1, <2>6, <3>1, NewMessageKeepsWhole
    <3> QED
      BY <1>1, <1>3, <2>2, <2>6, <3>1, <3>2 DEF Whole
  <2>7. Whole(disk, m)'
    BY <1>1, <1>3, <1>5 DEF Whole
  <2> QED
    BY <1>1, <1>6, <2>2, <2>3, <2>5, <2>6, <2>7 DEF AskedOK
<1> QED
  BY <1>3, <1>7, <1>8, <1>9, <1>10, <1>11, <1>12 DEF AllInv, ServerInv

\* The quotes of a post are inserted and the transaction commits.
LEMMA QuoteKeeps ==
    ASSUME AllInv, Quote
    PROVE  AllInv'
<1> DEFINE m == ids.message
           quoted == asked[m]
<1>1. /\ tx = "post" /\ tx' = "none"
      /\ UNCHANGED <<phase, todo, req, turn, ids, left, asked, lost, raced, settled>>
      /\ \/ QuotesAllowed(db, quoted) /\ Commit(InsertQuotes(db, m, quoted))
         \/ ~QuotesAllowed(db, quoted) /\ Rollback
  BY DEF Quote, Commit, Rollback
<1>2. ServerInv /\ RunsOK /\ AskedOK /\ SeatsOK /\ phase = "up"
  BY <1>1 DEF AllInv, ServerInv, PhaseOK
<1>3. /\ Good(db, ids) /\ Good(disk, ids) /\ ids \in Numbers /\ ids.room \in Nat
  BY <1>2 DEF ServerInv, DataOK, Numbers
<1>4. /\ db.persona = disk.persona /\ db.author = disk.author /\ db.room = disk.room
      /\ db.member = disk.member /\ db.quote = disk.quote
      /\ db.session = disk.session /\ db.run = disk.run
      /\ DOMAIN db.message = DOMAIN disk.message \cup {m}
      /\ \A x \in DOMAIN disk.message : db.message[x] = disk.message[x]
      /\ m \notin DOMAIN disk.message
  BY <1>1, <1>2 DEF ServerInv, PostOK
<1>5. /\ m \in DOMAIN asked
      /\ \A x \in DOMAIN asked : Whole(disk, x)
      /\ \A x \in DOMAIN asked : Whole(db, x) \/ x = m
  BY <1>1, <1>2 DEF AskedOK
<1> HIDE DEF m, quoted
<1>6. ASSUME NEW e, db' = e, disk' = e, Good(e, ids), Spares(disk, e, ids),
             e.member = db.member, e.run = db.run,
             \A x \in DOMAIN asked : Whole(e, x)
      PROVE  AllInv'
  <2>1. DataOK' /\ PhaseOK' /\ PostOK'
    BY <1>1, <1>2, <1>3, <1>6 DEF DataOK, ServerInv, PhaseOK, PostOK
  <2>2. RequestsOK' /\ TodoOK'
    BY <1>1, <1>2 DEF ServerInv, RequestsOK, TodoOK
  <2>3. TurnOK'
    BY <1>1, <1>2, <1>3, <1>6, TurnWaits
  <2>4. RunsOK' /\ SeatsOK'
    BY <1>1, <1>2, <1>6 DEF RunsOK, OpenRuns, SeatsOK, Distinct
  <2>5. AskedOK'
    BY <1>1, <1>2, <1>6 DEF AskedOK, Whole
  <2> QED
    BY <1>1, <1>2, <2>1, <2>2, <2>3, <2>4, <2>5 DEF AllInv, ServerInv
<1>7. CASE QuotesAllowed(db, quoted) /\ Commit(InsertQuotes(db, m, quoted))
  <2> DEFINE e == InsertQuotes(db, m, quoted)
  <2>1. db' = e /\ disk' = e
    BY <1>7 DEF Commit
  <2>2. /\ Sound(db) /\ Shape(db) /\ DOMAIN db.message \subseteq Nat
        /\ m \in DOMAIN db.message /\ m \in Nat
        /\ quoted \in SUBSET Nat /\ quoted \subseteq DOMAIN db.message
    <3>1. Sound(db) /\ Shape(db) /\ DOMAIN db.message \subseteq Nat
      BY <1>3 DEF Good, Sound, Within, Numbers
    <3>2. quoted \subseteq DOMAIN db.message
      BY <1>7 DEF QuotesAllowed
    <3> QED
      BY <1>4, <3>1, <3>2
  <2>3. Sound(e)
    BY <1>7, <2>2, InsertQuotesKeep
  <2>4. /\ e.quote = db.quote \cup ({m} \X quoted)
        /\ e.persona = db.persona /\ e.author = db.author /\ e.room = db.room
        /\ e.member = db.member /\ e.message = db.message
        /\ e.session = db.session /\ e.run = db.run
    BY <2>2, InsertQuotesDo
  <2> HIDE DEF e
  <2>5. Good(e, ids)
    BY <1>3, <2>3, <2>4 DEF Good, Within, Bounded
  <2>6. Spares(disk, e, ids)
    BY <1>4, <2>4 DEF Spares
  <2>7. ASSUME NEW x \in DOMAIN asked PROVE Whole(e, x)
    <3>1. CASE x # m
      BY <1>5, <2>4, <2>7, <3>1 DEF Whole
    <3>2. CASE x = m
      <4>1. \A y : <<m, y>> \notin disk.quote
        BY <1>3, <1>4 DEF Good, Sound, Refers
      <4>2. \A y : <<m, y>> \in e.quote <=> y \in quoted
        BY <1>4, <2>4, <4>1
      <4> QED
        BY <2>2, <2>4, <3>2, <4>2 DEF Whole, quoted
    <3> QED
      BY <3>1, <3>2
  <2> QED
    BY <1>6, <2>1, <2>4, <2>5, <2>6, <2>7
<1>8. CASE ~QuotesAllowed(db, quoted) /\ Rollback
  <2>1. db' = disk /\ disk' = disk
    BY <1>8 DEF Rollback
  <2>2. Spares(disk, disk, ids)
    BY DEF Spares
  <2> QED
    BY <1>3, <1>4, <1>5, <1>6, <2>1, <2>2
<1> QED
  BY <1>1, <1>7, <1>8
\* The last message of a room is one of its messages.
LEMMA TailIsTail ==
    ASSUME NEW n \in Numbers, NEW d, Good(d, n), NEW r
    PROVE  /\ Tail(d, r) \in Nat
           /\ Tail(d, r) # NoMessage =>
                 Tail(d, r) \in DOMAIN d.message /\ d.message[Tail(d, r)].room = r
<1>1. n.message \in Nat /\ DOMAIN d.message \subseteq 1..n.message
  BY DEF Numbers, Good, Within
<1>2. CASE RoomMessages(d, r) = {}
  BY <1>2 DEF Tail, NoMessage
<1>3. CASE RoomMessages(d, r) # {}
  <2> DEFINE S == RoomMessages(d, r)
             T == {n.message - m : m \in S}
  <2>1. S \subseteq 1..n.message
    BY <1>1 DEF RoomMessages
  <2> HIDE DEF S
  <2>2. T \in SUBSET Nat /\ T # {}
    BY <1>1, <1>3, <2>1 DEF S
  <2>3. PICK x \in T : \A y \in T : x <= y
    <3> HIDE DEF T
    <3> QED
      BY <2>2, LeastNat
  <2>4. PICK top \in S : x = n.message - top
    BY <2>3
  <2>5. \A m \in S : n.message - top <= n.message - m
    BY <2>3, <2>4
  <2>6. \A m \in S : top >= m
    BY <1>1, <2>1, <2>4, <2>5
  <2>7. Tail(d, r) \in S
    BY <1>3, <2>4, <2>6 DEF Tail, S
  <2> QED
    BY <2>1, <2>7 DEF S, RoomMessages
<1> QED
  BY <1>2, <1>3

\* A turn starts with a run record of its own.
LEMMA StartTurnKeeps ==
    ASSUME AllInv, StartTurn
    PROVE  AllInv'
<1>1. /\ phase = "up" /\ tx = "none" /\ turn.at = "idle" /\ Spend("turns")
      /\ ids' = [ids EXCEPT !.run = @ + 1]
      /\ UNCHANGED <<tx, phase, todo, req, asked, lost, raced, settled>>
  BY DEF StartTurn, LoopAt, Fresh
<1>2. ServerInv /\ RunsOK /\ AskedOK /\ SeatsOK /\ db = disk
  BY <1>1 DEF AllInv, ServerInv, PhaseOK
<1>3. Good(db, ids) /\ ids \in Numbers
  BY <1>2 DEF ServerInv, DataOK
<1>4. PICK n \in Nat : n = ids.run + 1
  BY <1>3 DEF Numbers
<1>5. PICK k \in DOMAIN db.member :
          /\ Execute(InsertRun(db, n, k[1], k[2]))
          /\ turn' = [at |-> "running", room |-> k[1], who |-> k[2], run |-> n,
                      tail |-> Tail(db, k[1]), failed |-> FALSE]
  BY <1>4 DEF StartTurn
<1> DEFINE e == InsertRun(db, n, k[1], k[2])
<1>6. db' = e /\ disk' = e
  BY <1>1, <1>5 DEF Execute
<1>7. /\ Sound(db) /\ Shape(db) /\ Bounded(db) /\ Within(db, ids)
      /\ k[1] \in Nat /\ k[2] \in Nat /\ k[1] \in DOMAIN db.room
  BY <1>3 DEF Good, Sound, Shape, Refers
<1>8. ids.run \in Nat /\ n \notin DOMAIN db.run /\ NoRun \notin DOMAIN db.run
  BY <1>3, <1>4, <1>7 DEF Within, Numbers, NoRun
<1>9. Sound(e)
  BY <1>4, <1>7, <1>8, InsertRunKeeps
<1>10. /\ e.run = Put(db.run, n, [room |-> k[1], persona |-> k[2], end |-> "open"])
       /\ e.persona = db.persona /\ e.author = db.author /\ e.room = db.room
       /\ e.member = db.member /\ e.message = db.message
       /\ e.quote = db.quote /\ e.session = db.session
  BY <1>7, InsertRunDoes
<1> HIDE DEF e
<1>11. /\ DOMAIN e.run = DOMAIN db.run \cup {n}
       /\ e.run[n] = [room |-> k[1], persona |-> k[2], end |-> "open"]
       /\ \A x \in DOMAIN db.run : e.run[x] = db.run[x]
  BY <1>8, <1>10 DEF Put
<1>12. /\ ids' \in Numbers /\ ids'.run = n /\ ids'.message = ids.message
       /\ ids'.room = ids.room /\ ids'.persona = ids.persona
  BY <1>1, <1>3, <1>4 DEF Numbers
<1>13. Good(e, ids')
  <2>1. DOMAIN e.run \subseteq 1..n
    BY <1>4, <1>7, <1>8, <1>11 DEF Within
  <2> QED
    BY <1>7, <1>9, <1>10, <1>12, <2>1 DEF Good, Within, Bounded
<1>14. DataOK' /\ PhaseOK' /\ PostOK'
  BY <1>1, <1>2, <1>6, <1>12, <1>13 DEF ServerInv, DataOK, PhaseOK, PostOK
<1>15. RequestsOK' /\ TodoOK'
  BY <1>1, <1>2 DEF ServerInv, RequestsOK, TodoOK
<1>16. TurnOK'
  <2>1. /\ Tail(db, k[1]) \in Nat
        /\ Tail(db, k[1]) # NoMessage =>
              Tail(db, k[1]) \in DOMAIN db.message /\ db.message[Tail(db, k[1])].room = k[1]
    BY <1>3, TailIsTail
  <2>2. FALSE \in BOOLEAN
    OBVIOUS
  <2>3. turn' \in TurnRecords
    BY <1>4, <1>5, <1>7, <2>1, <2>2 DEF TurnRecords
  <2>4. /\ turn'.at = "running" /\ turn'.room = k[1] /\ turn'.who = k[2] /\ turn'.run = n
        /\ turn'.tail = Tail(db, k[1])
    BY <1>5
  <2>5. k[1] \in 1..ids'.room
    BY <1>7, <1>12 DEF Within
  <2> QED
    BY <1>1, <1>6, <1>10, <1>11, <2>1, <2>3, <2>4, <2>5 DEF TurnOK, TurnRecords
<1>17. left' \in Budgets
  BY <1>1, <1>2, SpendsBudget DEF ServerInv
<1>18. RunsOK'
  <2>1. turn.run = NoRun
    BY <1>1, <1>2 DEF ServerInv, TurnOK
  <2>2. OpenRuns(db) \subseteq lost
    BY <1>2, <1>8, <2>1 DEF RunsOK, OpenRuns
  <2>3. OpenRuns(e) \subseteq OpenRuns(db) \cup {n}
    BY <1>11 DEF OpenRuns
  <2>4. turn'.run = n
    BY <1>5
  <2>5. OpenRuns(db)' = OpenRuns(e) /\ OpenRuns(disk)' = OpenRuns(e)
    BY <1>6
  <2> QED
    BY <1>1, <2>2, <2>3, <2>4, <2>5 DEF RunsOK
<1>19. SeatsOK' /\ AskedOK'
  <2>1. SeatsOK'
    BY <1>1, <1>2, <1>6, <1>10 DEF SeatsOK, Distinct
  <2>2. \A m \in DOMAIN asked : Whole(db, m)' /\ Whole(disk, m)'
    BY <1>1, <1>2, <1>6, <1>10 DEF AskedOK, Whole
  <2> QED
    BY <1>1, <1>2, <1>12, <2>1, <2>2 DEF AskedOK
<1> QED
  BY <1>2, <1>14, <1>15, <1>16, <1>17, <1>18, <1>19 DEF AllInv, ServerInv

\* Statements of a turn under way that leave runs, messages and members alone.
LEMMA TurnStepKeeps ==
    ASSUME AllInv, phase = "up", tx = "none", turn.at # "idle", db' = disk',
           UNCHANGED <<tx, phase, todo, req, ids, left, asked, lost, raced>>,
           turn' \in TurnRecords, turn'.at # "idle", turn'.room = turn.room,
           turn'.who = turn.who, turn'.run = turn.run, turn'.tail = turn.tail,
           Good(db', ids), db'.room = db.room, db'.run = db.run, db'.member = db.member,
           db'.message = db.message, db'.quote = db.quote
    PROVE  AllInv'
<1>1. ServerInv /\ RunsOK /\ AskedOK /\ SeatsOK /\ db = disk
  BY DEF AllInv, ServerInv, PhaseOK
<1>2. ids \in Numbers /\ ids.room \in Nat
  BY <1>1 DEF ServerInv, DataOK, Numbers
<1>3. DataOK' /\ PhaseOK' /\ PostOK'
  BY <1>1, <1>2 DEF ServerInv, DataOK, PhaseOK, PostOK
<1>4. RequestsOK' /\ TodoOK'
  BY <1>1 DEF ServerInv, RequestsOK, TodoOK
<1>5. TurnOK'
  <2>1. Spares(disk, disk', ids)
    BY <1>1 DEF Spares
  <2> QED
    BY <1>1, <1>2, <2>1, TurnGoesOn
<1>6. RunsOK' /\ SeatsOK'
  BY <1>1 DEF RunsOK, OpenRuns, SeatsOK, Distinct
<1>7. AskedOK'
  <2>1. \A m \in DOMAIN asked : Whole(db, m)' /\ Whole(disk, m)'
    BY <1>1 DEF AskedOK, Whole
  <2> QED
    BY <1>1, <2>1 DEF AskedOK
<1> QED
  BY <1>1, <1>3, <1>4, <1>5, <1>6, <1>7 DEF AllInv, ServerInv

\* A turn is stopped or fails.
LEMMA CutTurnKeeps ==
    ASSUME AllInv, CutTurn
    PROVE  AllInv'
<1>1. /\ phase = "up" /\ tx = "none" /\ turn.at # "idle" /\ db' = db /\ disk' = disk
      /\ turn' = [turn EXCEPT !.at = "leaving"]
      /\ UNCHANGED <<tx, phase, todo, req, ids, left, asked, lost, raced, settled>>
  BY DEF CutTurn, LoopAt, Nothing
<1>2. db = disk /\ Good(db, ids) /\ turn \in TurnRecords
  BY <1>1 DEF AllInv, ServerInv, PhaseOK, DataOK, TurnOK, TurnRecords
<1>3. /\ turn' \in TurnRecords /\ turn'.at # "idle" /\ turn'.room = turn.room
      /\ turn'.who = turn.who /\ turn'.run = turn.run /\ turn'.tail = turn.tail
  BY <1>1, <1>2 DEF TurnRecords
<1> QED
  BY <1>1, <1>2, <1>3, TurnStepKeeps

\* A turn saves its pointer, to a message of its room, if the room is still there.
LEMMA SaveSessionKeeps ==
    ASSUME AllInv, SaveSession
    PROVE  AllInv'
<1>1. /\ phase = "up" /\ tx = "none" /\ turn.at # "idle"
      /\ turn' = [turn EXCEPT !.at = "leaving"]
      /\ UNCHANGED <<tx, phase, todo, req, ids, left, asked, lost, raced, settled>>
      /\ \/ /\ SessionAllowed(db, turn.room, turn.who)
            /\ Execute(UpsertSession(db, turn.room, turn.who, turn.tail))
         \/ Nothing
  BY DEF SaveSession, LoopAt
<1>2. /\ db = disk /\ Good(db, ids) /\ turn \in TurnRecords /\ ids \in Numbers
      /\ turn.room \in DOMAIN db.room /\ turn.tail # NoMessage =>
            turn.tail \in DOMAIN db.message /\ db.message[turn.tail].room = turn.room
  BY <1>1 DEF AllInv, ServerInv, PhaseOK, DataOK, TurnOK, TurnRecords
<1>3. /\ turn' \in TurnRecords /\ turn'.at # "idle" /\ turn'.room = turn.room
      /\ turn'.who = turn.who /\ turn'.run = turn.run /\ turn'.tail = turn.tail
      /\ turn.room \in Nat /\ turn.who \in Nat /\ turn.tail \in Nat
  BY <1>1, <1>2 DEF TurnRecords
<1>4. CASE Nothing
  BY <1>1, <1>2, <1>3, <1>4, TurnStepKeeps DEF Nothing
<1>5. CASE /\ SessionAllowed(db, turn.room, turn.who)
           /\ Execute(UpsertSession(db, turn.room, turn.who, turn.tail))
  <2> DEFINE e == UpsertSession(db, turn.room, turn.who, turn.tail)
  <2>1. db' = e /\ disk' = e
    BY <1>1, <1>5 DEF Execute
  <2>2. turn.room \in DOMAIN db.room
    BY <1>5 DEF SessionAllowed
  <2>3. turn.tail # NoMessage =>
            turn.tail \in DOMAIN db.message /\ db.message[turn.tail].room = turn.room
    BY <1>2, <2>2
  <2>4. Good(e, ids)
    BY <1>2, <1>3, <1>5, <2>3, UpsertSessionIsCalm
  <2>5. Shape(db) /\ turn.room \in Nat /\ turn.who \in Nat /\ turn.tail \in Nat
    BY <1>2, <1>3 DEF Good, Sound
  <2>6. /\ Shape(e)
        /\ e.session = Put(db.session, <<turn.room, turn.who>>, turn.tail)
        /\ e.persona = db.persona /\ e.author = db.author /\ e.room = db.room
        /\ e.member = db.member /\ e.message = db.message
        /\ e.quote = db.quote /\ e.run = db.run
    BY <2>5, UpsertSessionDoes
  <2> HIDE DEF e
  <2> QED
    BY <1>1, <1>3, <2>1, <2>4, <2>6, TurnStepKeeps
<1> QED
  BY <1>1, <1>4, <1>5

\* A turn's reply names the turn's run.
LEMMA ReplyKeeps ==
    ASSUME AllInv, NEW failed \in BOOLEAN, Reply(failed)
    PROVE  AllInv'
<1>1. /\ phase = "up" /\ tx = "none" /\ turn.at = "running"
      /\ UNCHANGED <<tx, phase, todo, req, left, asked, lost, raced, settled>>
  BY DEF Reply, LoopAt
<1>2. ServerInv /\ RunsOK /\ AskedOK /\ SeatsOK /\ db = disk
  BY <1>1 DEF AllInv, ServerInv, PhaseOK
<1>3. /\ Good(db, ids) /\ ids \in Numbers /\ turn \in TurnRecords
      /\ turn.run \in DOMAIN db.run
      /\ db.run[turn.run].persona = turn.who /\ db.run[turn.run].room = turn.room
  BY <1>1, <1>2 DEF ServerInv, DataOK, TurnOK, TurnRecords
<1>4. turn.room \in Nat /\ turn.who \in Nat /\ turn.run \in Nat
  BY <1>3 DEF TurnRecords
<1>5. CASE /\ ~MessageAllowed(db, turn.room) /\ Nothing
           /\ turn' = [turn EXCEPT !.at = "leaving", !.failed = failed]
           /\ UNCHANGED ids
  <2>1. /\ turn' \in TurnRecords /\ turn'.at # "idle" /\ turn'.room = turn.room
        /\ turn'.who = turn.who /\ turn'.run = turn.run /\ turn'.tail = turn.tail
    BY <1>3, <1>5 DEF TurnRecords
  <2>2. turn.at # "idle" /\ db' = db /\ disk' = disk
    BY <1>1, <1>5 DEF Nothing
  <2> QED
    BY <1>1, <1>2, <1>3, <1>5, <2>1, <2>2, TurnStepKeeps
<1>6. CASE /\ MessageAllowed(db, turn.room)
           /\ Execute(InsertMessage(db, ids.message + 1, turn.room, turn.who, turn.run))
           /\ turn' = [turn EXCEPT !.at = IF failed THEN "leaving" ELSE "replied",
                                   !.failed = failed]
           /\ ids' = [ids EXCEPT !.message = @ + 1]
  <2>1. /\ turn' \in TurnRecords /\ turn'.at # "idle" /\ turn'.room = turn.room
        /\ turn'.who = turn.who /\ turn'.run = turn.run /\ turn'.tail = turn.tail
    BY <1>3, <1>6 DEF TurnRecords
  <2>2. PICK m \in Nat : m = ids.message + 1
    BY <1>3 DEF Numbers
  <2> DEFINE e == InsertMessage(db, m, turn.room, turn.who, turn.run)
  <2>3. db' = e /\ disk' = e
    BY <1>1, <1>6, <2>2 DEF Execute
  <2>4. turn.room \in DOMAIN db.room
    BY <1>6 DEF MessageAllowed
  <2>5. /\ Good(e, ids') /\ DOMAIN e.message = DOMAIN db.message \cup {m}
        /\ \A x \in DOMAIN db.message : e.message[x] = db.message[x]
        /\ e.persona = db.persona /\ e.author = db.author /\ e.room = db.room
        /\ e.member = db.member /\ e.quote = db.quote
        /\ e.session = db.session /\ e.run = db.run
    BY <1>3, <1>4, <1>6, <2>2, <2>4, InsertMessageIsGood
  <2> HIDE DEF e
  <2>6. /\ ids' \in Numbers /\ ids'.message = m /\ ids'.room = ids.room
        /\ ids.message \in Nat /\ ids.room \in Nat
    BY <1>3, <1>6, <2>2 DEF Numbers
  <2>7. DataOK' /\ PhaseOK' /\ PostOK'
    BY <1>1, <1>2, <2>3, <2>5, <2>6 DEF ServerInv, DataOK, PhaseOK, PostOK
  <2>8. RequestsOK' /\ TodoOK'
    BY <1>1, <1>2 DEF ServerInv, RequestsOK, TodoOK
  <2>9. TurnOK'
    <3>1. Spares(disk, disk', ids)
      BY <1>2, <2>3, <2>5 DEF Spares
    <3>2. turn.at # "idle" /\ ids.room <= ids'.room
      BY <1>1, <2>6
    <3> QED
      BY <1>1, <1>2, <2>1, <2>6, <3>1, <3>2, TurnGoesOn
  <2>10. RunsOK' /\ SeatsOK'
    BY <1>1, <1>2, <2>1, <2>3, <2>5 DEF RunsOK, OpenRuns, SeatsOK, Distinct
  <2>11. AskedOK'
    <3>1. DOMAIN asked \subseteq 1..ids.message
      BY <1>2 DEF AskedOK
    <3>2. \A x \in DOMAIN asked : Whole(e, x)
      <4>1. ASSUME NEW x \in DOMAIN asked PROVE Whole(e, x)
        <5>1. x \in 1..ids.message /\ Whole(db, x) /\ \A y \in asked[x] : y \in 0..(x - 1)
          BY <1>2, <3>1, <4>1 DEF AskedOK
        <5>2. DOMAIN e.message = DOMAIN db.message \cup {ids.message + 1}
          BY <2>2, <2>5
        <5> QED
          BY <2>5, <2>6, <5>1, <5>2, NewMessageKeepsWhole
      <4> QED
        BY <4>1
    <3>3. DOMAIN asked \subseteq 1..m
      BY <2>2, <2>6, <3>1
    <3> QED
      BY <1>1, <1>2, <2>3, <2>6, <3>2, <3>3 DEF AskedOK, Whole
  <2> QED
    BY <1>1, <1>2, <2>7, <2>8, <2>9, <2>10, <2>11 DEF AllInv, ServerInv
<1> QED
  BY <1>5, <1>6 DEF Reply, Fresh

\* A run is given its end as its turn leaves.
LEMMA LeaveRunKeeps ==
    ASSUME AllInv, LeaveRun
    PROVE  AllInv'
<1> DEFINE end == IF turn.failed THEN "error" ELSE "ok"
           e == FinalizeRun(db, turn.run, end)
<1>1. /\ phase = "up" /\ tx = "none" /\ turn.at = "leaving" /\ turn' = NoTurn
      /\ UNCHANGED <<tx, phase, todo, req, ids, left, asked, lost, raced, settled>>
      /\ db' = e /\ disk' = e
  BY DEF LeaveRun, LoopAt, Execute, EndOfRun
<1>2. ServerInv /\ RunsOK /\ AskedOK /\ SeatsOK /\ db = disk
  BY <1>1 DEF AllInv, ServerInv, PhaseOK
<1>3. Good(db, ids) /\ turn.run \in DOMAIN db.run /\ ids \in Numbers
  BY <1>1, <1>2 DEF ServerInv, DataOK, TurnOK
<1>4. end \in {"ok", "error"} /\ Sound(db) /\ Shape(db)
  BY <1>3 DEF Good, Sound
<1> HIDE DEF end
<1>5. Sound(e)
  BY <1>3, <1>4, FinalizeRunKeeps
<1>6. /\ DOMAIN e.run = DOMAIN db.run
      /\ \A x \in DOMAIN db.run : e.run[x].end = IF x = turn.run THEN end ELSE db.run[x].end
      /\ e.persona = db.persona /\ e.author = db.author /\ e.room = db.room
      /\ e.member = db.member /\ e.message = db.message
      /\ e.quote = db.quote /\ e.session = db.session
  BY <1>3, <1>4, FinalizeRunDoes
<1> HIDE DEF e
<1>7. Good(e, ids)
  BY <1>3, <1>5, <1>6 DEF Good, Within, Bounded
<1>8. DataOK' /\ PhaseOK' /\ PostOK'
  BY <1>1, <1>2, <1>3, <1>7 DEF ServerInv, DataOK, PhaseOK, PostOK
<1>9. RequestsOK' /\ TodoOK'
  BY <1>1, <1>2 DEF ServerInv, RequestsOK, TodoOK
<1>10. TurnOK'
  <2>1. FALSE \in BOOLEAN
    OBVIOUS
  <2> QED
    BY <1>1, <2>1 DEF TurnOK, NoTurn, NoRun, NoMessage
<1>11. RunsOK'
  <2>1. OpenRuns(e) \subseteq OpenRuns(db) \ {turn.run}
    BY <1>3, <1>4, <1>6 DEF OpenRuns
  <2>2. OpenRuns(db)' = OpenRuns(e) /\ OpenRuns(disk)' = OpenRuns(e)
    BY <1>1
  <2> QED
    BY <1>1, <1>2, <2>1, <2>2 DEF RunsOK
<1>12. SeatsOK' /\ AskedOK'
  <2>1. SeatsOK'
    BY <1>1, <1>2, <1>6 DEF SeatsOK, Distinct
  <2>2. \A m \in DOMAIN asked : Whole(db, m)' /\ Whole(disk, m)'
    BY <1>1, <1>2, <1>6 DEF AskedOK, Whole
  <2> QED
    BY <1>1, <1>2, <2>1, <2>2 DEF AskedOK
<1> QED
  BY <1>1, <1>2, <1>8, <1>9, <1>10, <1>11, <1>12 DEF AllInv, ServerInv

-----------------------------------------------------------------------------
(* A crash preserves the invariant.                                        *)

\* A crash rolls back what is not committed, and the run under way is lost.
LEMMA CrashKeeps ==
    ASSUME AllInv, Crash
    PROVE  AllInv'
<1>1. /\ Spend("stops") /\ db' = disk /\ disk' = disk /\ tx' = "none"
      /\ phase' = "down" /\ todo' = {} /\ req' = [t \in Threads |-> Free] /\ turn' = NoTurn
      /\ lost' = lost \cup {n \in DOMAIN disk.run : disk.run[n].end = "open"}
      /\ UNCHANGED <<ids, asked, raced, settled>>
  BY DEF Crash, Rollback
<1>2. ServerInv /\ RunsOK /\ AskedOK /\ SeatsOK
  BY DEF AllInv
<1>3. DataOK' /\ PhaseOK' /\ PostOK' /\ TodoOK'
  BY <1>1, <1>2 DEF ServerInv, DataOK, PhaseOK, PostOK, TodoOK
<1>4. RequestsOK'
  BY <1>1, FreeIsRequest DEF RequestsOK, Free
<1>5. TurnOK'
  <2>1. FALSE \in BOOLEAN
    OBVIOUS
  <2> QED
    BY <1>1, <2>1 DEF TurnOK, NoTurn, NoRun, NoMessage
<1>6. left' \in Budgets
  BY <1>1, <1>2, SpendsBudget DEF ServerInv
<1>7. RunsOK' /\ SeatsOK'
  BY <1>1, <1>2 DEF RunsOK, OpenRuns, SeatsOK, Distinct
<1>8. AskedOK'
  BY <1>1, <1>2 DEF AskedOK, Whole
<1> QED
  BY <1>3, <1>4, <1>5, <1>6, <1>7, <1>8 DEF AllInv, ServerInv
-----------------------------------------------------------------------------
(* The migration script preserves the invariant.                           *)

\* A copy that is merged is another persona than its original.
LEMMA CopyHasOriginal ==
    ASSUME NEW n \in Numbers, NEW d, Good(d, n), NEW copy \in Copies(d),
           NEW original \in Original(d, copy)
    PROVE  /\ copy \in Nat \ {Human} /\ original \in Nat \ {Human}
           /\ copy \in DOMAIN d.persona /\ original \in DOMAIN d.persona
           /\ copy # original
           /\ d.persona[original].handle = BaseHandle(d.persona[copy].handle)
           /\ d.persona[copy].handle \in HandleSet
<1>1. /\ copy \in DOMAIN d.persona /\ d.persona[copy].handle.copies > 0
      /\ original \in DOMAIN d.persona
      /\ d.persona[original].handle = BaseHandle(d.persona[copy].handle)
  BY DEF Copies, Original, ByHandle
<1>2. d.persona[original].handle.copies = 0
  BY <1>1 DEF BaseHandle, Handle
<1>3. DOMAIN d.persona \subseteq Nat \ {Human}
  BY DEF Good, Within, Numbers, Human
<1>4. d.persona[copy].handle \in HandleSet
  BY <1>1 DEF Good, Sound, Shape, Rows, HandleSet
<1> QED
  BY <1>1, <1>2, <1>3, <1>4

\* Members of a room keep places of their own when a copy's row becomes the
\* original's.
LEMMA RepointingSeats ==
    ASSUME NEW d, Shape(d), Distinct(d), NEW e,
           NEW copy \in Nat, NEW original \in Nat, copy # original,
           e.member = RepointRows(d.member, copy, original)
    PROVE  Distinct(e)
<1> DEFINE f == d.member
           g == e.member
<1>1. f \in [DOMAIN f -> Nat] /\ DOMAIN f \subseteq Nat \X Nat
  BY DEF Shape
<1>2. /\ DOMAIN g \subseteq Nat \X Nat
      /\ \A k \in DOMAIN g :
            /\ k[2] # copy
            /\ k \in DOMAIN f => g[k] = f[k]
            /\ k \notin DOMAIN f =>
                  /\ k[2] = original
                  /\ <<k[1], copy>> \in DOMAIN f /\ g[k] = f[<<k[1], copy>>]
  <2> HIDE DEF f
  <2>1. g = RepointRows(f, copy, original)
    BY DEF f
  <2> HIDE DEF g
  <2> QED
    BY <1>1, <2>1, RepointRowsDo
<1>3. \A k, l \in DOMAIN f : k[1] = l[1] /\ k[1] \notin raced /\ f[k] = f[l] => k = l
  BY DEF Distinct
<1> HIDE DEF f, g
<1>4. ASSUME NEW k \in DOMAIN g, NEW l \in DOMAIN g,
             k[1] = l[1], k[1] \notin raced, g[k] = g[l]
      PROVE  k = l
  <2>1. CASE k \in DOMAIN f /\ l \in DOMAIN f
    BY <1>2, <1>3, <1>4, <2>1
  <2>2. CASE k \notin DOMAIN f /\ l \notin DOMAIN f
    <3>1. k \in Nat \X Nat /\ l \in Nat \X Nat /\ k[2] = original /\ l[2] = original
      BY <1>2, <2>2
    <3> QED
      BY <1>4, <3>1
  <2>3. ASSUME NEW x \in DOMAIN g, NEW y \in DOMAIN g, x \in DOMAIN f, y \notin DOMAIN f,
               x[1] = y[1], x[1] \notin raced, g[x] = g[y]
        PROVE  FALSE
    <3> DEFINE z == <<y[1], copy>>
    <3>1. z \in DOMAIN f /\ f[x] = f[z] /\ z[1] = x[1] /\ z[2] = copy
      BY <1>2, <2>3
    <3> HIDE DEF z
    <3>2. x = z
      BY <1>3, <2>3, <3>1
    <3> QED
      BY <1>2, <3>1, <3>2
  <2> QED
    BY <1>4, <2>1, <2>2, <2>3
<1> QED
  BY <1>4 DEF Distinct, g

\* A merge leaves the database in order, with one copy less.
LEMMA MergeIsGood ==
    ASSUME NEW n \in Numbers, NEW d, Good(d, n), NEW copy \in Copies(d),
           NEW original \in Original(d, copy)
    PROVE  LET e == Merge(d, copy, original)
           IN  /\ Good(e, n)
               /\ e.persona = [j \in DOMAIN d.persona \ {copy} |-> d.persona[j]]
               /\ e.author = d.author /\ e.room = d.room /\ e.quote = d.quote
               /\ DOMAIN e.message = DOMAIN d.message
               /\ \A m \in DOMAIN d.message : e.message[m] = SaidBy(d.message[m], copy, original)
               /\ OpenRuns(e) = OpenRuns(d)
               /\ e.member = RepointRows(d.member, copy, original)
               /\ e.session = RepointRows(d.session, copy, original)
               /\ Copies(e) = Copies(d) \ {copy}
<1> DEFINE e == Merge(d, copy, original)
<1>1. /\ copy \in Nat \ {Human} /\ original \in Nat /\ copy \in Nat
      /\ original \in DOMAIN d.persona /\ copy # original
  BY CopyHasOriginal
<1>2. Sound(d) /\ Shape(d) /\ Within(d, n) /\ Bounded(d)
  BY DEF Good, Sound
<1>3. Sound(e)
  BY <1>1, <1>2, MergeKeeps
<1>4. /\ e.persona = [j \in DOMAIN d.persona \ {copy} |-> d.persona[j]]
      /\ e.author = d.author /\ e.room = d.room /\ e.quote = d.quote
      /\ DOMAIN e.message = DOMAIN d.message
      /\ \A m \in DOMAIN d.message : e.message[m] = SaidBy(d.message[m], copy, original)
      /\ DOMAIN e.run = DOMAIN d.run
      /\ \A x \in DOMAIN d.run : e.run[x] = RanBy(d.run[x], copy, original)
      /\ e.member = RepointRows(d.member, copy, original)
      /\ e.session = RepointRows(d.session, copy, original)
  BY <1>1, <1>2, MergeDoes
<1> HIDE DEF e
<1>5. OpenRuns(e) = OpenRuns(d)
  <2>1. \A x \in DOMAIN d.run : e.run[x].end = d.run[x].end
    <3>1. ASSUME NEW x \in DOMAIN d.run PROVE e.run[x].end = d.run[x].end
      <4>1. d.run[x] \in Runs
        BY <1>2 DEF Shape
      <4> QED
        BY <1>1, <1>4, <4>1, RanByDoes
    <3> QED
      BY <3>1
  <2> QED
    BY <1>4, <2>1 DEF OpenRuns
<1>6. Within(e, n)
  BY <1>2, <1>4 DEF Within
<1>7. Bounded(e)
  <2> DEFINE f == d.member
             g == e.member
  <2>1. f \in [DOMAIN f -> Nat] /\ DOMAIN f \subseteq Nat \X Nat
    BY <1>2 DEF Shape
  <2>2. PICK top \in Nat : \A k \in DOMAIN f : f[k] <= top
    BY <1>2 DEF Bounded
  <2>3. g = RepointRows(f, copy, original)
    BY <1>4
  <2> HIDE DEF f, g
  <2>4. \A k \in DOMAIN g :
            /\ k \in DOMAIN f => g[k] = f[k]
            /\ k \notin DOMAIN f => <<k[1], copy>> \in DOMAIN f /\ g[k] = f[<<k[1], copy>>]
    BY <1>1, <2>1, <2>3, RepointRowsDo
  <2>5. \A k \in DOMAIN g : g[k] <= top
    BY <2>2, <2>4
  <2> QED
    BY <2>5 DEF Bounded, g
<1>8. Copies(e) = Copies(d) \ {copy}
  BY <1>4 DEF Copies
<1> QED
  BY <1>3, <1>4, <1>5, <1>6, <1>7, <1>8 DEF Good, e

\* What a step of the script has to show.
LEMMA ScriptStepKeeps ==
    ASSUME AllInv, phase \in {"script", "seeding"}, phase' \in {"script", "seeding"},
           disk' = disk, UNCHANGED <<tx, req, turn, left, asked, lost, raced>>,
           ids' \in Numbers, ids'.message = ids.message,
           Good(db', ids'), Good(disk, ids'),
           OpenRuns(db') = OpenRuns(db), DOMAIN db'.message = DOMAIN db.message,
           db'.quote = db.quote, Distinct(db)', TodoOK'
    PROVE  AllInv'
<1>1. ServerInv /\ RunsOK /\ AskedOK /\ SeatsOK /\ tx = "script" /\ phase # "up"
  BY DEF AllInv, ServerInv, PhaseOK
<1>2. DataOK' /\ PhaseOK' /\ PostOK'
  BY <1>1 DEF ServerInv, DataOK, PhaseOK, PostOK
<1>3. RequestsOK' /\ TurnOK'
  BY <1>1, QuietKeeps
<1>4. OpenRuns(db)' = OpenRuns(db') /\ OpenRuns(disk)' = OpenRuns(disk)
  OBVIOUS
<1>5. RunsOK'
  BY <1>1, <1>4 DEF RunsOK
<1>6. SeatsOK'
  BY <1>1 DEF SeatsOK, Distinct
<1>7. AskedOK'
  <2>1. \A m \in DOMAIN asked : Whole(db, m)' /\ Whole(disk, m)'
    BY <1>1 DEF AskedOK, Whole
  <2> QED
    BY <1>1, <2>1 DEF AskedOK
<1> QED
  BY <1>1, <1>2, <1>3, <1>5, <1>6, <1>7 DEF AllInv, ServerInv

\* The script starts on the committed tables.
LEMMA StartScriptKeeps ==
    ASSUME AllInv, StartScript
    PROVE  AllInv'
<1>1. /\ phase = "down" /\ Spend("migrations") /\ phase' = "script" /\ tx' = "script"
      /\ todo' = Copies(db) \ Orphans(db) /\ db' = db /\ disk' = disk
      /\ UNCHANGED <<req, turn, ids, asked, lost, raced, settled>>
  BY DEF StartScript, Nothing
<1>2. ServerInv /\ RunsOK /\ AskedOK /\ SeatsOK /\ tx = "none" /\ phase # "up"
  BY <1>1 DEF AllInv, ServerInv, PhaseOK
<1>3. DataOK' /\ PhaseOK' /\ PostOK'
  BY <1>1, <1>2 DEF ServerInv, DataOK, PhaseOK, PostOK
<1>4. RequestsOK' /\ TurnOK'
  BY <1>1, <1>2, QuietKeeps
<1>5. TodoOK'
  BY <1>1 DEF TodoOK
<1>6. RunsOK' /\ SeatsOK' /\ AskedOK'
  BY <1>1, <1>2 DEF RunsOK, OpenRuns, SeatsOK, Distinct, AskedOK, Whole
<1>7. left' \in Budgets
  BY <1>1, <1>2, SpendsBudget DEF ServerInv
<1> QED
  BY <1>3, <1>4, <1>5, <1>6, <1>7 DEF AllInv, ServerInv

\* The script merges a copy.
LEMMA MergeCopyKeeps ==
    ASSUME AllInv, MergeCopy
    PROVE  AllInv'
<1>1. PICK copy \in todo, original \in 1..ids.persona :
          /\ original \in Original(db, copy)
          /\ Execute(Merge(db, copy, original))
          /\ todo' = todo \ {copy}
  BY DEF MergeCopy
<1>2. /\ phase = "script"
      /\ UNCHANGED <<tx, phase, req, turn, ids, left, asked, lost, raced, settled>>
  BY DEF MergeCopy
<1>3. /\ ids \in Numbers /\ Good(db, ids) /\ Good(disk, ids) /\ Shape(db)
      /\ tx = "script" /\ todo \subseteq Copies(db) /\ Distinct(db)
  BY <1>2 DEF AllInv, ServerInv, DataOK, PhaseOK, TodoOK, SeatsOK, Good, Sound
<1> DEFINE e == Merge(db, copy, original)
<1>4. db' = e /\ disk' = disk
  BY <1>1, <1>3 DEF Execute
<1>5. copy \in Copies(db)
  BY <1>1, <1>3
<1>6. copy \in Nat /\ original \in Nat /\ copy # original
  BY <1>1, <1>3, <1>5, CopyHasOriginal
<1>7. /\ Good(e, ids)
      /\ e.persona = [j \in DOMAIN db.persona \ {copy} |-> db.persona[j]]
      /\ e.author = db.author /\ e.room = db.room /\ e.quote = db.quote
      /\ DOMAIN e.message = DOMAIN db.message
      /\ \A m \in DOMAIN db.message : e.message[m] = SaidBy(db.message[m], copy, original)
      /\ OpenRuns(e) = OpenRuns(db)
      /\ e.member = RepointRows(db.member, copy, original)
      /\ e.session = RepointRows(db.session, copy, original)
      /\ Copies(e) = Copies(db) \ {copy}
  <2>1. /\ ids \in Numbers /\ Good(db, ids) /\ copy \in Copies(db)
        /\ original \in Original(db, copy)
    BY <1>1, <1>3, <1>5
  <2> QED
    BY <2>1, MergeIsGood
<1> HIDE DEF e
<1>8. Distinct(e)
  BY <1>3, <1>6, <1>7, RepointingSeats
<1>9. Distinct(db)'
  BY <1>2, <1>4, <1>8 DEF Distinct
<1>10. TodoOK'
  BY <1>1, <1>2, <1>3, <1>4, <1>7 DEF TodoOK, Copies
<1> QED
  BY <1>2, <1>3, <1>4, <1>7, <1>9, <1>10, ScriptStepKeeps

\* The script renames the team and looks for who is missing.
LEMMA RenameKeeps ==
    ASSUME AllInv, Rename
    PROVE  AllInv'
<1> DEFINE e == RenameTeam(db)
<1>1. /\ phase = "script" /\ phase' = "seeding" /\ todo' = Missing(db) /\ Execute(e)
      /\ UNCHANGED <<tx, req, turn, ids, left, asked, lost, raced, settled>>
  BY DEF Rename
<1>2. /\ ids \in Numbers /\ Good(db, ids) /\ Good(disk, ids) /\ Shape(db) /\ Sound(db)
      /\ tx = "script" /\ Distinct(db)
  BY <1>1 DEF AllInv, ServerInv, DataOK, PhaseOK, SeatsOK, Good, Sound
<1>3. db' = e /\ disk' = disk
  BY <1>1, <1>2 DEF Execute
<1>4. /\ DOMAIN e.persona = DOMAIN db.persona
      /\ \A i \in DOMAIN db.persona : e.persona[i].handle = db.persona[i].handle
      /\ e.room = db.room /\ e.member = db.member
      /\ e.message = db.message /\ e.quote = db.quote /\ e.run = db.run
  BY <1>2, RenameTeamDoes
<1>5. Sound(e)
  BY <1>2, RenameTeamKeeps
<1> HIDE DEF e
<1>6. Good(e, ids)
  BY <1>2, <1>4, <1>5 DEF Good, Within, Bounded
<1>7. OpenRuns(e) = OpenRuns(db)
  BY <1>4 DEF OpenRuns
<1>8. Handles(e) = Handles(db)
  BY <1>4 DEF Handles
<1>9. TodoOK'
  BY <1>1, <1>3, <1>8 DEF TodoOK, Missing
<1>10. Distinct(db)'
  BY <1>1, <1>2, <1>3, <1>4 DEF Distinct
<1> QED
  BY <1>1, <1>2, <1>3, <1>4, <1>6, <1>7, <1>9, <1>10, ScriptStepKeeps

\* The script seeds a teammate who is missing.
LEMMA SeedMissingKeeps ==
    ASSUME AllInv, SeedMissing
    PROVE  AllInv'
<1>1. PICK b \in todo : /\ Execute(InsertPersona(db, ids.persona + 1, SeedRow(b)))
                        /\ todo' = todo \ {b}
  BY DEF SeedMissing
<1> DEFINE e == InsertPersona(db, ids.persona + 1, SeedRow(b))
           k == [ids EXCEPT !.persona = @ + 1]
<1>2. /\ UNCHANGED <<tx, phase, req, turn, left, asked, lost, raced, settled>>
      /\ phase = "seeding" /\ ids' = k
  BY DEF SeedMissing, Fresh
<1>3. /\ ids \in Numbers /\ Good(db, ids) /\ Good(disk, ids)
      /\ tx = "script" /\ Distinct(db) /\ todo = Missing(db)
  BY <1>2 DEF AllInv, ServerInv, DataOK, PhaseOK, SeatsOK, TodoOK
<1>4. db' = e /\ disk' = disk
  BY <1>1, <1>3 DEF Execute
<1>5. /\ k \in Numbers /\ k.message = ids.message /\ k.room = ids.room /\ k.run = ids.run
      /\ k.persona = ids.persona + 1 /\ ids.persona \in Nat
  BY <1>3 DEF Numbers
<1>6. Good(e, k) /\ Still(db, e) /\ Missing(e) = Missing(db) \ {b}
  BY <1>1, <1>3, SeedingSeeds
<1> HIDE DEF e, k
<1>7. Good(disk, k)
  <2>1. 1..ids.persona \subseteq 1..k.persona
    BY <1>5
  <2> QED
    BY <1>3, <1>5, <2>1 DEF Good, Within
<1>8. TodoOK'
  BY <1>1, <1>2, <1>3, <1>4, <1>6 DEF TodoOK, Missing, Handles
<1>9. Distinct(db)'
  BY <1>2, <1>3, <1>4, <1>6 DEF Distinct, Still
<1> QED
  BY <1>2, <1>3, <1>4, <1>5, <1>6, <1>7, <1>8, <1>9, ScriptStepKeeps DEF Still

\* The script commits.
LEMMA EndScriptKeeps ==
    ASSUME AllInv, EndScript
    PROVE  AllInv'
<1>1. PICK e \in {db, disk} :
          /\ phase = "seeding" /\ phase' = "down" /\ db' = e /\ disk' = e /\ tx' = "none"
          /\ UNCHANGED <<todo, req, turn, ids, left, asked, lost, raced>>
  BY DEF EndScript, Merged, Commit, Rollback
<1>2. ServerInv /\ RunsOK /\ AskedOK /\ SeatsOK /\ tx = "script" /\ phase # "up"
  BY <1>1 DEF AllInv, ServerInv, PhaseOK
<1>3. DataOK' /\ PhaseOK' /\ PostOK' /\ TodoOK'
  BY <1>1, <1>2 DEF ServerInv, DataOK, PhaseOK, PostOK, TodoOK
<1>4. RequestsOK' /\ TurnOK'
  BY <1>1, <1>2, QuietKeeps
<1>5. RunsOK' /\ SeatsOK'
  BY <1>1, <1>2 DEF RunsOK, OpenRuns, SeatsOK, Distinct
<1>6. AskedOK'
  BY <1>1, <1>2 DEF AskedOK, Whole
<1> QED
  BY <1>1, <1>2, <1>3, <1>4, <1>5, <1>6 DEF AllInv, ServerInv
-----------------------------------------------------------------------------
(* The databases the program may be found with are in order.               *)

Found(d) ==
    /\ Sound(d) /\ Bounded(d) /\ Distinct(d) /\ OpenRuns(d) = {}
    /\ DOMAIN d.persona \subseteq 1..4 /\ DOMAIN d.room \subseteq 1..1
    /\ DOMAIN d.message \subseteq 1..4 /\ DOMAIN d.run \subseteq 1..4

\* There is a teammate who is not the dispatcher.
LEMMA Teammate == (CHOOSE b \in Team : b # Dispatcher) \in Team \ {Dispatcher}
<1>1. \E b \in Team : b # Dispatcher
  BY TeamAssumption
<1> QED
  BY <1>1

\* The empty database is in order.
LEMMA NoRowsFound == Found(NoRows)
<1>1. /\ NoRows.persona = <<>> /\ NoRows.author = {} /\ NoRows.room = <<>>
      /\ NoRows.member = <<>> /\ NoRows.message = <<>> /\ NoRows.quote = {}
      /\ NoRows.session = <<>> /\ NoRows.run = <<>>
      /\ NoRows = [f \in Fields |-> NoRows[f]]
  BY DEF NoRows, Fields
<1>2. DOMAIN <<>> = {} /\ \A V : <<>> \in [{} -> V]
  OBVIOUS
<1>3. Shape(NoRows)
  BY <1>1, <1>2 DEF Shape
<1>4. Sound(NoRows)
  BY <1>1, <1>2, <1>3 DEF Sound, Unique, Refers, Traces
<1>5. Bounded(NoRows)
  <2>1. 0 \in Nat
    OBVIOUS
  <2> QED
    BY <1>1, <1>2, <2>1 DEF Bounded
<1> QED
  BY <1>1, <1>2, <1>4, <1>5 DEF Found, Distinct, OpenRuns

\* So is the database of a first conversation.
LEMMA SmallFound == Found(Small)
<1> DEFINE row == [i \in 1..2 |-> SeedRow(IF i = 1 THEN Dispatcher
                                        ELSE CHOOSE b \in Team : b # Dispatcher)]
           a == [NoRows EXCEPT !.author = {Me}, !.persona = row]
           b == InsertRoom(a, 1)
           c == InsertMember(b, 1, 1, 0)
           d == InsertMember(c, 1, 2, 1)
           e == InsertMessage(d, 1, 1, Human, NoRun)
<1>1. /\ DOMAIN row = 1..2 /\ row \in [1..2 -> Rows]
      /\ row[1].handle # row[2].handle
  <2>1. Dispatcher \in Team /\ (CHOOSE x \in Team : x # Dispatcher) \in Team \ {Dispatcher}
    BY Teammate, TeamAssumption
  <2>2. PICK mate \in Team \ {Dispatcher} : mate = (CHOOSE x \in Team : x # Dispatcher)
    BY <2>1
  <2>3. SeedRow(Dispatcher) \in Rows /\ SeedRow(mate) \in Rows
        /\ SeedRow(Dispatcher).handle # SeedRow(mate).handle
    <3>1. Handle(Dispatcher, 0) # Handle(mate, 0)
      BY DEF Handle
    <3> QED
      BY <2>1, <3>1, SeedRowIsRow
  <2>4. row = [i \in 1..2 |-> IF i = 1 THEN SeedRow(Dispatcher) ELSE SeedRow(mate)]
    BY <2>2
  <2> HIDE DEF row
  <2> QED
    BY <2>3, <2>4
<1> HIDE DEF row
<1>2. /\ a.persona = row /\ a.author = {Me} /\ a.room = <<>>
      /\ a.member = <<>> /\ a.message = <<>> /\ a.quote = {}
      /\ a.session = <<>> /\ a.run = <<>>
      /\ a = [f \in Fields |-> a[f]]
  BY DEF NoRows, Fields
<1>3. DOMAIN <<>> = {} /\ \A V : <<>> \in [{} -> V]
  OBVIOUS
<1> HIDE DEF a
<1>4. Shape(a)
  BY <1>1, <1>2, <1>3 DEF Shape
<1>5. Sound(a)
  <2>1. Unique(a)
    BY <1>1, <1>2 DEF Unique
  <2> QED
    BY <1>2, <1>3, <1>4, <2>1 DEF Sound, Refers, Traces
<1>6. /\ Sound(b) /\ Shape(b) /\ DOMAIN b.room = {1} /\ b.persona = row
      /\ b.member = <<>> /\ b.message = <<>> /\ b.run = <<>>
  BY <1>2, <1>3, <1>4, <1>5, InsertRoomKeeps, InsertRoomDoes
<1> HIDE DEF b
<1>7. MemberAllowed(b, 1, 1)
  BY <1>1, <1>3, <1>6 DEF MemberAllowed
<1>8. Sound(c) /\ Shape(c)
  BY <1>6, <1>7, InsertMemberKeeps DEF Sound
<1>9. /\ c.member = Put(<<>>, <<1, 1>>, 0) /\ c.room = b.room /\ c.persona = b.persona
      /\ c.message = b.message /\ c.run = b.run
  <2>1. Shape(b) /\ 1 \in Nat /\ 0 \in Nat
    BY <1>6
  <2>2. /\ Shape(c)
        /\ c.member = Put(b.member, <<1, 1>>, 0)
        /\ c.persona = b.persona /\ c.author = b.author /\ c.room = b.room
        /\ c.message = b.message /\ c.quote = b.quote
        /\ c.session = b.session /\ c.run = b.run
    BY <2>1, InsertMemberDoes
  <2> QED
    BY <1>6, <2>2
<1> HIDE DEF c
<1>10. DOMAIN c.member = {<<1, 1>>} /\ c.member[<<1, 1>>] = 0
  BY <1>3, <1>9 DEF Put
<1>11. MemberAllowed(c, 1, 2)
  BY <1>1, <1>6, <1>9, <1>10 DEF MemberAllowed
<1>12. Sound(d) /\ Shape(d)
  BY <1>8, <1>11, InsertMemberKeeps DEF Sound
<1>13. /\ d.member = Put(c.member, <<1, 2>>, 1) /\ d.room = c.room /\ d.persona = c.persona
       /\ d.message = c.message /\ d.run = c.run
  BY <1>8, InsertMemberDoes
<1> HIDE DEF d
<1>14. DOMAIN d.member = {<<1, 1>>, <<1, 2>>} /\ d.member[<<1, 1>>] = 0 /\ d.member[<<1, 2>>] = 1
  BY <1>10, <1>13 DEF Put
<1>15. /\ 1 \in Nat /\ 1 \in Nat \ DOMAIN d.message /\ 1 \in DOMAIN d.room
       /\ Human \in Nat /\ NoRun \in Nat
  BY <1>3, <1>6, <1>9, <1>13 DEF Human, NoRun
<1>16. Sound(e)
  BY <1>12, <1>15, InsertMessageKeeps
<1>17. /\ e.message = Put(d.message, 1, [room |-> 1, author |-> Human, run |-> NoRun])
       /\ e.member = d.member /\ e.room = d.room /\ e.persona = d.persona /\ e.run = d.run
  BY <1>12, <1>15, InsertMessageDoes
<1> HIDE DEF e
<1>18. /\ DOMAIN e.message = {1} /\ DOMAIN e.run = {} /\ DOMAIN e.persona = 1..2
       /\ DOMAIN e.room = {1}
  BY <1>1, <1>3, <1>6, <1>9, <1>13, <1>17 DEF Put
<1>19. Bounded(e) /\ Distinct(e)
  <2>1. 1 \in Nat /\ \A k \in DOMAIN e.member : e.member[k] <= 1
    BY <1>14, <1>17
  <2> QED
    BY <1>14, <1>17, <2>1 DEF Bounded, Distinct
<1>20. Found(e)
  BY <1>16, <1>18, <1>19 DEF Found, OpenRuns
<1>21. e = Small
  BY DEF e, d, c, b, a, row, Small
<1> QED
  BY <1>20, <1>21

\* So is every database that has grown copies.
LEMMA GrownFound ==
    ASSUME NEW cast \in SUBSET {2, 3, 4}, NEW spoke \in SUBSET cast, NEW seated \in SUBSET cast
    PROVE  Found(Grown(cast, spoke, seated))
<1>1. PICK base \in Team \ {Dispatcher} : base = CHOOSE b \in Team : b # Dispatcher
  BY Teammate
<1> DEFINE Row(i) == IF i = 1 THEN SeedRow(Dispatcher)
                     ELSE PersonaRow(Handle(base, i - 2), FALSE, i = 2)
           d == Grown(cast, spoke, seated)
<1>2. /\ d = [f \in Fields |-> d[f]]
      /\ d.author = {Me, Boss} /\ d.quote = {}
      /\ d.persona = [i \in {1} \cup cast |-> Row(i)]
      /\ d.room = [r \in {1} |-> FALSE]
      /\ d.member = [k \in {1} \X ({1} \cup seated) |-> k[2] - 1]
      /\ d.message = [m \in spoke |-> [room |-> 1, author |-> m, run |-> m]]
      /\ d.session = [k \in {1} \X spoke |-> k[2]]
      /\ d.run = [n \in spoke |-> [room |-> 1, persona |-> n, end |-> "ok"]]
  BY <1>1 DEF Grown, NoRows, Fields
<1>3. /\ \A i \in {1} \cup cast : Row(i) \in Rows
      /\ \A i, j \in {1} \cup cast : Row(i).handle = Row(j).handle => i = j
  <2>1. Dispatcher \in Team /\ Row(1) = SeedRow(Dispatcher)
    BY TeamAssumption
  <2>2. Row(1) \in Rows /\ Row(1).handle = Handle(Dispatcher, 0)
    BY <2>1, SeedRowIsRow
  <2>3. ASSUME NEW i \in cast
        PROVE  Row(i) \in Rows /\ Row(i).handle = Handle(base, i - 2)
    <3>1. i # 1 /\ i - 2 \in Nat /\ FALSE \in BOOLEAN /\ (i = 2) \in BOOLEAN
      OBVIOUS
    <3>2. Row(i) = PersonaRow(Handle(base, i - 2), FALSE, i = 2)
      BY <3>1
    <3>3. Handle(base, i - 2) \in [base : Team \cup {Guest}, copies : Nat]
      BY <1>1, <3>1 DEF Handle
    <3> HIDE DEF Row
    <3> QED
      BY <3>1, <3>2, <3>3 DEF PersonaRow, Rows
  <2> HIDE DEF Row
  <2>4. \A i, j \in cast : Handle(base, i - 2) = Handle(base, j - 2) => i = j
    <3>1. \A i, j \in cast : i - 2 = j - 2 => i = j
      OBVIOUS
    <3> QED
      BY <3>1 DEF Handle
  <2>5. \A i \in cast : Handle(base, i - 2) # Handle(Dispatcher, 0)
    BY <1>1 DEF Handle
  <2> QED
    BY <2>2, <2>3, <2>4, <2>5
<1> HIDE DEF Row, d
<1>4. Shape(d)
  <2>1. d.persona \in [DOMAIN d.persona -> Rows]
    BY <1>2, <1>3
  <2>2. d.member \in [DOMAIN d.member -> Nat] /\ DOMAIN d.member \subseteq Nat \X Nat
    <3>1. \A x \in {1} \cup seated : x - 1 \in Nat
      OBVIOUS
    <3> QED
      BY <1>2, <3>1
  <2>3. spoke \subseteq Nat
    OBVIOUS
  <2>4. d.message \in [DOMAIN d.message -> Messages] /\ d.run \in [DOMAIN d.run -> Runs]
    BY <1>2, <2>3 DEF Messages, Runs
  <2>5. d.session \in [DOMAIN d.session -> Nat] /\ DOMAIN d.session \subseteq Nat \X Nat
    BY <1>2, <2>3
  <2> QED
    BY <1>2, <2>1, <2>2, <2>4, <2>5 DEF Shape
<1>5. Unique(d)
  BY <1>2, <1>3 DEF Unique
<1>a. /\ DOMAIN d.room = {1} /\ DOMAIN d.persona = {1} \cup cast
      /\ DOMAIN d.member = {1} \X ({1} \cup seated)
      /\ DOMAIN d.message = spoke /\ DOMAIN d.run = spoke /\ DOMAIN d.session = {1} \X spoke
      /\ \A k \in DOMAIN d.member : d.member[k] = k[2] - 1
      /\ \A m \in spoke : d.message[m].room = 1
      /\ \A k \in DOMAIN d.session : d.session[k] = k[2]
  <2>1. DOMAIN d.room = {1} /\ DOMAIN d.persona = {1} \cup cast
    BY <1>2
  <2>2. /\ DOMAIN d.member = {1} \X ({1} \cup seated)
        /\ \A k \in DOMAIN d.member : d.member[k] = k[2] - 1
    BY <1>2
  <2>3. /\ DOMAIN d.message = spoke /\ DOMAIN d.run = spoke
        /\ \A m \in spoke : d.message[m].room = 1
    <3>1. d.message = [m \in spoke |-> [room |-> 1, author |-> m, run |-> m]]
      BY <1>2
    <3>2. d.run = [n \in spoke |-> [room |-> 1, persona |-> n, end |-> "ok"]]
      BY <1>2
    <3>3. DOMAIN d.message = spoke /\ \A m \in spoke : d.message[m].room = 1
      BY <3>1
    <3>4. DOMAIN d.run = spoke
      BY <3>2
    <3> QED
      BY <3>3, <3>4
  <2>4. /\ DOMAIN d.session = {1} \X spoke
        /\ \A k \in DOMAIN d.session : d.session[k] = k[2]
    BY <1>2
  <2> QED
    BY <2>1, <2>2, <2>3, <2>4
<1>6. Refers(d)
  <2>1. \A k \in DOMAIN d.member \cup DOMAIN d.session :
            k[1] = 1 /\ k[2] \in {1} \cup cast
    BY <1>a
  <2>2. \A k \in DOMAIN d.session : d.session[k] \in spoke /\ k[1] = 1
    BY <1>a
  <2> QED
    BY <1>2, <1>a, <2>1, <2>2 DEF Refers
<1>7. Traces(d)
  BY <1>2 DEF Traces
<1>8. Bounded(d)
  <2>1. 3 \in Nat /\ \A k \in DOMAIN d.member : d.member[k] <= 3
    BY <1>2
  <2> QED
    BY <2>1 DEF Bounded
<1>9. Distinct(d)
  <2>1. ASSUME NEW k \in {1} \X ({1} \cup seated), NEW l \in {1} \X ({1} \cup seated),
               k[2] - 1 = l[2] - 1
        PROVE  k = l
    <3>0. {1} \cup seated \subseteq Nat
      OBVIOUS
    <3>1. k[2] \in Nat /\ l[2] \in Nat /\ k[1] = l[1]
      BY <3>0
    <3>2. k[2] = l[2]
      BY <2>1, <3>1
    <3> QED
      BY <3>1, <3>2
  <2> QED
    BY <1>a, <2>1 DEF Distinct
<1>10. OpenRuns(d) = {}
  BY <1>2 DEF OpenRuns
<1>11. /\ DOMAIN d.persona \subseteq 1..4 /\ DOMAIN d.room \subseteq 1..1
       /\ DOMAIN d.message \subseteq 1..4 /\ DOMAIN d.run \subseteq 1..4
  <2>1. {1} \cup cast \subseteq 1..4 /\ spoke \subseteq 1..4 /\ {1} \subseteq 1..1
    OBVIOUS
  <2> QED
    BY <1>a, <2>1
<1> QED
  BY <1>4, <1>5, <1>6, <1>7, <1>8, <1>9, <1>10, <1>11 DEF Found, Sound, d

\* The invariant holds initially.
LEMMA InitHolds ==
    ASSUME Init
    PROVE  AllInv
<1>1. Found(db)
  BY NoRowsFound, SmallFound, GrownFound DEF Init
<1>2. /\ disk = db /\ tx = "none" /\ phase = "down" /\ todo = {}
      /\ req = [t \in Threads |-> Free] /\ turn = NoTurn
      /\ ids = [persona |-> 4, room |-> 1, message |-> 4, run |-> 4]
      /\ asked = [m \in {} |-> {}] /\ lost = {} /\ raced = {}
  BY DEF Init
<1>3. DataOK
  BY <1>1, <1>2 DEF Found, DataOK, Good, Within, Numbers
<1>4. PhaseOK /\ PostOK /\ TodoOK
  BY <1>2 DEF PhaseOK, PostOK, TodoOK
<1>5. RequestsOK
  BY <1>2, FreeIsRequest DEF RequestsOK, Free
<1>6. TurnOK
  <2>1. FALSE \in BOOLEAN
    OBVIOUS
  <2> QED
    BY <1>2, <2>1 DEF TurnOK, NoTurn, NoRun, NoMessage
<1>7. left \in Budgets
  <2>1. /\ MaxRequests \in Nat /\ MaxPosts \in Nat /\ MaxTurns \in Nat
        /\ MaxStops \in Nat /\ MaxMigrations \in Nat
    BY BudgetAssumption
  <2>2. \A top \in Nat : 0 \in 0..top /\ top \in 0..top
    OBVIOUS
  <2> QED
    BY <2>1, <2>2 DEF Init, Budgets
<1>8. RunsOK /\ SeatsOK
  BY <1>1, <1>2 DEF Found, RunsOK, SeatsOK
<1>9. AskedOK
  BY <1>2 DEF AskedOK
<1> QED
  BY <1>3, <1>4, <1>5, <1>6, <1>7, <1>8, <1>9 DEF AllInv, ServerInv
-----------------------------------------------------------------------------
(* Every step preserves the invariant.                                     *)

\* The invariant survives a stutter.
LEMMA StutterKeeps ==
    ASSUME AllInv, UNCHANGED vars
    PROVE  AllInv'
<1>1. UNCHANGED <<db, disk, tx, phase, todo, req, turn, ids, left,
                  asked, lost, raced, settled>>
  BY DEF vars
<1>2. DataOK' /\ PhaseOK' /\ PostOK' /\ RequestsOK'
  BY <1>1 DEF AllInv, ServerInv, DataOK, PhaseOK, PostOK, RequestsOK
<1>3. TurnOK' /\ TodoOK' /\ left' \in Budgets
  BY <1>1 DEF AllInv, ServerInv, TurnOK, TodoOK, Missing, Handles, Copies
<1>4. RunsOK' /\ SeatsOK' /\ AskedOK'
  BY <1>1 DEF AllInv, RunsOK, OpenRuns, SeatsOK, Distinct, AskedOK, Whole
<1> QED
  BY <1>2, <1>3, <1>4 DEF AllInv, ServerInv

\* Every step keeps the invariant.
LEMMA NextKeeps ==
    ASSUME AllInv, [Next]_vars
    PROVE  AllInv'
<1>1. CASE Start
  BY <1>1, StartKeeps
<1>2. CASE SeedAuthor
  BY <1>2, SeedAuthorKeeps
<1>3. CASE ListPersonas
  BY <1>3, ListPersonasKeeps
<1>4. CASE SeedPersona
  BY <1>4, SeedPersonaKeeps
<1>5. CASE Serve
  BY <1>5, ServeKeeps
<1>6. CASE \E t \in Threads : RestStep(t)
  BY <1>6, RestKeeps, RestKeepsRuns, RestKeepsAsked, RestKeepsSeats DEF AllInv
<1>7. CASE Post
  BY <1>7, PostKeeps
<1>8. CASE Quote
  BY <1>8, QuoteKeeps
<1>9. CASE StartTurn
  BY <1>9, StartTurnKeeps
<1>10. CASE Reply(TRUE) \/ Reply(FALSE)
  BY <1>10, ReplyKeeps
<1>11. CASE CutTurn
  BY <1>11, CutTurnKeeps
<1>12. CASE SaveSession
  BY <1>12, SaveSessionKeeps
<1>13. CASE LeaveRun
  BY <1>13, LeaveRunKeeps
<1>14. CASE StartScript
  BY <1>14, StartScriptKeeps
<1>15. CASE MergeCopy
  BY <1>15, MergeCopyKeeps
<1>16. CASE Rename
  BY <1>16, RenameKeeps
<1>17. CASE SeedMissing
  BY <1>17, SeedMissingKeeps
<1>18. CASE EndScript
  BY <1>18, EndScriptKeeps
<1>19. CASE Crash
  BY <1>19, CrashKeeps
<1>20. CASE Waits \/ UNCHANGED vars
  BY <1>20, StutterKeeps DEF Waits
<1> QED
  BY <1>1, <1>2, <1>3, <1>4, <1>5, <1>6, <1>7, <1>8, <1>9, <1>10, <1>11, <1>12, <1>13,
     <1>14, <1>15, <1>16, <1>17, <1>18, <1>19, <1>20 DEF Next, RestStep

\* In every state of every behaviour both views of the tables are in order (rows refer
\* to rows, handles are unique, replies name their runs), the transaction of a message
\* holds that message alone, and what requests, the turn, startup and the script hold
\* agrees with the tables.
THEOREM ServerInvariant == Spec => []AllInv
<1>1. Init => AllInv
  BY InitHolds
<1>2. AllInv /\ [Next]_vars => AllInv'
  BY NextKeeps
<1> QED
  BY <1>1, <1>2, PTL DEF Spec

\* The tables have their types, ids never exceed those given out, no handle is taken
\* twice, and outside of a transaction what is seen is what is committed.
THEOREM ServerTypeOK == Spec => []TypeOK
<1>1. ASSUME NEW d, Good(d, ids) PROVE TablesOK(d)
  <2>1. Shape(d) /\ Unique(d) /\ Within(d, ids)
    BY <1>1 DEF Good, Sound
  <2>2. \A n \in DOMAIN d.run : d.run[n].end \in {"open", "ok", "error"}
    <3>1. \A n \in DOMAIN d.run : d.run[n] \in Runs
      BY <2>1 DEF Shape
    <3> QED
      BY <3>1 DEF Runs
  <2>3. /\ \A i \in DOMAIN d.persona : d.persona[i] \in Rows
        /\ d.author \subseteq {Me, Boss, Guest}
    BY <2>1 DEF Shape
  <2> QED
    BY <2>1, <2>2, <2>3 DEF TablesOK, Unique, Within
<1>2. AllInv => TypeOK
  <2> SUFFICES ASSUME AllInv PROVE TypeOK
    OBVIOUS
  <2>1. TablesOK(db) /\ TablesOK(disk)
    BY <1>1 DEF AllInv, ServerInv, DataOK
  <2>2. turn.at \in {"idle", "running", "replied", "leaving"}
    BY DEF AllInv, ServerInv, TurnOK
  <2> QED
    BY <2>1, <2>2 DEF AllInv, ServerInv, PhaseOK, RequestsOK, TypeOK
<1> QED
  BY <1>2, ServerInvariant, PTL

\* What is committed refers to rows that are committed, whatever is deleted between
\* the statements of a request or of a turn, and wherever the process stops.
THEOREM References == Spec => []ReferencesHold
<1>1. AllInv => ReferencesHold
  BY DEF AllInv, ServerInv, DataOK, Good, Sound, Refers, ReferencesHold
<1> QED
  BY <1>1, ServerInvariant, PTL

\* A reply names the run it came from, and that run names the same persona and room,
\* after every deletion and after the script merged the persona.
THEOREM RepliesTraceable == Spec => []ReplyTraceable
<1>1. AllInv => ReplyTraceable
  BY DEF AllInv, ServerInv, DataOK, Good, Sound, Traces, ReplyTraceable
<1> QED
  BY <1>1, ServerInvariant, PTL

\* A run without an end is the one in progress, or was cut off by a crash.
THEOREM RunsHaveEnds == Spec => []RunsEnd
<1>1. AllInv => RunsEnd
  BY DEF AllInv, RunsOK, OpenRuns, RunsEnd
<1> QED
  BY <1>1, ServerInvariant, PTL

\* A message is committed with all the quotes it was posted with, or not at all.
THEOREM MessagesWhole == Spec => []MessageWhole
<1>1. AllInv => MessageWhole
  <2> SUFFICES ASSUME AllInv, NEW m \in DOMAIN asked \cap DOMAIN disk.message
               PROVE  {q[2] : q \in {q \in disk.quote : q[1] = m}} = asked[m] \cap DOMAIN disk.message
    BY DEF MessageWhole
  <2>1. \A x : <<m, x>> \in disk.quote <=> x \in asked[m] /\ x \in DOMAIN disk.message
    BY DEF AllInv, AskedOK, Whole
  <2>2. disk.quote \subseteq Nat \X Nat
    BY DEF AllInv, ServerInv, DataOK, Good, Sound, Shape
  <2>3. \A q \in disk.quote : q = <<q[1], q[2]>>
    BY <2>2
  <2>4. \A q \in {q \in disk.quote : q[1] = m} : q[2] \in asked[m] \cap DOMAIN disk.message
    BY <2>1, <2>3
  <2>5. \A x \in asked[m] \cap DOMAIN disk.message :
            \E q \in {q \in disk.quote : q[1] = m} : q[2] = x
    <3>1. ASSUME NEW x \in asked[m] \cap DOMAIN disk.message
          PROVE  \E q \in {q \in disk.quote : q[1] = m} : q[2] = x
      <4>1. <<m, x>> \in {q \in disk.quote : q[1] = m}
        BY <2>1, <3>1
      <4> QED
        BY <4>1
    <3> QED
      BY <3>1
  <2> QED
    BY <2>4, <2>5
<1> QED
  BY <1>1, ServerInvariant, PTL

\* Members of a room have places of their own, unless two were added at the same time.
THEOREM PlacesAreDistinct == Spec => []PlacesDistinct
<1>1. AllInv => PlacesDistinct
  BY DEF AllInv, SeatsOK, Distinct, PlacesDistinct
<1> QED
  BY <1>1, ServerInvariant, PTL
-----------------------------------------------------------------------------
(* What a step may never do.                                               *)

\* The statements of the event loop change neither personas nor rooms.
LEMMA LoopKeepsRows ==
    ASSUME AllInv, \/ Post \/ Quote \/ StartTurn \/ Reply(TRUE) \/ Reply(FALSE)
                   \/ CutTurn \/ SaveSession \/ LeaveRun
    PROVE  disk'.persona = disk.persona /\ disk'.room = disk.room
<1> DEFINE Same(e) == e.persona = disk.persona /\ e.room = disk.room
<1>1. /\ Shape(db) /\ Shape(disk)
      /\ tx = "none" => db = disk
      /\ tx = "post" => db.persona = disk.persona /\ db.room = disk.room
  BY DEF AllInv, ServerInv, DataOK, PhaseOK, PostOK, Good, Sound
<1>2. CASE Post \/ CutTurn
  BY <1>2 DEF Post, CutTurn, Nothing
<1>3. CASE Quote
  <2>1. db.persona = disk.persona /\ db.room = disk.room
    BY <1>1, <1>3 DEF Quote
  <2>2. disk' = disk \/ disk' = InsertQuotes(db, ids.message, asked[ids.message])
    BY <1>3 DEF Quote, Commit, Rollback
  <2>3. LET e == InsertQuotes(db, ids.message, asked[ids.message])
        IN  e.persona = db.persona /\ e.room = db.room
    BY <1>1 DEF InsertQuotes, Shape, Fields
  <2> QED
    BY <2>1, <2>2, <2>3
<1>4. CASE StartTurn
  <2>1. tx = "none" /\ db = disk
    BY <1>1, <1>4 DEF StartTurn, LoopAt
  <2>2. \E r, p : disk' = InsertRun(db, ids.run + 1, r, p)
    BY <1>4, <2>1 DEF StartTurn, Execute
  <2>3. \A n, r, p : LET e == InsertRun(db, n, r, p) IN e.persona = db.persona /\ e.room = db.room
    BY <1>1 DEF InsertRun, Shape, Fields
  <2> QED
    BY <2>1, <2>2, <2>3
<1>5. CASE Reply(TRUE) \/ Reply(FALSE)
  <2>1. tx = "none" /\ db = disk
    BY <1>1, <1>5 DEF Reply, LoopAt
  <2>2. \/ disk' = disk
        \/ disk' = InsertMessage(db, ids.message + 1, turn.room, turn.who, turn.run)
    BY <1>5, <2>1 DEF Reply, Execute, Nothing
  <2>3. LET e == InsertMessage(db, ids.message + 1, turn.room, turn.who, turn.run)
        IN  e.persona = db.persona /\ e.room = db.room
    BY <1>1 DEF InsertMessage, Shape, Fields
  <2> QED
    BY <2>1, <2>2, <2>3
<1>6. CASE SaveSession
  <2>1. tx = "none" /\ db = disk
    BY <1>1, <1>6 DEF SaveSession, LoopAt
  <2>2. disk' = disk \/ disk' = UpsertSession(db, turn.room, turn.who, turn.tail)
    BY <1>6, <2>1 DEF SaveSession, Execute, Nothing
  <2>3. LET e == UpsertSession(db, turn.room, turn.who, turn.tail)
        IN  e.persona = db.persona /\ e.room = db.room
    BY <1>1 DEF UpsertSession, Shape, Fields
  <2> QED
    BY <2>1, <2>2, <2>3
<1>7. CASE LeaveRun
  <2>1. tx = "none" /\ db = disk
    BY <1>1, <1>7 DEF LeaveRun, LoopAt
  <2>2. PICK end : disk' = FinalizeRun(db, turn.run, end)
    BY <1>7, <2>1 DEF LeaveRun, Execute, EndOfRun
  <2>3. LET e == FinalizeRun(db, turn.run, end)
        IN  e.persona = db.persona /\ e.room = db.room
    BY <1>1 DEF FinalizeRun, Shape, Fields
  <2> QED
    BY <2>1, <2>2, <2>3
<1> QED
  BY <1>2, <1>3, <1>4, <1>5, <1>6, <1>7

\* Rows that are gone stay gone while the server is up.
THEOREM NothingResurrected == Spec => NoResurrection
<1> DEFINE Stay == /\ DOMAIN disk'.persona \cap 1..ids.persona \subseteq DOMAIN disk.persona
                   /\ DOMAIN disk'.room \cap 1..ids.room \subseteq DOMAIN disk.room
<1>1. ASSUME AllInv, [Next]_vars, phase = "up" PROVE Stay
  <2>1. CASE \E t \in Threads : RestStep(t)
    <3>1. Served /\ tx = "none"
      BY <1>1, <2>1, RestIsServed DEF AllInv
    <3>2. db = disk
      BY <1>1, <3>1 DEF AllInv, ServerInv, PhaseOK
    <3> QED
      BY <3>1, <3>2 DEF Served, Calm
  <2>2. CASE \/ Post \/ Quote \/ StartTurn \/ Reply(TRUE) \/ Reply(FALSE)
             \/ CutTurn \/ SaveSession \/ LeaveRun
    BY <1>1, <2>2, LoopKeepsRows
  <2>3. CASE Crash \/ Waits \/ UNCHANGED vars
    BY <2>3 DEF Crash, Rollback, Waits, vars
  <2>4. CASE \/ Start \/ SeedAuthor \/ ListPersonas \/ SeedPersona \/ Serve
             \/ StartScript \/ MergeCopy \/ Rename \/ SeedMissing \/ EndScript
    BY <1>1, <2>4 DEF Start, SeedAuthor, ListPersonas, SeedPersona, Serve,
       StartScript, MergeCopy, Rename, SeedMissing, EndScript, Merged
  <2> QED
    BY <1>1, <2>1, <2>2, <2>3, <2>4 DEF Next, RestStep
<1>2. AllInv /\ [Next]_vars => [phase = "up" => Stay]_vars
  BY <1>1
<1> HIDE DEF Stay
<1>3. NoResurrection <=> [][phase = "up" => Stay]_vars
  BY DEF NoResurrection, Stay
<1> QED
  BY <1>2, <1>3, ServerInvariant, PTL DEF Spec

\* A server that comes up has all the default personas and an author to write as, and
\* starting it changed no persona there was, however often startup was cut short.
THEOREM StartupCompletes == Spec => StartupSeeds
<1> DEFINE Complete == phase' = "up" /\ phase # "up" =>
                           Missing(disk) = {} /\ disk.author # {}
           Untouched == phase \in {"authors", "personas"} =>
                            \A i \in DOMAIN disk.persona :
                                i \in DOMAIN disk'.persona /\ disk'.persona[i] = disk.persona[i]
<1>1. ASSUME AllInv, [Next]_vars PROVE Complete
  <2>1. CASE Serve
    <3>1. phase = "personas" /\ todo = {}
      BY <2>1 DEF Serve
    <3> QED
      BY <1>1, <3>1 DEF AllInv, ServerInv, TodoOK
  <2>2. CASE \/ Start \/ SeedAuthor \/ ListPersonas \/ SeedPersona
             \/ StartScript \/ MergeCopy \/ Rename \/ SeedMissing \/ EndScript \/ Crash
    BY <2>2 DEF Start, SeedAuthor, ListPersonas, SeedPersona,
       StartScript, MergeCopy, Rename, SeedMissing, EndScript, Crash
  <2>3. CASE \E t \in Threads : RestStep(t)
    BY <1>1, <2>3, RestIsServed DEF AllInv
  <2>4. CASE \/ Post \/ Quote \/ StartTurn \/ Reply(TRUE) \/ Reply(FALSE)
             \/ CutTurn \/ SaveSession \/ LeaveRun \/ Waits \/ UNCHANGED vars
    BY <2>4 DEF Post, Quote, StartTurn, Reply, CutTurn, SaveSession, LeaveRun, Waits, vars
  <2> QED
    BY <1>1, <2>1, <2>2, <2>3, <2>4 DEF Next, RestStep
<1>2. ASSUME AllInv, [Next]_vars, phase \in {"authors", "personas"}
      PROVE  \A i \in DOMAIN disk.persona :
                 i \in DOMAIN disk'.persona /\ disk'.persona[i] = disk.persona[i]
  <2>1. /\ tx = "none" /\ db = disk /\ ids \in Numbers /\ Good(db, ids) /\ Shape(db)
        /\ db.author \subseteq {Me, Boss, Guest}
    BY <1>2 DEF AllInv, ServerInv, PhaseOK, DataOK, Good, Sound, Shape
  <2>2. CASE SeedAuthor
    <3>1. PICK name \in {Me, Boss, Guest} : disk' = InsertAuthor(db, name)
      BY <2>1, <2>2 DEF SeedAuthor, Execute
    <3>2. InsertAuthor(db, name).persona = db.persona
      BY <2>1, AuthorsDo
    <3> QED
      BY <2>1, <3>1, <3>2
  <2>3. CASE SeedPersona
    <3>1. PICK b \in todo : disk' = InsertPersona(db, ids.persona + 1, SeedRow(b))
      BY <2>1, <2>3 DEF SeedPersona, Execute
    <3>2. todo = Missing(db)
      BY <1>2, <2>1, <2>3 DEF AllInv, ServerInv, TodoOK, SeedPersona
    <3> DEFINE e == InsertPersona(db, ids.persona + 1, SeedRow(b))
    <3>3. /\ Good(e, [ids EXCEPT !.persona = @ + 1])
          /\ Still(db, e) /\ e.author = db.author
          /\ e.message = db.message /\ e.room = db.room /\ e.run = db.run
          /\ e.session = db.session
          /\ DOMAIN e.persona = DOMAIN db.persona \cup {ids.persona + 1}
          /\ e.persona[ids.persona + 1] = SeedRow(b)
          /\ \A i \in DOMAIN db.persona : i # ids.persona + 1 /\ e.persona[i] = db.persona[i]
          /\ Missing(e) = Missing(db) \ {b}
      <4>1. ids \in Numbers /\ Good(db, ids) /\ b \in Missing(db)
        BY <2>1, <3>1, <3>2
      <4> QED
        BY <4>1, SeedingSeeds
    <3> HIDE DEF e
    <3>4. disk' = e
      BY <3>1 DEF e
    <3> QED
      BY <2>1, <3>3, <3>4
  <2>4. CASE ListPersonas \/ Serve \/ Crash \/ Waits \/ UNCHANGED vars
    BY <2>4 DEF ListPersonas, Serve, Crash, Rollback, Waits, vars
  <2>5. ~(\E t \in Threads : RestStep(t))
    BY <1>2, RestIsServed DEF AllInv
  <2>6. ~ \/ Post \/ Quote \/ StartTurn \/ Reply(TRUE) \/ Reply(FALSE)
          \/ CutTurn \/ SaveSession \/ LeaveRun
          \/ Start \/ StartScript \/ MergeCopy \/ Rename \/ SeedMissing \/ EndScript
    BY <1>2, <2>1 DEF Post, LoopFree, Quote, StartTurn, Reply, CutTurn, SaveSession, LeaveRun, LoopAt,
       Start, StartScript, MergeCopy, Rename, SeedMissing, EndScript, Merged
  <2> QED
    BY <1>2, <2>2, <2>3, <2>4, <2>5, <2>6 DEF Next, RestStep
<1> DEFINE Seeds == /\ phase' = "up" /\ phase # "up" =>
                          Missing(disk) = {} /\ disk.author # {}
                    /\ phase \in {"authors", "personas"} =>
                          \A i \in DOMAIN disk.persona :
                              i \in DOMAIN disk'.persona /\ disk'.persona[i] = disk.persona[i]
<1>3. AllInv /\ [Next]_vars => [Seeds]_vars
  BY <1>1, <1>2
<1>4. StartupSeeds <=> [][Seeds]_vars
  BY DEF StartupSeeds, Seeds
<1> HIDE DEF Seeds
<1> QED
  BY <1>3, <1>4, ServerInvariant, PTL DEF Spec
-----------------------------------------------------------------------------
(* The migration script: nothing is lost, and a second run changes nothing. *)

\* Copies the script merges.
Mergeable(d) == Copies(d) \ Orphans(d)

\* Who stands in d for persona i of e.
HeirOf(d, e, i) ==
    IF i \in DOMAIN e.persona \ DOMAIN d.persona
    THEN CHOOSE j \in Original(e, i) : TRUE ELSE i

\* The personas of d are those of e but for merged copies, and perhaps new ones.
KeepsPersonas(d, e) ==
    /\ DOMAIN e.persona \ DOMAIN d.persona \subseteq Mergeable(e)
    /\ \A i \in DOMAIN d.persona \cap DOMAIN e.persona :
          d.persona[i].handle = e.persona[i].handle
    /\ \A i \in DOMAIN d.persona \ DOMAIN e.persona : d.persona[i].handle.copies = 0

\* The keys of f are those of g, with the heir for the persona.
Inherits(f, g, d, e) ==
    \A k : k \in DOMAIN f <=> \E l \in DOMAIN g : k = <<l[1], HeirOf(d, e, l[2])>>

\* Messages, members and sessions of e are in d, with their heirs.
KeepsReferences(d, e) ==
    /\ DOMAIN d.message = DOMAIN e.message
    /\ \A m \in DOMAIN e.message :
          /\ d.message[m].room = e.message[m].room /\ d.message[m].run = e.message[m].run
          /\ d.message[m].author = HeirOf(d, e, e.message[m].author)
    /\ Inherits(d.member, e.member, d, e)
    /\ Inherits(d.session, e.session, d, e)

\* The team's rows are as the script leaves them.
RowsNamed(d) ==
    \A i \in DOMAIN d.persona : \A b \in Team :
        d.persona[i].handle = Handle(b, 0) => d.persona[i] = PersonaRow(Handle(b, 0), TRUE, FALSE)

\* Tables on which the script has nothing to do.
Settled(d) == Copies(d) = {} /\ Missing(d) = {} /\ RowsNamed(d)

ScriptOK ==
    phase \in {"script", "seeding"} =>
        /\ KeepsPersonas(db, disk) /\ KeepsReferences(db, disk)
        /\ phase = "script" =>
              /\ DOMAIN db.persona \subseteq DOMAIN disk.persona
              /\ DOMAIN db.persona \cap Mergeable(disk) \subseteq todo
        /\ phase = "seeding" => DOMAIN db.persona \cap Mergeable(disk) = {} /\ RowsNamed(db)
        /\ disk \in settled => db = disk /\ todo = {}
SettledOK == \A d \in settled : Settled(d)
\* The heir of a merged copy is the persona with its base handle.
LEMMA HeirIsOriginal ==
    ASSUME NEW d, NEW e, KeepsPersonas(d, e),
           NEW i \in DOMAIN e.persona \ DOMAIN d.persona
    PROVE  HeirOf(d, e, i) \in Original(e, i) /\ HeirOf(d, e, i) \notin Copies(e)
<1>1. Original(e, i) # {}
  BY DEF KeepsPersonas, Mergeable, Orphans
<1>2. HeirOf(d, e, i) \in Original(e, i)
  BY <1>1 DEF HeirOf
<1>3. \A j \in Original(e, i) : j \notin Copies(e)
  BY DEF Original, ByHandle, BaseHandle, Handle, Copies
<1> QED
  BY <1>2, <1>3

\* Merging a copy makes its original the heir of whoever the copy stood for.
LEMMA MergeChangesHeirs ==
    ASSUME NEW n \in Numbers, NEW d, NEW e, Good(d, n), Good(e, n), KeepsPersonas(d, e),
           DOMAIN d.persona \subseteq DOMAIN e.persona,
           NEW copy \in Copies(d), NEW original \in Original(d, copy),
           NEW f, f.persona = [j \in DOMAIN d.persona \ {copy} |-> d.persona[j]]
    PROVE  /\ \A i : HeirOf(f, e, i) = IF HeirOf(d, e, i) = copy THEN original ELSE HeirOf(d, e, i)
           /\ KeepsPersonas(f, e) /\ copy \in Mergeable(e)
<1>1. /\ copy \in DOMAIN d.persona /\ original \in DOMAIN d.persona /\ copy # original
      /\ d.persona[original].handle = BaseHandle(d.persona[copy].handle)
  BY CopyHasOriginal
<1>2. /\ copy \in DOMAIN e.persona /\ original \in DOMAIN e.persona
      /\ e.persona[original].handle = BaseHandle(e.persona[copy].handle)
      /\ copy \in Copies(e)
  BY <1>1 DEF KeepsPersonas, Copies
<1>3. Original(e, copy) = {original}
  <2>1. original \in Original(e, copy)
    BY <1>2 DEF Original, ByHandle
  <2>2. \A j \in Original(e, copy) : j = original
    BY <1>2 DEF Original, ByHandle, Good, Sound, Unique
  <2> QED
    BY <2>1, <2>2
<1>4. copy \in Mergeable(e)
  BY <1>2, <1>3 DEF Mergeable, Orphans
<1>5. DOMAIN f.persona = DOMAIN d.persona \ {copy}
      /\ \A i \in DOMAIN f.persona : f.persona[i] = d.persona[i]
  OBVIOUS
<1>6. KeepsPersonas(f, e)
  BY <1>2, <1>4, <1>5 DEF KeepsPersonas
<1>7. ASSUME NEW i
      PROVE  HeirOf(f, e, i) = IF HeirOf(d, e, i) = copy THEN original ELSE HeirOf(d, e, i)
  <2>1. CASE i = copy
    BY <1>1, <1>2, <1>3, <1>5, <2>1 DEF HeirOf
  <2>2. CASE i # copy /\ i \in DOMAIN e.persona \ DOMAIN d.persona
    <3>1. HeirOf(d, e, i) # copy
      BY <1>2, <2>2, HeirIsOriginal
    <3>2. HeirOf(f, e, i) = HeirOf(d, e, i)
      BY <1>5, <2>2 DEF HeirOf
    <3> QED
      BY <3>1, <3>2
  <2>3. CASE i # copy /\ i \notin DOMAIN e.persona \ DOMAIN d.persona
    BY <1>5, <2>3 DEF HeirOf
  <2> QED
    BY <2>1, <2>2, <2>3
<1> QED
  BY <1>4, <1>6, <1>7

\* Repointed rows belong to the heirs of the personas they belonged to.
LEMMA RepointedRowsInherit ==
    ASSUME NEW old, old \in [DOMAIN old -> Nat], DOMAIN old \subseteq Nat \X Nat,
           NEW rows, NEW d, NEW e, NEW f, Inherits(old, rows, d, e),
           NEW copy \in Nat, NEW original \in Nat, copy # original,
           \A i : HeirOf(f, e, i) = IF HeirOf(d, e, i) = copy THEN original ELSE HeirOf(d, e, i)
    PROVE  Inherits(RepointRows(old, copy, original), rows, f, e)
<1> DEFINE new == RepointRows(old, copy, original)
<1>1. /\ \A k \in DOMAIN new :
            /\ k[2] # copy
            /\ k \notin DOMAIN old => k[2] = original /\ <<k[1], copy>> \in DOMAIN old
      /\ \A k \in DOMAIN old : k[2] # copy => k \in DOMAIN new
      /\ \A k \in DOMAIN old : k[2] = copy => <<k[1], original>> \in DOMAIN new
      /\ DOMAIN new \subseteq Nat \X Nat
  BY RepointRowsDo
<1> HIDE DEF new
<1>2. \A k : k \in DOMAIN old <=> \E l \in DOMAIN rows : k = <<l[1], HeirOf(d, e, l[2])>>
  BY DEF Inherits
<1>3. ASSUME NEW k \in DOMAIN new
      PROVE  \E l \in DOMAIN rows : k = <<l[1], HeirOf(f, e, l[2])>>
  <2>1. CASE k \in DOMAIN old
    <3>1. PICK l \in DOMAIN rows : k = <<l[1], HeirOf(d, e, l[2])>>
      BY <1>2, <2>1
    <3>2. HeirOf(d, e, l[2]) # copy
      BY <1>1, <1>3, <3>1
    <3>3. HeirOf(f, e, l[2]) = HeirOf(d, e, l[2])
      BY <3>2
    <3> QED
      BY <3>1, <3>3
  <2>2. CASE k \notin DOMAIN old
    <3>1. k = <<k[1], original>> /\ <<k[1], copy>> \in DOMAIN old
      BY <1>1, <1>3, <2>2
    <3>2. PICK l \in DOMAIN rows : <<k[1], copy>> = <<l[1], HeirOf(d, e, l[2])>>
      BY <1>2, <3>1
    <3>3. HeirOf(d, e, l[2]) = copy /\ k[1] = l[1]
      BY <3>2
    <3>4. HeirOf(f, e, l[2]) = original
      BY <3>3
    <3> QED
      BY <3>1, <3>3, <3>4
  <2> QED
    BY <2>1, <2>2
<1>4. ASSUME NEW l \in DOMAIN rows
      PROVE  <<l[1], HeirOf(f, e, l[2])>> \in DOMAIN new
  <2> DEFINE k == <<l[1], HeirOf(d, e, l[2])>>
  <2>1. k \in DOMAIN old /\ k[1] = l[1] /\ k[2] = HeirOf(d, e, l[2])
    BY <1>2, <1>4
  <2> HIDE DEF k
  <2>2. CASE k[2] = copy
    <3>1. HeirOf(f, e, l[2]) = original
      BY <2>1, <2>2
    <3> QED
      BY <1>1, <2>1, <2>2, <3>1
  <2>3. CASE k[2] # copy
    <3>1. HeirOf(f, e, l[2]) = HeirOf(d, e, l[2])
      BY <2>1, <2>3
    <3>2. k \in DOMAIN new
      BY <1>1, <2>1, <2>3
    <3> QED
      BY <2>1, <3>1, <3>2 DEF k
  <2> QED
    BY <2>2, <2>3
<1> QED
  BY <1>3, <1>4 DEF Inherits, new

\* A merge hands what the copy had to its original, which nothing merges.
LEMMA MergeKeepsReferences ==
    ASSUME NEW n \in Numbers, NEW d, NEW e, Good(d, n), Good(e, n),
           KeepsPersonas(d, e), KeepsReferences(d, e), DOMAIN d.persona \subseteq DOMAIN e.persona,
           NEW copy \in Copies(d), NEW original \in Original(d, copy)
    PROVE  LET f == Merge(d, copy, original)
           IN  /\ KeepsPersonas(f, e) /\ KeepsReferences(f, e)
               /\ DOMAIN f.persona = DOMAIN d.persona \ {copy} /\ copy \in Mergeable(e)
<1> DEFINE f == Merge(d, copy, original)
<1>1. /\ f.persona = [j \in DOMAIN d.persona \ {copy} |-> d.persona[j]]
      /\ DOMAIN f.message = DOMAIN d.message
      /\ \A m \in DOMAIN d.message : f.message[m] = SaidBy(d.message[m], copy, original)
      /\ f.member = RepointRows(d.member, copy, original)
      /\ f.session = RepointRows(d.session, copy, original)
  BY MergeIsGood
<1>2. copy \in Nat /\ original \in Nat /\ copy # original
  BY CopyHasOriginal
<1> HIDE DEF f
<1>3. /\ \A i : HeirOf(f, e, i) = IF HeirOf(d, e, i) = copy THEN original ELSE HeirOf(d, e, i)
      /\ KeepsPersonas(f, e) /\ copy \in Mergeable(e)
  BY <1>1, MergeChangesHeirs
<1>4. Shape(d)
  BY DEF Good, Sound
<1>5. Inherits(f.member, e.member, f, e) /\ Inherits(f.session, e.session, f, e)
  <2> DEFINE old == d.member
             rows == e.member
             old2 == d.session
             rows2 == e.session
  <2>1. /\ old \in [DOMAIN old -> Nat] /\ DOMAIN old \subseteq Nat \X Nat
        /\ old2 \in [DOMAIN old2 -> Nat] /\ DOMAIN old2 \subseteq Nat \X Nat
    BY <1>4 DEF Shape
  <2>2. Inherits(old, rows, d, e) /\ Inherits(old2, rows2, d, e)
    BY DEF KeepsReferences
  <2>3. f.member = RepointRows(old, copy, original) /\ f.session = RepointRows(old2, copy, original)
    BY <1>1
  <2> HIDE DEF old, rows, old2, rows2
  <2>4. Inherits(f.member, rows, f, e) /\ Inherits(f.session, rows2, f, e)
    BY <1>2, <1>3, <2>1, <2>2, <2>3, RepointedRowsInherit
  <2> QED
    BY <2>4 DEF rows, rows2
<1>6. ASSUME NEW m \in DOMAIN e.message
      PROVE  /\ f.message[m].room = e.message[m].room /\ f.message[m].run = e.message[m].run
             /\ f.message[m].author = HeirOf(f, e, e.message[m].author)
  <2>1. /\ m \in DOMAIN d.message
        /\ d.message[m].room = e.message[m].room /\ d.message[m].run = e.message[m].run
        /\ d.message[m].author = HeirOf(d, e, e.message[m].author)
    BY <1>6 DEF KeepsReferences
  <2>2. d.message[m] \in Messages
    BY <1>4, <2>1 DEF Shape
  <2>3. LET said == SaidBy(d.message[m], copy, original)
        IN  /\ said.room = d.message[m].room /\ said.run = d.message[m].run
            /\ said.author = IF d.message[m].author = copy THEN original ELSE d.message[m].author
    BY <1>2, <2>2, SaidByDoes
  <2> QED
    BY <1>1, <1>3, <2>1, <2>3
<1>7. DOMAIN f.message = DOMAIN e.message
  BY <1>1 DEF KeepsReferences
<1>8. KeepsReferences(f, e)
  BY <1>5, <1>6, <1>7 DEF KeepsReferences
<1>9. DOMAIN f.persona = DOMAIN d.persona \ {copy}
  BY <1>1
<1> QED
  BY <1>3, <1>8, <1>9 DEF f

\* Steps that take no persona and touch no reference keep the heirs.
LEMMA SamePersonasSameHeirs ==
    ASSUME NEW d, NEW e, NEW f, KeepsReferences(d, e),
           DOMAIN e.persona \ DOMAIN f.persona = DOMAIN e.persona \ DOMAIN d.persona,
           f.message = d.message, f.member = d.member, f.session = d.session
    PROVE  KeepsReferences(f, e)
<1>1. \A i : HeirOf(f, e, i) = HeirOf(d, e, i)
  BY DEF HeirOf
<1> QED
  BY <1>1 DEF KeepsReferences, Inherits

\* A team with the names the script gives is as the script would leave it.
LEMMA RenameNothing ==
    ASSUME NEW d, Shape(d), RowsNamed(d)
    PROVE  RenameTeam(d) = d
<1> DEFINE e == RenameTeam(d)
<1>1. /\ Shape(e) /\ DOMAIN e.persona = DOMAIN d.persona
      /\ \A i \in DOMAIN d.persona :
            e.persona[i] = IF \E b \in Team : d.persona[i].handle = Handle(b, 0)
                           THEN PersonaRow(d.persona[i].handle, TRUE, FALSE)
                           ELSE d.persona[i]
      /\ e.author = d.author /\ e.room = d.room /\ e.member = d.member
      /\ e.message = d.message /\ e.quote = d.quote
      /\ e.session = d.session /\ e.run = d.run
  BY RenameTeamDoes
<1> HIDE DEF e
<1>2. \A i \in DOMAIN d.persona : e.persona[i] = d.persona[i]
  BY <1>1 DEF RowsNamed
<1>3. e.persona \in [DOMAIN d.persona -> Rows] /\ d.persona \in [DOMAIN d.persona -> Rows]
  BY <1>1 DEF Shape
<1>4. e.persona = d.persona
  BY <1>2, <1>3
<1>5. \A x \in Fields : e[x] = d[x]
  BY <1>1, <1>4 DEF Fields
<1>6. e = [x \in Fields |-> e[x]] /\ d = [x \in Fields |-> d[x]]
  BY <1>1 DEF Shape
<1>7. e = d
  BY <1>5, <1>6
<1> QED
  BY <1>7 DEF e

\* At its start the script has changed nothing.
LEMMA StartScriptScripts ==
    ASSUME AllInv, SettledOK, StartScript
    PROVE  ScriptOK'
<1>1. /\ phase' = "script" /\ todo' = Copies(db) \ Orphans(db) /\ db' = db /\ disk' = disk
      /\ settled' = settled /\ phase = "down"
  BY DEF StartScript, Nothing
<1>2. db = disk /\ Shape(db)
  BY <1>1 DEF AllInv, ServerInv, PhaseOK, DataOK, Good, Sound
<1>3. \A i : HeirOf(db, db, i) = i
  BY DEF HeirOf
<1>4. KeepsPersonas(db, db)
  BY DEF KeepsPersonas
<1>5. ASSUME NEW f, DOMAIN f \subseteq Nat \X Nat
      PROVE  Inherits(f, f, db, db)
  <2>1. \A k \in DOMAIN f : k = <<k[1], HeirOf(db, db, k[2])>>
    BY <1>3, <1>5
  <2> QED
    BY <2>1 DEF Inherits
<1>6. KeepsReferences(db, db)
  <2>1. DOMAIN db.member \subseteq Nat \X Nat /\ DOMAIN db.session \subseteq Nat \X Nat
    BY <1>2 DEF Shape
  <2>2. Inherits(db.member, db.member, db, db) /\ Inherits(db.session, db.session, db, db)
    BY <1>5, <2>1
  <2> QED
    BY <1>3, <2>2 DEF KeepsReferences
<1>7. disk \in settled => todo' = {}
  BY <1>1, <1>2 DEF SettledOK, Settled
<1> QED
  BY <1>1, <1>2, <1>4, <1>6, <1>7 DEF ScriptOK, Mergeable

\* After a merge one copy less is left to merge.
LEMMA MergeCopyScripts ==
    ASSUME AllInv, ScriptOK, MergeCopy
    PROVE  ScriptOK'
<1>1. PICK copy \in todo, original \in 1..ids.persona :
          /\ original \in Original(db, copy)
          /\ Execute(Merge(db, copy, original))
          /\ todo' = todo \ {copy}
  BY DEF MergeCopy
<1>2. phase = "script" /\ phase' = "script" /\ settled' = settled
  BY DEF MergeCopy
<1>3. /\ ids \in Numbers /\ Good(db, ids) /\ Good(disk, ids)
      /\ tx = "script" /\ copy \in Copies(db)
  BY <1>1, <1>2 DEF AllInv, ServerInv, DataOK, PhaseOK, TodoOK
<1>4. db' = Merge(db, copy, original) /\ disk' = disk
  BY <1>1, <1>3 DEF Execute
<1>5. /\ KeepsPersonas(db, disk) /\ KeepsReferences(db, disk)
      /\ DOMAIN db.persona \subseteq DOMAIN disk.persona
      /\ DOMAIN db.persona \cap Mergeable(disk) \subseteq todo
      /\ disk \notin settled
  BY <1>1, <1>2 DEF ScriptOK
<1>6. /\ KeepsPersonas(db', disk) /\ KeepsReferences(db', disk)
      /\ DOMAIN db'.persona = DOMAIN db.persona \ {copy}
  BY <1>1, <1>3, <1>4, <1>5, MergeKeepsReferences
<1>7. DOMAIN db'.persona \cap Mergeable(disk) \subseteq todo'
  BY <1>1, <1>5, <1>6
<1>8. DOMAIN db'.persona \subseteq DOMAIN disk.persona
  BY <1>5, <1>6
<1> QED
  BY <1>2, <1>4, <1>5, <1>6, <1>7, <1>8 DEF ScriptOK

\* The renaming is for when no copy is left to merge.
LEMMA RenameScripts ==
    ASSUME AllInv, SettledOK, ScriptOK, Rename
    PROVE  ScriptOK'
<1> DEFINE e == RenameTeam(db)
<1>1. /\ phase = "script" /\ todo = {} /\ phase' = "seeding" /\ todo' = Missing(db)
      /\ Execute(e) /\ settled' = settled
  BY DEF Rename
<1>2. Shape(db) /\ tx = "script"
  BY <1>1 DEF AllInv, ServerInv, DataOK, PhaseOK, Good, Sound
<1>3. db' = e /\ disk' = disk
  BY <1>1, <1>2 DEF Execute
<1>4. /\ KeepsPersonas(db, disk) /\ KeepsReferences(db, disk)
      /\ DOMAIN db.persona \cap Mergeable(disk) = {}
      /\ disk \in settled => db = disk
  BY <1>1 DEF ScriptOK
<1>5. /\ DOMAIN e.persona = DOMAIN db.persona
      /\ \A i \in DOMAIN db.persona :
            /\ e.persona[i].handle = db.persona[i].handle
            /\ e.persona[i] = IF \E b \in Team : db.persona[i].handle = Handle(b, 0)
                              THEN PersonaRow(db.persona[i].handle, TRUE, FALSE)
                              ELSE db.persona[i]
      /\ e.member = db.member /\ e.message = db.message /\ e.session = db.session
  BY <1>2, RenameTeamDoes
<1>6. disk \in settled => e = disk /\ todo' = {}
  <2>1. ASSUME disk \in settled PROVE e = disk /\ todo' = {}
    <3>1. Missing(db) = {} /\ RowsNamed(db) /\ db = disk
      BY <1>4, <2>1 DEF SettledOK, Settled
    <3> QED
      BY <1>1, <1>2, <3>1, RenameNothing
  <2> QED
    BY <2>1
<1> HIDE DEF e
<1>7. KeepsPersonas(e, disk)
  BY <1>4, <1>5 DEF KeepsPersonas
<1>8. KeepsReferences(e, disk)
  BY <1>4, <1>5, SamePersonasSameHeirs
<1>9. RowsNamed(e)
  BY <1>5 DEF RowsNamed
<1> QED
  BY <1>1, <1>3, <1>4, <1>5, <1>6, <1>7, <1>8, <1>9 DEF ScriptOK

\* Seeding changes no reference.
LEMMA SeedMissingScripts ==
    ASSUME AllInv, ScriptOK, SeedMissing
    PROVE  ScriptOK'
<1>1. PICK b \in todo : /\ Execute(InsertPersona(db, ids.persona + 1, SeedRow(b)))
                        /\ todo' = todo \ {b}
  BY DEF SeedMissing
<1>2. phase = "seeding" /\ phase' = "seeding" /\ settled' = settled
  BY DEF SeedMissing
<1>3. /\ ids \in Numbers /\ Good(db, ids) /\ Good(disk, ids)
      /\ tx = "script" /\ b \in Missing(db)
  BY <1>1, <1>2 DEF AllInv, ServerInv, DataOK, PhaseOK, TodoOK
<1> DEFINE i == ids.persona + 1
           e == InsertPersona(db, i, SeedRow(b))
<1>4. db' = e /\ disk' = disk
  BY <1>1, <1>3 DEF Execute
<1>5. /\ Good(e, [ids EXCEPT !.persona = @ + 1])
      /\ Still(db, e) /\ e.author = db.author
      /\ e.message = db.message /\ e.room = db.room /\ e.run = db.run
      /\ e.session = db.session
      /\ DOMAIN e.persona = DOMAIN db.persona \cup {i}
      /\ e.persona[i] = SeedRow(b)
      /\ \A x \in DOMAIN db.persona : x # i /\ e.persona[x] = db.persona[x]
      /\ Missing(e) = Missing(db) \ {b}
  BY <1>3, SeedingSeeds
<1>6. i \notin DOMAIN disk.persona
  BY <1>3 DEF Good, Within, Numbers
<1> HIDE DEF e, i
<1>7. /\ KeepsPersonas(db, disk) /\ KeepsReferences(db, disk)
      /\ DOMAIN db.persona \cap Mergeable(disk) = {} /\ RowsNamed(db)
      /\ disk \notin settled
  BY <1>1, <1>2 DEF ScriptOK
<1>8. b \in Team /\ SeedRow(b) = PersonaRow(Handle(b, 0), TRUE, FALSE)
      /\ SeedRow(b).handle = Handle(b, 0) /\ SeedRow(b).handle.copies = 0
  BY <1>3 DEF Missing, SeedRow, PersonaRow, Handle
<1>9. KeepsPersonas(e, disk)
  <2>1. DOMAIN disk.persona \ DOMAIN e.persona \subseteq Mergeable(disk)
    BY <1>5, <1>6, <1>7 DEF KeepsPersonas
  <2>2. \A x \in DOMAIN e.persona \cap DOMAIN disk.persona :
            x \in DOMAIN db.persona /\ e.persona[x] = db.persona[x]
    BY <1>5, <1>6
  <2>3. \A x \in DOMAIN e.persona \cap DOMAIN disk.persona :
            e.persona[x].handle = disk.persona[x].handle
    BY <1>7, <2>2 DEF KeepsPersonas
  <2>4. \A x \in DOMAIN e.persona \ DOMAIN disk.persona :
            x = i \/ (x \in DOMAIN db.persona \ DOMAIN disk.persona /\ e.persona[x] = db.persona[x])
    BY <1>5
  <2>5. \A x \in DOMAIN e.persona \ DOMAIN disk.persona : e.persona[x].handle.copies = 0
    BY <1>5, <1>7, <1>8, <2>4 DEF KeepsPersonas
  <2> QED
    BY <2>1, <2>3, <2>5 DEF KeepsPersonas
<1>10. KeepsReferences(e, disk)
  BY <1>5, <1>6, <1>7, SamePersonasSameHeirs DEF Still
<1>11. RowsNamed(e)
  <2>1. \A c \in Team : Handle(c, 0) = Handle(b, 0) => c = b
    BY DEF Handle
  <2> QED
    BY <1>5, <1>7, <1>8, <2>1 DEF RowsNamed
<1>12. DOMAIN e.persona \cap Mergeable(disk) = {}
  BY <1>5, <1>6, <1>7 DEF Mergeable, Copies
<1> QED
  BY <1>2, <1>4, <1>7, <1>9, <1>10, <1>11, <1>12 DEF ScriptOK

\* Tables the script commits leave nothing for it to do.
LEMMA EndScriptSettles ==
    ASSUME AllInv, SettledOK, ScriptOK, EndScript
    PROVE  SettledOK'
<1>1. /\ phase = "seeding" /\ todo = {}
      /\ \/ settled' = settled
         \/ settled' = {d \in {db} : Orphans(disk) = {}}
  BY DEF EndScript, Merged
<1>2. /\ KeepsPersonas(db, disk) /\ DOMAIN db.persona \cap Mergeable(disk) = {}
      /\ RowsNamed(db)
  BY <1>1 DEF ScriptOK
<1>3. Missing(db) = {}
  BY <1>1 DEF AllInv, ServerInv, TodoOK
<1>4. ASSUME Orphans(disk) = {} PROVE Copies(db) = {}
  <2>1. ASSUME NEW i \in Copies(db) PROVE FALSE
    <3>1. /\ i \in DOMAIN db.persona /\ db.persona[i].handle.copies > 0
          /\ \A x \in DOMAIN db.persona \ DOMAIN disk.persona : db.persona[x].handle.copies = 0
      BY <1>2, <2>1 DEF Copies, KeepsPersonas
    <3>2. i \in DOMAIN disk.persona
      BY <3>1
    <3>3. i \in Mergeable(disk)
      BY <1>2, <1>4, <3>1, <3>2 DEF KeepsPersonas, Mergeable, Copies
    <3> QED
      BY <1>2, <3>1, <3>3
  <2> QED
    BY <2>1
<1> QED
  BY <1>1, <1>2, <1>3, <1>4 DEF SettledOK, Settled

\* Every step keeps what holds of the script.
LEMMA NextScripts ==
    ASSUME AllInv, SettledOK, ScriptOK, [Next]_vars
    PROVE  SettledOK' /\ ScriptOK'
<1>1. ASSUME settled' = settled PROVE SettledOK'
  BY <1>1 DEF SettledOK, Settled, Copies, Missing, RowsNamed, Handles
<1>2. ASSUME phase' \notin {"script", "seeding"} PROVE ScriptOK'
  BY <1>2 DEF ScriptOK
<1>3. CASE Start \/ SeedAuthor \/ ListPersonas \/ SeedPersona \/ Serve \/ Crash
  BY <1>1, <1>2, <1>3 DEF Start, SeedAuthor, ListPersonas, SeedPersona, Serve, Crash
<1>4. CASE \E t \in Threads : RestStep(t)
  BY <1>1, <1>2, <1>4, RestIsServed DEF AllInv
<1>5. CASE \/ Post \/ StartTurn \/ Reply(TRUE) \/ Reply(FALSE)
           \/ CutTurn \/ SaveSession \/ LeaveRun
  BY <1>1, <1>2, <1>5 DEF Post, LoopFree, StartTurn, Reply, CutTurn, SaveSession, LeaveRun, LoopAt
<1>6. CASE Quote
  <2>1. phase = "up"
    BY <1>6 DEF AllInv, ServerInv, PhaseOK, Quote
  <2> QED
    BY <1>1, <1>2, <1>6, <2>1 DEF Quote
<1>7. CASE StartScript
  BY <1>1, <1>7, StartScriptScripts DEF StartScript
<1>8. CASE MergeCopy
  BY <1>1, <1>8, MergeCopyScripts DEF MergeCopy
<1>9. CASE Rename
  BY <1>1, <1>9, RenameScripts DEF Rename
<1>10. CASE SeedMissing
  BY <1>1, <1>10, SeedMissingScripts DEF SeedMissing
<1>11. CASE EndScript
  BY <1>2, <1>11, EndScriptSettles DEF EndScript
<1>12. CASE Waits \/ UNCHANGED vars
  <2>1. UNCHANGED <<db, disk, phase, todo, settled>>
    BY <1>12 DEF Waits, vars
  <2>2. Mergeable(disk)' = Mergeable(disk)
    BY <2>1
  <2>3. KeepsPersonas(db, disk)' <=> KeepsPersonas(db, disk)
    BY <2>1
  <2>4. KeepsReferences(db, disk)' <=> KeepsReferences(db, disk)
    BY <2>1
  <2>5. RowsNamed(db)' <=> RowsNamed(db)
    BY <2>1
  <2>6. ScriptOK'
    BY <2>1, <2>2, <2>3, <2>4, <2>5 DEF ScriptOK
  <2> QED
    BY <1>1, <2>1, <2>6
<1> QED
  BY <1>3, <1>4, <1>5, <1>6, <1>7, <1>8, <1>9, <1>10, <1>11, <1>12 DEF Next, RestStep

\* While the script runs, what it has done so far lost no message, membership or
\* session, and on tables it left before it does nothing.
THEOREM ScriptInvariant == Spec => [](AllInv /\ SettledOK /\ ScriptOK)
<1>1. Init => AllInv /\ SettledOK /\ ScriptOK
  <2>1. ASSUME Init PROVE SettledOK /\ ScriptOK
    BY <2>1 DEF Init, SettledOK, ScriptOK
  <2> QED
    BY <2>1, InitHolds
<1>2. (AllInv /\ SettledOK /\ ScriptOK) /\ [Next]_vars => (AllInv /\ SettledOK /\ ScriptOK)'
  BY NextKeeps, NextScripts
<1> QED
  BY <1>1, <1>2, PTL DEF Spec

\* When the script is about to commit, every message is where it was and said by the
\* heir of who said it, and every member and session is the heir's.
THEOREM MergeIsLossless == Spec => []MergeLosesNothing
<1>1. ASSUME AllInv, ScriptOK, Merged
      PROVE  /\ DOMAIN db.message = DOMAIN disk.message
             /\ \A m \in DOMAIN db.message :
                   LET said == disk.message[m].author
                   IN  db.message[m] = [disk.message[m] EXCEPT !.author =
                           IF said \in DOMAIN disk.persona THEN Heir(said) ELSE said]
             /\ DOMAIN db.member = {<<k[1], Heir(k[2])>> : k \in DOMAIN disk.member}
             /\ DOMAIN db.session = {<<k[1], Heir(k[2])>> : k \in DOMAIN disk.session}
  <2>1. KeepsReferences(db, disk)
    BY <1>1 DEF ScriptOK, Merged
  <2>2. Shape(db) /\ Shape(disk) /\ Refers(disk)
    BY <1>1 DEF AllInv, ServerInv, DataOK, Good, Sound
  <2>3. \A i \in DOMAIN disk.persona : HeirOf(db, disk, i) = Heir(i)
    BY DEF HeirOf, Heir
  <2>4. \A i : i \notin DOMAIN disk.persona => HeirOf(db, disk, i) = i
    BY DEF HeirOf
  <2>5. ASSUME NEW m \in DOMAIN db.message
        PROVE  LET said == disk.message[m].author
               IN  db.message[m] = [disk.message[m] EXCEPT !.author =
                       IF said \in DOMAIN disk.persona THEN Heir(said) ELSE said]
    <3> DEFINE old == disk.message[m]
               new == db.message[m]
    <3>1. old \in Messages /\ new \in Messages
      BY <2>1, <2>2, <2>5 DEF KeepsReferences, Shape
    <3>2. /\ new.room = old.room /\ new.run = old.run
          /\ new.author = HeirOf(db, disk, old.author)
      BY <2>1, <2>5 DEF KeepsReferences
    <3> HIDE DEF old, new
    <3>3. new.author = IF old.author \in DOMAIN disk.persona THEN Heir(old.author) ELSE old.author
      BY <2>3, <2>4, <3>2
    <3>4. new = [old EXCEPT !.author = new.author]
      BY <3>1, <3>2 DEF Messages
    <3> QED
      BY <3>3, <3>4 DEF old, new
  <2>6. ASSUME NEW f, NEW g, Inherits(f, g, db, disk),
               \A k \in DOMAIN g : k[2] \in DOMAIN disk.persona
        PROVE  DOMAIN f = {<<k[1], Heir(k[2])>> : k \in DOMAIN g}
    BY <2>3, <2>6 DEF Inherits
  <2>7. /\ DOMAIN db.member = {<<k[1], Heir(k[2])>> : k \in DOMAIN disk.member}
        /\ DOMAIN db.session = {<<k[1], Heir(k[2])>> : k \in DOMAIN disk.session}
    BY <2>1, <2>2, <2>6 DEF KeepsReferences, Refers
  <2> QED
    BY <2>1, <2>5, <2>7 DEF KeepsReferences
<1>2. AllInv /\ ScriptOK => MergeLosesNothing
  BY <1>1 DEF MergeLosesNothing
<1> QED
  BY <1>2, ScriptInvariant, PTL

\* The script changes nothing on the tables it left, unless it left an orphaned copy.
THEOREM SecondRunIsNoOp == Spec => []SecondRunNoOp
<1>1. ScriptOK => SecondRunNoOp
  BY DEF ScriptOK, Merged, SecondRunNoOp
<1> QED
  BY <1>1, ScriptInvariant, PTL
=============================================================================
