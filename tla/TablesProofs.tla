----------------------------- MODULE TablesProofs -----------------------------
(***************************************************************************)
(* Lemmas about the statements on the tables: what each of them changes,   *)
(* what it preserves, and what it leaves alone for the actors that run     *)
(* beside it.                                                              *)
(***************************************************************************)
EXTENDS Server, FiniteSetTheorems, WellFoundedInduction, TLAPS

(* What a database is made of.                                             *)

Fields == {"persona", "author", "room", "member", "message", "quote", "session", "run"}
Messages == [room : Nat, author : Nat, run : Nat]
Runs == [room : Nat, persona : Nat, end : {"open", "ok", "error"}]

\* The tables and the types of their columns.
Shape(d) ==
    /\ d = [f \in Fields |-> d[f]]
    /\ d.persona \in [DOMAIN d.persona -> Rows]
    /\ d.author \subseteq {Me, Boss, Guest}
    /\ d.member \in [DOMAIN d.member -> Nat]
    /\ DOMAIN d.member \subseteq Nat \X Nat
    /\ d.message \in [DOMAIN d.message -> Messages]
    /\ d.quote \subseteq Nat \X Nat
    /\ d.session \in [DOMAIN d.session -> Nat]
    /\ DOMAIN d.session \subseteq Nat \X Nat
    /\ d.run \in [DOMAIN d.run -> Runs]

\* The ids of a table are among those given out so far.
Within(d, n) ==
    /\ DOMAIN d.persona \subseteq 1..n.persona
    /\ DOMAIN d.room \subseteq 1..n.room
    /\ DOMAIN d.message \subseteq 1..n.message
    /\ DOMAIN d.run \subseteq 1..n.run

\* persona.handle is UNIQUE.
Unique(d) ==
    \A i, j \in DOMAIN d.persona : d.persona[i].handle = d.persona[j].handle => i = j

\* Rows refer to rows, pointers to messages of their room.
Refers(d) ==
    /\ \A k \in DOMAIN d.member \cup DOMAIN d.session :
          k[1] \in DOMAIN d.room /\ k[2] \in DOMAIN d.persona
    /\ \A m \in DOMAIN d.message : d.message[m].room \in DOMAIN d.room
    /\ \A q \in d.quote : q[1] \in DOMAIN d.message /\ q[2] \in DOMAIN d.message
    /\ \A k \in DOMAIN d.session :
          d.session[k] # NoMessage =>
              /\ d.session[k] \in DOMAIN d.message
              /\ d.message[d.session[k]].room = k[1]

\* A reply names its run, and the run the same persona and room.
Traces(d) ==
    \A m \in DOMAIN d.message :
        d.message[m].author # Human =>
            /\ d.message[m].run \in DOMAIN d.run
            /\ d.run[d.message[m].run].persona = d.message[m].author
            /\ d.run[d.message[m].run].room = d.message[m].room

Sound(d) == Shape(d) /\ Unique(d) /\ Refers(d) /\ Traces(d)

-----------------------------------------------------------------------------
(* What each statement changes.                                            *)

\* Writing a row adds its key, gives it its value and leaves the other rows alone.
LEMMA PutKeeps ==
    ASSUME NEW f, NEW V, f \in [DOMAIN f -> V], NEW k, NEW v \in V
    PROVE  /\ DOMAIN Put(f, k, v) = DOMAIN f \cup {k}
           /\ Put(f, k, v) \in [DOMAIN Put(f, k, v) -> V]
           /\ Put(f, k, v)[k] = v
           /\ \A x \in DOMAIN f : x # k => Put(f, k, v)[x] = f[x]
BY DEF Put

\* Some of the rows of a table are a table.
LEMMA PartKeeps ==
    ASSUME NEW f, NEW V, f \in [DOMAIN f -> V], NEW S \in SUBSET DOMAIN f
    PROVE  /\ DOMAIN [k \in S |-> f[k]] = S
           /\ [k \in S |-> f[k]] \in [S -> V]
OBVIOUS

\* INSERT INTO persona writes one row of one table.
LEMMA InsertPersonaDoes ==
    ASSUME NEW d, Shape(d), NEW i \in Nat, NEW row \in Rows
    PROVE  LET e == InsertPersona(d, i, row)
           IN  /\ Shape(e)
               /\ e.persona = Put(d.persona, i, row)
               /\ e.author = d.author /\ e.room = d.room /\ e.member = d.member
               /\ e.message = d.message /\ e.quote = d.quote
               /\ e.session = d.session /\ e.run = d.run
BY DEF InsertPersona, Shape, Fields, Put

\* UPDATE persona writes one row that is there.
LEMMA UpdatePersonaDoes ==
    ASSUME NEW d, Shape(d), NEW i \in Nat, NEW row \in Rows
    PROVE  LET e == UpdatePersona(d, i, row)
           IN  /\ Shape(e)
               /\ DOMAIN e.persona = DOMAIN d.persona
               /\ \A j \in DOMAIN e.persona :
                     e.persona[j] = IF j = i THEN row ELSE d.persona[j]
               /\ e.author = d.author /\ e.room = d.room /\ e.member = d.member
               /\ e.message = d.message /\ e.quote = d.quote
               /\ e.session = d.session /\ e.run = d.run
BY DEF UpdatePersona, Shape, Fields

\* DELETE FROM persona takes one row.
LEMMA DeletePersonaDoes ==
    ASSUME NEW d, Shape(d), NEW i \in Nat
    PROVE  LET e == DeletePersona(d, i)
           IN  /\ Shape(e)
               /\ e.persona = [j \in DOMAIN d.persona \ {i} |-> d.persona[j]]
               /\ e.member = [k \in {k \in DOMAIN d.member : k[2] # i} |-> d.member[k]]
               /\ e.session = [k \in {k \in DOMAIN d.session : k[2] # i} |-> d.session[k]]
               /\ e.author = d.author /\ e.room = d.room
               /\ e.message = d.message /\ e.quote = d.quote /\ e.run = d.run
BY DEF DeletePersona, Shape, Fields, Without, Restrict

\* Authors come and go in a table that nothing refers to.
LEMMA AuthorsDo ==
    ASSUME NEW d, Shape(d), NEW name \in {Me, Boss, Guest}
    PROVE  \A e \in {InsertAuthor(d, name), DeleteAuthor(d, name)} :
               /\ Shape(e)
               /\ e.author \in {d.author \cup {name}, d.author \ {name}}
               /\ e.persona = d.persona /\ e.room = d.room /\ e.member = d.member
               /\ e.message = d.message /\ e.quote = d.quote
               /\ e.session = d.session /\ e.run = d.run
BY DEF InsertAuthor, DeleteAuthor, Shape, Fields

\* INSERT INTO room adds one id.
LEMMA InsertRoomDoes ==
    ASSUME NEW d, Shape(d), NEW r \in Nat
    PROVE  LET e == InsertRoom(d, r)
           IN  /\ Shape(e)
               /\ DOMAIN e.room = DOMAIN d.room \cup {r}
               /\ e.persona = d.persona /\ e.author = d.author /\ e.member = d.member
               /\ e.message = d.message /\ e.quote = d.quote
               /\ e.session = d.session /\ e.run = d.run
BY DEF InsertRoom, Shape, Fields, Put

\* UPDATE room changes no row that is kept here.
LEMMA UpdateRoomDoes ==
    ASSUME NEW d, Shape(d), NEW r \in Nat, NEW archived
    PROVE  LET e == UpdateRoom(d, r, archived)
           IN  /\ Shape(e)
               /\ DOMAIN e.room = DOMAIN d.room
               /\ e.persona = d.persona /\ e.author = d.author /\ e.member = d.member
               /\ e.message = d.message /\ e.quote = d.quote
               /\ e.session = d.session /\ e.run = d.run
BY DEF UpdateRoom, Shape, Fields

\* DELETE FROM room cascades: members, sessions and messages of the room go, and quotes
\* with the message at either end; its runs stay.
LEMMA DeleteRoomDoes ==
    ASSUME NEW d, Shape(d), NEW r \in Nat
    PROVE  LET e == DeleteRoom(d, r)
               kept == {m \in DOMAIN d.message : d.message[m].room # r}
           IN  /\ Shape(e)
               /\ DOMAIN e.room = DOMAIN d.room \ {r}
               /\ e.member = [k \in {k \in DOMAIN d.member : k[1] # r} |-> d.member[k]]
               /\ e.session = [k \in {k \in DOMAIN d.session : k[1] # r} |-> d.session[k]]
               /\ e.message = [m \in kept |-> d.message[m]]
               /\ Refers(d) => e.quote = {q \in d.quote : q[1] \in kept /\ q[2] \in kept}
               /\ e.persona = d.persona /\ e.author = d.author /\ e.run = d.run
<1> DEFINE e == DeleteRoom(d, r)
           rows == {k \in DOMAIN d.member \cup DOMAIN d.session : k[1] = r}
           messages == {m \in DOMAIN d.message : d.message[m].room = r}
           kept == {m \in DOMAIN d.message : d.message[m].room # r}
<1>1. /\ e = [f \in Fields |-> e[f]]
      /\ e.persona = d.persona /\ e.author = d.author /\ e.run = d.run
      /\ e.room = Without(d.room, {r})
      /\ e.member = Without(d.member, rows)
      /\ e.session = Without(d.session, rows)
      /\ e.message = Without(d.message, messages)
      /\ e.quote = {q \in d.quote : q[1] \notin messages /\ q[2] \notin messages}
  BY DEF DeleteRoom, Shape, Fields
<1>2. DOMAIN d.message \ messages = kept
  OBVIOUS
<1>3. /\ DOMAIN d.member \ rows = {k \in DOMAIN d.member : k[1] # r}
      /\ DOMAIN d.session \ rows = {k \in DOMAIN d.session : k[1] # r}
  OBVIOUS
<1> HIDE DEF e, rows, messages
<1>4. /\ DOMAIN e.room = DOMAIN d.room \ {r}
      /\ e.member = [k \in {k \in DOMAIN d.member : k[1] # r} |-> d.member[k]]
      /\ e.session = [k \in {k \in DOMAIN d.session : k[1] # r} |-> d.session[k]]
      /\ e.message = [m \in kept |-> d.message[m]]
  BY <1>1, <1>2, <1>3 DEF Without, Restrict
<1>5. Refers(d) => e.quote = {q \in d.quote : q[1] \in kept /\ q[2] \in kept}
  BY <1>1, <1>2 DEF Refers
<1>6. Shape(e)
  <2> DEFINE M == {k \in DOMAIN d.member : k[1] # r}
             S == {k \in DOMAIN d.session : k[1] # r}
  <2>0. M \in SUBSET DOMAIN d.member /\ S \in SUBSET DOMAIN d.session
    OBVIOUS
  <2>a. e.member = [k \in M |-> d.member[k]] /\ e.session = [k \in S |-> d.session[k]]
    BY <1>4
  <2> HIDE DEF M, S
  <2>1. /\ e.member \in [DOMAIN e.member -> Nat]
        /\ DOMAIN e.member \subseteq Nat \X Nat
    BY <2>0, <2>a DEF Shape
  <2>2. /\ e.session \in [DOMAIN e.session -> Nat]
        /\ DOMAIN e.session \subseteq Nat \X Nat
    BY <2>0, <2>a DEF Shape
  <2>3. e.message \in [DOMAIN e.message -> Messages]
    BY <1>4 DEF Shape
  <2>4. e.quote \subseteq Nat \X Nat
    BY <1>1 DEF Shape
  <2> QED
    BY <1>1, <2>1, <2>2, <2>3, <2>4 DEF Shape
<1> QED
  BY <1>1, <1>4, <1>5, <1>6 DEF e

\* INSERT INTO room_persona writes one row, at its place.
LEMMA InsertMemberDoes ==
    ASSUME NEW d, Shape(d), NEW r \in Nat, NEW p \in Nat, NEW place \in Nat
    PROVE  LET e == InsertMember(d, r, p, place)
           IN  /\ Shape(e)
               /\ e.member = Put(d.member, <<r, p>>, place)
               /\ e.persona = d.persona /\ e.author = d.author /\ e.room = d.room
               /\ e.message = d.message /\ e.quote = d.quote
               /\ e.session = d.session /\ e.run = d.run
<1> DEFINE e == InsertMember(d, r, p, place)
<1>1. /\ e = [f \in Fields |-> e[f]]
      /\ e.member = Put(d.member, <<r, p>>, place)
      /\ e.persona = d.persona /\ e.author = d.author /\ e.room = d.room
      /\ e.message = d.message /\ e.quote = d.quote
      /\ e.session = d.session /\ e.run = d.run
  BY DEF InsertMember, Shape, Fields
<1>2. d.member \in [DOMAIN d.member -> Nat] /\ DOMAIN d.member \subseteq Nat \X Nat
  BY DEF Shape
<1> DEFINE k == <<r, p>>
<1>3. k \in Nat \X Nat /\ e.member = Put(d.member, k, place)
  BY <1>1
<1> HIDE DEF e, k
<1>4. /\ e.member \in [DOMAIN e.member -> Nat]
      /\ DOMAIN e.member = DOMAIN d.member \cup {k}
  BY <1>2, <1>3 DEF Put
<1>5. Shape(e)
  BY <1>1, <1>2, <1>3, <1>4 DEF Shape
<1> QED
  BY <1>1, <1>5 DEF e

\* DELETE FROM room_persona takes one row.
LEMMA DeleteMemberDoes ==
    ASSUME NEW d, Shape(d), NEW r \in Nat, NEW p \in Nat
    PROVE  LET e == DeleteMember(d, r, p)
           IN  /\ Shape(e)
               /\ e.member = [k \in DOMAIN d.member \ {<<r, p>>} |-> d.member[k]]
               /\ e.persona = d.persona /\ e.author = d.author /\ e.room = d.room
               /\ e.message = d.message /\ e.quote = d.quote
               /\ e.session = d.session /\ e.run = d.run
BY DEF DeleteMember, Shape, Fields, Without, Restrict

\* INSERT INTO message writes one row.
LEMMA InsertMessageDoes ==
    ASSUME NEW d, Shape(d), NEW m \in Nat, NEW r \in Nat, NEW author \in Nat, NEW run \in Nat
    PROVE  LET e == InsertMessage(d, m, r, author, run)
           IN  /\ Shape(e)
               /\ e.message = Put(d.message, m, [room |-> r, author |-> author, run |-> run])
               /\ e.persona = d.persona /\ e.author = d.author /\ e.room = d.room
               /\ e.member = d.member /\ e.quote = d.quote
               /\ e.session = d.session /\ e.run = d.run
BY DEF InsertMessage, Shape, Fields, Put, Messages

\* INSERT INTO message_quote adds the quotes of one message.
LEMMA InsertQuotesDo ==
    ASSUME NEW d, Shape(d), NEW m \in Nat, NEW quoted \in SUBSET Nat
    PROVE  LET e == InsertQuotes(d, m, quoted)
           IN  /\ Shape(e)
               /\ e.quote = d.quote \cup ({m} \X quoted)
               /\ e.persona = d.persona /\ e.author = d.author /\ e.room = d.room
               /\ e.member = d.member /\ e.message = d.message
               /\ e.session = d.session /\ e.run = d.run
BY DEF InsertQuotes, Shape, Fields

\* The upsert of a session writes one row, new or not.
LEMMA UpsertSessionDoes ==
    ASSUME NEW d, Shape(d), NEW r \in Nat, NEW p \in Nat, NEW seen \in Nat
    PROVE  LET e == UpsertSession(d, r, p, seen)
           IN  /\ Shape(e)
               /\ e.session = Put(d.session, <<r, p>>, seen)
               /\ e.persona = d.persona /\ e.author = d.author /\ e.room = d.room
               /\ e.member = d.member /\ e.message = d.message
               /\ e.quote = d.quote /\ e.run = d.run
BY DEF UpsertSession, Shape, Fields, Put

\* INSERT INTO run_record writes one row, without an end.
LEMMA InsertRunDoes ==
    ASSUME NEW d, Shape(d), NEW n \in Nat, NEW r \in Nat, NEW p \in Nat
    PROVE  LET e == InsertRun(d, n, r, p)
           IN  /\ Shape(e)
               /\ e.run = Put(d.run, n, [room |-> r, persona |-> p, end |-> "open"])
               /\ e.persona = d.persona /\ e.author = d.author /\ e.room = d.room
               /\ e.member = d.member /\ e.message = d.message
               /\ e.quote = d.quote /\ e.session = d.session
BY DEF InsertRun, Shape, Fields, Put, Runs

\* UPDATE run_record gives one run its end.
LEMMA FinalizeRunDoes ==
    ASSUME NEW d, Shape(d), NEW n \in DOMAIN d.run, NEW end \in {"ok", "error"}
    PROVE  LET e == FinalizeRun(d, n, end)
           IN  /\ Shape(e)
               /\ DOMAIN e.run = DOMAIN d.run
               /\ \A x \in DOMAIN d.run :
                     /\ e.run[x].room = d.run[x].room
                     /\ e.run[x].persona = d.run[x].persona
                     /\ e.run[x].end = IF x = n THEN end ELSE d.run[x].end
               /\ e.persona = d.persona /\ e.author = d.author /\ e.room = d.room
               /\ e.member = d.member /\ e.message = d.message
               /\ e.quote = d.quote /\ e.session = d.session
<1> DEFINE e == FinalizeRun(d, n, end)
           row == [d.run[n] EXCEPT !.end = end]
<1>1. /\ e = [f \in Fields |-> e[f]]
      /\ e.run = [d.run EXCEPT ![n] = row]
      /\ e.persona = d.persona /\ e.author = d.author /\ e.room = d.room
      /\ e.member = d.member /\ e.message = d.message
      /\ e.quote = d.quote /\ e.session = d.session
  BY DEF FinalizeRun, Shape, Fields
<1>2. /\ row \in Runs
      /\ row.room = d.run[n].room /\ row.persona = d.run[n].persona /\ row.end = end
  BY DEF Shape, Runs
<1> HIDE DEF e, row
<1>3. e.run \in [DOMAIN e.run -> Runs]
  BY <1>1, <1>2 DEF Shape
<1>4. Shape(e)
  BY <1>1, <1>3 DEF Shape
<1>5. /\ DOMAIN e.run = DOMAIN d.run
      /\ \A x \in DOMAIN d.run : e.run[x] = IF x = n THEN row ELSE d.run[x]
  BY <1>1
<1> QED
  BY <1>1, <1>2, <1>4, <1>5 DEF e

-----------------------------------------------------------------------------
(* What each statement preserves.                                          *)

\* A new persona leaves the tables sound if no other has its handle.
LEMMA InsertPersonaKeeps ==
    ASSUME NEW d, Sound(d), NEW i \in Nat \ DOMAIN d.persona, NEW row \in Rows,
           row.handle \notin Handles(d)
    PROVE  Sound(InsertPersona(d, i, row))
<1> DEFINE e == InsertPersona(d, i, row)
<1>1. /\ Shape(e)
      /\ e.persona = Put(d.persona, i, row)
      /\ e.room = d.room /\ e.member = d.member /\ e.message = d.message
      /\ e.quote = d.quote /\ e.session = d.session /\ e.run = d.run
  BY InsertPersonaDoes DEF Sound
<1> HIDE DEF e
<1>2. Unique(e)
  BY <1>1 DEF Sound, Unique, Put, Handles
<1>3. Refers(e)
  BY <1>1 DEF Sound, Refers, Put
<1>4. Traces(e)
  BY <1>1 DEF Sound, Traces
<1> QED
  BY <1>1, <1>2, <1>3, <1>4 DEF Sound, e

\* So does an edit that changes no handle to one that is taken.
LEMMA UpdatePersonaKeeps ==
    ASSUME NEW d, Sound(d), NEW i \in Nat, NEW row \in Rows, HandleFree(d, i, row.handle)
    PROVE  Sound(UpdatePersona(d, i, row))
<1> DEFINE e == UpdatePersona(d, i, row)
<1>1. /\ Shape(e)
      /\ DOMAIN e.persona = DOMAIN d.persona
      /\ \A j \in DOMAIN e.persona : e.persona[j] = IF j = i THEN row ELSE d.persona[j]
      /\ e.room = d.room /\ e.member = d.member /\ e.message = d.message
      /\ e.quote = d.quote /\ e.session = d.session /\ e.run = d.run
  BY UpdatePersonaDoes DEF Sound
<1> HIDE DEF e
<1>2. Unique(e)
  BY <1>1 DEF Sound, Unique, HandleFree
<1>3. Refers(e)
  BY <1>1 DEF Sound, Refers
<1>4. Traces(e)
  BY <1>1 DEF Sound, Traces
<1> QED
  BY <1>1, <1>2, <1>3, <1>4 DEF Sound, e

\* A persona may go once no member and no session refers to it.
LEMMA DeletePersonaKeeps ==
    ASSUME NEW d, Sound(d), NEW i \in Nat
    PROVE  Sound(DeletePersona(d, i))
<1> DEFINE e == DeletePersona(d, i)
<1>1. /\ Shape(e)
      /\ e.persona = [j \in DOMAIN d.persona \ {i} |-> d.persona[j]]
      /\ e.member = [k \in {k \in DOMAIN d.member : k[2] # i} |-> d.member[k]]
      /\ e.session = [k \in {k \in DOMAIN d.session : k[2] # i} |-> d.session[k]]
      /\ e.room = d.room /\ e.message = d.message
      /\ e.quote = d.quote /\ e.run = d.run
  BY DeletePersonaDoes DEF Sound
<1> HIDE DEF e
<1>2. Unique(e)
  BY <1>1 DEF Sound, Unique
<1>3. Refers(e)
  BY <1>1 DEF Sound, Refers
<1>4. Traces(e)
  BY <1>1 DEF Sound, Traces
<1> QED
  BY <1>1, <1>2, <1>3, <1>4 DEF Sound, e

\* Authors may come and go.
LEMMA AuthorsKeep ==
    ASSUME NEW d, Sound(d), NEW name \in {Me, Boss, Guest}
    PROVE  Sound(InsertAuthor(d, name)) /\ Sound(DeleteAuthor(d, name))
<1>1. ASSUME NEW e \in {InsertAuthor(d, name), DeleteAuthor(d, name)} PROVE Sound(e)
  <2>1. /\ Shape(e)
        /\ e.persona = d.persona /\ e.room = d.room /\ e.member = d.member
        /\ e.message = d.message /\ e.quote = d.quote
        /\ e.session = d.session /\ e.run = d.run
    BY AuthorsDo DEF Sound
  <2> QED
    BY <2>1 DEF Sound, Unique, Refers, Traces
<1> QED
  BY <1>1

\* Rooms may come.
LEMMA InsertRoomKeeps ==
    ASSUME NEW d, Sound(d), NEW r \in Nat
    PROVE  Sound(InsertRoom(d, r))
<1> DEFINE e == InsertRoom(d, r)
<1>1. /\ Shape(e)
      /\ DOMAIN e.room = DOMAIN d.room \cup {r}
      /\ e.persona = d.persona /\ e.member = d.member
      /\ e.message = d.message /\ e.quote = d.quote
      /\ e.session = d.session /\ e.run = d.run
  BY InsertRoomDoes DEF Sound
<1> HIDE DEF e
<1> QED
  BY <1>1 DEF Sound, Unique, Refers, Traces, e

\* Rooms may be renamed and archived.
LEMMA UpdateRoomKeeps ==
    ASSUME NEW d, Sound(d), NEW r \in Nat, NEW archived
    PROVE  Sound(UpdateRoom(d, r, archived))
<1> DEFINE e == UpdateRoom(d, r, archived)
<1>1. /\ Shape(e)
      /\ DOMAIN e.room = DOMAIN d.room
      /\ e.persona = d.persona /\ e.member = d.member
      /\ e.message = d.message /\ e.quote = d.quote
      /\ e.session = d.session /\ e.run = d.run
  BY UpdateRoomDoes DEF Sound
<1> HIDE DEF e
<1> QED
  BY <1>1 DEF Sound, Unique, Refers, Traces, e

\* A room may go: the cascade leaves no row that refers to it or to its messages.
LEMMA DeleteRoomKeeps ==
    ASSUME NEW d, Sound(d), NEW r \in Nat
    PROVE  Sound(DeleteRoom(d, r))
<1> DEFINE e == DeleteRoom(d, r)
           kept == {m \in DOMAIN d.message : d.message[m].room # r}
<1>1. /\ Shape(e)
      /\ DOMAIN e.room = DOMAIN d.room \ {r}
      /\ e.member = [k \in {k \in DOMAIN d.member : k[1] # r} |-> d.member[k]]
      /\ e.session = [k \in {k \in DOMAIN d.session : k[1] # r} |-> d.session[k]]
      /\ e.message = [m \in kept |-> d.message[m]]
      /\ e.quote = {q \in d.quote : q[1] \in kept /\ q[2] \in kept}
      /\ e.persona = d.persona /\ e.run = d.run
  BY DeleteRoomDoes DEF Sound
<1> HIDE DEF e
<1>2. Unique(e)
  BY <1>1 DEF Sound, Unique
<1>3. Refers(e)
  BY <1>1 DEF Sound, Refers
<1>4. Traces(e)
  BY <1>1 DEF Sound, Traces
<1> QED
  BY <1>1, <1>2, <1>3, <1>4 DEF Sound, e

\* A member must refer to a room and to a persona.
LEMMA InsertMemberKeeps ==
    ASSUME NEW d, Sound(d), NEW r \in Nat, NEW p \in Nat, NEW place \in Nat,
           MemberAllowed(d, r, p)
    PROVE  Sound(InsertMember(d, r, p, place))
<1> DEFINE e == InsertMember(d, r, p, place)
<1>1. /\ Shape(e)
      /\ e.member = Put(d.member, <<r, p>>, place)
      /\ e.persona = d.persona /\ e.room = d.room
      /\ e.message = d.message /\ e.quote = d.quote
      /\ e.session = d.session /\ e.run = d.run
  BY InsertMemberDoes DEF Sound
<1> HIDE DEF e
<1>2. Refers(e)
  BY <1>1 DEF Sound, Refers, Put, MemberAllowed
<1> QED
  BY <1>1, <1>2 DEF Sound, Unique, Traces, e

\* Members may go.
LEMMA DeleteMemberKeeps ==
    ASSUME NEW d, Sound(d), NEW r \in Nat, NEW p \in Nat
    PROVE  Sound(DeleteMember(d, r, p))
<1> DEFINE e == DeleteMember(d, r, p)
<1>1. /\ Shape(e)
      /\ e.member = [k \in DOMAIN d.member \ {<<r, p>>} |-> d.member[k]]
      /\ e.persona = d.persona /\ e.room = d.room
      /\ e.message = d.message /\ e.quote = d.quote
      /\ e.session = d.session /\ e.run = d.run
  BY DeleteMemberDoes DEF Sound
<1> HIDE DEF e
<1>2. Refers(e)
  BY <1>1 DEF Sound, Refers
<1> QED
  BY <1>1, <1>2 DEF Sound, Unique, Traces, e

\* A message must refer to its room and, unless it is the human's, to a run of its author
\* in that room.
LEMMA InsertMessageKeeps ==
    ASSUME NEW d, Sound(d), NEW m \in Nat \ DOMAIN d.message,
           NEW r \in Nat, r \in DOMAIN d.room, NEW author \in Nat, NEW run \in Nat,
           author # Human =>
               /\ run \in DOMAIN d.run
               /\ d.run[run].persona = author /\ d.run[run].room = r
    PROVE  Sound(InsertMessage(d, m, r, author, run))
<1> DEFINE e == InsertMessage(d, m, r, author, run)
           row == [room |-> r, author |-> author, run |-> run]
<1>1. /\ Shape(e)
      /\ e.message = Put(d.message, m, row)
      /\ e.persona = d.persona /\ e.room = d.room
      /\ e.member = d.member /\ e.quote = d.quote
      /\ e.session = d.session /\ e.run = d.run
  BY InsertMessageDoes DEF Sound
<1>2. row.room = r /\ row.author = author /\ row.run = run
  OBVIOUS
<1> HIDE DEF e, row
<1>3. /\ DOMAIN e.message = DOMAIN d.message \cup {m} /\ e.message[m] = row
      /\ \A n \in DOMAIN d.message : e.message[n] = d.message[n]
  BY <1>1 DEF Put
<1>4. Refers(e)
  BY <1>1, <1>2, <1>3 DEF Sound, Refers
<1>5. Traces(e)
  BY <1>1, <1>2, <1>3 DEF Sound, Traces
<1> QED
  BY <1>1, <1>4, <1>5 DEF Sound, Unique, e

\* Quotes must refer to messages.
LEMMA InsertQuotesKeep ==
    ASSUME NEW d, Sound(d), NEW m \in Nat, m \in DOMAIN d.message,
           NEW quoted \in SUBSET Nat, QuotesAllowed(d, quoted)
    PROVE  Sound(InsertQuotes(d, m, quoted))
<1> DEFINE e == InsertQuotes(d, m, quoted)
<1>0. Shape(d)
  BY DEF Sound
<1>1. /\ Shape(e)
      /\ e.quote = d.quote \cup ({m} \X quoted)
      /\ e.persona = d.persona /\ e.author = d.author /\ e.room = d.room
      /\ e.member = d.member /\ e.message = d.message
      /\ e.session = d.session /\ e.run = d.run
  <2> HIDE DEF Shape
  <2> QED
    BY <1>0, InsertQuotesDo, Zenon
<1> HIDE DEF e
<1>2. Refers(e)
  BY <1>1 DEF Sound, Refers, QuotesAllowed
<1> QED
  BY <1>1, <1>2 DEF Sound, Unique, Traces, e

\* A session must refer to a room, to a persona, and its pointer to a message of the room.
LEMMA UpsertSessionKeeps ==
    ASSUME NEW d, Sound(d), NEW r \in Nat, NEW p \in Nat, NEW seen \in Nat,
           SessionAllowed(d, r, p),
           seen # NoMessage => seen \in DOMAIN d.message /\ d.message[seen].room = r
    PROVE  Sound(UpsertSession(d, r, p, seen))
<1> DEFINE e == UpsertSession(d, r, p, seen)
<1>1. /\ Shape(e)
      /\ e.session = Put(d.session, <<r, p>>, seen)
      /\ e.persona = d.persona /\ e.room = d.room
      /\ e.member = d.member /\ e.message = d.message
      /\ e.quote = d.quote /\ e.run = d.run
  BY UpsertSessionDoes DEF Sound
<1> HIDE DEF e
<1>2. Refers(e)
  BY <1>1 DEF Sound, Refers, Put, SessionAllowed
<1> QED
  BY <1>1, <1>2 DEF Sound, Unique, Traces, e

\* Runs may come.
LEMMA InsertRunKeeps ==
    ASSUME NEW d, Sound(d), NEW n \in Nat \ DOMAIN d.run, NEW r \in Nat, NEW p \in Nat
    PROVE  Sound(InsertRun(d, n, r, p))
<1> DEFINE e == InsertRun(d, n, r, p)
<1>0. Shape(d)
  BY DEF Sound
<1>1. /\ Shape(e)
      /\ e.run = Put(d.run, n, [room |-> r, persona |-> p, end |-> "open"])
      /\ e.persona = d.persona /\ e.room = d.room
      /\ e.member = d.member /\ e.message = d.message
      /\ e.quote = d.quote /\ e.session = d.session
  BY <1>0, InsertRunDoes
<1> HIDE DEF e
<1>2. Traces(e)
  BY <1>1 DEF Sound, Traces, Put
<1> QED
  BY <1>1, <1>2 DEF Sound, Unique, Refers, e

\* A run may end: neither its persona nor its room changes.
LEMMA FinalizeRunKeeps ==
    ASSUME NEW d, Sound(d), NEW n \in DOMAIN d.run, NEW end \in {"ok", "error"}
    PROVE  Sound(FinalizeRun(d, n, end))
<1> DEFINE e == FinalizeRun(d, n, end)
<1>0. Shape(d)
  BY DEF Sound
<1>1. /\ Shape(e)
      /\ DOMAIN e.run = DOMAIN d.run
      /\ \A x \in DOMAIN d.run : /\ e.run[x].room = d.run[x].room
                                 /\ e.run[x].persona = d.run[x].persona
      /\ e.persona = d.persona /\ e.room = d.room
      /\ e.member = d.member /\ e.message = d.message
      /\ e.quote = d.quote /\ e.session = d.session
  BY <1>0, FinalizeRunDoes
<1> HIDE DEF e
<1>2. Traces(e)
  BY <1>1 DEF Sound, Traces
<1> QED
  BY <1>1, <1>2 DEF Sound, Unique, Refers, e
-----------------------------------------------------------------------------
(* What the script's statements change and preserve.                       *)

\* Repointing moves the rows of the copy to the original unless it has a row already, and
\* leaves the others alone.
LEMMA RepointRowsDo ==
    ASSUME NEW f, f \in [DOMAIN f -> Nat], DOMAIN f \subseteq Nat \X Nat,
           NEW copy \in Nat, NEW original \in Nat, copy # original
    PROVE  LET g == RepointRows(f, copy, original)
           IN  /\ g \in [DOMAIN g -> Nat] /\ DOMAIN g \subseteq Nat \X Nat
               /\ \A k \in DOMAIN g :
                     /\ k[2] # copy
                     /\ k \in DOMAIN f => g[k] = f[k]
                     /\ k \notin DOMAIN f =>
                           /\ k[2] = original
                           /\ <<k[1], copy>> \in DOMAIN f /\ g[k] = f[<<k[1], copy>>]
               /\ \A k \in DOMAIN f : k[2] # copy => k \in DOMAIN g
               /\ \A k \in DOMAIN f : k[2] = copy => <<k[1], original>> \in DOMAIN g
<1> DEFINE kept == {k \in DOMAIN f : k[2] # copy}
           moved == {k \in DOMAIN f : k[2] = copy}
           keys == kept \cup {<<m[1], original>> : m \in moved}
           g == RepointRows(f, copy, original)
<1>1. g = [k \in keys |-> IF k \in kept THEN f[k] ELSE f[<<k[1], copy>>]]
  BY DEF RepointRows
<1>2. \A k \in DOMAIN f : k = <<k[1], k[2]>> /\ k[1] \in Nat /\ k[2] \in Nat
  OBVIOUS
<1>3. ASSUME NEW k \in keys
      PROVE  /\ k \in Nat \X Nat /\ k[2] # copy
             /\ k \in DOMAIN f => k \in kept
             /\ k \notin DOMAIN f =>
                   k[2] = original /\ k \notin kept /\ <<k[1], copy>> \in DOMAIN f
  <2>1. CASE k \in kept
    BY <2>1, <1>2
  <2>2. CASE k \notin kept
    <3>1. PICK m \in moved : k = <<m[1], original>>
      BY <2>2
    <3>2. m \in DOMAIN f /\ m = <<m[1], copy>> /\ m[1] \in Nat
      BY <1>2, <3>1
    <3>3. k[1] = m[1] /\ k[2] = original
      BY <3>1
    <3> QED
      BY <2>2, <3>1, <3>2, <3>3
  <2> QED
    BY <2>1, <2>2
<1>4. \A k \in DOMAIN f : k[2] # copy => k \in keys
  OBVIOUS
<1>5. \A k \in DOMAIN f : k[2] = copy => <<k[1], original>> \in keys
  OBVIOUS
<1>6. kept \subseteq DOMAIN f
  OBVIOUS
<1> HIDE DEF g, keys, kept, moved
<1>7. DOMAIN g = keys
  BY <1>1
<1>8. ASSUME NEW k \in DOMAIN g
      PROVE  /\ k \in Nat \X Nat /\ k[2] # copy
             /\ k \in DOMAIN f => g[k] = f[k]
             /\ k \notin DOMAIN f => /\ k[2] = original
                                     /\ <<k[1], copy>> \in DOMAIN f
                                     /\ g[k] = f[<<k[1], copy>>]
  BY <1>1, <1>3, <1>7, <1>8
<1>9. \A k \in DOMAIN g : g[k] \in Nat
  BY <1>8
<1>10. g \in [DOMAIN g -> Nat]
  BY <1>1, <1>7, <1>9
<1> QED
  BY <1>4, <1>5, <1>7, <1>8, <1>10 DEF g

\* A message of the copy becomes one of the original, in its room and of its run.
LEMMA SaidByDoes ==
    ASSUME NEW message \in Messages, NEW copy \in Nat, NEW original \in Nat
    PROVE  LET said == SaidBy(message, copy, original)
           IN  /\ said \in Messages
               /\ said = [message EXCEPT !.author = IF @ = copy THEN original ELSE @]
               /\ said.room = message.room /\ said.run = message.run
               /\ said.author = IF message.author = copy THEN original ELSE message.author
BY DEF SaidBy, Messages

\* A run of the copy becomes one of the original.
LEMMA RanByDoes ==
    ASSUME NEW run \in Runs, NEW copy \in Nat, NEW original \in Nat
    PROVE  LET ran == RanBy(run, copy, original)
           IN  /\ ran \in Runs
               /\ ran.room = run.room /\ ran.end = run.end
               /\ ran.persona = IF run.persona = copy THEN original ELSE run.persona
BY DEF RanBy, Runs

\* What a merge changes: the copy goes, and what referred to it refers to the original.
LEMMA MergeDoes ==
    ASSUME NEW d, Shape(d), NEW copy \in Nat, NEW original \in Nat, copy # original
    PROVE  LET e == Merge(d, copy, original)
           IN  /\ Shape(e)
               /\ e.persona = [j \in DOMAIN d.persona \ {copy} |-> d.persona[j]]
               /\ e.author = d.author /\ e.room = d.room /\ e.quote = d.quote
               /\ DOMAIN e.message = DOMAIN d.message
               /\ \A m \in DOMAIN d.message : e.message[m] = SaidBy(d.message[m], copy, original)
               /\ DOMAIN e.run = DOMAIN d.run
               /\ \A n \in DOMAIN d.run : e.run[n] = RanBy(d.run[n], copy, original)
               /\ e.member = RepointRows(d.member, copy, original)
               /\ e.session = RepointRows(d.session, copy, original)
<1> DEFINE c == Repoint(d, copy, original)
           e == DeletePersona(c, copy)
           said == [m \in DOMAIN d.message |-> SaidBy(d.message[m], copy, original)]
           ran == [n \in DOMAIN d.run |-> RanBy(d.run[n], copy, original)]
           members == RepointRows(d.member, copy, original)
           sessions == RepointRows(d.session, copy, original)
<1>1. /\ d.member \in [DOMAIN d.member -> Nat] /\ DOMAIN d.member \subseteq Nat \X Nat
      /\ d.session \in [DOMAIN d.session -> Nat] /\ DOMAIN d.session \subseteq Nat \X Nat
      /\ d.message \in [DOMAIN d.message -> Messages]
      /\ d.run \in [DOMAIN d.run -> Runs]
  BY DEF Shape
<1>2. /\ members \in [DOMAIN members -> Nat] /\ DOMAIN members \subseteq Nat \X Nat
      /\ \A k \in DOMAIN members : k[2] # copy
  <2> DEFINE f == d.member
             g == RepointRows(f, copy, original)
  <2>1. f \in [DOMAIN f -> Nat] /\ DOMAIN f \subseteq Nat \X Nat
    BY <1>1
  <2> HIDE DEF f
  <2>2. g \in [DOMAIN g -> Nat] /\ DOMAIN g \subseteq Nat \X Nat /\ \A k \in DOMAIN g : k[2] # copy
    BY <2>1, RepointRowsDo
  <2> QED
    BY <2>2 DEF f
<1>3. /\ sessions \in [DOMAIN sessions -> Nat] /\ DOMAIN sessions \subseteq Nat \X Nat
      /\ \A k \in DOMAIN sessions : k[2] # copy
  BY <1>1, RepointRowsDo
<1>4. said \in [DOMAIN d.message -> Messages]
  BY <1>1, SaidByDoes
<1>5. ran \in [DOMAIN d.run -> Runs]
  BY <1>1, RanByDoes
<1>6. /\ DOMAIN said = DOMAIN d.message
      /\ \A m \in DOMAIN d.message : said[m] = SaidBy(d.message[m], copy, original)
      /\ DOMAIN ran = DOMAIN d.run
      /\ \A n \in DOMAIN d.run : ran[n] = RanBy(d.run[n], copy, original)
  OBVIOUS
<1>7. c = [d EXCEPT !.message = said, !.run = ran, !.member = members, !.session = sessions]
  BY DEF Repoint
<1> HIDE DEF c, said, ran, members, sessions
<1>8. /\ c = [f \in Fields |-> c[f]]
      /\ c.message = said /\ c.run = ran /\ c.member = members /\ c.session = sessions
      /\ c.persona = d.persona /\ c.author = d.author /\ c.room = d.room /\ c.quote = d.quote
  BY <1>7 DEF Shape, Fields
<1>9. Shape(c)
  BY <1>2, <1>3, <1>4, <1>5, <1>6, <1>8 DEF Shape
<1>10. /\ Shape(e)
       /\ e.persona = [j \in DOMAIN c.persona \ {copy} |-> c.persona[j]]
       /\ e.member = [k \in {k \in DOMAIN c.member : k[2] # copy} |-> c.member[k]]
       /\ e.session = [k \in {k \in DOMAIN c.session : k[2] # copy} |-> c.session[k]]
       /\ e.author = c.author /\ e.room = c.room
       /\ e.message = c.message /\ e.quote = c.quote /\ e.run = c.run
  BY <1>9, DeletePersonaDoes
<1>11. /\ {k \in DOMAIN members : k[2] # copy} = DOMAIN members
       /\ {k \in DOMAIN sessions : k[2] # copy} = DOMAIN sessions
  BY <1>2, <1>3
<1> HIDE DEF e
<1>12. e.member = members
  BY <1>2, <1>8, <1>10, <1>11
<1>13. e.session = sessions
  BY <1>3, <1>8, <1>10, <1>11
<1>14. e = Merge(d, copy, original)
  BY DEF Merge, e, c
<1> QED
  BY <1>6, <1>8, <1>10, <1>12, <1>13, <1>14 DEF members, sessions

\* A merge leaves the tables sound: authors and their runs are repointed alike.
LEMMA MergeKeeps ==
    ASSUME NEW d, Sound(d), NEW copy \in Nat \ {Human}, NEW original \in Nat,
           original \in DOMAIN d.persona, copy # original
    PROVE  Sound(Merge(d, copy, original))
<1> DEFINE e == Merge(d, copy, original)
<1>0. Shape(d)
  BY DEF Sound
<1>1. /\ Shape(e)
      /\ e.persona = [j \in DOMAIN d.persona \ {copy} |-> d.persona[j]]
      /\ e.author = d.author /\ e.room = d.room /\ e.quote = d.quote
      /\ DOMAIN e.message = DOMAIN d.message
      /\ \A m \in DOMAIN d.message : e.message[m] = SaidBy(d.message[m], copy, original)
      /\ DOMAIN e.run = DOMAIN d.run
      /\ \A n \in DOMAIN d.run : e.run[n] = RanBy(d.run[n], copy, original)
      /\ e.member = RepointRows(d.member, copy, original)
      /\ e.session = RepointRows(d.session, copy, original)
  BY <1>0, MergeDoes
<1>2. \A k \in DOMAIN e.member :
          /\ k[2] # copy
          /\ k \notin DOMAIN d.member =>
                k[2] = original /\ <<k[1], copy>> \in DOMAIN d.member
  <2> DEFINE f == d.member
             g == RepointRows(f, copy, original)
  <2>1. f \in [DOMAIN f -> Nat] /\ DOMAIN f \subseteq Nat \X Nat
    BY <1>0 DEF Shape
  <2> HIDE DEF f
  <2>2. \A k \in DOMAIN g :
            /\ k[2] # copy
            /\ k \notin DOMAIN f => k[2] = original /\ <<k[1], copy>> \in DOMAIN f
    BY <2>1, RepointRowsDo
  <2> QED
    BY <1>1, <2>2 DEF f
<1>3. \A k \in DOMAIN e.session :
          /\ k[2] # copy
          /\ k \in DOMAIN d.session => e.session[k] = d.session[k]
          /\ k \notin DOMAIN d.session =>
                /\ k[2] = original
                /\ <<k[1], copy>> \in DOMAIN d.session
                /\ e.session[k] = d.session[<<k[1], copy>>]
  <2> DEFINE f == d.session
             g == RepointRows(f, copy, original)
  <2>1. f \in [DOMAIN f -> Nat] /\ DOMAIN f \subseteq Nat \X Nat
    BY <1>0 DEF Shape
  <2> HIDE DEF f
  <2>2. \A k \in DOMAIN g :
            /\ k[2] # copy
            /\ k \in DOMAIN f => g[k] = f[k]
            /\ k \notin DOMAIN f => /\ k[2] = original
                                    /\ <<k[1], copy>> \in DOMAIN f
                                    /\ g[k] = f[<<k[1], copy>>]
    BY <2>1, RepointRowsDo
  <2> QED
    BY <1>1, <2>2 DEF f
<1>4. \A m \in DOMAIN d.message :
          /\ e.message[m].room = d.message[m].room /\ e.message[m].run = d.message[m].run
          /\ e.message[m].author =
                IF d.message[m].author = copy THEN original ELSE d.message[m].author
  <2>1. \A m \in DOMAIN d.message : d.message[m] \in Messages
    BY <1>0 DEF Shape
  <2> QED
    BY <1>1, <2>1, SaidByDoes
<1>5. \A n \in DOMAIN d.run :
          /\ e.run[n].room = d.run[n].room
          /\ e.run[n].persona = IF d.run[n].persona = copy THEN original ELSE d.run[n].persona
  <2>1. \A n \in DOMAIN d.run : d.run[n] \in Runs
    BY <1>0 DEF Shape
  <2> QED
    BY <1>1, <2>1, RanByDoes
<1>6. DOMAIN e.persona = DOMAIN d.persona \ {copy}
  BY <1>1
<1>7. Unique(e)
  BY <1>1 DEF Sound, Unique
<1> HIDE DEF e
<1>8. Refers(e)
  <2>1. ASSUME NEW k \in DOMAIN e.member PROVE k[1] \in DOMAIN e.room /\ k[2] \in DOMAIN e.persona
    <3>1. <<k[1], copy>>[1] = k[1]
      OBVIOUS
    <3> QED
      BY <1>1, <1>2, <1>6, <2>1, <3>1 DEF Sound, Refers
  <2>2. ASSUME NEW k \in DOMAIN e.session
        PROVE  /\ k[1] \in DOMAIN e.room /\ k[2] \in DOMAIN e.persona
               /\ e.session[k] # NoMessage => /\ e.session[k] \in DOMAIN d.message
                                              /\ d.message[e.session[k]].room = k[1]
    <3>1. <<k[1], copy>>[1] = k[1]
      OBVIOUS
    <3> QED
      BY <1>1, <1>3, <1>6, <2>2, <3>1 DEF Sound, Refers
  <2>3. \A m \in DOMAIN e.message : e.message[m].room \in DOMAIN e.room
    BY <1>1, <1>4 DEF Sound, Refers
  <2>4. \A q \in e.quote : q[1] \in DOMAIN e.message /\ q[2] \in DOMAIN e.message
    BY <1>1 DEF Sound, Refers
  <2>5. \A k \in DOMAIN e.session :
            e.session[k] # NoMessage => /\ e.session[k] \in DOMAIN e.message
                                        /\ e.message[e.session[k]].room = k[1]
    BY <1>1, <1>4, <2>2
  <2> QED
    BY <2>1, <2>2, <2>3, <2>4, <2>5 DEF Refers
<1>9. Traces(e)
  <2> SUFFICES ASSUME NEW m \in DOMAIN e.message, e.message[m].author # Human
               PROVE  /\ e.message[m].run \in DOMAIN e.run
                      /\ e.run[e.message[m].run].persona = e.message[m].author
                      /\ e.run[e.message[m].run].room = e.message[m].room
    BY DEF Traces
  <2>1. m \in DOMAIN d.message /\ d.message[m].author # Human
    BY <1>1, <1>4
  <2>2. /\ d.message[m].run \in DOMAIN d.run
        /\ d.run[d.message[m].run].persona = d.message[m].author
        /\ d.run[d.message[m].run].room = d.message[m].room
    BY <2>1 DEF Sound, Traces
  <2> QED
    BY <1>1, <1>4, <1>5, <2>1, <2>2
<1> QED
  BY <1>1, <1>7, <1>8, <1>9 DEF Sound, e

\* The renaming changes names and roles of the team, no handle.
LEMMA RenameTeamDoes ==
    ASSUME NEW d, Shape(d)
    PROVE  LET e == RenameTeam(d)
           IN  /\ Shape(e)
               /\ DOMAIN e.persona = DOMAIN d.persona
               /\ \A i \in DOMAIN d.persona :
                     /\ e.persona[i].handle = d.persona[i].handle
                     /\ e.persona[i] = IF \E b \in Team : d.persona[i].handle = Handle(b, 0)
                                       THEN PersonaRow(d.persona[i].handle, TRUE, FALSE)
                                       ELSE d.persona[i]
               /\ e.author = d.author /\ e.room = d.room /\ e.member = d.member
               /\ e.message = d.message /\ e.quote = d.quote
               /\ e.session = d.session /\ e.run = d.run
<1> DEFINE e == RenameTeam(d)
           Renamed(row) == IF row.handle \in {Handle(b, 0) : b \in Team}
                           THEN PersonaRow(row.handle, TRUE, FALSE) ELSE row
           rows == [i \in DOMAIN d.persona |-> Renamed(d.persona[i])]
<1>1. \A i \in DOMAIN d.persona : d.persona[i] \in Rows
  BY DEF Shape
<1>2. \A row \in Rows : /\ Renamed(row) \in Rows
                        /\ Renamed(row).handle = row.handle
                        /\ Renamed(row) = IF \E b \in Team : row.handle = Handle(b, 0)
                                          THEN PersonaRow(row.handle, TRUE, FALSE)
                                          ELSE row
  BY DEF Rows, PersonaRow
<1>3. e = [d EXCEPT !.persona = rows]
  BY DEF RenameTeam
<1> HIDE DEF e, Renamed
<1>4. /\ e = [f \in Fields |-> e[f]]
      /\ e.persona = rows
      /\ e.author = d.author /\ e.room = d.room /\ e.member = d.member
      /\ e.message = d.message /\ e.quote = d.quote
      /\ e.session = d.session /\ e.run = d.run
  BY <1>3 DEF Shape, Fields
<1>5. e.persona \in [DOMAIN e.persona -> Rows]
  BY <1>1, <1>2, <1>4
<1>6. Shape(e)
  BY <1>4, <1>5 DEF Shape
<1> QED
  BY <1>1, <1>2, <1>4, <1>6 DEF e

\* The renaming leaves the tables sound.
LEMMA RenameTeamKeeps ==
    ASSUME NEW d, Sound(d)
    PROVE  Sound(RenameTeam(d))
<1> DEFINE e == RenameTeam(d)
<1>0. Shape(d)
  BY DEF Sound
<1>1. /\ Shape(e)
      /\ DOMAIN e.persona = DOMAIN d.persona
      /\ \A i \in DOMAIN d.persona : e.persona[i].handle = d.persona[i].handle
      /\ e.room = d.room /\ e.member = d.member
      /\ e.message = d.message /\ e.quote = d.quote
      /\ e.session = d.session /\ e.run = d.run
  BY <1>0, RenameTeamDoes
<1> HIDE DEF e
<1> QED
  BY <1>1 DEF Sound, Unique, Refers, Traces, e
-----------------------------------------------------------------------------
(* Statements of REST requests: what they leave alone.                     *)

\* Numbers have a least one.
LEMMA LeastNat ==
    ASSUME NEW T \in SUBSET Nat, T # {}
    PROVE  \E x \in T : \A y \in T : x <= y
<1> DEFINE R == OpToRel(<, Nat)
<1>1. IsWellFoundedOn(R, Nat)
  BY NatLessThanWellFounded
<1>2. \A x, y \in Nat : y < x => <<y, x>> \in R
  BY DEF OpToRel
<1> HIDE DEF R
<1>3. \E x \in T : \A y \in T : ~(<<y, x>> \in R)
  BY <1>1, WFMin
<1>4. PICK x \in T : \A y \in T : ~(<<y, x>> \in R)
  BY <1>3
<1>5. ASSUME NEW y \in T PROVE x <= y
  <2>1. ~(y < x)
    BY <1>2, <1>4
  <2> QED
    BY <2>1
<1> QED
  BY <1>5

\* Places are bounded, so that there is a next one.
Bounded(d) == \E n \in Nat : \A k \in DOMAIN d.member : d.member[k] <= n

\* The next place of a room is above the places of its members.
LEMMA NextPlaceIsNext ==
    ASSUME NEW d, Shape(d), Bounded(d), NEW r \in Nat
    PROVE  /\ NextPlace(d, r) \in Nat
           /\ \A k \in DOMAIN d.member : k[1] = r => d.member[k] < NextPlace(d, r)
<1>1. PICK top \in Nat : \A k \in DOMAIN d.member : d.member[k] <= top
  BY DEF Bounded
<1>2. \A k \in DOMAIN d.member : d.member[k] \in Nat
  BY DEF Shape
<1>3. /\ Places(d, r) \in SUBSET Nat
      /\ \A k \in DOMAIN d.member : k[1] = r => d.member[k] \in Places(d, r)
      /\ \A x \in Places(d, r) : x <= top
  BY <1>1, <1>2 DEF Places
<1>4. CASE Places(d, r) = {}
  BY <1>3, <1>4 DEF NextPlace
<1>5. CASE Places(d, r) # {}
  <2> DEFINE Above == {n \in Nat : \A x \in Places(d, r) : x <= n}
             Last(n) == n \in Places(d, r) /\ \A x \in Places(d, r) : n >= x
  <2>1. Above \in SUBSET Nat /\ Above # {}
    BY <1>3
  <2>2. PICK n \in Above : \A y \in Above : n <= y
    <3> HIDE DEF Above
    <3> QED
      BY <2>1, LeastNat
  <2>3. n \in Places(d, r)
    <3> SUFFICES ASSUME n \notin Places(d, r) PROVE FALSE
      OBVIOUS
    <3>1. \A x \in Places(d, r) : x < n
      BY <1>3, <2>2
    <3>2. n # 0
      BY <1>3, <1>5, <3>1
    <3>3. n - 1 \in Above
      BY <1>3, <2>2, <3>1, <3>2
    <3> QED
      BY <2>2, <3>3
  <2>4. Last(n)
    BY <1>3, <2>2, <2>3
  <2>5. NextPlace(d, r) = 1 + (CHOOSE m \in Places(d, r) : \A x \in Places(d, r) : m >= x)
    BY <1>5 DEF NextPlace
  <2>6. PICK last \in Places(d, r) :
            /\ last = (CHOOSE m \in Places(d, r) : \A x \in Places(d, r) : m >= x)
            /\ \A x \in Places(d, r) : last >= x
    BY <2>4
  <2>7. NextPlace(d, r) = 1 + last /\ last \in Nat
    BY <1>3, <2>5, <2>6
  <2>8. \A x \in Places(d, r) : x < 1 + last
    BY <1>3, <2>6, <2>7
  <2> QED
    BY <1>3, <2>7, <2>8
<1> QED
  BY <1>4, <1>5

Numbers == [persona : Nat, room : Nat, message : Nat, run : Nat]

\* A database in order, when n were the last ids given out.
Good(d, n) == Sound(d) /\ Within(d, n) /\ Bounded(d)

\* From d to e no run changes, messages go with their room only and quotes with their
\* messages, and no room or persona comes back, when n were the last ids given out.
Calm(d, e, n) ==
    /\ e.run = d.run
    /\ DOMAIN e.message \subseteq DOMAIN d.message
    /\ \A m \in DOMAIN d.message : d.message[m].room \in DOMAIN e.room => m \in DOMAIN e.message
    /\ \A m \in DOMAIN e.message : e.message[m] = d.message[m]
    /\ \A q : q \in e.quote <=>
          q \in d.quote /\ q[1] \in DOMAIN e.message /\ q[2] \in DOMAIN e.message
    /\ DOMAIN e.room \cap 1..n.room \subseteq DOMAIN d.room
    /\ DOMAIN e.persona \cap 1..n.persona \subseteq DOMAIN d.persona

\* A statement that touches no message, quote or run and no member but to delete is calm.
LEMMA MessagesUntouched ==
    ASSUME NEW n \in Numbers, NEW k \in Numbers, NEW d, Good(d, n), NEW e, Sound(e),
           k.message = n.message, k.run = n.run,
           DOMAIN e.persona \subseteq 1..k.persona, DOMAIN e.room \subseteq 1..k.room,
           DOMAIN e.room \cap 1..n.room \subseteq DOMAIN d.room,
           DOMAIN e.persona \cap 1..n.persona \subseteq DOMAIN d.persona,
           \A x \in DOMAIN e.member : x \in DOMAIN d.member /\ e.member[x] = d.member[x],
           e.message = d.message, e.quote = d.quote, e.run = d.run
    PROVE  Good(e, k) /\ Calm(d, e, n)
<1>1. Bounded(e)
  BY DEF Good, Bounded
<1>2. Within(e, k)
  BY DEF Good, Within
<1>3. \A q \in d.quote : q[1] \in DOMAIN d.message /\ q[2] \in DOMAIN d.message
  BY DEF Good, Sound, Refers
<1> QED
  BY <1>1, <1>2, <1>3 DEF Good, Calm

\* A new persona with a free handle leaves the database in order, and is calm.
LEMMA InsertPersonaIsCalm ==
    ASSUME NEW n \in Numbers, NEW d, Good(d, n), NEW row \in Rows, row.handle \notin Handles(d)
    PROVE  LET e == InsertPersona(d, n.persona + 1, row)
           IN  Good(e, [n EXCEPT !.persona = @ + 1]) /\ Calm(d, e, n)
<1> DEFINE i == n.persona + 1
           e == InsertPersona(d, i, row)
           k == [n EXCEPT !.persona = @ + 1]
<1>1. /\ n.persona \in Nat /\ i \in Nat \ 1..n.persona
      /\ k \in Numbers /\ k.persona = i /\ k.room = n.room
      /\ k.message = n.message /\ k.run = n.run
  BY DEF Numbers
<1>2. Sound(d) /\ Shape(d) /\ DOMAIN d.persona \subseteq 1..n.persona /\ DOMAIN d.room \subseteq 1..n.room
  BY DEF Good, Within, Sound
<1> HIDE DEF i, k
<1>3. Sound(e)
  BY <1>1, <1>2, InsertPersonaKeeps
<1>4. /\ e.persona = Put(d.persona, i, row) /\ e.room = d.room /\ e.member = d.member
      /\ e.message = d.message /\ e.quote = d.quote /\ e.run = d.run
  BY <1>1, <1>2, InsertPersonaDoes
<1> HIDE DEF e
<1>5. DOMAIN e.persona = DOMAIN d.persona \cup {i}
  BY <1>4 DEF Put
<1>6. /\ DOMAIN e.persona \subseteq 1..i
      /\ DOMAIN e.persona \cap 1..n.persona \subseteq DOMAIN d.persona
  <2>1. i = n.persona + 1
    BY DEF i
  <2> QED
    BY <1>1, <1>2, <1>5, <2>1
<1> QED
  BY <1>1, <1>2, <1>3, <1>4, <1>6, MessagesUntouched DEF e, k, i

\* So does an edit of a persona.
LEMMA UpdatePersonaIsCalm ==
    ASSUME NEW n \in Numbers, NEW d, Good(d, n), NEW i \in Nat, NEW row \in Rows,
           HandleFree(d, i, row.handle)
    PROVE  LET e == UpdatePersona(d, i, row) IN Good(e, n) /\ Calm(d, e, n)
<1> DEFINE e == UpdatePersona(d, i, row)
<1>1. Sound(d) /\ Shape(d) /\ DOMAIN d.persona \subseteq 1..n.persona /\ DOMAIN d.room \subseteq 1..n.room
  BY DEF Good, Within, Sound
<1>2. Sound(e)
  BY <1>1, UpdatePersonaKeeps
<1>3. /\ DOMAIN e.persona = DOMAIN d.persona /\ e.room = d.room /\ e.member = d.member
      /\ e.message = d.message /\ e.quote = d.quote /\ e.run = d.run
  BY <1>1, UpdatePersonaDoes
<1> HIDE DEF e
<1> QED
  BY <1>1, <1>2, <1>3, MessagesUntouched DEF e

\* So does the end of a persona nothing refers to.
LEMMA DeletePersonaIsCalm ==
    ASSUME NEW n \in Numbers, NEW d, Good(d, n), NEW i \in Nat
    PROVE  LET e == DeletePersona(d, i) IN Good(e, n) /\ Calm(d, e, n)
<1> DEFINE e == DeletePersona(d, i)
<1>1. Sound(d) /\ Shape(d) /\ DOMAIN d.persona \subseteq 1..n.persona /\ DOMAIN d.room \subseteq 1..n.room
  BY DEF Good, Within, Sound
<1>2. Sound(e)
  BY <1>1, DeletePersonaKeeps
<1>3. /\ e.persona = [j \in DOMAIN d.persona \ {i} |-> d.persona[j]]
      /\ e.member = [k \in {k \in DOMAIN d.member : k[2] # i} |-> d.member[k]]
      /\ e.room = d.room /\ e.message = d.message /\ e.quote = d.quote /\ e.run = d.run
  BY <1>1, DeletePersonaDoes
<1> HIDE DEF e
<1>4. /\ DOMAIN e.persona \subseteq DOMAIN d.persona
      /\ \A x \in DOMAIN e.member : x \in DOMAIN d.member /\ e.member[x] = d.member[x]
  BY <1>3
<1> QED
  BY <1>1, <1>2, <1>3, <1>4, MessagesUntouched DEF e

\* So does an author who comes or goes.
LEMMA AuthorsAreCalm ==
    ASSUME NEW n \in Numbers, NEW d, Good(d, n), NEW name \in {Me, Boss, Guest},
           NEW e \in {InsertAuthor(d, name), DeleteAuthor(d, name)}
    PROVE  Good(e, n) /\ Calm(d, e, n)
<1>1. Sound(d) /\ Shape(d) /\ DOMAIN d.persona \subseteq 1..n.persona /\ DOMAIN d.room \subseteq 1..n.room
  BY DEF Good, Within, Sound
<1>2. Sound(e)
  BY <1>1, AuthorsKeep
<1>3. /\ e.persona = d.persona /\ e.room = d.room /\ e.member = d.member
      /\ e.message = d.message /\ e.quote = d.quote /\ e.run = d.run
  BY <1>1, AuthorsDo
<1> QED
  BY <1>1, <1>2, <1>3, MessagesUntouched

\* So does a new room.
LEMMA InsertRoomIsCalm ==
    ASSUME NEW n \in Numbers, NEW d, Good(d, n)
    PROVE  LET e == InsertRoom(d, n.room + 1)
           IN  Good(e, [n EXCEPT !.room = @ + 1]) /\ Calm(d, e, n)
<1> DEFINE r == n.room + 1
           e == InsertRoom(d, r)
           k == [n EXCEPT !.room = @ + 1]
<1>1. /\ n.room \in Nat /\ r \in Nat /\ r = n.room + 1
      /\ k \in Numbers /\ k.room = r /\ k.persona = n.persona
      /\ k.message = n.message /\ k.run = n.run
  BY DEF Numbers
<1>2. Sound(d) /\ Shape(d) /\ DOMAIN d.persona \subseteq 1..n.persona /\ DOMAIN d.room \subseteq 1..n.room
  BY DEF Good, Within, Sound
<1> HIDE DEF r, k
<1>3. Sound(e)
  BY <1>1, <1>2, InsertRoomKeeps
<1>4. /\ DOMAIN e.room = DOMAIN d.room \cup {r} /\ e.persona = d.persona /\ e.member = d.member
      /\ e.message = d.message /\ e.quote = d.quote /\ e.run = d.run
  BY <1>1, <1>2, InsertRoomDoes
<1> HIDE DEF e
<1>5. /\ DOMAIN e.room \subseteq 1..r
      /\ DOMAIN e.room \cap 1..n.room \subseteq DOMAIN d.room
  BY <1>1, <1>2, <1>4
<1> QED
  BY <1>1, <1>2, <1>3, <1>4, <1>5, MessagesUntouched DEF e, k, r

\* So does an edit of a room.
LEMMA UpdateRoomIsCalm ==
    ASSUME NEW n \in Numbers, NEW d, Good(d, n), NEW r \in Nat, NEW archived
    PROVE  LET e == UpdateRoom(d, r, archived) IN Good(e, n) /\ Calm(d, e, n)
<1> DEFINE e == UpdateRoom(d, r, archived)
<1>1. Sound(d) /\ Shape(d) /\ DOMAIN d.persona \subseteq 1..n.persona /\ DOMAIN d.room \subseteq 1..n.room
  BY DEF Good, Within, Sound
<1>2. Sound(e)
  BY <1>1, UpdateRoomKeeps
<1>3. /\ DOMAIN e.room = DOMAIN d.room /\ e.persona = d.persona /\ e.member = d.member
      /\ e.message = d.message /\ e.quote = d.quote /\ e.run = d.run
  BY <1>1, UpdateRoomDoes
<1> HIDE DEF e
<1> QED
  BY <1>1, <1>2, <1>3, MessagesUntouched DEF e

\* So does the end of a room, with the cascade.
LEMMA DeleteRoomIsCalm ==
    ASSUME NEW n \in Numbers, NEW d, Good(d, n), NEW r \in Nat
    PROVE  LET e == DeleteRoom(d, r) IN Good(e, n) /\ Calm(d, e, n)
<1> DEFINE e == DeleteRoom(d, r)
           kept == {m \in DOMAIN d.message : d.message[m].room # r}
<1>0. Shape(d) /\ Refers(d)
  BY DEF Good, Sound
<1>1. Sound(d) /\ Shape(d) /\ Within(d, n) /\ Bounded(d) /\ Refers(d)
  BY DEF Good, Sound
<1>2. Sound(e)
  BY <1>1, DeleteRoomKeeps
<1>3. /\ Shape(e)
      /\ DOMAIN e.room = DOMAIN d.room \ {r}
      /\ e.member = [k \in {k \in DOMAIN d.member : k[1] # r} |-> d.member[k]]
      /\ e.session = [k \in {k \in DOMAIN d.session : k[1] # r} |-> d.session[k]]
      /\ e.message = [m \in kept |-> d.message[m]]
      /\ e.quote = {q \in d.quote : q[1] \in kept /\ q[2] \in kept}
      /\ e.persona = d.persona /\ e.run = d.run
  BY <1>0, DeleteRoomDoes
<1> HIDE DEF e
<1>4. /\ DOMAIN e.message = kept
      /\ \A m \in kept : e.message[m] = d.message[m]
      /\ \A x \in DOMAIN e.member : x \in DOMAIN d.member /\ e.member[x] = d.member[x]
  BY <1>3
<1>5. Bounded(e)
  BY <1>1, <1>4 DEF Bounded
<1>6. Within(e, n)
  BY <1>1, <1>3, <1>4 DEF Within
<1>7. Calm(d, e, n)
  BY <1>3, <1>4 DEF Calm
<1> QED
  BY <1>2, <1>5, <1>6, <1>7 DEF Good, e

\* So does a new member at a place.
LEMMA InsertMemberIsCalm ==
    ASSUME NEW n \in Numbers, NEW d, Good(d, n),
           NEW r \in Nat, NEW p \in Nat, NEW place \in Nat, MemberAllowed(d, r, p)
    PROVE  LET e == InsertMember(d, r, p, place) IN Good(e, n) /\ Calm(d, e, n)
<1> DEFINE e == InsertMember(d, r, p, place)
<1>1. /\ Sound(d) /\ Shape(d) /\ Within(d, n) /\ Bounded(d)
      /\ \A q \in d.quote : q[1] \in DOMAIN d.message /\ q[2] \in DOMAIN d.message
  BY DEF Good, Sound, Refers
<1>2. Sound(e)
  BY <1>1, InsertMemberKeeps
<1>3. /\ e.member = Put(d.member, <<r, p>>, place)
      /\ e.persona = d.persona /\ e.room = d.room
      /\ e.message = d.message /\ e.quote = d.quote /\ e.run = d.run
  BY <1>1, InsertMemberDoes
<1> HIDE DEF e
<1>4. Bounded(e)
  <2>1. PICK top \in Nat : \A k \in DOMAIN d.member : d.member[k] <= top
    BY <1>1 DEF Bounded
  <2>2. \A k \in DOMAIN d.member : d.member[k] \in Nat
    BY <1>1 DEF Shape
  <2>3. \A k \in DOMAIN e.member : e.member[k] = place \/ (k \in DOMAIN d.member /\ e.member[k] = d.member[k])
    BY <1>3 DEF Put
  <2>4. \A k \in DOMAIN e.member : e.member[k] <= top + place
    BY <2>1, <2>2, <2>3
  <2>5. top + place \in Nat
    OBVIOUS
  <2> QED
    BY <2>4, <2>5 DEF Bounded
<1>5. Within(e, n)
  BY <1>1, <1>3 DEF Within
<1>6. Calm(d, e, n)
  BY <1>1, <1>3 DEF Calm
<1> QED
  BY <1>2, <1>4, <1>5, <1>6 DEF Good, e

\* So does the end of a membership.
LEMMA DeleteMemberIsCalm ==
    ASSUME NEW n \in Numbers, NEW d, Good(d, n), NEW r \in Nat, NEW p \in Nat
    PROVE  LET e == DeleteMember(d, r, p) IN Good(e, n) /\ Calm(d, e, n)
<1> DEFINE e == DeleteMember(d, r, p)
<1>1. Sound(d) /\ Shape(d) /\ DOMAIN d.persona \subseteq 1..n.persona /\ DOMAIN d.room \subseteq 1..n.room
  BY DEF Good, Within, Sound
<1>2. Sound(e)
  BY <1>1, DeleteMemberKeeps
<1>3. /\ e.member = [k \in DOMAIN d.member \ {<<r, p>>} |-> d.member[k]]
      /\ e.persona = d.persona /\ e.room = d.room
      /\ e.message = d.message /\ e.quote = d.quote /\ e.run = d.run
  BY <1>1, DeleteMemberDoes
<1> HIDE DEF e
<1> QED
  BY <1>1, <1>2, <1>3, MessagesUntouched DEF e

\* So does a session whose pointer is empty or leads to a message of its room.
LEMMA UpsertSessionIsCalm ==
    ASSUME NEW n \in Numbers, NEW d, Good(d, n),
           NEW r \in Nat, NEW p \in Nat, NEW seen \in Nat, SessionAllowed(d, r, p),
           seen # NoMessage => seen \in DOMAIN d.message /\ d.message[seen].room = r
    PROVE  LET e == UpsertSession(d, r, p, seen) IN Good(e, n) /\ Calm(d, e, n)
<1> DEFINE e == UpsertSession(d, r, p, seen)
<1>0. Shape(d)
  BY DEF Good, Sound
<1>1. Sound(d) /\ Shape(d) /\ DOMAIN d.persona \subseteq 1..n.persona /\ DOMAIN d.room \subseteq 1..n.room
  BY DEF Good, Within, Sound
<1>2. Sound(e)
  BY <1>1, UpsertSessionKeeps
<1>3. /\ Shape(e)
      /\ e.session = Put(d.session, <<r, p>>, seen)
      /\ e.persona = d.persona /\ e.room = d.room /\ e.member = d.member
      /\ e.message = d.message /\ e.quote = d.quote /\ e.run = d.run
  BY <1>0, UpsertSessionDoes
<1> HIDE DEF e
<1> QED
  BY <1>1, <1>2, <1>3, MessagesUntouched DEF e

\* A statement that finds no row is calm.
LEMMA NothingIsCalm ==
    ASSUME NEW n \in Numbers, NEW d, Good(d, n)
    PROVE  Calm(d, d, n)
BY DEF Good, Sound, Refers, Calm
=============================================================================
