------------------------------ MODULE RoomClient ------------------------------
(***************************************************************************)
(* The browser: switching rooms, the socket of the active room and its     *)
(* retries, and the transcript on the screen, painted from REST answers    *)
(* and from frames (web/js/main.js, ws.js, transcript.js, composer.js).    *)
(*                                                                         *)
(* JavaScript runs one handler at a time: a step is what runs from one     *)
(* await or event to the next.  A switch is named by its token; it opens   *)
(* at most one socket.  A room's transcript only grows, so that a list of  *)
(* messages is its length.  The server, the network and the user are the   *)
(* environment: connections break, requests fail, answers come late.       *)
(***************************************************************************)
EXTENDS Integers, Sequences, SequencesExt

CONSTANTS
    Rooms, None,
    First,        \* the room boot selects
    MaxRetries,   \* MAX_RETRIES
    MaxSwitches,  \* bound: calls of selectRoom
    MaxWrites,    \* bound: frames sent, persona edits, and messages from elsewhere
    MaxDrops,     \* bound: open connections that break
    MaxFlights    \* bound: refreshes in flight at a time

ASSUME RoomsAssumption   == First \in Rooms /\ None \notin Rooms
ASSUME RetriesAssumption == MaxRetries \in Nat
ASSUME BoundsAssumption  ==
    {MaxSwitches, MaxWrites, MaxDrops, MaxFlights} \subseteq Nat \ {0}

VARIABLES
    server,    \* environment: how many messages each room has
    token,     \* state.switchToken
    active,    \* state.activeRoom
    members,   \* state.members, as the room they are of
    switch,    \* the selectRoom call of each token: its room and next await
    flight,    \* the refreshMessages calls in flight, oldest first
    painted,   \* the screen: room, length, an optimistic echo? a live bubble? and is the
               \* Transcript newer than what is on the screen?
    chip,      \* does the composer hold a quote of an optimistic echo?
    sock,      \* the RoomSocket of each token
    wire,      \* environment: frames on the way to each socket
    uplink,    \* environment: what each socket sent and the server has not finished
    banner,    \* the connection banner
    writes,    \* how much of MaxWrites is used
    drops,     \* how many open connections broke
    told,      \* history: length the active room had by a frame that was delivered, and
               \* by an answer that was painted
    spoiled    \* history: is the screen one that a failed refresh left, or a late one made?

vars == <<server, token, active, members, switch, flight, painted, chip, sock, wire,
          uplink, banner, writes, drops, told, spoiled>>

Tokens == 1..MaxSwitches

-----------------------------------------------------------------------------
Spend == writes < MaxWrites /\ writes' = writes + 1

NothingTold == [frame |-> 0, answer |-> 0]
NoSwitch == [at |-> "none", room |-> None]
NoSocket == [ready |-> "none", room |-> None, retry |-> 0, timer |-> FALSE,
             opened |-> FALSE, closed |-> FALSE]

\* state.socket: the socket of the newest switch, once it has one.
Live(t) == sock[t].ready # "none" /\ ~sock[t].closed
IsOpen(t) == Live(t) /\ sock[t].ready = "open"

\* boot selects the first room.
Init ==
    /\ server = [r \in Rooms |-> 0]
    /\ token = 1 /\ active = None /\ members = None
    /\ switch = [t \in Tokens |-> IF t = 1 THEN [at |-> "room", room |-> First] ELSE NoSwitch]
    /\ flight = <<>>
    /\ painted = [room |-> None, length |-> 0, echo |-> FALSE, live |-> FALSE,
                  fresh |-> FALSE]
    /\ chip = FALSE
    /\ sock = [t \in Tokens |-> NoSocket]
    /\ wire = [t \in Tokens |-> <<>>]
    /\ uplink = [t \in Tokens |-> <<>>]
    /\ banner = "hidden"
    /\ writes = 0 /\ drops = 0
    /\ told = NothingTold /\ spoiled = FALSE

-----------------------------------------------------------------------------
(* refreshMessages: list the messages of the active room, paint them; list *)
(* the members of what is the active room by then.                         *)

AllTaken == Len(flight) = MaxFlights

\* One more refresh is in flight, called by owner (a switch, or 0: a handler).  Its
\* answer will be a list the server had since it was asked.
Asked(room, owner) ==
    [at |-> "messages", room |-> room, least |-> server[room], owner |-> owner,
     doubtful |-> FALSE]
WithRefresh(room, owner) == Append(flight, Asked(room, owner))

\* Was this answer overtaken: by a switch to another room, or by a newer answer?
Overtaken(room, length) == room # active \/ length < told.answer

\* renderMessages: the list replaces all there was, echoes and bubbles included.
Repaint(room, length) == [room |-> room, length |-> length, echo |-> FALSE, live |-> FALSE,
                         fresh |-> FALSE]

MembersAsked(owner) ==
    [at |-> "members", room |-> active, least |-> 0, owner |-> owner, doubtful |-> FALSE]

PaintMessages(f) ==
    /\ flight[f].at = "messages"
    /\ LET room == flight[f].room
       IN  \E length \in flight[f].least..server[room] :
              /\ painted' = Repaint(room, length)
              /\ spoiled' = (Overtaken(room, length) \/ (spoiled /\ flight[f].doubtful))
              /\ told' = IF Overtaken(room, length) THEN told
                         ELSE [told EXCEPT !.answer = length]
    /\ flight' = [flight EXCEPT ![f] = MembersAsked(flight[f].owner)]
    /\ UNCHANGED <<server, token, active, members, switch, chip, sock, wire, uplink,
                   banner, writes, drops>>

\* The switch whose refresh returned goes on to open its socket.
Returned(f) ==
    IF flight[f].owner = 0 THEN switch
    ELSE [switch EXCEPT ![flight[f].owner].at = "open"]

EndRefresh(f) ==
    /\ flight[f].at = "members"
    /\ members' = flight[f].room
    /\ spoiled' = (spoiled \/ flight[f].room # active)
    /\ switch' = Returned(f)
    /\ flight' = RemoveAt(flight, f)
    /\ UNCHANGED <<server, token, active, painted, chip, sock, wire, uplink, banner,
                   writes, drops, told>>

\* A failed list is a toast (messages) or nothing (members).  What is in flight by then
\* may have been asked for before, and cannot be relied on to make it good.
FailRefresh(f) ==
    /\ spoiled' = TRUE
    /\ switch' = Returned(f)
    /\ LET Doubt(call) == [call EXCEPT !.doubtful = call.at = "messages"]
       IN  flight' = [g \in 1..Len(flight) - 1 |-> Doubt(RemoveAt(flight, f)[g])]
    /\ UNCHANGED <<server, token, active, members, painted, chip, sock, wire, uplink,
                   banner, writes, drops, told>>

\* The persona manager changed something: the members of the active room are asked for.
\* (The answer is not checked against a switch either.)
PersonasChanged ==
    /\ active # None /\ ~AllTaken /\ Spend
    /\ flight' = Append(flight, MembersAsked(0))
    /\ UNCHANGED <<server, token, active, members, switch, painted, chip, sock, wire,
                   uplink, banner, drops, told, spoiled>>

-----------------------------------------------------------------------------
(* selectRoom, from await to await.                                        *)

\* Has a newer switch started?
NeverStale(t) == FALSE
Stale(t) == t # token

\* RoomSocket.close: no retry after it, and nothing is delivered any more.
ClosedKeepingTimer(s) == [NoSocket EXCEPT !.closed = TRUE, !.ready = "closed", !.timer = s.timer]
Closed(s) == [NoSocket EXCEPT !.closed = TRUE, !.ready = "closed"]

\* A new token; the socket there was is closed; the room is asked for.
Switch(r) ==
    /\ token < MaxSwitches
    /\ token' = token + 1
    /\ sock' = [t \in Tokens |-> IF Live(t) THEN Closed(sock[t]) ELSE sock[t]]
    /\ wire' = [t \in Tokens |-> <<>>]
    /\ uplink' = [t \in Tokens |-> <<>>]
    /\ switch' = [switch EXCEPT ![token + 1] = [at |-> "room", room |-> r]]
    /\ UNCHANGED <<server, active, members, flight, painted, chip, banner, writes,
                   drops, told, spoiled>>

GotRoom(t) ==
    /\ switch[t].at = "room"
    /\ \/ /\ Stale(t)
          /\ switch' = [switch EXCEPT ![t] = NoSwitch]
          /\ UNCHANGED <<active, told>>
       \/ /\ ~Stale(t)
          /\ active' = switch[t].room
          /\ told' = NothingTold
          /\ switch' = [switch EXCEPT ![t].at = "members"]
    /\ UNCHANGED <<server, token, members, flight, painted, chip, sock, wire, uplink,
                   banner, writes, drops, spoiled>>

GotMembers(t) ==
    /\ switch[t].at = "members"
    /\ \/ /\ Stale(t)
          /\ switch' = [switch EXCEPT ![t] = NoSwitch]
          /\ UNCHANGED members
       \/ /\ ~Stale(t)
          /\ members' = switch[t].room
          /\ switch' = [switch EXCEPT ![t].at = "personas"]
    /\ UNCHANGED <<server, token, active, flight, painted, chip, sock, wire, uplink,
                   banner, writes, drops, told, spoiled>>

\* The list of all personas came, or failed (non-fatal): transcript and composer are
\* built anew, and the messages asked for.
GotPersonas(t) ==
    /\ switch[t].at = "personas"
    /\ \/ /\ Stale(t)
          /\ switch' = [switch EXCEPT ![t] = NoSwitch]
          /\ UNCHANGED <<flight, painted, chip>>
       \/ /\ ~Stale(t) /\ ~AllTaken
          /\ painted' = [painted EXCEPT !.fresh = TRUE]
          /\ chip' = FALSE
          /\ flight' = WithRefresh(active, t)
          /\ switch' = [switch EXCEPT ![t].at = "messages"]
    /\ UNCHANGED <<server, token, active, members, sock, wire, uplink, banner, writes,
                   drops, told, spoiled>>

\* A room or its members could not be had: the call ends there, without a socket.
FailSwitch(t) ==
    /\ switch[t].at \in {"room", "members"}
    /\ switch' = [switch EXCEPT ![t] = NoSwitch]
    /\ UNCHANGED <<server, token, active, members, flight, painted, chip, sock, wire,
                   uplink, banner, writes, drops, told, spoiled>>

\* openSocket: the constructor of RoomSocket connects at once.
OpenSocket(t) ==
    /\ switch[t].at = "open"
    /\ switch' = [switch EXCEPT ![t] = NoSwitch]
    /\ \/ /\ Stale(t)
          /\ UNCHANGED <<sock, banner>>
       \/ /\ ~Stale(t)
          /\ sock' = [sock EXCEPT ![t] = [NoSocket EXCEPT !.ready = "connecting",
                                                          !.room = switch[t].room]]
          /\ banner' = "hidden"
    /\ UNCHANGED <<server, token, active, members, flight, painted, chip, wire, uplink,
                   writes, drops, told, spoiled>>

-----------------------------------------------------------------------------
(* RoomSocket: connect, lose, retry.                                       *)

\* On a re-open, what a lost turn left on the screen is reconciled.
OnOpen(t) == IF sock[t].opened THEN WithRefresh(active, 0) ELSE flight

Connected(t) ==
    /\ Live(t) /\ sock[t].ready = "connecting" /\ ~AllTaken
    /\ flight' = OnOpen(t)
    /\ sock' = [sock EXCEPT ![t].ready = "open", ![t].retry = 0, ![t].opened = TRUE]
    /\ banner' = "hidden"
    /\ UNCHANGED <<server, token, active, members, switch, painted, chip, wire, uplink,
                   writes, drops, told, spoiled>>

\* The close event of a socket we did not close: retry after a delay, or give up.
SameTry(retry) == retry
NextTry(retry) == retry + 1
Lose(t) ==
    /\ sock' = [sock EXCEPT ![t] =
           IF sock[t].retry >= MaxRetries THEN [sock[t] EXCEPT !.ready = "closed"]
           ELSE [sock[t] EXCEPT !.ready = "closed", !.timer = TRUE,
                                !.retry = NextTry(sock[t].retry)]]
    /\ banner' = IF sock[t].retry >= MaxRetries THEN "closed" ELSE "reconnecting"
    /\ wire' = [wire EXCEPT ![t] = <<>>]
    /\ uplink' = [uplink EXCEPT ![t] = <<>>]
    /\ UNCHANGED <<server, token, active, members, switch, flight, painted, chip, told,
                   spoiled>>

\* An attempt to connect fails.
Refused(t) ==
    /\ Live(t) /\ sock[t].ready = "connecting"
    /\ Lose(t)
    /\ UNCHANGED <<writes, drops>>

\* An open connection breaks; frames under way are lost.
Drop(t) ==
    /\ IsOpen(t) /\ drops < MaxDrops
    /\ drops' = drops + 1
    /\ Lose(t)
    /\ UNCHANGED writes

TimerFires(t) ==
    /\ sock[t].timer
    /\ sock' = [sock EXCEPT ![t].timer = FALSE, ![t].ready = "connecting"]
    /\ banner' = "reconnecting"
    /\ UNCHANGED <<server, token, active, members, switch, flight, painted, chip, wire,
                   uplink, writes, drops, told, spoiled>>

\* The Reconnect button, which the banner shows after the last retry; while a switch
\* is under way, or after one that failed, there is no socket to reconnect.
Reconnect ==
    /\ banner = "closed"
    /\ IF \E t \in Tokens : Live(t)
       THEN /\ sock' = [t \in Tokens |->
                  IF Live(t) THEN [sock[t] EXCEPT !.retry = 0, !.timer = FALSE,
                                                  !.ready = "connecting"]
                  ELSE sock[t]]
            /\ banner' = "hidden"
       ELSE banner' = "reconnecting" /\ UNCHANGED sock
    /\ UNCHANGED <<server, token, active, members, switch, flight, painted, chip, wire,
                   uplink, writes, drops, told, spoiled>>

-----------------------------------------------------------------------------
(* Posting, and the frames that come back.                                 *)

\* The quote link of an optimistic echo on the screen.
QuoteEcho ==
    /\ painted.echo /\ ~chip
    /\ chip' = TRUE
    /\ UNCHANGED <<server, token, active, members, switch, flight, painted, sock, wire,
                   uplink, banner, writes, drops, told, spoiled>>

\* The messages of the Transcript and an echo: live bubbles are gone, and so is what
\* an older Transcript had painted.
Echoed ==
    IF painted.fresh THEN [Repaint(active, 0) EXCEPT !.echo = TRUE]
    ELSE [painted EXCEPT !.echo = TRUE, !.live = FALSE]

\* onSend over an open socket: the frame is sent and an optimistic echo painted; the
\* quotes go with it.  (Without an open socket the message stays in the composer.)
Send(t) ==
    /\ IsOpen(t) /\ Spend
    /\ uplink' = [uplink EXCEPT ![t] = Append(@, IF chip THEN "echo quoted" ELSE "post")]
    /\ painted' = Echoed
    /\ chip' = FALSE
    /\ UNCHANGED <<server, token, active, members, switch, flight, sock, wire, banner,
                   drops, told, spoiled>>

\* A command from the console.
Command(t) ==
    /\ IsOpen(t) /\ Spend
    /\ uplink' = [uplink EXCEPT ![t] = Append(@, "command")]
    /\ UNCHANGED <<server, token, active, members, switch, flight, painted, chip, sock,
                   wire, banner, drops, told, spoiled>>

Frame(type, length) == [type |-> type, length |-> length]

\* The server takes one frame of a socket at a time: it stores the message of a post and
\* runs the turn, runs a command, or answers with an error: a frame it refuses (its
\* author is gone, the command unsupported), or a turn that ends in one.  A post that
\* quotes an echo gets that far only to be refused; past it the socket is torn down.
Handle(t) ==
    /\ IsOpen(t) /\ uplink[t] # <<>>
    /\ LET frame == Head(uplink[t])
           done == [uplink EXCEPT ![t] = Tail(@)]
           Say(reply) == wire' = [wire EXCEPT ![t] = @ \o reply]
           room == sock[t].room
       IN  \/ /\ frame = "post"
              /\ server' = [server EXCEPT ![room] = @ + 1]
              /\ uplink' = [uplink EXCEPT ![t] = <<"turn">> \o Tail(@)]
              /\ Say(<<Frame("event", 0)>>)
           \/ /\ frame = "turn"
              /\ server' = [server EXCEPT ![room] = @ + 1]
              /\ uplink' = done
              /\ Say(<<Frame("turn_complete", server[room] + 1)>>)
           \/ /\ frame = "command"
              /\ uplink' = done
              /\ Say(<<Frame("event", 0), Frame("command_complete", 0)>>)
              /\ UNCHANGED server
           \/ /\ uplink' = done
              /\ Say(<<Frame("error", 0)>>)
              /\ UNCHANGED server
    /\ UNCHANGED <<token, active, members, switch, flight, painted, chip, sock, banner,
                   writes, drops, told, spoiled>>

\* The quote of a message the server does not have is refused by a foreign key: the
\* error escapes the handler, and the server tears the socket down.
TearDown(t) ==
    /\ IsOpen(t) /\ uplink[t] # <<>> /\ Head(uplink[t]) = "echo quoted"
    /\ Lose(t)
    /\ UNCHANGED <<writes, drops>>

\* Another browser adds a message.
Elsewhere(r) ==
    /\ Spend
    /\ server' = [server EXCEPT ![r] = @ + 1]
    /\ UNCHANGED <<token, active, members, switch, flight, painted, chip, sock, wire,
                   uplink, banner, drops, told, spoiled>>

\* The handlers openSocket subscribes: an event (or an error card) grows what is live on
\* the screen; the end of a turn or a command, and an error, are reconciled.
ReconcilesOnComplete == {"turn_complete", "command_complete"}
Reconciles == {"turn_complete", "command_complete", "error"}
Deliver(t) ==
    /\ IsOpen(t) /\ wire[t] # <<>>
    /\ LET frame == Head(wire[t])
       IN  \/ /\ frame.type \in Reconciles /\ ~AllTaken
              /\ flight' = WithRefresh(active, 0)
              /\ UNCHANGED painted
           \/ /\ frame.type \notin Reconciles
              /\ painted' = [painted EXCEPT !.live = TRUE]
              /\ UNCHANGED flight
    /\ told' = IF Head(wire[t]).length > told.frame
               THEN [told EXCEPT !.frame = Head(wire[t]).length] ELSE told
    /\ wire' = [wire EXCEPT ![t] = Tail(@)]
    /\ UNCHANGED <<server, token, active, members, switch, chip, sock, uplink, banner,
                   writes, drops, spoiled>>

-----------------------------------------------------------------------------
\* The user reads, and the bounds are used up.
Reading ==
    /\ \A t \in Tokens : switch[t].at = "none" /\ uplink[t] = <<>> /\ wire[t] = <<>>
    /\ flight = <<>>
    /\ UNCHANGED vars

Next ==
    \/ \E f \in DOMAIN flight : PaintMessages(f) \/ EndRefresh(f) \/ FailRefresh(f)
    \/ \E r \in Rooms : Switch(r) \/ Elsewhere(r)
    \/ \E t \in Tokens :
          \/ GotRoom(t) \/ GotMembers(t) \/ GotPersonas(t) \/ FailSwitch(t) \/ OpenSocket(t)
          \/ Connected(t) \/ Refused(t) \/ Drop(t) \/ TimerFires(t)
          \/ Send(t) \/ Command(t) \/ Handle(t) \/ TearDown(t) \/ Deliver(t)
    \/ PersonasChanged \/ QuoteEcho \/ Reconnect \/ Reading

\* Timers fire, and attempts to connect end.
Fairness == \A t \in Tokens : WF_vars(TimerFires(t)) /\ WF_vars(Connected(t) \/ Refused(t))

Spec == Init /\ [][Next]_vars /\ Fairness

-----------------------------------------------------------------------------
\* The type invariant: the state of the page and of what is under way.
TypeOK ==
    /\ server \in [Rooms -> Nat]
    /\ token \in 0..MaxSwitches
    /\ {active, members, painted.room} \subseteq Rooms \cup {None}
    /\ \A t \in Tokens :
          /\ switch[t].at \in {"none", "room", "members", "personas", "messages", "open"}
          /\ sock[t].ready \in {"none", "connecting", "open", "closed"}
          /\ sock[t].retry \in 0..MaxRetries
          /\ sock[t].timer => sock[t].ready = "closed" /\ ~sock[t].closed
          /\ uplink[t] \in Seq({"post", "echo quoted", "command", "turn"})
    /\ Len(flight) <= MaxFlights
    /\ painted.length \in Nat
    /\ {painted.echo, painted.live, painted.fresh, chip, spoiled} \subseteq BOOLEAN
    /\ banner \in {"hidden", "reconnecting", "closed"}

\* "A slow earlier switch checks it after every await and bails if a newer switch
\* won" (main.js): a socket that may still connect or deliver belongs to the newest
\* switch and to the active room, so that there is one at most and its frames are
\* painted in their room.
OneSocket ==
    \A t \in Tokens : Live(t) => t = token /\ sock[t].room = active

Quiet ==
    /\ IsOpen(token) /\ wire[token] = <<>> /\ uplink[token] = <<>>
    /\ flight = <<>>

\* "Ghosts left by a turn that never completed cannot persist" (main.js): once
\* nothing is under way, the screen shows the active room and its members, as far as
\* a frame told of it, without optimistic echoes or live bubbles: whichever of
\* completion, refusal, loss and switch ended what was under way.  Left out is a
\* screen that a failed refresh left as it was, or an overtaken answer made: one for
\* another room, or shorter than a list of this room that was painted before.
NoGhosts ==
    Quiet /\ ~spoiled =>
        /\ painted.room = active /\ members = active
        /\ painted.length >= told.frame
        /\ ~painted.echo /\ ~painted.live

\* A lost socket is open again, or the user is offered the Reconnect button "instead
\* of an infinite loop" (ws.js), or has left the room.
Recovers ==
    \A t \in Tokens :
        (Live(t) /\ sock[t].ready # "open") ~> (IsOpen(t) \/ banner = "closed" \/ ~Live(t))
===============================================================================
