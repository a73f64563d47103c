--------------------------- MODULE RoomClientProofs ---------------------------
(***************************************************************************)
(* Theorems about the browser, for any rooms, any number of switches,      *)
(* retries, writes, drops and refreshes in flight.                         *)
(*                                                                         *)
(* OneSocket speaks of sockets; what keeps it true is where the newest     *)
(* switch stands.  While it has not come to its socket there is none, and  *)
(* once it read its room, that room is the active one.  A switch waits for *)
(* one refresh, which no other switch waits for, so that it opens its      *)
(* socket once.                                                            *)
(*                                                                         *)
(* NoGhosts speaks of a quiet page; what keeps it true is that whatever    *)
(* the screen lacks is on its way.  A frame is followed by another until   *)
(* one is reconciled; a socket that was lost asks for a list when it is    *)
(* open again; a list that was asked for after a frame tells of no less,   *)
(* unless another failed since.                                            *)
(***************************************************************************)
EXTENDS RoomClient, SequenceTheorems, TLAPS

Call == [at : {"messages", "members"}, room : Rooms \cup {None}, least : Nat,
         owner : 0..MaxSwitches, doubtful : BOOLEAN]
SwitchType == [at : {"none", "room", "members", "personas", "messages", "open"},
               room : Rooms \cup {None}]
Socket == [ready : {"none", "connecting", "open", "closed"}, room : Rooms \cup {None},
           retry : 0..MaxRetries, timer : BOOLEAN, opened : BOOLEAN, closed : BOOLEAN]
Screen == [room : Rooms \cup {None}, length : Nat, echo : BOOLEAN, live : BOOLEAN,
           fresh : BOOLEAN]
Sent == {"post", "echo quoted", "command", "turn"}

PageTypes ==
    /\ server \in [Rooms -> Nat]
    /\ members \in Rooms \cup {None}
    /\ painted \in Screen
    /\ chip \in BOOLEAN /\ spoiled \in BOOLEAN
    /\ uplink \in [Tokens -> Seq(Sent)]
    /\ banner \in {"hidden", "reconnecting", "closed"}

CoreTypes ==
    /\ token \in Tokens /\ active \in Rooms \cup {None}
    /\ switch \in [Tokens -> SwitchType]
    /\ sock \in [Tokens -> Socket]
    /\ flight \in Seq(Call)

\* The newest switch has no socket before it opens one, and once it has read its room
\* that room is active; later tokens are unused.
SwitchesOK ==
    /\ \A t \in Tokens : switch[t].at # "none" => t <= token /\ switch[t].room \in Rooms
    /\ switch[token].at # "none" => sock[token].ready = "none"
    /\ switch[token].at \notin {"none", "room"} => active = switch[token].room

\* A socket that may still connect or deliver is that of the newest switch; only such
\* a socket waits for a retry.
SocketsOK ==
    \A t \in Tokens :
        /\ sock[t].ready # "none" => t <= token
        /\ Live(t) => t = token /\ sock[t].room = active /\ active \in Rooms
        /\ sock[t].timer => sock[t].ready = "closed" /\ ~sock[t].closed

\* A refresh that a switch called is waited for by that switch, and is its only one.
CallsOK ==
    \A f \in DOMAIN flight :
        /\ flight[f].at = "messages" => flight[f].room \in Rooms
        /\ flight[f].owner # 0 =>
              /\ switch[flight[f].owner].at = "messages"
              /\ \A g \in DOMAIN flight : flight[g].owner = flight[f].owner => g = f

Core == CoreTypes /\ SwitchesOK /\ SocketsOK /\ CallsOK

ClientInv == Len(flight) <= MaxFlights /\ PageTypes /\ Core

-----------------------------------------------------------------------------
\* What RemoveAt leaves of a sequence.
LEMMA RemoveAtProperties ==
    ASSUME NEW S, NEW s \in Seq(S), NEW i \in DOMAIN s
    PROVE  /\ RemoveAt(s, i) \in Seq(S)
           /\ Len(RemoveAt(s, i)) = Len(s) - 1
           /\ \A k \in 1..Len(s) - 1 :
                 RemoveAt(s, i)[k] = IF k < i THEN s[k] ELSE s[k + 1]
<1> DEFINE before == SubSeq(s, 1, i - 1)
           after  == SubSeq(s, i + 1, Len(s))
<1>1. i \in 1..Len(s) /\ Len(s) \in Nat /\ i \in Nat
  OBVIOUS
<1>2. /\ before \in Seq(S) /\ Len(before) = i - 1
      /\ \A k \in 1..i - 1 : before[k] = s[k]
  <2>1. \A k \in 1..i - 1 : s[k] \in S
    BY <1>1
  <2> QED
    BY <1>1, <2>1, SubSeqProperties
<1>3. /\ after \in Seq(S) /\ Len(after) = Len(s) - i
      /\ \A k \in 1..Len(s) - i : after[k] = s[i + k]
  <2>1. \A k \in i + 1..Len(s) : s[k] \in S
    BY <1>1
  <2>2. /\ after \in Seq(S)
        /\ Len(after) = IF i + 1 <= Len(s) THEN Len(s) - (i + 1) + 1 ELSE 0
        /\ \A k \in 1..Len(s) - (i + 1) + 1 : after[k] = s[i + 1 + k - 1]
    BY <1>1, <2>1, SubSeqProperties
  <2>3. Len(s) - (i + 1) + 1 = Len(s) - i
    BY <1>1
  <2>4. \A k \in 1..Len(s) - i : i + 1 + k - 1 = i + k
    BY <1>1
  <2> HIDE DEF after
  <2> QED
    BY <1>1, <2>2, <2>3, <2>4
<1> HIDE DEF before, after
<1>4. /\ before \o after \in Seq(S)
      /\ Len(before \o after) = Len(before) + Len(after)
      /\ \A k \in 1..Len(before) + Len(after) :
            (before \o after)[k] = IF k <= Len(before) THEN before[k]
                                   ELSE after[k - Len(before)]
  BY <1>2, <1>3, ConcatProperties
<1>5. \A k \in 1..Len(s) - 1 : (before \o after)[k] = IF k < i THEN s[k] ELSE s[k + 1]
  <2> TAKE k \in 1..Len(s) - 1
  <2>1. CASE k < i
    BY <1>1, <1>2, <1>3, <1>4, <2>1
  <2>2. CASE k >= i
    <3>1. (before \o after)[k] = after[k - (i - 1)]
      <4>1. k \in 1..Len(before) + Len(after) /\ ~(k <= Len(before))
        BY <1>1, <1>2, <1>3, <2>2
      <4>2. (before \o after)[k] = after[k - Len(before)]
        BY <1>4, <4>1
      <4> QED
        BY <1>2, <4>2
    <3>2. k - (i - 1) \in 1..Len(s) - i
      BY <1>1, <2>2
    <3>3. after[k - (i - 1)] = s[i + (k - (i - 1))]
      BY <1>3, <3>2
    <3>4. i + (k - (i - 1)) = k + 1
      BY <1>1
    <3>5. after[k - (i - 1)] = s[k + 1]
      BY <3>3, <3>4
    <3>6. ~(k < i)
      BY <1>1, <2>2
    <3> QED
      BY <1>1, <3>1, <3>5, <3>6
  <2>3. k < i \/ k >= i
    BY <1>1
  <2> QED
    BY <2>1, <2>2, <2>3
<1>6. RemoveAt(s, i) = before \o after
  BY DEF RemoveAt, before, after
<1>7. Len(before \o after) = Len(s) - 1
  BY <1>1, <1>2, <1>3, <1>4
<1> QED
  BY <1>4, <1>5, <1>6, <1>7

\* The page starts in order.
LEMMA InitClient == Init => ClientInv
<1> SUFFICES ASSUME Init PROVE ClientInv
  OBVIOUS
<1> USE RoomsAssumption, RetriesAssumption, BoundsAssumption
<1>1. 1 \in Tokens
  BY DEF Tokens
<1>2. Len(flight) <= MaxFlights
  BY DEF Init
<1>3. PageTypes
  <2>1. uplink \in [Tokens -> Seq(Sent)]
    <3>1. <<>> \in Seq(Sent)
      OBVIOUS
    <3> QED
      BY <3>1 DEF Init
  <2>2. server \in [Rooms -> Nat] /\ painted \in Screen
    BY DEF Init, Screen
  <2> QED
    BY <2>1, <2>2 DEF Init, PageTypes
<1>4. CoreTypes
  BY <1>1 DEF Init, CoreTypes, SwitchType, Socket, NoSwitch, NoSocket, Tokens
<1>5. SwitchesOK
  BY <1>1 DEF Init, SwitchesOK, NoSwitch, NoSocket
<1>6. SocketsOK
  BY DEF Init, SocketsOK, NoSocket, Live
<1>7. CallsOK
  BY DEF Init, CallsOK
<1> QED
  BY <1>2, <1>3, <1>4, <1>5, <1>6, <1>7 DEF ClientInv, Core

-----------------------------------------------------------------------------
\* A step that leaves switches, sockets and refreshes alone keeps them in order.
LEMMA CoreKept ==
    ASSUME Core, UNCHANGED <<token, active, switch, sock, flight>>
    PROVE  Core'
BY DEF Core, CoreTypes, SwitchesOK, SocketsOK, CallsOK, Live

\* A handler asks for a refresh that no switch waits for (refreshMessages,
\* refreshMembersAndRoster).
LEMMA HandlerAsks ==
    ASSUME CoreTypes, CallsOK, NEW call \in Call, call.owner = 0,
           call.at = "messages" => call.room \in Rooms,
           flight' = Append(flight, call), UNCHANGED switch
    PROVE  flight' \in Seq(Call) /\ CallsOK'
<1>1. flight \in Seq(Call) /\ Len(flight) \in Nat
  BY DEF CoreTypes
<1>2. /\ flight' \in Seq(Call) /\ DOMAIN flight' = 1..Len(flight) + 1
      /\ \A f \in 1..Len(flight) : flight'[f] = flight[f]
      /\ flight'[Len(flight) + 1] = call
  BY <1>1
<1>3. DOMAIN flight = 1..Len(flight)
  BY <1>1
<1> QED
  BY <1>1, <1>2, <1>3 DEF CallsOK

\* What a switch waits for is named by its token.
LEMMA OwnersWait ==
    ASSUME CoreTypes, CallsOK, NEW f \in DOMAIN flight, flight[f].owner # 0
    PROVE  flight[f].owner \in Tokens /\ switch[flight[f].owner].at = "messages"
<1>1. flight[f] \in Call
  BY DEF CoreTypes
<1>2. flight[f].owner \in Tokens
  BY <1>1, BoundsAssumption DEF Call, Tokens
<1> QED
  BY <1>2 DEF CallsOK

\* What closing a socket, and opening one, start from.
LEMMA NoSocketProperties ==
    /\ NoSocket \in Socket
    /\ NoSocket.ready = "none" /\ ~NoSocket.timer /\ ~NoSocket.closed
BY RetriesAssumption DEF NoSocket, Socket

\* A refresh is asked for the active room.
LEMMA AskedProperties ==
    ASSUME PageTypes, NEW room \in Rooms, NEW owner \in 0..MaxSwitches
    PROVE  /\ Asked(room, owner) \in Call
           /\ Asked(room, owner).owner = owner
           /\ Asked(room, owner).room = room
BY DEF Asked, Call, PageTypes

-----------------------------------------------------------------------------
(* Refreshes.                                                              *)

\* The list of a refresh came (refreshMessages).
LEMMA PaintMessagesKeeps ==
    ASSUME ClientInv, NEW f \in DOMAIN flight, PaintMessages(f)
    PROVE  ClientInv'
<1> USE DEF ClientInv, Core
<1>1. /\ flight \in Seq(Call) /\ f \in 1..Len(flight) /\ DOMAIN flight = 1..Len(flight)
      /\ flight[f] \in Call
  BY DEF CoreTypes
<1>2. flight[f].room \in Rooms /\ flight[f].least \in Nat
  BY <1>1 DEF PaintMessages, CallsOK, Call
<1>3. PageTypes'
  <2>1. PICK length \in flight[f].least..server[flight[f].room] :
           painted' = Repaint(flight[f].room, length)
    BY DEF PaintMessages
  <2>2. length \in Nat
    BY <1>2, <2>1 DEF PageTypes
  <2>3. painted' \in Screen
    BY <1>2, <2>1, <2>2 DEF Repaint, Screen
  <2>4. spoiled' \in BOOLEAN
    BY DEF PaintMessages
  <2> QED
    BY <2>3, <2>4 DEF PaintMessages, PageTypes
<1>4. MembersAsked(flight[f].owner) \in Call
  BY <1>1 DEF MembersAsked, Call, CoreTypes
<1>5. /\ flight' \in Seq(Call) /\ Len(flight') = Len(flight)
      /\ DOMAIN flight' = DOMAIN flight
      /\ \A g \in DOMAIN flight : flight'[g].owner = flight[g].owner
      /\ \A g \in DOMAIN flight : flight'[g].at = "messages" => flight'[g] = flight[g]
  BY <1>1, <1>4 DEF PaintMessages, MembersAsked
<1>6. CoreTypes' /\ SwitchesOK' /\ SocketsOK'
  BY <1>5 DEF PaintMessages, CoreTypes, SwitchesOK, SocketsOK, Live
<1>7. CallsOK'
  BY <1>5 DEF PaintMessages, CallsOK
<1> QED
  BY <1>3, <1>5, <1>6, <1>7

\* A refresh that ends, or fails, leaves the others as they were, but for their doubt.
LEMMA ReturnKeeps ==
    ASSUME Core, NEW f \in DOMAIN flight, UNCHANGED <<token, active, sock>>,
           switch' = Returned(f), flight' \in Seq(Call),
           Len(flight') = Len(flight) - 1,
           \A g \in 1..Len(flight) - 1 :
              LET call == flight[IF g < f THEN g ELSE g + 1]
              IN  /\ flight'[g].at = call.at /\ flight'[g].room = call.room
                  /\ flight'[g].owner = call.owner
    PROVE  Core'
<1> USE DEF Core
<1>1. /\ flight \in Seq(Call) /\ Len(flight) \in Nat /\ f \in 1..Len(flight)
      /\ DOMAIN flight = 1..Len(flight) /\ flight[f] \in Call
      /\ DOMAIN flight' = 1..Len(flight) - 1
  BY DEF CoreTypes
<1> DEFINE owner == flight[f].owner
           old(g) == IF g < f THEN g ELSE g + 1
<1>2. \A g \in DOMAIN flight' : /\ old(g) \in DOMAIN flight /\ old(g) # f
                                /\ flight'[g].at = flight[old(g)].at
                                /\ flight'[g].room = flight[old(g)].room
                                /\ flight'[g].owner = flight[old(g)].owner
  BY <1>1
<1>3. \A g, h \in DOMAIN flight' : old(g) = old(h) => g = h
  BY <1>1
<1>4. owner \in 0..MaxSwitches
  BY <1>1 DEF Call
<1>5. \/ switch' = switch
      \/ /\ owner # 0 /\ owner \in Tokens /\ switch[owner].at = "messages"
         /\ switch' = [switch EXCEPT ![owner].at = "open"]
  BY <1>1, <1>4, BoundsAssumption DEF Returned, CallsOK, Tokens
<1>6. /\ switch' \in [Tokens -> SwitchType]
      /\ \A t \in Tokens : switch'[t].room = switch[t].room
      /\ \A t \in Tokens : switch'[t] = switch[t] \/
            (t = owner /\ switch[t].at = "messages" /\ switch'[t].at = "open")
  <2>1. CASE switch' = switch
    BY <2>1 DEF CoreTypes
  <2>2. CASE /\ owner \in Tokens /\ switch[owner].at = "messages"
             /\ switch' = [switch EXCEPT ![owner].at = "open"]
    <3>1. switch \in [Tokens -> SwitchType]
      BY DEF CoreTypes
    <3> HIDE DEF owner
    <3> QED
      BY <2>2, <3>1 DEF SwitchType
  <2> QED
    BY <1>5, <2>1, <2>2
<1>7. CoreTypes'
  BY <1>6 DEF CoreTypes
<1>8. SwitchesOK'
  BY <1>6 DEF SwitchesOK, CoreTypes
<1>9. SocketsOK'
  BY DEF SocketsOK, Live
<1>10. CallsOK'
  <2> HIDE DEF old
  <2> SUFFICES ASSUME NEW g \in DOMAIN flight'
               PROVE  /\ flight'[g].at = "messages" => flight'[g].room \in Rooms
                      /\ flight'[g].owner # 0 =>
                            /\ switch'[flight'[g].owner].at = "messages"
                            /\ \A h \in DOMAIN flight' :
                                  flight'[h].owner = flight'[g].owner => h = g
    BY DEF CallsOK
  <2>1. flight'[g].at = "messages" => flight'[g].room \in Rooms
    BY <1>2 DEF CallsOK
  <2>2. ASSUME flight'[g].owner # 0
        PROVE  \A h \in DOMAIN flight' : flight'[h].owner = flight'[g].owner => h = g
    BY <1>2, <1>3, <2>2 DEF CallsOK
  <2>3. ASSUME flight'[g].owner # 0
        PROVE  switch'[flight'[g].owner].at = "messages"
    <3>1. flight[old(g)].owner # 0 /\ switch[flight[old(g)].owner].at = "messages"
      BY <1>2, <2>3 DEF CallsOK
    <3>2. flight[old(g)].owner # owner
      BY <1>1, <1>2, <3>1 DEF CallsOK
    <3>3. flight[old(g)].owner \in Tokens
      <4>1. flight[old(g)] \in Call
        BY <1>1, <1>2
      <4> QED
        BY <3>1, <4>1, BoundsAssumption DEF Call, Tokens
    <3>4. switch'[flight[old(g)].owner] = switch[flight[old(g)].owner]
      BY <1>6, <3>2, <3>3
    <3> QED
      BY <1>2, <3>1, <3>4
  <2> QED
    BY <2>1, <2>2, <2>3
<1> QED
  BY <1>7, <1>8, <1>9, <1>10

\* The members of a refresh came: whoever waited for it goes on.
LEMMA EndRefreshKeeps ==
    ASSUME ClientInv, NEW f \in DOMAIN flight, EndRefresh(f)
    PROVE  ClientInv'
<1> USE DEF ClientInv
<1>1. flight \in Seq(Call) /\ flight[f] \in Call /\ Len(flight) \in Nat
  BY DEF Core, CoreTypes
<1>2. /\ flight' \in Seq(Call) /\ Len(flight') = Len(flight) - 1
      /\ \A g \in 1..Len(flight) - 1 :
            flight'[g] = flight[IF g < f THEN g ELSE g + 1]
  <2>1. flight' = RemoveAt(flight, f)
    BY DEF EndRefresh
  <2>2. \A g \in 1..Len(flight) - 1 :
           RemoveAt(flight, f)[g] = IF g < f THEN flight[g] ELSE flight[g + 1]
    BY <1>1, RemoveAtProperties
  <2> QED
    BY <1>1, <2>1, <2>2, RemoveAtProperties
<1>3. Core'
  BY <1>2, ReturnKeeps DEF EndRefresh
<1>4. PageTypes'
  BY <1>1 DEF EndRefresh, PageTypes, Call
<1>5. Len(flight') <= MaxFlights
  BY <1>1, <1>2, BoundsAssumption
<1> QED
  BY <1>3, <1>4, <1>5

\* A list of a refresh failed: whoever waited for it goes on.
LEMMA FailRefreshKeeps ==
    ASSUME ClientInv, NEW f \in DOMAIN flight, FailRefresh(f)
    PROVE  ClientInv'
<1> USE DEF ClientInv
<1>1. /\ flight \in Seq(Call) /\ flight[f] \in Call /\ Len(flight) \in Nat
      /\ DOMAIN flight = 1..Len(flight)
  BY DEF Core, CoreTypes
<1> DEFINE rest == RemoveAt(flight, f)
<1>2. /\ rest \in Seq(Call) /\ Len(rest) = Len(flight) - 1
      /\ \A g \in 1..Len(flight) - 1 :
            rest[g] = IF g < f THEN flight[g] ELSE flight[g + 1]
  BY <1>1, RemoveAtProperties
<1>3. flight' = [g \in 1..Len(flight) - 1 |->
                    [rest[g] EXCEPT !.doubtful = rest[g].at = "messages"]]
  BY DEF FailRefresh
<1> HIDE DEF rest
<1>4. \A g \in 1..Len(flight) - 1 :
         /\ flight'[g] \in Call
         /\ flight'[g].at = rest[g].at /\ flight'[g].room = rest[g].room
         /\ flight'[g].owner = rest[g].owner
  <2> TAKE g \in 1..Len(flight) - 1
  <2>1. rest[g] \in Call
    BY <1>1, <1>2
  <2>2. (rest[g].at = "messages") \in BOOLEAN
    OBVIOUS
  <2> QED
    BY <1>3, <2>1, <2>2 DEF Call
<1>5. Len(flight) - 1 \in Nat
  BY <1>1
<1>6. flight' \in Seq(Call) /\ Len(flight') = Len(flight) - 1
  BY <1>3, <1>4, <1>5
<1>7. Core'
  BY <1>2, <1>4, <1>6, ReturnKeeps DEF FailRefresh
<1>8. PageTypes'
  BY DEF FailRefresh, PageTypes
<1>9. Len(flight') <= MaxFlights
  BY <1>1, <1>6, BoundsAssumption
<1> QED
  BY <1>7, <1>8, <1>9

\* The members are asked for by the persona manager (refreshMembersAndRoster).
LEMMA PersonasChangedKeeps ==
    ASSUME ClientInv, PersonasChanged
    PROVE  ClientInv'
<1> USE DEF ClientInv, Core
<1>1. MembersAsked(0) \in Call /\ MembersAsked(0).owner = 0 /\ MembersAsked(0).at = "members"
  BY BoundsAssumption DEF MembersAsked, Call, CoreTypes
<1>2. flight' \in Seq(Call) /\ CallsOK'
  BY <1>1, HandlerAsks DEF PersonasChanged
<1>3. CoreTypes' /\ SwitchesOK' /\ SocketsOK'
  BY <1>2 DEF PersonasChanged, CoreTypes, SwitchesOK, SocketsOK, Live
<1>4. PageTypes'
  BY DEF PersonasChanged, PageTypes
<1>5. Len(flight') <= MaxFlights
  BY BoundsAssumption DEF PersonasChanged, AllTaken, CoreTypes
<1> QED
  BY <1>2, <1>3, <1>4, <1>5

-----------------------------------------------------------------------------
(* selectRoom.                                                             *)

\* A newer switch starts, and the socket there was is closed (selectRoom).
LEMMA SwitchKeeps ==
    ASSUME ClientInv, NEW r \in Rooms, Switch(r)
    PROVE  ClientInv'
<1> USE DEF ClientInv, Core
<1>1. /\ token \in Tokens /\ token + 1 \in Tokens /\ token' = token + 1
      /\ switch \in [Tokens -> SwitchType] /\ sock \in [Tokens -> Socket]
  BY BoundsAssumption DEF Switch, CoreTypes, Tokens
<1>2. \A t \in Tokens : t <= token => t <= token' /\ t # token'
  BY <1>1 DEF Tokens
<1>3. switch[token + 1].at = "none" /\ sock[token + 1].ready = "none"
  BY <1>1 DEF SwitchesOK, SocketsOK, Tokens
<1>4. /\ switch' \in [Tokens -> SwitchType]
      /\ switch'[token'] = [at |-> "room", room |-> r]
      /\ \A t \in Tokens : t # token' => switch'[t] = switch[t]
  BY <1>1 DEF Switch, SwitchType
<1>5. /\ sock' \in [Tokens -> Socket]
      /\ \A t \in Tokens : sock'[t] = IF Live(t) THEN Closed(sock[t]) ELSE sock[t]
  <2>1. \A t \in Tokens : Closed(sock[t]) \in Socket
    BY NoSocketProperties DEF Closed, Socket
  <2> QED
    BY <1>1, <2>1 DEF Switch
<1>6. \A t \in Tokens : ~Live(t)'
  BY <1>5 DEF Live, Closed, NoSocket
<1>7. CoreTypes'
  BY <1>1, <1>4, <1>5 DEF Switch, CoreTypes
<1>8. SwitchesOK'
  <2>1. sock'[token'].ready = "none"
    BY <1>1, <1>3, <1>5 DEF Live
  <2>2. token' <= token'
    BY <1>1 DEF Tokens
  <2>3. \A t \in Tokens : switch'[t].at # "none" => t <= token' /\ switch'[t].room \in Rooms
    <3> TAKE t \in Tokens
    <3>1. CASE t = token'
      BY <1>4, <2>2, <3>1
    <3>2. CASE t # token'
      BY <1>2, <1>4, <3>2 DEF SwitchesOK
    <3> QED
      BY <3>1, <3>2
  <2>4. switch'[token'].at = "room"
    BY <1>4
  <2> QED
    BY <2>1, <2>3, <2>4 DEF SwitchesOK
<1>9. SocketsOK'
  <2>1. \A t \in Tokens : sock'[t].ready # "none" => t <= token'
    BY <1>2, <1>5 DEF SocketsOK, Live
  <2>2. \A t \in Tokens : sock'[t].timer => sock'[t].ready = "closed" /\ ~sock'[t].closed
    BY <1>5 DEF SocketsOK, Closed, NoSocket
  <2> QED
    BY <1>6, <2>1, <2>2 DEF SocketsOK
<1>10. CallsOK'
  <2>1. flight' = flight
    BY DEF Switch
  <2>2. \A f \in DOMAIN flight : flight[f].owner # 0 =>
           flight[f].owner \in Tokens /\ flight[f].owner # token'
    BY <1>1, <1>3, OwnersWait
  <2> QED
    BY <1>4, <2>1, <2>2 DEF CallsOK
<1>11. PageTypes'
  <2>1. uplink' \in [Tokens -> Seq(Sent)]
    <3>1. <<>> \in Seq(Sent)
      OBVIOUS
    <3> QED
      BY <3>1 DEF Switch
  <2> QED
    BY <2>1 DEF Switch, PageTypes
<1>12. Len(flight') <= MaxFlights
  BY DEF Switch
<1> QED
  BY <1>7, <1>8, <1>9, <1>10, <1>11, <1>12

\* A switch goes on to its next await, or gives up; it is not one that waits for a
\* refresh.
LEMMA SwitchMoves ==
    ASSUME Core, NEW t \in Tokens, switch[t].at \in {"room", "members", "personas", "open"},
           NEW at \in {"none", "members", "personas"},
           switch' \in [Tokens -> SwitchType],
           switch'[t].at = at, switch'[t].room \in Rooms \/ at = "none",
           t = token /\ at # "none" => active' = switch'[t].room,
           \A s \in Tokens : s # t => switch'[s] = switch[s],
           active' = active \/ (active' \in Rooms /\ t = token),
           UNCHANGED <<token, sock, flight>>
    PROVE  Core'
<1> USE DEF Core
<1>1. token \in Tokens
  BY DEF CoreTypes
<1>2. active' = active \/ \A s \in Tokens : ~Live(s)
  BY DEF SwitchesOK, SocketsOK, Live
<1>3. CoreTypes'
  BY DEF CoreTypes
<1>4. SwitchesOK'
  BY <1>1 DEF SwitchesOK
<1>5. SocketsOK'
  BY <1>2 DEF SocketsOK, Live
<1>6. CallsOK'
  <2>1. \A f \in DOMAIN flight : flight[f].owner # 0 =>
           flight[f].owner \in Tokens /\ flight[f].owner # t
    BY OwnersWait
  <2> QED
    BY <2>1 DEF CallsOK
<1> QED
  BY <1>3, <1>4, <1>5, <1>6

\* A switch read its room, which is active from here.
LEMMA GotRoomKeeps ==
    ASSUME ClientInv, NEW t \in Tokens, GotRoom(t)
    PROVE  ClientInv'
<1> USE DEF ClientInv
<1>1. switch \in [Tokens -> SwitchType] /\ switch[t].room \in Rooms
  BY DEF Core, CoreTypes, SwitchesOK, GotRoom
<1>2. Core'
  <2>1. CASE Stale(t)
    <3>1. switch' = [switch EXCEPT ![t] = NoSwitch] /\ active' = active
      BY <2>1 DEF GotRoom
    <3> QED
      BY <1>1, <3>1, SwitchMoves DEF GotRoom, NoSwitch, SwitchType
  <2>2. CASE ~Stale(t)
    <3>1. switch' = [switch EXCEPT ![t].at = "members"] /\ active' = switch[t].room
      BY <2>2 DEF GotRoom
    <3>2. switch' \in [Tokens -> SwitchType] /\ switch'[t].at = "members"
          /\ switch'[t].room = switch[t].room
      BY <1>1, <3>1 DEF SwitchType
    <3> QED
      BY <1>1, <2>2, <3>1, <3>2, SwitchMoves DEF GotRoom, Stale
  <2> QED
    BY <2>1, <2>2
<1>3. PageTypes' /\ Len(flight') <= MaxFlights
  BY DEF GotRoom, PageTypes
<1> QED
  BY <1>2, <1>3

\* A switch read the members of its room.
LEMMA GotMembersKeeps ==
    ASSUME ClientInv, NEW t \in Tokens, GotMembers(t)
    PROVE  ClientInv'
<1> USE DEF ClientInv
<1>1. switch \in [Tokens -> SwitchType] /\ switch[t].room \in Rooms
  BY DEF Core, CoreTypes, SwitchesOK, GotMembers
<1>2. Core'
  <2>1. CASE Stale(t)
    <3>1. switch' = [switch EXCEPT ![t] = NoSwitch]
      BY <2>1 DEF GotMembers
    <3> QED
      BY <1>1, <3>1, SwitchMoves DEF GotMembers, NoSwitch, SwitchType
  <2>2. CASE ~Stale(t)
    <3>1. switch' = [switch EXCEPT ![t].at = "personas"]
      BY <2>2 DEF GotMembers
    <3>2. switch' \in [Tokens -> SwitchType] /\ switch'[t].at = "personas"
          /\ switch'[t].room = switch[t].room
      BY <1>1, <3>1 DEF SwitchType
    <3>3. active = switch[t].room
      BY <2>2 DEF GotMembers, Stale, Core, SwitchesOK
    <3> QED
      BY <1>1, <3>1, <3>2, <3>3, SwitchMoves DEF GotMembers
  <2> QED
    BY <2>1, <2>2
<1>3. PageTypes' /\ Len(flight') <= MaxFlights
  BY <1>1 DEF GotMembers, PageTypes
<1> QED
  BY <1>2, <1>3

\* A switch could not read its room or its members.
LEMMA FailSwitchKeeps ==
    ASSUME ClientInv, NEW t \in Tokens, FailSwitch(t)
    PROVE  ClientInv'
<1> USE DEF ClientInv
<1>1. switch \in [Tokens -> SwitchType]
  BY DEF Core, CoreTypes
<1>2. Core'
  BY <1>1, SwitchMoves DEF FailSwitch, NoSwitch, SwitchType
<1>3. PageTypes' /\ Len(flight') <= MaxFlights
  BY DEF FailSwitch, PageTypes
<1> QED
  BY <1>2, <1>3

\* The switch asks for the messages and waits for that refresh.
LEMMA GotPersonasKeeps ==
    ASSUME ClientInv, NEW t \in Tokens, GotPersonas(t)
    PROVE  ClientInv'
<1> USE DEF ClientInv, Core
<1>1. switch \in [Tokens -> SwitchType] /\ switch[t].room \in Rooms
  BY DEF CoreTypes, SwitchesOK, GotPersonas
<1>2. CASE Stale(t)
  <2>1. switch' = [switch EXCEPT ![t] = NoSwitch] /\ UNCHANGED <<flight, painted, chip>>
    BY <1>2 DEF GotPersonas
  <2>2. Core'
    <3> HIDE DEF Core
    <3> QED
      BY <1>1, <2>1, SwitchMoves DEF ClientInv, GotPersonas, NoSwitch, SwitchType
  <2>3. PageTypes' /\ Len(flight') <= MaxFlights
    BY <2>1 DEF GotPersonas, PageTypes
  <2> QED
    BY <2>2, <2>3
<1>3. CASE ~Stale(t)
  <2>1. /\ ~AllTaken
        /\ painted' = [painted EXCEPT !.fresh = TRUE] /\ chip' = FALSE
        /\ flight' = WithRefresh(active, t)
        /\ switch' = [switch EXCEPT ![t].at = "messages"]
        /\ UNCHANGED <<server, token, active, members, sock, uplink, banner, spoiled>>
    BY <1>3 DEF GotPersonas
  <2>2. t = token /\ active = switch[t].room /\ t \in Nat /\ t # 0 /\ t \in 0..MaxSwitches
    BY <1>3, BoundsAssumption DEF GotPersonas, Stale, SwitchesOK, Tokens
  <2>3. Asked(active, t) \in Call /\ Asked(active, t).owner = t /\ Asked(active, t).room \in Rooms
    BY <1>1, <2>2, AskedProperties
  <2>4. /\ flight' \in Seq(Call) /\ DOMAIN flight = 1..Len(flight) /\ Len(flight) \in Nat
        /\ Len(flight') = Len(flight) + 1 /\ DOMAIN flight' = 1..Len(flight) + 1
        /\ \A f \in 1..Len(flight) : flight'[f] = flight[f]
        /\ flight'[Len(flight) + 1] = Asked(active, t)
    BY <2>1, <2>3 DEF WithRefresh, CoreTypes
  <2>5. /\ switch' \in [Tokens -> SwitchType]
        /\ switch'[t].at = "messages" /\ switch'[t].room = switch[t].room
        /\ \A s \in Tokens : s # t => switch'[s] = switch[s]
    BY <1>1, <2>1 DEF SwitchType
  <2>6. \A f \in DOMAIN flight : flight[f].owner # 0 =>
           flight[f].owner \in Tokens /\ flight[f].owner # t
    BY OwnersWait DEF GotPersonas
  <2>7. CallsOK'
    <3>1. \A f \in 1..Len(flight) :
             /\ flight'[f].owner # t
             /\ flight'[f].at = "messages" => flight'[f].room \in Rooms
             /\ flight'[f].owner # 0 => switch'[flight'[f].owner].at = "messages"
      <4> TAKE f \in 1..Len(flight)
      <4>1. f \in DOMAIN flight /\ flight'[f] = flight[f]
        BY <2>4
      <4>2. flight[f].owner # t
        BY <2>2, <2>6, <4>1
      <4>3. flight[f].at = "messages" => flight[f].room \in Rooms
        BY <4>1 DEF CallsOK
      <4>4. flight[f].owner # 0 => switch'[flight[f].owner].at = "messages"
        BY <2>5, <2>6, <4>1, <4>2 DEF CallsOK
      <4> QED
        BY <4>1, <4>2, <4>3, <4>4
    <3>2. \A f, g \in 1..Len(flight) :
             flight'[f].owner # 0 /\ flight'[g].owner = flight'[f].owner => g = f
      BY <2>4 DEF CallsOK
    <3> QED
      BY <2>2, <2>3, <2>4, <2>5, <3>1, <3>2 DEF CallsOK
  <2>8. CoreTypes' /\ SwitchesOK'
    BY <1>1, <2>1, <2>2, <2>4, <2>5 DEF CoreTypes, SwitchesOK, GotPersonas
  <2>9. SocketsOK'
    BY <2>1 DEF SocketsOK, Live
  <2>10. PageTypes'
    BY <2>1 DEF PageTypes, Screen
  <2>11. Len(flight') <= MaxFlights
    BY <2>1, <2>4, BoundsAssumption DEF AllTaken
  <2> QED
    BY <2>7, <2>8, <2>9, <2>10, <2>11
<1> QED
  BY <1>2, <1>3

\* A switch opens the one socket it ever opens (openSocket).
LEMMA OpenSocketKeeps ==
    ASSUME ClientInv, NEW t \in Tokens, OpenSocket(t)
    PROVE  ClientInv'
<1> USE DEF ClientInv, Core
<1>1. /\ switch \in [Tokens -> SwitchType] /\ switch[t].room \in Rooms
      /\ sock \in [Tokens -> Socket] /\ token \in Tokens
  BY DEF CoreTypes, SwitchesOK, OpenSocket
<1>2. CASE Stale(t)
  <2>1. switch' = [switch EXCEPT ![t] = NoSwitch] /\ UNCHANGED <<sock, banner>>
    BY <1>2 DEF OpenSocket
  <2>2. Core'
    <3> HIDE DEF Core
    <3> QED
      BY <1>1, <2>1, SwitchMoves DEF ClientInv, OpenSocket, NoSwitch, SwitchType
  <2>3. PageTypes' /\ Len(flight') <= MaxFlights
    BY <2>1 DEF OpenSocket, PageTypes
  <2> QED
    BY <2>2, <2>3
<1>3. CASE ~Stale(t)
  <2>1. /\ switch' = [switch EXCEPT ![t] = NoSwitch]
        /\ sock' = [sock EXCEPT ![t] = [NoSocket EXCEPT !.ready = "connecting",
                                                        !.room = switch[t].room]]
        /\ banner' = "hidden"
        /\ UNCHANGED <<server, token, active, members, flight, painted, chip, uplink,
                       spoiled>>
    BY <1>3 DEF OpenSocket
  <2>2. t = token /\ active = switch[t].room /\ t <= token
    BY <1>1, <1>3 DEF OpenSocket, Stale, SwitchesOK, Tokens
  <2>3. /\ switch' \in [Tokens -> SwitchType] /\ switch'[t].at = "none"
        /\ \A s \in Tokens : s # t => switch'[s] = switch[s]
    BY <1>1, <2>1 DEF NoSwitch, SwitchType
  <2>4. /\ sock' \in [Tokens -> Socket]
        /\ sock'[t].ready = "connecting" /\ sock'[t].room = active
        /\ ~sock'[t].timer /\ ~sock'[t].closed
        /\ \A s \in Tokens : s # t => sock'[s] = sock[s]
    <3> DEFINE new == [NoSocket EXCEPT !.ready = "connecting", !.room = switch[t].room]
    <3>1. /\ new \in Socket
          /\ new.ready = "connecting" /\ new.room = active /\ ~new.timer /\ ~new.closed
      BY <1>1, <2>2, NoSocketProperties DEF Socket
    <3>2. sock' = [sock EXCEPT ![t] = new]
      BY <2>1
    <3> HIDE DEF new
    <3> QED
      BY <1>1, <3>1, <3>2
  <2>5. CoreTypes' /\ SwitchesOK'
    BY <2>1, <2>2, <2>3, <2>4 DEF CoreTypes, SwitchesOK
  <2>6. SocketsOK'
    BY <1>1, <2>1, <2>2, <2>4 DEF SocketsOK, Live
  <2>7. CallsOK'
    <3>1. \A f \in DOMAIN flight : flight[f].owner # 0 =>
             flight[f].owner \in Tokens /\ flight[f].owner # t
      BY OwnersWait DEF OpenSocket
    <3> QED
      BY <2>1, <2>3, <3>1 DEF CallsOK
  <2>8. PageTypes' /\ Len(flight') <= MaxFlights
    BY <2>1 DEF PageTypes
  <2> QED
    BY <2>5, <2>6, <2>7, <2>8
<1> QED
  BY <1>2, <1>3

-----------------------------------------------------------------------------
(* RoomSocket.                                                             *)

\* The socket of the newest switch changes and stays that of the active room.
LEMMA SocketMoves ==
    ASSUME CoreTypes, SwitchesOK, SocketsOK, NEW t \in Tokens, Live(t),
           NEW s \in Socket, s.room = sock[t].room, s.ready # "none", ~s.closed,
           s.timer => s.ready = "closed",
           sock' = [sock EXCEPT ![t] = s], UNCHANGED <<token, active, switch>>,
           flight' \in Seq(Call), CallsOK'
    PROVE  Core'
<1>1. t = token /\ sock[t].room = active /\ active \in Rooms /\ sock[t].ready # "none"
  BY DEF SocketsOK, Live
<1>2. /\ sock' \in [Tokens -> Socket] /\ sock'[t] = s
      /\ \A u \in Tokens : u # t => sock'[u] = sock[u]
  BY DEF CoreTypes
<1>3. switch[token].at = "none"
  BY <1>1 DEF SwitchesOK
<1>4. CoreTypes'
  BY <1>2 DEF CoreTypes
<1>5. SwitchesOK'
  BY <1>3 DEF SwitchesOK
<1>6. SocketsOK'
  <2> SUFFICES ASSUME NEW u \in Tokens
               PROVE  /\ sock'[u].ready # "none" => u <= token
                      /\ Live(u)' => u = token /\ sock'[u].room = active /\ active \in Rooms
                      /\ sock'[u].timer => sock'[u].ready = "closed" /\ ~sock'[u].closed
    BY DEF SocketsOK
  <2>1. CASE u = t
    BY <1>1, <1>2, <2>1 DEF SocketsOK
  <2>2. CASE u # t
    BY <1>2, <2>2 DEF SocketsOK, Live
  <2> QED
    BY <2>1, <2>2
<1> QED
  BY <1>4, <1>5, <1>6 DEF Core

\* A step that leaves the refreshes alone keeps their number within bounds.
LEMMA FlightKept ==
    ASSUME CoreTypes, CallsOK, UNCHANGED <<flight, switch>>
    PROVE  flight' \in Seq(Call) /\ CallsOK'
BY DEF CoreTypes, CallsOK

\* What the page sent over a socket that is gone is gone.
LEMMA NothingSent == <<>> \in Seq(Sent)
OBVIOUS

\* A socket that was not closed by the page is lost (RoomSocket's close event).
LEMMA LoseKeeps ==
    ASSUME ClientInv, NEW t \in Tokens, Live(t), Lose(t)
    PROVE  ClientInv'
<1> USE DEF ClientInv
<1>1. sock[t] \in Socket /\ sock[t].ready # "none" /\ ~sock[t].closed
  BY DEF Core, CoreTypes, Live
<1> DEFINE s == IF sock[t].retry >= MaxRetries
                THEN [sock[t] EXCEPT !.ready = "closed"]
                ELSE [sock[t] EXCEPT !.ready = "closed", !.timer = TRUE,
                                     !.retry = NextTry(sock[t].retry)]
<1>2. sock' = [sock EXCEPT ![t] = s]
  BY DEF Lose
<1>3. s \in Socket /\ s.room = sock[t].room /\ s.ready = "closed" /\ ~s.closed
  <2>1. CASE sock[t].retry >= MaxRetries
    BY <1>1, <2>1 DEF Socket
  <2>2. CASE ~(sock[t].retry >= MaxRetries)
    <3>1. NextTry(sock[t].retry) \in 0..MaxRetries
      BY <1>1, <2>2, RetriesAssumption DEF Socket, NextTry
    <3> QED
      BY <1>1, <2>2, <3>1 DEF Socket
  <2> QED
    BY <2>1, <2>2
<1> HIDE DEF s
<1>4. Core'
  BY <1>2, <1>3, SocketMoves, FlightKept DEF Core, Lose
<1>5. PageTypes'
  BY NothingSent DEF Lose, PageTypes
<1>6. Len(flight') <= MaxFlights
  BY DEF Lose
<1> QED
  BY <1>4, <1>5, <1>6

\* A retry is due (RoomSocket's timer).
LEMMA TimerFiresKeeps ==
    ASSUME ClientInv, NEW t \in Tokens, TimerFires(t)
    PROVE  ClientInv'
<1> USE DEF ClientInv
<1>1. sock[t] \in Socket /\ Live(t) /\ ~sock[t].closed
  BY DEF Core, CoreTypes, SocketsOK, TimerFires, Live
<1> DEFINE s == [sock[t] EXCEPT !.timer = FALSE, !.ready = "connecting"]
<1>2. sock' = [sock EXCEPT ![t] = s]
  BY DEF TimerFires
<1>3. /\ s \in Socket /\ s.room = sock[t].room
      /\ s.ready = "connecting" /\ ~s.closed /\ ~s.timer
  BY <1>1 DEF Socket
<1> HIDE DEF s
<1>4. Core'
  BY <1>1, <1>2, <1>3, SocketMoves, FlightKept DEF Core, TimerFires
<1>5. PageTypes' /\ Len(flight') <= MaxFlights
  BY DEF TimerFires, PageTypes
<1> QED
  BY <1>4, <1>5

\* A handler of the live socket asks for the messages of its room.
LEMMA RefreshByHandler ==
    ASSUME ClientInv, NEW t \in Tokens, Live(t), ~AllTaken,
           flight' = WithRefresh(active, 0), UNCHANGED switch
    PROVE  flight' \in Seq(Call) /\ CallsOK' /\ Len(flight') <= MaxFlights
<1> USE DEF ClientInv
<1>1. active \in Rooms /\ 0 \in 0..MaxSwitches
  BY BoundsAssumption DEF Core, SocketsOK
<1>2. /\ Asked(active, 0) \in Call /\ Asked(active, 0).owner = 0
      /\ Asked(active, 0).room \in Rooms
  BY <1>1, AskedProperties
<1>3. flight' \in Seq(Call) /\ CallsOK'
  BY <1>2, HandlerAsks DEF Core, WithRefresh
<1>4. Len(flight') = Len(flight) + 1 /\ Len(flight) \in Nat
  BY DEF WithRefresh, Core, CoreTypes
<1> QED
  BY <1>3, <1>4, BoundsAssumption DEF AllTaken

\* A socket is open (RoomSocket's open event).
LEMMA ConnectedKeeps ==
    ASSUME ClientInv, NEW t \in Tokens, Connected(t)
    PROVE  ClientInv'
<1> USE DEF ClientInv
<1>1. sock[t] \in Socket /\ Live(t) /\ ~sock[t].closed /\ sock[t].ready = "connecting"
      /\ ~sock[t].timer
  BY DEF Core, CoreTypes, SocketsOK, Connected, Live
<1> DEFINE s == [sock[t] EXCEPT !.ready = "open", !.retry = 0, !.opened = TRUE]
<1>2. sock' = [sock EXCEPT ![t] = s]
  BY DEF Connected
<1>3. s \in Socket /\ s.room = sock[t].room /\ s.ready = "open" /\ ~s.closed /\ ~s.timer
  <2>1. 0 \in 0..MaxRetries
    BY RetriesAssumption
  <2> QED
    BY <1>1, <2>1 DEF Socket
<1> HIDE DEF s
<1>4. flight' \in Seq(Call) /\ CallsOK' /\ Len(flight') <= MaxFlights
  <2>1. CASE sock[t].opened
    BY <1>1, <2>1, RefreshByHandler DEF Connected, OnOpen
  <2>2. CASE ~sock[t].opened
    BY <2>2, FlightKept DEF Connected, OnOpen, Core
  <2> QED
    BY <2>1, <2>2
<1>5. Core'
  BY <1>1, <1>2, <1>3, <1>4, SocketMoves DEF Core, Connected
<1>6. PageTypes'
  BY DEF Connected, PageTypes
<1> QED
  BY <1>4, <1>5, <1>6

\* The user reconnects (RoomSocket.reconnect).
LEMMA ReconnectKeeps ==
    ASSUME ClientInv, Reconnect
    PROVE  ClientInv'
<1> USE DEF ClientInv
<1>1. PageTypes' /\ Len(flight') <= MaxFlights
  BY DEF Reconnect, PageTypes
<1>2. CASE ~\E t \in Tokens : Live(t)
  <2>1. UNCHANGED <<token, active, switch, sock, flight>>
    BY <1>2 DEF Reconnect
  <2> QED
    BY <1>1, <2>1, CoreKept
<1>3. ASSUME NEW t \in Tokens, Live(t)
      PROVE  ClientInv'
  <2>1. /\ sock \in [Tokens -> Socket] /\ sock[t] \in Socket
        /\ sock[t].ready # "none" /\ ~sock[t].closed
    BY <1>3 DEF Core, CoreTypes, Live
  <2>2. \A u \in Tokens : u # t => ~Live(u)
    BY <1>3 DEF Core, SocketsOK
  <2> DEFINE s == [sock[t] EXCEPT !.retry = 0, !.timer = FALSE, !.ready = "connecting"]
  <2>3. /\ s \in Socket /\ s.room = sock[t].room
        /\ s.ready = "connecting" /\ ~s.closed /\ ~s.timer
    <3>1. 0 \in 0..MaxRetries
      BY RetriesAssumption
    <3> QED
      BY <2>1, <3>1 DEF Socket
  <2>4. sock' = [sock EXCEPT ![t] = s]
    BY <1>3, <2>1, <2>2 DEF Reconnect
  <2> HIDE DEF s
  <2>5. Core'
    BY <1>3, <2>3, <2>4, SocketMoves, FlightKept DEF Core, Reconnect
  <2> QED
    BY <1>1, <2>5
<1> QED
  BY <1>2, <1>3

-----------------------------------------------------------------------------
(* Posts and frames.                                                       *)

\* A post is sent (onSend).
LEMMA SendKeeps ==
    ASSUME ClientInv, NEW t \in Tokens, Send(t)
    PROVE  ClientInv'
<1> USE DEF ClientInv
<1>1. Live(t) /\ active \in Rooms
  BY DEF Send, IsOpen, Core, SocketsOK
<1>2. uplink' \in [Tokens -> Seq(Sent)]
  <2>1. PICK frame \in Sent : uplink' = [uplink EXCEPT ![t] = Append(@, frame)]
    BY DEF Send, Sent
  <2> QED
    BY <2>1 DEF PageTypes
<1>3. painted' \in Screen
  BY <1>1 DEF Send, PageTypes, Echoed, Repaint, Screen
<1>4. PageTypes'
  BY <1>2, <1>3 DEF Send, PageTypes
<1>5. Core' /\ Len(flight') <= MaxFlights
  BY CoreKept DEF Send
<1> QED
  BY <1>4, <1>5

\* A command is sent from the console.
LEMMA CommandKeeps ==
    ASSUME ClientInv, NEW t \in Tokens, Command(t)
    PROVE  ClientInv'
<1> USE DEF ClientInv
<1>1. uplink' \in [Tokens -> Seq(Sent)]
  <2>1. PICK frame \in Sent : uplink' = [uplink EXCEPT ![t] = Append(@, frame)]
    BY DEF Command, Sent
  <2> QED
    BY <2>1 DEF PageTypes
<1>2. PageTypes'
  BY <1>1 DEF Command, PageTypes
<1>3. Core' /\ Len(flight') <= MaxFlights
  BY CoreKept DEF Command
<1> QED
  BY <1>2, <1>3

\* The server answers one frame of a socket.
LEMMA HandleKeeps ==
    ASSUME ClientInv, NEW t \in Tokens, Handle(t)
    PROVE  ClientInv'
<1> USE DEF ClientInv
<1>1. /\ uplink \in [Tokens -> Seq(Sent)] /\ uplink[t] # <<>> /\ uplink[t] \in Seq(Sent)
      /\ server \in [Rooms -> Nat] /\ sock[t].room \in Rooms
  BY DEF Handle, IsOpen, PageTypes, Core, SocketsOK
<1>2. Tail(uplink[t]) \in Seq(Sent) /\ <<"turn">> \o Tail(uplink[t]) \in Seq(Sent)
  <2>1. Tail(uplink[t]) \in Seq(Sent)
    BY <1>1
  <2>2. <<"turn">> \in Seq(Sent)
    BY DEF Sent
  <2> QED
    BY <2>1, <2>2, ConcatProperties
<1>3. \/ uplink' = [uplink EXCEPT ![t] = Tail(@)]
      \/ uplink' = [uplink EXCEPT ![t] = <<"turn">> \o Tail(@)]
  BY DEF Handle
<1>4. uplink' \in [Tokens -> Seq(Sent)]
  BY <1>1, <1>2, <1>3
<1>5. server' = server \/ server' = [server EXCEPT ![sock[t].room] = @ + 1]
  BY DEF Handle
<1>6. server' \in [Rooms -> Nat]
  BY <1>1, <1>5
<1>7. PageTypes'
  BY <1>4, <1>6 DEF Handle, PageTypes
<1>8. Core' /\ Len(flight') <= MaxFlights
  BY CoreKept DEF Handle
<1> QED
  BY <1>7, <1>8

\* A frame is delivered to the page (the handlers openSocket subscribes).
LEMMA DeliverKeeps ==
    ASSUME ClientInv, NEW t \in Tokens, Deliver(t)
    PROVE  ClientInv'
<1> USE DEF ClientInv
<1>1. Live(t)
  BY DEF Deliver, IsOpen
<1>2. CASE ~AllTaken /\ flight' = WithRefresh(active, 0) /\ UNCHANGED painted
  <2>1. flight' \in Seq(Call) /\ CallsOK' /\ Len(flight') <= MaxFlights
    BY <1>1, <1>2, RefreshByHandler DEF Deliver
  <2>2. CoreTypes' /\ SwitchesOK' /\ SocketsOK'
    BY <2>1 DEF Deliver, Core, CoreTypes, SwitchesOK, SocketsOK, Live
  <2>3. PageTypes'
    BY <1>2 DEF Deliver, PageTypes
  <2> QED
    BY <2>1, <2>2, <2>3 DEF Core
<1>3. CASE painted' = [painted EXCEPT !.live = TRUE] /\ UNCHANGED flight
  <2>1. Core' /\ Len(flight') <= MaxFlights
    BY <1>3, CoreKept DEF Deliver
  <2>2. painted' \in Screen
    BY <1>3 DEF PageTypes, Screen
  <2>3. PageTypes'
    BY <2>2 DEF Deliver, PageTypes
  <2> QED
    BY <2>1, <2>3
<1> QED
  BY <1>2, <1>3 DEF Deliver

\* Another browser adds a message.
LEMMA ElsewhereKeeps ==
    ASSUME ClientInv, NEW r \in Rooms, Elsewhere(r)
    PROVE  ClientInv'
<1>1. server' \in [Rooms -> Nat]
  BY DEF ClientInv, PageTypes, Elsewhere
<1>2. PageTypes'
  BY <1>1 DEF ClientInv, PageTypes, Elsewhere
<1>3. Core' /\ Len(flight') <= MaxFlights
  BY CoreKept DEF ClientInv, Elsewhere
<1> QED
  BY <1>2, <1>3 DEF ClientInv

-----------------------------------------------------------------------------
\* Every step of the page, the user, the network and the server.
LEMMA NextClient == ClientInv /\ [Next]_vars => ClientInv'
<1> SUFFICES ASSUME ClientInv, [Next]_vars PROVE ClientInv'
  OBVIOUS
<1>1. CASE \E f \in DOMAIN flight : PaintMessages(f) \/ EndRefresh(f) \/ FailRefresh(f)
  BY <1>1, PaintMessagesKeeps, EndRefreshKeeps, FailRefreshKeeps
<1>2. CASE \E r \in Rooms : Switch(r) \/ Elsewhere(r)
  BY <1>2, SwitchKeeps, ElsewhereKeeps
<1>3. ASSUME NEW t \in Tokens,
             \/ GotRoom(t) \/ GotMembers(t) \/ GotPersonas(t) \/ FailSwitch(t)
             \/ OpenSocket(t)
      PROVE  ClientInv'
  BY <1>3, GotRoomKeeps, GotMembersKeeps, GotPersonasKeeps, FailSwitchKeeps,
     OpenSocketKeeps
<1>4. ASSUME NEW t \in Tokens,
             Connected(t) \/ Refused(t) \/ Drop(t) \/ TimerFires(t) \/ TearDown(t)
      PROVE  ClientInv'
  <2>1. CASE Connected(t)
    BY <2>1, ConnectedKeeps
  <2>2. CASE TimerFires(t)
    BY <2>2, TimerFiresKeeps
  <2>3. CASE Refused(t) \/ Drop(t) \/ TearDown(t)
    BY <2>3, LoseKeeps DEF Refused, Drop, TearDown, IsOpen
  <2> QED
    BY <1>4, <2>1, <2>2, <2>3
<1>5. ASSUME NEW t \in Tokens, Send(t) \/ Command(t) \/ Handle(t) \/ Deliver(t)
      PROVE  ClientInv'
  BY <1>5, SendKeeps, CommandKeeps, HandleKeeps, DeliverKeeps
<1>6. CASE QuoteEcho
  <2>1. PageTypes'
    BY <1>6 DEF QuoteEcho, PageTypes, ClientInv
  <2> QED
    BY <1>6, <2>1, CoreKept DEF QuoteEcho, ClientInv
<1>7. CASE Reading \/ UNCHANGED vars
  <2>1. UNCHANGED vars
    BY <1>7 DEF Reading
  <2>2. PageTypes'
    BY <2>1 DEF vars, PageTypes, ClientInv
  <2> QED
    BY <2>1, <2>2, CoreKept DEF vars, ClientInv
<1> QED
  BY <1>1, <1>2, <1>3, <1>4, <1>5, <1>6, <1>7, PersonasChangedKeeps, ReconnectKeeps
  DEF Next

\* The invariant of the browser: see ClientInv.
THEOREM ClientIsInOrder == Spec => []ClientInv
BY InitClient, NextClient, PTL DEF Spec

\* The types of the page's state (main.js, ws.js), retries within the cap included.
THEOREM ClientTypeCorrect == Spec => []TypeOK
<1>1. ClientInv => TypeOK
  <2> SUFFICES ASSUME ClientInv PROVE TypeOK
    OBVIOUS
  <2>1. \A t \in Tokens : sock[t] \in Socket /\ switch[t] \in SwitchType
    BY DEF ClientInv, Core, CoreTypes
  <2>2. token \in 0..MaxSwitches
    BY BoundsAssumption DEF ClientInv, Core, CoreTypes, Tokens
  <2>3. \A t \in Tokens :
           /\ switch[t].at \in {"none", "room", "members", "personas", "messages", "open"}
           /\ sock[t].ready \in {"none", "connecting", "open", "closed"}
           /\ sock[t].retry \in 0..MaxRetries
           /\ sock[t].timer => sock[t].ready = "closed" /\ ~sock[t].closed
           /\ uplink[t] \in Seq({"post", "echo quoted", "command", "turn"})
    BY <2>1 DEF ClientInv, Core, PageTypes, SocketsOK, SwitchType, Socket, Sent
  <2>4. /\ {active, members, painted.room} \subseteq Rooms \cup {None}
        /\ painted.length \in Nat
        /\ {painted.echo, painted.live, painted.fresh, chip, spoiled} \subseteq BOOLEAN
    BY DEF ClientInv, Core, CoreTypes, PageTypes, Screen
  <2> QED
    BY <2>2, <2>3, <2>4 DEF TypeOK, ClientInv, PageTypes
<1> QED
  BY <1>1, ClientIsInOrder, PTL

\* There is one socket at most that may still connect or deliver, and it is of the room
\* shown (selectRoom's checks of the switch token, and its close of the old socket).
THEOREM OnlyOneSocket == Spec => []OneSocket
<1>1. ClientInv => OneSocket
  BY DEF ClientInv, Core, SocketsOK, OneSocket
<1> QED
  BY <1>1, ClientIsInOrder, PTL

-----------------------------------------------------------------------------
(* What is on its way to the screen.                                       *)

\* The lists asked for that would be painted in the room shown.
Asking == {f \in DOMAIN flight : flight[f].at = "messages" /\ flight[f].room = active}

\* Has the newest switch read the members?  Has it built its Transcript?
MembersRead == switch[token].at \in {"personas", "messages", "open"} \/ sock[token].ready # "none"
Built == switch[token].at \in {"messages", "open"} \/ sock[token].ready # "none"

FrameType == [type : {"event", "turn_complete", "command_complete", "error"}, length : Nat]

HistoryTypes ==
    /\ told \in [frame : Nat, answer : Nat]
    /\ wire \in [Tokens -> Seq(FrameType)]

\* Frames travel on a live socket that was opened.  A frame that tells of a length tells
\* of one its room has, and is followed by a refresh; so is what is live on the screen.
WiresOK ==
    \A t \in Tokens :
        /\ sock[t].opened => Live(t)
        /\ sock[t].ready = "open" => sock[t].opened
        /\ ~sock[t].opened => wire[t] = <<>> /\ uplink[t] = <<>>
        /\ \A i \in DOMAIN wire[t] : wire[t][i].length > 0 =>
              wire[t][i].type = "turn_complete" /\ wire[t][i].length <= server[sock[t].room]
        /\ wire[t] # <<>> /\ uplink[t] = <<>> => wire[t][Len(wire[t])].type \in Reconciles

\* The members are those of the room shown, or will be asked for.
MembersKept ==
    MembersRead => \/ spoiled \/ members = active
                   \/ \E f \in DOMAIN flight : flight[f].room = active

\* The screen is of the room shown, or will be painted.
RoomKept == Built => spoiled \/ painted.room = active \/ Asking # {}

\* A new Transcript is painted before its switch opens a socket.
FreshKept ==
    Built /\ painted.fresh => spoiled \/ \E f \in Asking : flight[f].owner = token

\* A frame told of no more than was painted or is asked for, unless a list failed, and
\* every one in flight since then.
FramesKept ==
    /\ active \in Rooms => told.frame <= server[active]
    /\ spoiled \/ painted.length >= told.answer
    /\ \/ told.frame <= told.answer
       \/ \E f \in Asking : flight[f].least >= told.frame
       \/ spoiled /\ \A f \in Asking : flight[f].doubtful

\* What will bring a refresh: the socket opening again, the server's answer to what was
\* sent, or a frame on its way.
RefreshComes ==
    \/ sock[token].opened /\ sock[token].ready # "open"
    \/ uplink[token] # <<>>
    \/ \E i \in DOMAIN wire[token] : wire[token][i].type \in Reconciles

\* An echo or a live bubble has a refresh to come.
GhostsKept ==
    Built => \/ spoiled \/ ~(painted.echo \/ painted.live)
             \/ Asking # {} \/ RefreshComes

\* What the page lacks is on its way.
PageKept == MembersKept /\ RoomKept /\ FreshKept /\ FramesKept

ScreenInv == HistoryTypes /\ WiresOK /\ PageKept /\ GhostsKept

-----------------------------------------------------------------------------
\* The transcript starts with nothing asked for and nothing shown.
LEMMA InitScreen == Init => ScreenInv
<1> SUFFICES ASSUME Init PROVE ScreenInv
  OBVIOUS
<1>1. token \in Tokens /\ switch[token].at = "room" /\ sock[token].ready = "none"
  BY BoundsAssumption DEF Init, Tokens, NoSocket
<1>2. HistoryTypes
  <2>1. <<>> \in Seq(FrameType)
    OBVIOUS
  <2> QED
    BY <2>1 DEF Init, HistoryTypes, NothingTold
<1>3. WiresOK
  BY DEF Init, WiresOK, NoSocket
<1>4. ~MembersRead /\ ~Built
  BY <1>1 DEF MembersRead, Built
<1>5. FramesKept
  BY RoomsAssumption DEF Init, FramesKept, NothingTold
<1> QED
  BY <1>2, <1>3, <1>4, <1>5 DEF ScreenInv, PageKept, MembersKept, RoomKept, FreshKept, GhostsKept

-----------------------------------------------------------------------------
(* Sockets and frames.                                                     *)

\* Frames that the server adds to those on their way.
LEMMA SayProperties ==
    ASSUME NEW frames \in Seq(FrameType), NEW reply \in Seq(FrameType), reply # <<>>
    PROVE  LET more == frames \o reply
           IN  /\ more \in Seq(FrameType) /\ more # <<>>
               /\ more[Len(more)] = reply[Len(reply)]
               /\ Len(more) \in DOMAIN more
               /\ \A i \in DOMAIN more :
                     \/ i \in DOMAIN frames /\ more[i] = frames[i]
                     \/ \E j \in DOMAIN reply : more[i] = reply[j]
<1> DEFINE more == frames \o reply
<1>1. /\ Len(frames) \in Nat /\ Len(reply) \in Nat \ {0}
      /\ DOMAIN frames = 1..Len(frames) /\ DOMAIN reply = 1..Len(reply)
  BY EmptySeq, LenProperties
<1>2. /\ more \in Seq(FrameType) /\ Len(more) = Len(frames) + Len(reply)
      /\ \A i \in 1..Len(frames) + Len(reply) :
            more[i] = IF i <= Len(frames) THEN frames[i] ELSE reply[i - Len(frames)]
  BY ConcatProperties
<1> HIDE DEF more
<1>3. DOMAIN more = 1..Len(more)
  BY <1>2, LenProperties
<1>4. more[Len(more)] = reply[Len(reply)]
  <2>1. /\ Len(more) \in 1..Len(frames) + Len(reply) /\ ~(Len(more) <= Len(frames))
        /\ Len(more) - Len(frames) = Len(reply)
    BY <1>1, <1>2
  <2> QED
    BY <1>2, <2>1
<1>5. ASSUME NEW i \in DOMAIN more
      PROVE  \/ i \in DOMAIN frames /\ more[i] = frames[i]
             \/ \E j \in DOMAIN reply : more[i] = reply[j]
  <2>1. i \in 1..Len(frames) + Len(reply)
    BY <1>2, <1>3
  <2>2. CASE i <= Len(frames)
    BY <1>1, <1>2, <2>1, <2>2
  <2>3. CASE ~(i <= Len(frames))
    <3>1. i - Len(frames) \in DOMAIN reply /\ more[i] = reply[i - Len(frames)]
      BY <1>1, <1>2, <2>1, <2>3
    <3> QED
      BY <3>1
  <2> QED
    BY <2>2, <2>3
<1>6. more # <<>>
  BY <1>1, <1>2, EmptySeq
<1>7. Len(more) \in DOMAIN more
  BY <1>1, <1>2, <1>3
<1> QED
  BY <1>2, <1>4, <1>5, <1>6, <1>7 DEF more

\* Something was sent.
LEMMA SentProperties ==
    ASSUME NEW sent \in Seq(Sent), NEW frame \in Sent
    PROVE  Append(sent, frame) # <<>>
<1>1. /\ Len(Append(sent, frame)) = Len(sent) + 1 /\ Len(sent) \in Nat
      /\ Append(sent, frame) \in Seq(Sent)
  BY AppendProperties, LenProperties
<1>2. Len(Append(sent, frame)) # 0
  BY <1>1
<1> QED
  BY <1>1, <1>2, EmptySeq

\* What WiresOK says of one socket s, the frames w on their way to it, and what it sent.
WireOK(s, w, u, sv) ==
    /\ s.opened => s.ready # "none" /\ ~s.closed
    /\ s.ready = "open" => s.opened
    /\ ~s.opened => w = <<>> /\ u = <<>>
    /\ \A i \in DOMAIN w : w[i].length > 0 =>
          w[i].type = "turn_complete" /\ w[i].length <= sv[s.room]
    /\ w # <<>> /\ u = <<>> => w[Len(w)].type \in Reconciles

\* WiresOK, socket by socket.
LEMMA WiresAre == WiresOK <=> \A t \in Tokens : WireOK(sock[t], wire[t], uplink[t], server)
BY DEF WiresOK, WireOK, Live

\* A server that has more, a socket that does not open, and what is sent besides, harm
\* nothing.
LEMMA WireKept ==
    ASSUME NEW s, NEW w, NEW u, NEW sv, WireOK(s, w, u, sv),
           NEW s2, s2.opened = s.opened, s2.ready # "none", s2.room = s.room, s2.closed = s.closed,
           s2.ready = "open" => s.ready = "open",
           NEW u2, s.opened \/ u2 = u, u2 = <<>> => u = <<>>,
           NEW sv2,
           w # <<>> => sv2[s.room] >= sv[s.room] /\ sv2[s.room] \in Nat /\ sv[s.room] \in Nat,
           w \in Seq(FrameType)
    PROVE  WireOK(s2, w, u2, sv2)
<1>1. \A i \in DOMAIN w : w[i].length \in Nat /\ w # <<>>
  <2> TAKE i \in DOMAIN w
  <2>1. i \in 1..Len(w) /\ w[i] \in FrameType
    BY LenProperties
  <2>2. w # <<>>
    BY <2>1, EmptySeq
  <2> QED
    BY <2>1, <2>2 DEF FrameType
<1> QED
  BY <1>1 DEF WireOK

\* What is on the way to a socket of the room shown.
LEMMA WireRoom ==
    ASSUME ClientInv, WiresOK, NEW t \in Tokens, sock[t].opened
    PROVE  t = token /\ sock[t].room = active /\ active \in Rooms /\ server[active] \in Nat
BY DEF ClientInv, Core, SocketsOK, WiresOK, PageTypes

\* A step that changes no socket, no frame and what is sent keeps the frames in order.
LEMMA WiresSame ==
    ASSUME WiresOK, UNCHANGED <<server, sock, wire, uplink>>
    PROVE  WiresOK'
BY DEF WiresOK, Live

\* One socket changes as WireKept allows.
LEMMA WiresKept ==
    ASSUME WiresOK, NEW t \in Tokens,
           \A u \in Tokens : u # t =>
               sock'[u] = sock[u] /\ wire'[u] = wire[u] /\ uplink'[u] = uplink[u],
           UNCHANGED server,
           WireOK(sock'[t], wire'[t], uplink'[t], server')
    PROVE  WiresOK'
<1>1. \A u \in Tokens : WireOK(sock'[u], wire'[u], uplink'[u], server')
  BY WiresAre DEF WireOK
<1> QED
  BY <1>1 DEF WiresOK, WireOK, Live

\* A socket that is lost loses the frames on their way.
LEMMA LoseWires ==
    ASSUME ClientInv, HistoryTypes, WiresOK, NEW t \in Tokens, Live(t), Lose(t)
    PROVE  WiresOK' /\ HistoryTypes'
<1>1. /\ sock \in [Tokens -> Socket] /\ wire \in [Tokens -> Seq(FrameType)]
      /\ uplink \in [Tokens -> Seq(Sent)] /\ sock[t].ready # "none" /\ ~sock[t].closed
  BY DEF ClientInv, Core, CoreTypes, PageTypes, HistoryTypes, Live
<1>2. /\ sock'[t].opened = sock[t].opened /\ sock'[t].ready = "closed" /\ ~sock'[t].closed
      /\ wire'[t] = <<>> /\ uplink'[t] = <<>>
      /\ \A u \in Tokens : u # t => /\ sock'[u] = sock[u] /\ wire'[u] = wire[u]
                                    /\ uplink'[u] = uplink[u]
  BY <1>1 DEF Lose, Socket
<1>3. WireOK(sock'[t], wire'[t], uplink'[t], server')
  BY <1>2 DEF WireOK
<1>4. WiresOK'
  BY <1>2, <1>3, WiresKept DEF Lose
<1>5. <<>> \in Seq(FrameType)
  OBVIOUS
<1>6. HistoryTypes'
  BY <1>1, <1>5 DEF HistoryTypes, Lose
<1> QED
  BY <1>4, <1>6

\* The server answers what it was sent.
LEMMA HandleWires ==
    ASSUME ClientInv, HistoryTypes, WiresOK, NEW t \in Tokens, Handle(t)
    PROVE  WiresOK' /\ HistoryTypes'
<1>1. /\ wire \in [Tokens -> Seq(FrameType)] /\ wire[t] \in Seq(FrameType)
      /\ uplink \in [Tokens -> Seq(Sent)] /\ uplink[t] \in Seq(Sent)
      /\ UNCHANGED <<sock, told>> /\ IsOpen(t) /\ uplink[t] # <<>>
  BY DEF HistoryTypes, ClientInv, PageTypes, Handle
<1>2. sock[t].opened /\ WireOK(sock[t], wire[t], uplink[t], server)
  BY <1>1, WiresAre DEF WiresOK, IsOpen
<1> DEFINE room == sock[t].room
<1>3. t = token /\ room = active /\ active \in Rooms /\ server \in [Rooms -> Nat]
  BY <1>2, WireRoom DEF ClientInv, PageTypes
<1> HIDE DEF room
<1> DEFINE Answered(r, u) ==
         /\ r # <<>> /\ wire' = [wire EXCEPT ![t] = wire[t] \o r]
         /\ uplink' = [uplink EXCEPT ![t] = u]
         /\ server' = server \/ server' = [server EXCEPT ![room] = @ + 1]
         /\ u = <<>> => r[Len(r)].type \in Reconciles
         /\ \A j \in DOMAIN r : r[j].length > 0 =>
               /\ r[j].type = "turn_complete" /\ r[j].length <= server'[room]
<1>4. PICK reply \in Seq(FrameType), u2 \in Seq(Sent) : Answered(reply, u2)
  <2>1. /\ Tail(uplink[t]) \in Seq(Sent) /\ <<"turn">> \o Tail(uplink[t]) \in Seq(Sent)
        /\ <<"turn">> \o Tail(uplink[t]) # <<>>
    <3>1. Tail(uplink[t]) \in Seq(Sent) /\ Len(Tail(uplink[t])) \in Nat
      BY <1>1, LenProperties
    <3>2. <<"turn">> \in Seq(Sent) /\ Len(<<"turn">>) = 1
      BY DEF Sent
    <3>3. Len(<<"turn">> \o Tail(uplink[t])) = 1 + Len(Tail(uplink[t]))
      BY <3>1, <3>2, ConcatProperties
    <3> QED
      BY <3>1, <3>2, <3>3, ConcatProperties, EmptySeq
  <2>2. ASSUME NEW f \in FrameType
        PROVE  <<f>> \in Seq(FrameType) /\ <<f>> # <<>> /\ Len(<<f>>) = 1
               /\ DOMAIN <<f>> = {1} /\ <<f>>[1] = f
    OBVIOUS
  <2>3. /\ \A n \in Nat : Frame("turn_complete", n) \in FrameType
        /\ Frame("event", 0) \in FrameType /\ Frame("command_complete", 0) \in FrameType
        /\ Frame("error", 0) \in FrameType
    BY DEF Frame, FrameType
  <2>4. CASE /\ server' = [server EXCEPT ![room] = @ + 1]
             /\ uplink' = [uplink EXCEPT ![t] = <<"turn">> \o Tail(@)]
             /\ wire' = [wire EXCEPT ![t] = wire[t] \o <<Frame("event", 0)>>]
    <3> DEFINE r == <<Frame("event", 0)>>
               u == <<"turn">> \o Tail(uplink[t])
    <3>1. r \in Seq(FrameType) /\ r # <<>> /\ \A j \in DOMAIN r : r[j].length = 0
      BY <2>2, <2>3 DEF Frame
    <3>2. u \in Seq(Sent) /\ u # <<>> /\ uplink' = [uplink EXCEPT ![t] = u]
      BY <2>1, <2>4
    <3>3. wire' = [wire EXCEPT ![t] = wire[t] \o r]
      BY <2>4
    <3> HIDE DEF r, u
    <3>5. r # <<>> /\ wire' = [wire EXCEPT ![t] = wire[t] \o r]
      BY <3>1, <3>3
    <3>6. uplink' = [uplink EXCEPT ![t] = u]
         /\ (server' = server \/ server' = [server EXCEPT ![room] = @ + 1])
      BY <2>4, <3>2
    <3>7. u = <<>> => r[Len(r)].type \in Reconciles
      BY <3>2
    <3>8. \A j \in DOMAIN r : r[j].length > 0 =>
               /\ r[j].type = "turn_complete" /\ r[j].length <= server'[room]
      BY <3>1
    <3>9. Answered(r, u)
      BY <3>5, <3>6, <3>7, <3>8
    <3> HIDE DEF Answered
    <3> QED
      BY <3>9, <3>1, <3>2
  <2>5. CASE /\ server' = [server EXCEPT ![room] = @ + 1]
             /\ uplink' = [uplink EXCEPT ![t] = Tail(@)]
             /\ wire' = [wire EXCEPT
                     ![t] = wire[t] \o <<Frame("turn_complete", server[room] + 1)>>]
    <3> DEFINE r == <<Frame("turn_complete", server[room] + 1)>>
               u == Tail(uplink[t])
    <3>1. server[room] \in Nat /\ server'[room] = server[room] + 1
      BY <1>3, <2>5
    <3>2. r \in Seq(FrameType) /\ r # <<>> /\ Len(r) = 1 /\ DOMAIN r = {1}
          /\ r[1] = Frame("turn_complete", server[room] + 1)
      BY <2>2, <2>3, <3>1
    <3>3. r[1].type = "turn_complete" /\ r[1].length = server'[room] /\ server'[room] \in Nat
      BY <3>1, <3>2 DEF Frame
    <3>4. u \in Seq(Sent) /\ uplink' = [uplink EXCEPT ![t] = u]
      BY <2>1, <2>5
    <3>5. wire' = [wire EXCEPT ![t] = wire[t] \o r]
      BY <2>5
    <3> HIDE DEF r, u
    <3>6. r # <<>> /\ wire' = [wire EXCEPT ![t] = wire[t] \o r]
      BY <3>2, <3>5
    <3>7. uplink' = [uplink EXCEPT ![t] = u]
          /\ (server' = server \/ server' = [server EXCEPT ![room] = @ + 1])
      BY <2>5, <3>4
    <3>8. /\ r[Len(r)].type \in Reconciles
          /\ \A j \in DOMAIN r : r[j].length > 0 =>
               /\ r[j].type = "turn_complete" /\ r[j].length <= server'[room]
      BY <3>2, <3>3 DEF Reconciles
    <3>9. Answered(r, u)
      BY <3>6, <3>7, <3>8
    <3> HIDE DEF Answered
    <3> QED
      BY <3>9, <3>2, <3>4
  <2>6. CASE /\ server' = server
             /\ uplink' = [uplink EXCEPT ![t] = Tail(@)]
             /\ wire' = [wire EXCEPT
                     ![t] = wire[t] \o <<Frame("event", 0), Frame("command_complete", 0)>>]
    <3> DEFINE r == <<Frame("event", 0), Frame("command_complete", 0)>>
               u == Tail(uplink[t])
    <3>1. r \in Seq(FrameType) /\ r # <<>> /\ Len(r) = 2 /\ DOMAIN r = {1, 2}
          /\ r[1] = Frame("event", 0) /\ r[2] = Frame("command_complete", 0)
      BY <2>3
    <3>2. r[1].length = 0 /\ r[2].length = 0 /\ r[2].type = "command_complete"
      BY <3>1 DEF Frame
    <3>3. u \in Seq(Sent) /\ uplink' = [uplink EXCEPT ![t] = u]
      BY <2>1, <2>6
    <3>4. wire' = [wire EXCEPT ![t] = wire[t] \o r]
      BY <2>6
    <3> HIDE DEF r, u
    <3>6. r # <<>> /\ wire' = [wire EXCEPT ![t] = wire[t] \o r]
      BY <3>1, <3>4
    <3>7. uplink' = [uplink EXCEPT ![t] = u]
          /\ (server' = server \/ server' = [server EXCEPT ![room] = @ + 1])
      BY <2>6, <3>3
    <3>8. /\ r[Len(r)].type \in Reconciles
          /\ \A j \in DOMAIN r : r[j].length > 0 =>
               /\ r[j].type = "turn_complete" /\ r[j].length <= server'[room]
      BY <3>1, <3>2 DEF Reconciles
    <3>9. Answered(r, u)
      BY <3>6, <3>7, <3>8
    <3> HIDE DEF Answered
    <3> QED
      BY <3>9, <3>1, <3>3
  <2>7. CASE /\ server' = server
             /\ uplink' = [uplink EXCEPT ![t] = Tail(@)]
             /\ wire' = [wire EXCEPT ![t] = wire[t] \o <<Frame("error", 0)>>]
    <3> DEFINE r == <<Frame("error", 0)>>
               u == Tail(uplink[t])
    <3>1. r \in Seq(FrameType) /\ r # <<>> /\ Len(r) = 1 /\ DOMAIN r = {1}
          /\ r[1] = Frame("error", 0)
      BY <2>2, <2>3
    <3>2. r[1].length = 0 /\ r[1].type = "error"
      BY <3>1 DEF Frame
    <3>3. u \in Seq(Sent) /\ uplink' = [uplink EXCEPT ![t] = u]
      BY <2>1, <2>7
    <3>4. wire' = [wire EXCEPT ![t] = wire[t] \o r]
      BY <2>7
    <3> HIDE DEF r, u
    <3>6. r # <<>> /\ wire' = [wire EXCEPT ![t] = wire[t] \o r]
      BY <3>1, <3>4
    <3>7. uplink' = [uplink EXCEPT ![t] = u]
          /\ (server' = server \/ server' = [server EXCEPT ![room] = @ + 1])
      BY <2>7, <3>3
    <3>8. /\ r[Len(r)].type \in Reconciles
          /\ \A j \in DOMAIN r : r[j].length > 0 =>
               /\ r[j].type = "turn_complete" /\ r[j].length <= server'[room]
      BY <3>1, <3>2 DEF Reconciles
    <3>9. Answered(r, u)
      BY <3>6, <3>7, <3>8
    <3> HIDE DEF Answered
    <3> QED
      BY <3>9, <3>1, <3>3
  <2> HIDE DEF Answered
  <2> QED
    BY <2>4, <2>5, <2>6, <2>7 DEF Handle, room
<1> DEFINE more == wire[t] \o reply
<1>5. /\ more \in Seq(FrameType) /\ more # <<>>
      /\ more[Len(more)] = reply[Len(reply)]
      /\ \A i \in DOMAIN more :
            \/ i \in DOMAIN wire[t] /\ more[i] = wire[t][i]
            \/ \E j \in DOMAIN reply : more[i] = reply[j]
  BY <1>1, <1>4, SayProperties
<1> HIDE DEF more
<1>6. wire' = [wire EXCEPT ![t] = more]
  BY <1>4 DEF more
<1>7. server[room] \in Nat /\ server'[room] \in Nat /\ server[room] <= server'[room]
  BY <1>3, <1>4
<1>8. \A i \in DOMAIN wire[t] : wire[t][i].length \in Nat
  <2>1. \A i \in DOMAIN wire[t] : wire[t][i] \in FrameType
    BY <1>1
  <2> QED
    BY <2>1 DEF FrameType
<1>9. WireOK(sock[t], more, u2, server')
  BY <1>2, <1>4, <1>5, <1>7, <1>8 DEF WireOK, room
<1>10. WireOK(sock'[t], wire'[t], uplink'[t], server')
  BY <1>1, <1>4, <1>6, <1>9
<1>11. \A u \in Tokens : WireOK(sock'[u], wire'[u], uplink'[u], server')
  <2>1. \A u \in Tokens : u # t => ~sock[u].opened
    BY <1>3, WireRoom
  <2>2. \A u \in Tokens : u # t => wire'[u] = wire[u] /\ uplink'[u] = uplink[u] /\ sock'[u] = sock[u]
    BY <1>1, <1>4, <1>6
  <2> QED
    BY <1>10, <2>1, <2>2, WiresAre DEF WireOK
<1>12. WiresOK'
  BY <1>11 DEF WiresOK, WireOK, Live
<1>13. HistoryTypes'
  BY <1>1, <1>5, <1>6 DEF HistoryTypes
<1> QED
  BY <1>12, <1>13

\* A frame is delivered.
LEMMA DeliverWires ==
    ASSUME ClientInv, HistoryTypes, WiresOK, NEW t \in Tokens, Deliver(t)
    PROVE  WiresOK' /\ HistoryTypes'
<1>1. /\ wire \in [Tokens -> Seq(FrameType)] /\ wire[t] \in Seq(FrameType)
      /\ UNCHANGED <<sock, server, uplink>> /\ IsOpen(t) /\ wire[t] # <<>>
      /\ wire' = [wire EXCEPT ![t] = Tail(@)]
  BY DEF HistoryTypes, Deliver
<1>2. WireOK(sock[t], wire[t], uplink[t], server) /\ sock[t].opened
  BY <1>1, WiresAre DEF WiresOK, IsOpen
<1>3. /\ Tail(wire[t]) \in Seq(FrameType) /\ Len(wire[t]) \in Nat \ {0}
      /\ Len(Tail(wire[t])) = Len(wire[t]) - 1
      /\ DOMAIN Tail(wire[t]) = 1..Len(wire[t]) - 1 /\ DOMAIN wire[t] = 1..Len(wire[t])
      /\ \A i \in 1..Len(wire[t]) - 1 : Tail(wire[t])[i] = wire[t][i + 1]
      /\ Head(wire[t]) \in FrameType
  BY <1>1, HeadTailProperties, EmptySeq, LenProperties
<1>4. Tail(wire[t]) # <<>> => Tail(wire[t])[Len(Tail(wire[t]))] = wire[t][Len(wire[t])]
  <2>1. ASSUME Tail(wire[t]) # <<>> PROVE Len(wire[t]) - 1 \in 1..Len(wire[t]) - 1
    BY <1>3, <2>1, EmptySeq
  <2> QED
    BY <1>3, <2>1
<1>5. WireOK(sock[t], Tail(wire[t]), uplink[t], server)
  <2>1. \A i \in DOMAIN Tail(wire[t]) : i + 1 \in DOMAIN wire[t]
    BY <1>3
  <2> QED
    BY <1>1, <1>2, <1>3, <1>4, <2>1 DEF WireOK
<1>6. WiresOK'
  <2>1. /\ wire'[t] = Tail(wire[t]) /\ sock'[t] = sock[t] /\ uplink'[t] = uplink[t]
        /\ server' = server
        /\ \A u \in Tokens : u # t => sock'[u] = sock[u] /\ wire'[u] = wire[u]
                                      /\ uplink'[u] = uplink[u]
    BY <1>1
  <2>2. WireOK(sock'[t], wire'[t], uplink'[t], server')
    BY <1>5, <2>1
  <2> QED
    BY <2>1, <2>2, WiresKept
<1>7. told' \in [frame : Nat, answer : Nat]
  <2>1. Head(wire[t]).length \in Nat /\ told \in [frame : Nat, answer : Nat]
    BY <1>3 DEF FrameType, HistoryTypes
  <2>2. told' = told \/ told' = [told EXCEPT !.frame = Head(wire[t]).length]
    BY DEF Deliver
  <2> QED
    BY <2>1, <2>2
<1> QED
  BY <1>1, <1>3, <1>6, <1>7 DEF HistoryTypes

\* Every step keeps in order what is on its way.
LEMMA NextWires ==
    ASSUME ClientInv, HistoryTypes, WiresOK, [Next]_vars
    PROVE  WiresOK' /\ HistoryTypes'
<1>0. /\ sock \in [Tokens -> Socket] /\ wire \in [Tokens -> Seq(FrameType)]
      /\ uplink \in [Tokens -> Seq(Sent)] /\ token \in Tokens
      /\ \A t \in Tokens : sock[t] \in Socket /\ wire[t] \in Seq(FrameType)
  BY DEF ClientInv, Core, CoreTypes, PageTypes, HistoryTypes
<1>1. CASE UNCHANGED <<server, sock, wire, uplink, told>>
  BY <1>1, WiresSame DEF HistoryTypes
<1>2. ASSUME NEW f \in DOMAIN flight, PaintMessages(f) PROVE WiresOK' /\ HistoryTypes'
  <2>1. PICK length \in flight[f].least..server[flight[f].room] :
           told' = told \/ told' = [told EXCEPT !.answer = length]
    BY <1>2 DEF PaintMessages
  <2>2. length \in Nat
    <3>1. flight[f] \in Call
      BY DEF ClientInv, Core, CoreTypes
    <3>2. flight[f].room \in Rooms /\ flight[f].least \in Nat
      BY <1>2, <3>1 DEF PaintMessages, ClientInv, Core, CallsOK, Call
    <3> QED
      BY <3>2 DEF ClientInv, PageTypes
  <2>3. told' \in [frame : Nat, answer : Nat]
    BY <2>1, <2>2 DEF HistoryTypes
  <2> QED
    BY <1>2, <2>3, WiresSame DEF PaintMessages, HistoryTypes
<1>3. ASSUME NEW t \in Tokens, GotRoom(t) PROVE WiresOK' /\ HistoryTypes'
  <2>1. told' = told \/ told' = NothingTold
    BY <1>3 DEF GotRoom
  <2>2. told' \in [frame : Nat, answer : Nat]
    BY <2>1 DEF HistoryTypes, NothingTold
  <2> QED
    BY <1>3, <2>2, WiresSame DEF GotRoom, HistoryTypes
<1>4. ASSUME NEW r \in Rooms, Switch(r) PROVE WiresOK' /\ HistoryTypes'
  <2>1. <<>> \in Seq(FrameType)
    OBVIOUS
  <2>2. HistoryTypes'
    BY <1>4, <2>1 DEF Switch, HistoryTypes
  <2>3. \A t \in Tokens : ~sock'[t].opened /\ sock'[t].ready # "open"
    <3>1. \A t \in Tokens : sock'[t] = IF Live(t) THEN Closed(sock[t]) ELSE sock[t]
      BY <1>4 DEF Switch
    <3>2. \A t \in Tokens : ~Live(t) => ~sock[t].opened /\ sock[t].ready # "open"
      BY DEF WiresOK
    <3>3. \A s : ~Closed(s).opened /\ Closed(s).ready = "closed"
      BY DEF Closed, NoSocket
    <3> QED
      BY <3>1, <3>2, <3>3
  <2>4. \A t \in Tokens : wire'[t] = <<>> /\ uplink'[t] = <<>>
    BY <1>4 DEF Switch
  <2> QED
    BY <2>2, <2>3, <2>4 DEF WiresOK
<1>5. ASSUME NEW r \in Rooms, Elsewhere(r) PROVE WiresOK' /\ HistoryTypes'
  <2>1. /\ server \in [Rooms -> Nat] /\ server' = [server EXCEPT ![r] = @ + 1]
        /\ UNCHANGED <<sock, wire, uplink, told>>
    BY <1>5 DEF Elsewhere, ClientInv, PageTypes
  <2>2. ASSUME NEW t \in Tokens
        PROVE  WireOK(sock'[t], wire'[t], uplink'[t], server')
    <3>1. WireOK(sock[t], wire[t], uplink[t], server)
      BY WiresAre
    <3>2. CASE ~sock[t].opened
      BY <2>1, <3>1, <3>2 DEF WireOK
    <3>3. CASE sock[t].opened
      <4>1. sock[t].room \in Rooms /\ sock[t].ready # "none"
        BY <3>1, <3>3, WireRoom DEF WireOK
      <4>2. /\ server'[sock[t].room] \in Nat /\ server[sock[t].room] \in Nat
            /\ server'[sock[t].room] >= server[sock[t].room]
        BY <2>1, <4>1
      <4>3. WireOK(sock[t], wire[t], uplink[t], server')
        BY <1>0, <3>1, <4>1, <4>2, WireKept
      <4> QED
        BY <2>1, <4>3
    <3> QED
      BY <3>2, <3>3
  <2>3. WiresOK'
    BY <2>2 DEF WiresOK, WireOK, Live
  <2> QED
    BY <2>1, <2>3 DEF HistoryTypes
<1>6. ASSUME NEW t \in Tokens, Send(t) \/ Command(t) PROVE WiresOK' /\ HistoryTypes'
  <2>1. PICK frame \in Sent : uplink' = [uplink EXCEPT ![t] = Append(@, frame)]
    BY <1>6 DEF Send, Command, Sent
  <2>2. UNCHANGED <<sock, wire, server, told>> /\ IsOpen(t)
    BY <1>6 DEF Send, Command
  <2>3. Append(uplink[t], frame) # <<>>
    BY <1>0, SentProperties
  <2>4. WireOK(sock[t], wire[t], Append(uplink[t], frame), server)
    <3>1. WireOK(sock[t], wire[t], uplink[t], server) /\ sock[t].opened
      BY <2>2, WiresAre DEF WiresOK, IsOpen
    <3> QED
      BY <2>3, <3>1 DEF WireOK
  <2>5. WireOK(sock'[t], wire'[t], uplink'[t], server')
    BY <1>0, <2>1, <2>2, <2>4
  <2>6. \A u \in Tokens : u # t => sock'[u] = sock[u] /\ wire'[u] = wire[u]
                                   /\ uplink'[u] = uplink[u]
    BY <1>0, <2>1, <2>2
  <2> QED
    BY <2>2, <2>5, <2>6, WiresKept DEF HistoryTypes
<1>7. ASSUME NEW t \in Tokens, Refused(t) \/ Drop(t) \/ TearDown(t)
      PROVE  WiresOK' /\ HistoryTypes'
  <2>1. Live(t) /\ Lose(t)
    BY <1>7 DEF Refused, Drop, TearDown, IsOpen
  <2> QED
    BY <2>1, LoseWires
<1>8. ASSUME NEW t \in Tokens, NEW s \in Socket, Live(t), sock'[t] = s,
             \A u \in Tokens : u # t => sock'[u] = sock[u],
             UNCHANGED <<server, wire, uplink, told>>,
             s.ready # "none", s.room = sock[t].room, ~s.closed,
             s.ready = "open" => s.opened, sock[t].opened => s.opened
      PROVE  WiresOK' /\ HistoryTypes'
  <2>1. WireOK(sock[t], wire[t], uplink[t], server)
    BY WiresAre
  <2>2. WireOK(s, wire[t], uplink[t], server)
    BY <1>8, <2>1 DEF WireOK
  <2> QED
    BY <1>8, <2>2, WiresKept DEF HistoryTypes
<1>9. ASSUME NEW t \in Tokens, Connected(t) PROVE WiresOK' /\ HistoryTypes'
  <2> DEFINE s == [sock[t] EXCEPT !.ready = "open", !.retry = 0, !.opened = TRUE]
  <2>1. sock' = [sock EXCEPT ![t] = s] /\ UNCHANGED <<server, wire, uplink, told>> /\ Live(t)
    BY <1>9 DEF Connected
  <2>0. 0 \in 0..MaxRetries /\ sock[t] \in Socket
    BY <1>0, RetriesAssumption
  <2>2. s \in Socket /\ s.room = sock[t].room /\ s.ready = "open" /\ ~s.closed /\ s.opened
    BY <2>0, <2>1 DEF Socket, Live
  <2> HIDE DEF s
  <2> QED
    BY <1>0, <1>8, <2>1, <2>2
<1>10. ASSUME NEW t \in Tokens, TimerFires(t) PROVE WiresOK' /\ HistoryTypes'
  <2> DEFINE s == [sock[t] EXCEPT !.timer = FALSE, !.ready = "connecting"]
  <2>1. sock' = [sock EXCEPT ![t] = s] /\ UNCHANGED <<server, wire, uplink, told>> /\ Live(t)
    BY <1>10 DEF TimerFires, ClientInv, Core, SocketsOK, Live
  <2>2. /\ s \in Socket /\ s.room = sock[t].room /\ s.ready = "connecting" /\ ~s.closed
        /\ s.opened = sock[t].opened
    BY <1>0, <2>1 DEF Socket, Live
  <2> HIDE DEF s
  <2> QED
    BY <1>0, <1>8, <2>1, <2>2
<1>11. CASE Reconnect
  <2>1. CASE ~\E t \in Tokens : Live(t)
    BY <1>11, <2>1, WiresSame DEF Reconnect, HistoryTypes
  <2>2. ASSUME NEW t \in Tokens, Live(t) PROVE WiresOK' /\ HistoryTypes'
    <3> DEFINE s == [sock[t] EXCEPT !.retry = 0, !.timer = FALSE, !.ready = "connecting"]
    <3>1. \A u \in Tokens : u # t => ~Live(u)
      BY <2>2 DEF ClientInv, Core, SocketsOK
    <3>2. /\ sock'[t] = s /\ \A u \in Tokens : u # t => sock'[u] = sock[u]
          /\ UNCHANGED <<server, wire, uplink, told>>
      BY <1>11, <2>2, <3>1 DEF Reconnect
    <3>0. 0 \in 0..MaxRetries /\ sock[t] \in Socket
      BY <1>0, RetriesAssumption
    <3>3. /\ s \in Socket /\ s.room = sock[t].room /\ s.ready = "connecting" /\ ~s.closed
          /\ s.opened = sock[t].opened
      BY <3>0, <2>2 DEF Socket, Live
    <3> HIDE DEF s
    <3> QED
      BY <1>8, <2>2, <3>2, <3>3
  <2> QED
    BY <2>1, <2>2
<1>12. ASSUME NEW t \in Tokens, OpenSocket(t) PROVE WiresOK' /\ HistoryTypes'
  <2>1. CASE Stale(t)
    BY <1>12, <2>1, WiresSame DEF OpenSocket, HistoryTypes
  <2>2. CASE ~Stale(t)
    <3>1. sock[t].ready = "none"
      BY <1>12, <2>2 DEF OpenSocket, Stale, ClientInv, Core, SwitchesOK
    <3>2. ~sock[t].opened /\ wire[t] = <<>> /\ uplink[t] = <<>>
      BY <3>1 DEF WiresOK, Live
    <3>3. /\ sock'[t].ready = "connecting" /\ ~sock'[t].opened
          /\ \A u \in Tokens : u # t => sock'[u] = sock[u]
          /\ UNCHANGED <<server, wire, uplink, told>>
      BY <1>0, <1>12, <2>2 DEF OpenSocket, NoSocket
    <3>4. WireOK(sock'[t], wire'[t], uplink'[t], server')
      BY <3>2, <3>3 DEF WireOK
    <3> QED
      BY <3>3, <3>4, WiresKept DEF HistoryTypes
  <2> QED
    BY <2>1, <2>2
<1>13. ASSUME NEW f \in DOMAIN flight, EndRefresh(f) \/ FailRefresh(f)
       PROVE  WiresOK' /\ HistoryTypes'
  BY <1>1, <1>13 DEF EndRefresh, FailRefresh
<1>14. ASSUME NEW t \in Tokens, GotMembers(t) \/ GotPersonas(t) \/ FailSwitch(t)
       PROVE  WiresOK' /\ HistoryTypes'
  BY <1>1, <1>14 DEF GotMembers, GotPersonas, FailSwitch
<1>15. CASE PersonasChanged \/ QuoteEcho \/ Reading \/ UNCHANGED vars
  BY <1>1, <1>15 DEF PersonasChanged, QuoteEcho, Reading, vars
<1> QED
  BY <1>2, <1>3, <1>4, <1>5, <1>6, <1>7, <1>9, <1>10, <1>11, <1>12, <1>13, <1>14, <1>15,
     HandleWires, DeliverWires DEF Next

-----------------------------------------------------------------------------
(* What a step shows.                                                      *)

\* A step that paints nothing and keeps what is asked for keeps the page, whatever it does
\* to sockets and frames; the members may be asked for, come, or be spoiled.
LEMMA PageStays ==
    ASSUME PageKept, PageTypes, active \in Rooms => server'[active] \in Nat,
           told \in [frame : Nat, answer : Nat],
           UNCHANGED <<active, token, told>>, spoiled => spoiled',
           painted'.room = painted.room, painted'.length = painted.length,
           painted'.fresh = painted.fresh,
           Built' => Built,
           MembersRead' => \/ spoiled' \/ members' = active
                           \/ MembersRead /\ members' = members /\ spoiled' = spoiled,
           \A f \in DOMAIN flight : flight[f].room = active =>
               \/ spoiled' \/ members' = active
               \/ \E g \in DOMAIN flight' : flight'[g].room = active,
           \A f \in Asking : \E g \in Asking' : flight'[g] = flight[f],
           \A g \in Asking' : \E f \in Asking : flight'[g] = flight[f],
           active \in Rooms => server'[active] >= server[active]
    PROVE  PageKept'
<1>1. MembersKept'
  BY DEF PageKept, MembersKept
<1>2. RoomKept'
  <2>1. Asking # {} => Asking' # {}
    OBVIOUS
  <2> QED
    BY <2>1 DEF PageKept, RoomKept
<1>3. FreshKept'
  BY DEF PageKept, FreshKept
<1>4. FramesKept'
  <2>1. active' \in Rooms => told'.frame <= server'[active']
    BY DEF PageKept, FramesKept, PageTypes
  <2>2. spoiled' \/ painted'.length >= told'.answer
    BY DEF PageKept, FramesKept
  <2>3. \/ told'.frame <= told'.answer
        \/ \E f \in Asking' : flight'[f].least >= told'.frame
        \/ spoiled' /\ \A f \in Asking' : flight'[f].doubtful
    BY DEF PageKept, FramesKept
  <2> QED
    BY <2>1, <2>2, <2>3 DEF FramesKept
<1> QED
  BY <1>1, <1>2, <1>3, <1>4 DEF PageKept

\* So does a step that leaves the refreshes and the members alone.
LEMMA PageSame ==
    ASSUME PageKept, PageTypes, active \in Rooms => server'[active] \in Nat,
           told \in [frame : Nat, answer : Nat],
           UNCHANGED <<active, token, told, spoiled, members, flight>>,
           painted'.room = painted.room, painted'.length = painted.length,
           painted'.fresh = painted.fresh,
           Built' => Built, MembersRead' => MembersRead,
           active \in Rooms => server'[active] >= server[active]
    PROVE  PageKept'
<1>1. Asking' = Asking
  BY DEF Asking
<1>2. /\ \A f \in Asking : \E g \in Asking' : flight'[g] = flight[f]
      /\ \A g \in Asking' : \E f \in Asking : flight'[g] = flight[f]
      /\ \A f \in DOMAIN flight : flight[f].room = active =>
            \E g \in DOMAIN flight' : flight'[g].room = active
  BY <1>1
<1> QED
  BY <1>2, PageStays

\* What will bring a refresh stays, and no echo and no bubble is added.
LEMMA GhostsSame ==
    ASSUME GhostsKept, UNCHANGED <<token, active>>, spoiled => spoiled', Built' => Built,
           painted'.echo = painted.echo, painted'.live = painted.live,
           Asking # {} => Asking' # {}, RefreshComes => RefreshComes'
    PROVE  GhostsKept'
BY DEF GhostsKept

\* One more list of the room shown is asked for: by the newest switch, or by a handler
\* while the Transcript's age does not change.
LEMMA ListAsked ==
    ASSUME PageKept, PageTypes, CoreTypes, active \in Rooms, NEW owner \in {0, token},
           flight' = WithRefresh(active, owner),
           UNCHANGED <<server, token, active, members, spoiled>>,
           told'.answer = told.answer, told'.frame <= server[active],
           painted'.length = painted.length,
           owner = token \/ (painted'.fresh => painted.fresh /\ Built)
    PROVE  PageKept' /\ Asking' # {}
<1>1. /\ flight \in Seq(Call) /\ DOMAIN flight = 1..Len(flight) /\ Len(flight) \in Nat
      /\ DOMAIN flight' = 1..Len(flight) + 1
      /\ \A f \in 1..Len(flight) : flight'[f] = flight[f]
      /\ flight'[Len(flight) + 1] = Asked(active, owner)
  BY DEF CoreTypes, WithRefresh
<1> DEFINE new == Len(flight) + 1
<1>2. new \in DOMAIN flight' /\ flight'[new] = Asked(active, owner) /\ active' = active
  BY <1>1
<1> HIDE DEF new
<1>3. /\ new \in Asking' /\ flight'[new].room = active /\ flight'[new].owner = owner
      /\ flight'[new].least = server[active]
  BY <1>2 DEF Asking, Asked
<1>4. \A f \in Asking : f \in Asking' /\ flight'[f] = flight[f]
  BY <1>1 DEF Asking
<1>5. MembersKept'
  BY <1>2, <1>3 DEF MembersKept
<1>6. RoomKept' /\ Asking' # {}
  BY <1>3 DEF RoomKept
<1>7. FreshKept'
  <2>1. CASE owner = token
    BY <1>3, <2>1 DEF FreshKept
  <2>2. CASE owner # token
    BY <1>4, <2>2 DEF FreshKept, PageKept
  <2> QED
    BY <2>1, <2>2
<1>8. FramesKept'
  <2>1. \E f \in Asking' : flight'[f].least >= told'.frame
    BY <1>3
  <2> QED
    BY <2>1 DEF FramesKept, PageKept
<1> QED
  BY <1>5, <1>6, <1>7, <1>8 DEF PageKept

\* A list is painted (renderMessages).
LEMMA PaintMessagesShows ==
    ASSUME ClientInv, HistoryTypes, PageKept, GhostsKept, NEW f \in DOMAIN flight,
           PaintMessages(f)
    PROVE  PageKept' /\ GhostsKept'
<1> DEFINE room == flight[f].room
<1>1. PICK length \in flight[f].least..server[room] :
         /\ painted' = Repaint(room, length)
         /\ spoiled' = (Overtaken(room, length) \/ (spoiled /\ flight[f].doubtful))
         /\ told' = IF Overtaken(room, length) THEN told ELSE [told EXCEPT !.answer = length]
  BY DEF PaintMessages
<1>2. /\ flight \in Seq(Call) /\ flight[f] \in Call /\ room \in Rooms /\ flight[f].at = "messages"
      /\ server \in [Rooms -> Nat] /\ told \in [frame : Nat, answer : Nat]
      /\ UNCHANGED <<server, token, active, members, switch, sock>>
  BY DEF ClientInv, Core, CoreTypes, CallsOK, PageTypes, HistoryTypes, PaintMessages
<1>3. flight[f].least \in Nat /\ length \in Nat /\ length >= flight[f].least
  BY <1>1, <1>2 DEF Call
<1>4. /\ DOMAIN flight' = DOMAIN flight
      /\ flight'[f] = MembersAsked(flight[f].owner)
      /\ \A g \in DOMAIN flight : g # f => flight'[g] = flight[g]
  BY <1>2 DEF PaintMessages
<1>5. /\ painted'.room = room /\ painted'.length = length
      /\ ~painted'.echo /\ ~painted'.live /\ ~painted'.fresh
  BY <1>1 DEF Repaint
<1>6. Asking' = Asking \ {f}
  BY <1>2, <1>4 DEF Asking, MembersAsked
<1>7. MembersKept'
  <2>1. flight'[f].room = active'
    BY <1>2, <1>4 DEF MembersAsked
  <2> QED
    BY <1>4, <2>1 DEF MembersKept
<1>8. RoomKept'
  BY <1>1, <1>2, <1>5 DEF RoomKept, Overtaken
<1>9. FreshKept' /\ GhostsKept'
  BY <1>5 DEF FreshKept, GhostsKept
<1>10. FramesKept'
  <2> DEFINE Brought == \/ told.frame <= told.answer
                        \/ \E g \in Asking : flight[g].least >= told.frame
                        \/ spoiled /\ \A g \in Asking : flight[g].doubtful
  <2>1. Brought /\ (active \in Rooms => told.frame <= server[active])
    BY DEF PageKept, FramesKept
  <2>2. CASE Overtaken(room, length)
    <3>1. spoiled' /\ told' = told
      BY <1>1, <2>2
    <3>2. \/ told'.frame <= told'.answer
          \/ \E g \in Asking' : flight'[g].least >= told'.frame
          \/ spoiled' /\ \A g \in Asking' : flight'[g].doubtful
      <4>1. CASE told.frame <= told.answer
        BY <3>1, <4>1
      <4>2. ASSUME NEW g \in Asking, flight[g].least >= told.frame
            PROVE  \/ told'.frame <= told'.answer
                   \/ \E h \in Asking' : flight'[h].least >= told'.frame
        <5>1. CASE g # f
          BY <1>4, <1>6, <3>1, <4>2, <5>1 DEF Asking
        <5>2. CASE g = f
          <6>1. length < told.answer
            BY <2>2, <4>2, <5>2 DEF Overtaken, Asking
          <6> QED
            BY <1>2, <1>3, <3>1, <4>2, <5>2, <6>1
        <5> QED
          BY <5>1, <5>2
      <4>3. CASE spoiled /\ \A g \in Asking : flight[g].doubtful
        BY <1>4, <1>6, <3>1, <4>3 DEF Asking
      <4> QED
        BY <2>1, <4>1, <4>2, <4>3
    <3> QED
      BY <1>2, <2>1, <3>1, <3>2 DEF FramesKept
  <2>3. CASE ~Overtaken(room, length)
    <3>1. /\ told'.frame = told.frame /\ told'.answer = length
          /\ spoiled' = (spoiled /\ flight[f].doubtful)
          /\ room = active /\ length >= told.answer
      BY <1>1, <1>2, <1>3, <2>3 DEF Overtaken
    <3>2. f \in Asking
      BY <1>2, <3>1 DEF Asking
    <3>3. \/ told'.frame <= told'.answer
          \/ \E g \in Asking' : flight'[g].least >= told'.frame
          \/ spoiled' /\ \A g \in Asking' : flight'[g].doubtful
      <4>1. CASE told.frame <= told.answer
        BY <1>2, <1>3, <3>1, <4>1
      <4>2. ASSUME NEW g \in Asking, flight[g].least >= told.frame
            PROVE  \/ told'.frame <= told'.answer
                   \/ \E h \in Asking' : flight'[h].least >= told'.frame
        <5>1. CASE g # f
          BY <1>4, <1>6, <3>1, <4>2, <5>1 DEF Asking
        <5>2. CASE g = f
          BY <1>2, <1>3, <3>1, <4>2, <5>2
        <5> QED
          BY <5>1, <5>2
      <4>3. CASE spoiled /\ \A g \in Asking : flight[g].doubtful
        BY <1>4, <1>6, <3>1, <3>2, <4>3 DEF Asking
      <4> QED
        BY <2>1, <4>1, <4>2, <4>3
    <3>4. painted'.length >= told'.answer
      BY <1>3, <1>5, <3>1
    <3> QED
      BY <1>2, <2>1, <3>1, <3>3, <3>4 DEF FramesKept
  <2> QED
    BY <2>2, <2>3
<1> QED
  BY <1>7, <1>8, <1>9, <1>10 DEF PageKept

\* What is left in flight when one refresh ends.
LEMMA OthersStay ==
    ASSUME CoreTypes, NEW f \in DOMAIN flight
    PROVE  LET rest == RemoveAt(flight, f)
           IN  /\ rest \in Seq(Call) /\ DOMAIN rest = 1..Len(flight) - 1
               /\ \A g \in DOMAIN flight : g # f => \E h \in DOMAIN rest : rest[h] = flight[g]
               /\ \A h \in DOMAIN rest : \E g \in DOMAIN flight : g # f /\ rest[h] = flight[g]
<1> DEFINE rest == RemoveAt(flight, f)
<1>1. flight \in Seq(Call) /\ DOMAIN flight = 1..Len(flight) /\ Len(flight) \in Nat
  BY DEF CoreTypes
<1>2. /\ rest \in Seq(Call) /\ Len(rest) = Len(flight) - 1
      /\ \A k \in 1..Len(flight) - 1 :
            rest[k] = IF k < f THEN flight[k] ELSE flight[k + 1]
  BY <1>1, RemoveAtProperties
<1> HIDE DEF rest
<1>3. DOMAIN rest = 1..Len(flight) - 1
  BY <1>2, LenProperties
<1>4. ASSUME NEW g \in DOMAIN flight, g # f
      PROVE  \E h \in DOMAIN rest : rest[h] = flight[g]
  <2>1. CASE g < f
    <3>1. g \in 1..Len(flight) - 1
      BY <1>1, <2>1
    <3> QED
      BY <1>2, <1>3, <2>1, <3>1
  <2>2. CASE g > f
    <3>1. g - 1 \in 1..Len(flight) - 1 /\ ~(g - 1 < f) /\ (g - 1) + 1 = g
      BY <1>1, <2>2
    <3> QED
      BY <1>2, <1>3, <3>1
  <2> QED
    BY <1>1, <1>4, <2>1, <2>2
<1>5. ASSUME NEW h \in DOMAIN rest
      PROVE  \E g \in DOMAIN flight : g # f /\ rest[h] = flight[g]
  <2>1. CASE h < f
    <3>1. h \in DOMAIN flight /\ h # f
      BY <1>1, <1>3, <2>1
    <3> QED
      BY <1>2, <1>3, <2>1, <3>1
  <2>2. CASE ~(h < f)
    <3>1. h + 1 \in DOMAIN flight /\ h + 1 # f
      BY <1>1, <1>3, <2>2
    <3> QED
      BY <1>2, <1>3, <2>2, <3>1
  <2> QED
    BY <2>1, <2>2
<1> QED
  BY <1>2, <1>3, <1>4, <1>5 DEF rest

\* The switch that waited for a refresh has read its members before.
LEMMA ReturnedSame ==
    ASSUME ClientInv, NEW f \in DOMAIN flight, switch' = Returned(f), UNCHANGED <<token, sock>>
    PROVE  (Built' => Built) /\ (MembersRead' => MembersRead)
<1>1. switch \in [Tokens -> SwitchType] /\ token \in Tokens
  BY DEF ClientInv, Core, CoreTypes
<1>2. CASE flight[f].owner = 0
  BY <1>2 DEF Returned, Built, MembersRead
<1>3. CASE flight[f].owner # 0
  <2>1. flight[f].owner \in Tokens /\ switch[flight[f].owner].at = "messages"
    BY <1>3, OwnersWait DEF ClientInv, Core
  <2>2. CASE flight[f].owner = token
    BY <2>1, <2>2 DEF Built, MembersRead
  <2>3. CASE flight[f].owner # token
    <3>1. switch'[token] = switch[token]
      BY <1>1, <1>3, <2>1, <2>3 DEF Returned
    <3> QED
      BY <3>1 DEF Built, MembersRead
  <2> QED
    BY <2>2, <2>3
<1> QED
  BY <1>2, <1>3

\* The members came; those of a room that is not shown any more spoil the page.
LEMMA EndRefreshShows ==
    ASSUME ClientInv, HistoryTypes, PageKept, GhostsKept, NEW f \in DOMAIN flight,
           EndRefresh(f)
    PROVE  PageKept' /\ GhostsKept'
<1>1. /\ flight[f].at = "members" /\ members' = flight[f].room
      /\ spoiled' = (spoiled \/ flight[f].room # active)
      /\ flight' = RemoveAt(flight, f) /\ switch' = Returned(f)
      /\ UNCHANGED <<server, token, active, painted, sock, wire, uplink, told>>
  BY DEF EndRefresh
<1>2. /\ \A g \in DOMAIN flight : g # f => \E h \in DOMAIN flight' : flight'[h] = flight[g]
      /\ \A h \in DOMAIN flight' : \E g \in DOMAIN flight : g # f /\ flight'[h] = flight[g]
  BY <1>1, OthersStay DEF ClientInv, Core
<1>3. (Built' => Built) /\ (MembersRead' => MembersRead)
  BY <1>1, ReturnedSame
<1>4. \A g \in Asking : \E h \in Asking' : flight'[h] = flight[g]
  BY <1>1, <1>2 DEF Asking
<1>5. \A h \in Asking' : \E g \in Asking : flight'[h] = flight[g]
  BY <1>1, <1>2 DEF Asking
<1>6. spoiled' \/ members' = active
  BY <1>1
<1>7. /\ PageTypes /\ told \in [frame : Nat, answer : Nat] /\ (spoiled => spoiled')
      /\ active \in Rooms => server'[active] \in Nat /\ server'[active] >= server[active]
  BY <1>1 DEF ClientInv, PageTypes, HistoryTypes
<1>8. PageKept'
  BY <1>1, <1>3, <1>4, <1>5, <1>6, <1>7, PageStays
<1>9. GhostsKept'
  BY <1>1, <1>3, <1>4, <1>7, GhostsSame DEF RefreshComes
<1> QED
  BY <1>8, <1>9

\* A failed refresh spoils the page until a list that was asked for since is painted.
LEMMA FailRefreshShows ==
    ASSUME ClientInv, HistoryTypes, PageKept, NEW f \in DOMAIN flight, FailRefresh(f)
    PROVE  PageKept' /\ GhostsKept'
<1>1. spoiled' /\ UNCHANGED <<server, active, told>>
  BY DEF FailRefresh
<1> DEFINE Doubt(call) == [call EXCEPT !.doubtful = call.at = "messages"]
<1>2. flight' = [g \in 1..Len(flight) - 1 |-> Doubt(RemoveAt(flight, f)[g])]
  BY DEF FailRefresh
<1>3. \A g \in Asking' : flight'[g].doubtful
  <2> SUFFICES ASSUME NEW g \in Asking' PROVE flight'[g].doubtful
    OBVIOUS
  <2>1. g \in 1..Len(flight) - 1 /\ flight'[g] = Doubt(RemoveAt(flight, f)[g])
        /\ flight'[g].at = "messages"
    BY <1>2 DEF Asking
  <2>2. RemoveAt(flight, f)[g] \in Call
    BY <2>1, OthersStay DEF ClientInv, Core
  <2> QED
    BY <2>1, <2>2 DEF Call
<1>4. FramesKept'
  BY <1>1, <1>3 DEF FramesKept, PageKept
<1> QED
  BY <1>1, <1>4 DEF PageKept, MembersKept, RoomKept, FreshKept, GhostsKept

\* The members of the room shown are asked for once more.
LEMMA PersonasChangedShows ==
    ASSUME ClientInv, HistoryTypes, PageKept, GhostsKept, PersonasChanged
    PROVE  PageKept' /\ GhostsKept'
<1>1. /\ flight' = Append(flight, MembersAsked(0))
      /\ UNCHANGED <<server, token, active, members, switch, painted, sock, wire, uplink,
                     told, spoiled>>
  BY DEF PersonasChanged
<1>2. /\ flight \in Seq(Call) /\ DOMAIN flight = 1..Len(flight) /\ Len(flight) \in Nat
      /\ DOMAIN flight' = 1..Len(flight) + 1
      /\ \A g \in DOMAIN flight : g \in DOMAIN flight' /\ flight'[g] = flight[g]
      /\ flight'[Len(flight) + 1] = MembersAsked(0)
  BY <1>1 DEF ClientInv, Core, CoreTypes
<1>3. Asking' = Asking
  BY <1>1, <1>2 DEF Asking, MembersAsked
<1>4. (Built' => Built) /\ (MembersRead' => MembersRead)
  BY <1>1 DEF Built, MembersRead
<1>5. /\ PageTypes /\ told \in [frame : Nat, answer : Nat]
      /\ active \in Rooms => server'[active] \in Nat /\ server'[active] >= server[active]
  BY <1>1 DEF ClientInv, PageTypes, HistoryTypes
<1>6. \A g \in Asking : flight'[g] = flight[g]
  BY <1>2 DEF Asking
<1>7. \A g \in DOMAIN flight : flight[g].room = active =>
         \E h \in DOMAIN flight' : flight'[h].room = active
  BY <1>2
<1>8. PageKept'
  BY <1>1, <1>3, <1>4, <1>5, <1>6, <1>7, PageStays
<1>9. GhostsKept'
  BY <1>1, <1>3, <1>4, GhostsSame DEF RefreshComes
<1> QED
  BY <1>8, <1>9

\* A newer switch has neither members nor a Transcript yet.
LEMMA SwitchShows ==
    ASSUME ClientInv, HistoryTypes, PageKept, GhostsKept, NEW r \in Rooms, Switch(r)
    PROVE  PageKept' /\ GhostsKept'
<1>1. /\ token \in Tokens /\ switch \in [Tokens -> SwitchType]
      /\ token < MaxSwitches /\ token' = token + 1
      /\ sock' = [t \in Tokens |-> IF Live(t) THEN Closed(sock[t]) ELSE sock[t]]
      /\ switch' = [switch EXCEPT ![token + 1] = [at |-> "room", room |-> r]]
      /\ UNCHANGED <<server, active, members, flight, painted, told, spoiled>>
  BY DEF ClientInv, Core, CoreTypes, Switch
<1>2. token + 1 \in Tokens /\ ~(token + 1 <= token)
  BY <1>1, BoundsAssumption DEF Tokens
<1>3. sock[token + 1].ready = "none"
  BY <1>2 DEF ClientInv, Core, SocketsOK
<1>4. sock'[token'].ready = "none" /\ switch'[token'].at = "room"
  BY <1>1, <1>2, <1>3 DEF Live
<1>5. ~MembersRead' /\ ~Built'
  BY <1>4 DEF MembersRead, Built
<1>6. FramesKept'
  BY <1>1 DEF PageKept, FramesKept, Asking
<1> QED
  BY <1>5, <1>6 DEF PageKept, MembersKept, RoomKept, FreshKept, GhostsKept

\* A switch that a newer one overtook ends; so does one that fails.
LEMMA SwitchEnds ==
    ASSUME ClientInv, HistoryTypes, PageKept, GhostsKept, NEW t \in Tokens,
           switch' = [switch EXCEPT ![t] = NoSwitch],
           UNCHANGED <<server, token, active, members, flight, painted, sock, wire, uplink,
                       told, spoiled>>
    PROVE  PageKept' /\ GhostsKept'
<1>1. switch \in [Tokens -> SwitchType] /\ token \in Tokens
  BY DEF ClientInv, Core, CoreTypes
<1>2. switch'[token] = switch[token] \/ switch'[token].at = "none"
  BY <1>1 DEF NoSwitch
<1>3. (Built' => Built) /\ (MembersRead' => MembersRead)
  BY <1>2 DEF Built, MembersRead
<1>4. /\ PageTypes /\ told \in [frame : Nat, answer : Nat]
      /\ active \in Rooms => server'[active] \in Nat /\ server'[active] >= server[active]
  BY DEF ClientInv, PageTypes, HistoryTypes
<1>5. PageKept'
  BY <1>3, <1>4, PageSame
<1>6. GhostsKept'
  BY <1>3, GhostsSame DEF RefreshComes, Asking
<1> QED
  BY <1>5, <1>6

\* The room came: it is active, and nothing was told of it yet.
LEMMA GotRoomShows ==
    ASSUME ClientInv, HistoryTypes, PageKept, GhostsKept, NEW t \in Tokens, GotRoom(t)
    PROVE  PageKept' /\ GhostsKept'
<1>1. CASE Stale(t)
  BY <1>1, SwitchEnds DEF GotRoom
<1>2. CASE ~Stale(t)
  <2>1. /\ t = token /\ switch[t].at = "room" /\ active' = switch[t].room
        /\ told' = NothingTold /\ switch' = [switch EXCEPT ![t].at = "members"]
        /\ UNCHANGED <<server, token, painted, sock, spoiled>>
    BY <1>2 DEF GotRoom, Stale
  <2>2. /\ switch \in [Tokens -> SwitchType] /\ switch[t].room \in Rooms
        /\ server \in [Rooms -> Nat] /\ painted.length \in Nat /\ sock[token].ready = "none"
    BY <2>1 DEF ClientInv, Core, CoreTypes, SwitchesOK, PageTypes, Screen
  <2>3. switch'[token'].at = "members" /\ sock'[token'].ready = "none"
    BY <2>1, <2>2
  <2>4. ~MembersRead' /\ ~Built'
    BY <2>3 DEF MembersRead, Built
  <2>5. FramesKept'
    <3>1. told'.frame = 0 /\ told'.answer = 0
      BY <2>1 DEF NothingTold
    <3>2. active' \in Rooms /\ server'[active'] \in Nat
      BY <2>1, <2>2
    <3> QED
      BY <2>1, <2>2, <3>1, <3>2 DEF FramesKept
  <2> QED
    BY <2>4, <2>5 DEF PageKept, MembersKept, RoomKept, FreshKept, GhostsKept
<1> QED
  BY <1>1, <1>2

\* The members came: they are those of the room shown.
LEMMA GotMembersShows ==
    ASSUME ClientInv, HistoryTypes, PageKept, GhostsKept, NEW t \in Tokens, GotMembers(t)
    PROVE  PageKept' /\ GhostsKept'
<1>1. CASE Stale(t)
  BY <1>1, SwitchEnds DEF GotMembers
<1>2. CASE ~Stale(t)
  <2>1. /\ t = token /\ switch[t].at = "members" /\ members' = switch[t].room
        /\ switch' = [switch EXCEPT ![t].at = "personas"]
        /\ UNCHANGED <<server, token, active, flight, painted, sock, told, spoiled>>
    BY <1>2 DEF GotMembers, Stale
  <2>2. /\ switch \in [Tokens -> SwitchType] /\ sock[token].ready = "none"
        /\ active = switch[token].room
    BY <2>1 DEF ClientInv, Core, CoreTypes, SwitchesOK
  <2>3. switch'[token'].at = "personas" /\ sock'[token'].ready = "none"
    BY <2>1, <2>2
  <2>4. ~Built' /\ MembersKept'
    BY <2>1, <2>2, <2>3 DEF Built, MembersKept
  <2>5. FramesKept'
    BY <2>1 DEF PageKept, FramesKept, Asking
  <2> QED
    BY <2>4, <2>5 DEF PageKept, RoomKept, FreshKept, GhostsKept
<1> QED
  BY <1>1, <1>2

\* A Transcript is built, and its list asked for.
LEMMA GotPersonasShows ==
    ASSUME ClientInv, HistoryTypes, PageKept, GhostsKept, NEW t \in Tokens, GotPersonas(t)
    PROVE  PageKept' /\ GhostsKept'
<1>1. CASE Stale(t)
  BY <1>1, SwitchEnds DEF GotPersonas
<1>2. CASE ~Stale(t)
  <2>1. /\ t = token /\ switch[t].at = "personas" /\ flight' = WithRefresh(active, t)
        /\ painted' = [painted EXCEPT !.fresh = TRUE]
        /\ UNCHANGED <<server, token, active, members, told, spoiled>>
    BY <1>2 DEF GotPersonas, Stale
  <2>2. /\ active \in Rooms /\ PageTypes /\ CoreTypes /\ painted'.length = painted.length
    BY <2>1 DEF ClientInv, Core, SwitchesOK, PageTypes, Screen
  <2>3. told'.frame <= server[active] /\ told'.answer = told.answer
    BY <2>1, <2>2 DEF PageKept, FramesKept
  <2>4. PageKept' /\ Asking' # {}
    BY <2>1, <2>2, <2>3, ListAsked
  <2> QED
    BY <2>4 DEF GhostsKept
<1> QED
  BY <1>1, <1>2

\* A socket is made by a switch that built its Transcript.
LEMMA OpenSocketShows ==
    ASSUME ClientInv, HistoryTypes, WiresOK, PageKept, GhostsKept, NEW t \in Tokens,
           OpenSocket(t)
    PROVE  PageKept' /\ GhostsKept'
<1>1. CASE Stale(t)
  BY <1>1, SwitchEnds DEF OpenSocket
<1>2. CASE ~Stale(t)
  <2>1. /\ t = token /\ switch[t].at = "open"
        /\ UNCHANGED <<server, token, active, members, flight, painted, wire, uplink, told,
                       spoiled>>
    BY <1>2 DEF OpenSocket, Stale
  <2>2. Built /\ MembersRead /\ sock[token].ready = "none"
    BY <2>1 DEF Built, MembersRead, ClientInv, Core, SwitchesOK
  <2>3. ~sock[token].opened
    BY <2>1, <2>2 DEF WiresOK, Live
  <2>4. /\ PageTypes /\ told \in [frame : Nat, answer : Nat]
        /\ active \in Rooms => server'[active] \in Nat /\ server'[active] >= server[active]
    BY <2>1 DEF ClientInv, PageTypes, HistoryTypes
  <2>5. PageKept'
    BY <2>1, <2>2, <2>4, PageSame
  <2>6. RefreshComes => RefreshComes'
    BY <2>1, <2>3 DEF RefreshComes
  <2>7. GhostsKept'
    BY <2>1, <2>2, <2>6, GhostsSame DEF Asking
  <2> QED
    BY <2>5, <2>7
<1> QED
  BY <1>1, <1>2

-----------------------------------------------------------------------------
\* The socket of the newest switch changes, and nothing on the page.
LEMMA SocketShows ==
    ASSUME ClientInv, HistoryTypes, PageKept, GhostsKept,
           sock[token].ready # "none", RefreshComes => RefreshComes',
           UNCHANGED <<server, token, active, members, switch, flight, painted, told,
                       spoiled>>
    PROVE  PageKept' /\ GhostsKept'
<1>1. Built /\ MembersRead
  BY DEF Built, MembersRead
<1>2. /\ PageTypes /\ told \in [frame : Nat, answer : Nat]
      /\ active \in Rooms => server'[active] \in Nat /\ server'[active] >= server[active]
  BY DEF ClientInv, PageTypes, HistoryTypes
<1>3. PageKept'
  BY <1>1, <1>2, PageSame
<1>4. GhostsKept'
  BY <1>1, GhostsSame DEF Asking
<1> QED
  BY <1>3, <1>4

\* The socket is open: on a re-open a list is asked for.
LEMMA ConnectedShows ==
    ASSUME ClientInv, HistoryTypes, WiresOK, PageKept, GhostsKept, NEW t \in Tokens,
           Connected(t)
    PROVE  PageKept' /\ GhostsKept'
<1>1. /\ t = token /\ active \in Rooms /\ sock[token].ready # "none"
      /\ PageTypes /\ CoreTypes
      /\ flight' = OnOpen(t)
      /\ sock' = [sock EXCEPT ![t].ready = "open", ![t].retry = 0, ![t].opened = TRUE]
      /\ UNCHANGED <<server, token, active, members, switch, painted, wire, uplink, told,
                     spoiled>>
  BY DEF ClientInv, Core, SocketsOK, Connected, Live
<1>2. CASE ~sock[t].opened
  <2>1. RefreshComes => RefreshComes'
    BY <1>1, <1>2 DEF RefreshComes
  <2> QED
    BY <1>1, <1>2, <2>1, SocketShows DEF OnOpen
<1>3. CASE sock[t].opened
  <2>1. flight' = WithRefresh(active, 0) /\ Built
    BY <1>1, <1>3 DEF OnOpen, Built
  <2>2. told'.frame <= server[active] /\ told'.answer = told.answer
    BY <1>1 DEF PageKept, FramesKept
  <2>3. PageKept' /\ Asking' # {}
    BY <1>1, <2>1, <2>2, ListAsked
  <2> QED
    BY <2>3 DEF GhostsKept
<1> QED
  BY <1>2, <1>3

\* A connection ends: if it was open before, it will be asked for a list when it is again.
LEMMA LoseShows ==
    ASSUME ClientInv, HistoryTypes, WiresOK, PageKept, GhostsKept, NEW t \in Tokens, Live(t),
           Lose(t)
    PROVE  PageKept' /\ GhostsKept'
<1>1. /\ t = token /\ sock \in [Tokens -> Socket] /\ sock[token].ready # "none"
      /\ UNCHANGED <<server, token, active, members, switch, flight, painted, told, spoiled>>
  BY DEF ClientInv, Core, CoreTypes, SocketsOK, Live, Lose
<1>2. sock'[t].ready = "closed" /\ sock'[t].opened = sock[t].opened
  BY <1>1 DEF Lose, Socket
<1>3. RefreshComes => RefreshComes'
  <2>1. CASE sock[t].opened
    BY <1>1, <1>2, <2>1 DEF RefreshComes
  <2>2. CASE ~sock[t].opened
    <3>1. wire[t] = <<>> /\ uplink[t] = <<>>
      BY <2>2 DEF WiresOK
    <3> QED
      BY <1>1, <2>2, <3>1 DEF RefreshComes
  <2> QED
    BY <2>1, <2>2
<1> QED
  BY <1>1, <1>3, SocketShows

\* A retry is due.
LEMMA TimerFiresShows ==
    ASSUME ClientInv, HistoryTypes, PageKept, GhostsKept, NEW t \in Tokens, TimerFires(t)
    PROVE  PageKept' /\ GhostsKept'
<1>1. /\ t = token /\ sock \in [Tokens -> Socket] /\ sock[token].ready = "closed"
      /\ sock' = [sock EXCEPT ![t].timer = FALSE, ![t].ready = "connecting"]
      /\ UNCHANGED <<server, token, active, members, switch, flight, painted, wire, uplink,
                     told, spoiled>>
  BY DEF ClientInv, Core, CoreTypes, SocketsOK, TimerFires, Live
<1>2. sock'[t].ready = "connecting" /\ sock'[t].opened = sock[t].opened
  BY <1>1 DEF Socket
<1>3. RefreshComes => RefreshComes'
  BY <1>1, <1>2 DEF RefreshComes
<1> QED
  BY <1>1, <1>3, SocketShows

\* The user reconnects.
LEMMA ReconnectShows ==
    ASSUME ClientInv, HistoryTypes, PageKept, GhostsKept, Reconnect
    PROVE  PageKept' /\ GhostsKept'
<1>1. /\ sock \in [Tokens -> Socket] /\ token \in Tokens
      /\ UNCHANGED <<server, token, active, members, switch, flight, painted, wire, uplink,
                     told, spoiled>>
  BY DEF ClientInv, Core, CoreTypes, Reconnect
<1>2. CASE ~\E t \in Tokens : Live(t)
  <2>1. UNCHANGED sock
    BY <1>2 DEF Reconnect
  <2>2. /\ (Built' => Built) /\ (MembersRead' => MembersRead)
        /\ (RefreshComes => RefreshComes') /\ Asking' = Asking
    BY <1>1, <2>1 DEF Built, MembersRead, RefreshComes, Asking
  <2>3. /\ PageTypes /\ told \in [frame : Nat, answer : Nat]
        /\ active \in Rooms => server'[active] \in Nat /\ server'[active] >= server[active]
    BY <1>1 DEF ClientInv, PageTypes, HistoryTypes
  <2>4. PageKept'
    BY <1>1, <2>2, <2>3, PageSame
  <2>5. GhostsKept'
    BY <1>1, <2>2, GhostsSame
  <2> QED
    BY <2>4, <2>5
<1>3. ASSUME NEW t \in Tokens, Live(t) PROVE PageKept' /\ GhostsKept'
  <2>1. t = token /\ sock[token].ready # "none"
    BY <1>3 DEF ClientInv, Core, SocketsOK, Live
  <2>2. sock'[t] = [sock[t] EXCEPT !.retry = 0, !.timer = FALSE, !.ready = "connecting"]
    BY <1>3 DEF Reconnect
  <2>3. sock'[t].ready = "connecting" /\ sock'[t].opened = sock[t].opened
    BY <1>1, <2>2 DEF Socket
  <2>4. RefreshComes => RefreshComes'
    BY <1>1, <2>1, <2>3 DEF RefreshComes
  <2> QED
    BY <1>1, <2>1, <2>4, SocketShows
<1> QED
  BY <1>2, <1>3

\* A frame on its way to the newest socket is followed by a refresh.
LEMMA FramesBring ==
    ASSUME WiresOK', HistoryTypes', token' \in Tokens, wire'[token'] # <<>>
    PROVE  RefreshComes'
<1>1. wire'[token'] \in Seq(FrameType)
  BY DEF HistoryTypes
<1>2. Len(wire'[token']) \in DOMAIN wire'[token']
  BY <1>1, LenProperties, EmptySeq
<1> QED
  BY <1>2 DEF WiresOK, RefreshComes

\* An echo is painted: its post is on its way, and the Transcript it is painted with was
\* painted before the socket opened.
LEMMA SendShows ==
    ASSUME ClientInv, HistoryTypes, PageKept, GhostsKept, NEW t \in Tokens, Send(t)
    PROVE  PageKept' /\ GhostsKept'
<1>1. /\ t = token /\ sock[token].ready # "none" /\ active \in Rooms
      /\ uplink \in [Tokens -> Seq(Sent)] /\ painted \in Screen
      /\ painted' = Echoed
      /\ UNCHANGED <<server, token, active, members, switch, flight, sock, told, spoiled>>
  BY DEF ClientInv, Core, SocketsOK, PageTypes, Send, IsOpen, Live
<1>2. PICK frame \in Sent : uplink' = [uplink EXCEPT ![t] = Append(@, frame)]
  BY DEF Send, Sent
<1>3. uplink'[t] # <<>>
  BY <1>1, <1>2, SentProperties
<1>4. GhostsKept'
  BY <1>1, <1>3 DEF GhostsKept, RefreshComes
<1>5. CASE ~painted.fresh
  <2>1. /\ painted'.room = painted.room /\ painted'.length = painted.length
        /\ painted'.fresh = painted.fresh
    BY <1>1, <1>5 DEF Echoed, Screen
  <2>2. /\ PageTypes /\ told \in [frame : Nat, answer : Nat]
        /\ active \in Rooms => server'[active] \in Nat /\ server'[active] >= server[active]
        /\ (Built' => Built) /\ (MembersRead' => MembersRead)
    BY <1>1 DEF ClientInv, PageTypes, HistoryTypes, Built, MembersRead
  <2> QED
    BY <1>1, <1>4, <2>1, <2>2, PageSame
<1>6. CASE painted.fresh
  <2>1. Built /\ \A f \in DOMAIN flight : flight[f].owner # token
    <3>1. token # 0
      BY <1>1 DEF Tokens
    <3> QED
      BY <1>1, <3>1 DEF Built, ClientInv, Core, CallsOK, SwitchesOK
  <2>2. spoiled
    BY <1>6, <2>1 DEF PageKept, FreshKept, Asking
  <2>3. painted'.room = active /\ ~painted'.fresh
    BY <1>1, <1>6 DEF Echoed, Repaint
  <2>4. MembersKept' /\ RoomKept' /\ FreshKept'
    BY <1>1, <2>2, <2>3 DEF PageKept, MembersKept, RoomKept, FreshKept
  <2>5. FramesKept'
    BY <1>1, <2>2 DEF PageKept, FramesKept, Asking
  <2> QED
    BY <1>4, <2>4, <2>5 DEF PageKept
<1> QED
  BY <1>5, <1>6

\* A command is on its way.
LEMMA CommandShows ==
    ASSUME ClientInv, HistoryTypes, PageKept, GhostsKept, NEW t \in Tokens, Command(t)
    PROVE  PageKept' /\ GhostsKept'
<1>1. /\ t = token /\ sock[token].ready # "none" /\ uplink \in [Tokens -> Seq(Sent)]
      /\ uplink' = [uplink EXCEPT ![t] = Append(@, "command")]
      /\ UNCHANGED <<server, token, active, members, switch, flight, painted, told, spoiled>>
  BY DEF ClientInv, Core, SocketsOK, PageTypes, Command, IsOpen, Live
<1>2. uplink'[t] # <<>>
  <2>1. uplink'[t] = Append(uplink[t], "command") /\ "command" \in Sent
    BY <1>1 DEF Sent
  <2> QED
    BY <1>1, <2>1, SentProperties
<1>3. RefreshComes'
  BY <1>1, <1>2 DEF RefreshComes
<1> QED
  BY <1>1, <1>3, SocketShows

\* The server answers: what it sends is followed by a refresh, or there is more to come.
LEMMA HandleShows ==
    ASSUME ClientInv, HistoryTypes, WiresOK, PageKept, GhostsKept, NEW t \in Tokens,
           Handle(t)
    PROVE  PageKept' /\ GhostsKept'
<1>1. /\ t = token /\ sock[token].ready # "none" /\ sock[t].room = active /\ active \in Rooms
      /\ server \in [Rooms -> Nat] /\ wire[t] \in Seq(FrameType)
      /\ wire \in [Tokens -> Seq(FrameType)]
      /\ UNCHANGED <<token, active, members, switch, flight, painted, sock, told, spoiled>>
  BY DEF ClientInv, Core, SocketsOK, PageTypes, HistoryTypes, Handle, IsOpen, Live
<1>2. /\ server'[active] \in Nat /\ server'[active] >= server[active]
      /\ server' = server \/ server' = [server EXCEPT ![active] = @ + 1]
  <2>1. server' = server \/ server' = [server EXCEPT ![active] = @ + 1]
    BY <1>1 DEF Handle
  <2> QED
    BY <1>1, <2>1
<1>3. (Built' => Built) /\ (MembersRead' => MembersRead)
  BY <1>1 DEF Built, MembersRead
<1>4. PageKept'
  BY <1>1, <1>2, <1>3, PageSame DEF ClientInv, HistoryTypes
<1>5. wire'[t] # <<>>
  <2> DEFINE Reply(r) == /\ r \in Seq(FrameType) /\ r # <<>>
                         /\ wire' = [wire EXCEPT ![t] = wire[t] \o r]
  <2>1. \E r : Reply(r)
    <3>1. /\ \A n \in Nat : Frame("turn_complete", n) \in FrameType
          /\ Frame("event", 0) \in FrameType /\ Frame("command_complete", 0) \in FrameType
          /\ Frame("error", 0) \in FrameType
      BY DEF Frame, FrameType
    <3>2. server[sock[t].room] + 1 \in Nat
      BY <1>1
    <3>3. \A x \in FrameType : <<x>> \in Seq(FrameType) /\ <<x>> # <<>>
      OBVIOUS
    <3>4. \A x, y \in FrameType : <<x, y>> \in Seq(FrameType) /\ <<x, y>> # <<>>
      OBVIOUS
    <3>5. CASE wire' = [wire EXCEPT ![t] = wire[t] \o <<Frame("event", 0)>>]
      <4>1. Reply(<<Frame("event", 0)>>)
        BY <3>1, <3>3, <3>5
      <4> QED
        BY <4>1
    <3>6. CASE wire' = [wire EXCEPT
              ![t] = wire[t] \o <<Frame("turn_complete", server[sock[t].room] + 1)>>]
      <4>1. Reply(<<Frame("turn_complete", server[sock[t].room] + 1)>>)
        BY <3>1, <3>2, <3>3, <3>6
      <4> QED
        BY <4>1
    <3>7. CASE wire' = [wire EXCEPT
              ![t] = wire[t] \o <<Frame("event", 0), Frame("command_complete", 0)>>]
      <4>1. Reply(<<Frame("event", 0), Frame("command_complete", 0)>>)
        BY <3>1, <3>4, <3>7
      <4> QED
        BY <4>1
    <3>8. CASE wire' = [wire EXCEPT ![t] = wire[t] \o <<Frame("error", 0)>>]
      <4>1. Reply(<<Frame("error", 0)>>)
        BY <3>1, <3>3, <3>8
      <4> QED
        BY <4>1
    <3> HIDE DEF Reply
    <3> QED
      BY <3>5, <3>6, <3>7, <3>8 DEF Handle
  <2>2. PICK r : Reply(r)
    BY <2>1
  <2>3. wire[t] \o r # <<>>
    BY <1>1, <2>2, SayProperties
  <2> QED
    BY <1>1, <2>2, <2>3
<1>6. RefreshComes'
  <2>1. WiresOK' /\ HistoryTypes'
    BY HandleWires
  <2>2. token' \in Tokens /\ wire'[token'] # <<>>
    BY <1>1, <1>5
  <2> QED
    BY <2>1, <2>2, FramesBring
<1>7. GhostsKept'
  BY <1>6 DEF GhostsKept
<1> QED
  BY <1>4, <1>7

\* A frame is delivered: an event, which another frame follows, or one that is reconciled.
LEMMA DeliverShows ==
    ASSUME ClientInv, HistoryTypes, WiresOK, PageKept, GhostsKept, NEW t \in Tokens,
           Deliver(t)
    PROVE  PageKept' /\ GhostsKept'
<1> DEFINE frame == Head(wire[t])
<1>1. /\ t = token /\ sock[token].ready # "none" /\ sock[t].room = active /\ active \in Rooms
      /\ wire[t] \in Seq(FrameType) /\ wire[t] # <<>> /\ wire \in [Tokens -> Seq(FrameType)]
      /\ wire' = [wire EXCEPT ![t] = Tail(@)]
      /\ told' = IF frame.length > told.frame THEN [told EXCEPT !.frame = frame.length] ELSE told
      /\ UNCHANGED <<server, token, active, members, switch, sock, uplink, spoiled>>
  BY DEF ClientInv, Core, SocketsOK, HistoryTypes, Deliver, IsOpen, Live
<1>2. /\ frame \in FrameType /\ 1 \in DOMAIN wire[t] /\ frame = wire[t][1]
      /\ Len(wire[t]) \in Nat \ {0} /\ Tail(wire[t]) \in Seq(FrameType)
      /\ Len(Tail(wire[t])) = Len(wire[t]) - 1
      /\ frame.length \in Nat
  <2>1. /\ frame \in FrameType /\ frame = wire[t][1]
        /\ Len(wire[t]) \in Nat \ {0} /\ Tail(wire[t]) \in Seq(FrameType)
        /\ Len(Tail(wire[t])) = Len(wire[t]) - 1 /\ DOMAIN wire[t] = 1..Len(wire[t])
    BY <1>1, HeadTailProperties, EmptySeq, LenProperties
  <2> QED
    BY <2>1 DEF FrameType
<1>3. frame.length > 0 => frame.type = "turn_complete" /\ frame.length <= server[active]
  BY <1>1, <1>2 DEF WiresOK
<1>4. told \in [frame : Nat, answer : Nat] /\ told.frame <= server[active] /\ PageTypes /\ CoreTypes
      /\ server \in [Rooms -> Nat]
  BY <1>1 DEF HistoryTypes, PageKept, FramesKept, ClientInv, Core, PageTypes
<1> HIDE DEF frame
<1>5. CASE frame.type \in Reconciles
  <2>1. flight' = WithRefresh(active, 0) /\ UNCHANGED painted
    BY <1>5 DEF Deliver, frame
  <2>2. told'.frame <= server[active] /\ told'.answer = told.answer
    BY <1>1, <1>2, <1>3, <1>4
  <2>3. Built
    BY <1>1 DEF Built
  <2>4. PageKept' /\ Asking' # {}
    BY <1>1, <1>4, <2>1, <2>2, <2>3, ListAsked
  <2> QED
    BY <2>4 DEF GhostsKept
<1>6. CASE frame.type \notin Reconciles
  <2>1. painted' = [painted EXCEPT !.live = TRUE] /\ UNCHANGED flight
    BY <1>6 DEF Deliver, frame
  <2>2. ~(frame.length > told.frame)
    BY <1>2, <1>3, <1>4, <1>6 DEF Reconciles
  <2>3. /\ painted'.room = painted.room /\ painted'.length = painted.length
        /\ painted'.fresh = painted.fresh /\ told' = told
    BY <1>1, <1>4, <2>1, <2>2 DEF PageTypes, Screen
  <2>4. (Built' => Built) /\ (MembersRead' => MembersRead)
    BY <1>1 DEF Built, MembersRead
  <2>5. server'[active] \in Nat /\ server'[active] >= server[active]
    BY <1>1, <1>4
  <2>6. PageKept'
    BY <1>1, <1>4, <2>1, <2>3, <2>4, <2>5, PageSame
  <2>7. RefreshComes'
    <3>1. CASE uplink[t] # <<>>
      BY <1>1, <3>1 DEF RefreshComes
    <3>2. CASE uplink[t] = <<>>
      <4>1. wire[t][Len(wire[t])].type \in Reconciles
        BY <1>1, <3>2 DEF WiresOK
      <4>2. Len(wire[t]) # 1
        BY <1>2, <1>6, <4>1
      <4>3. Len(Tail(wire[t])) # 0
        BY <1>2, <4>2
      <4>4. wire'[token'] # <<>> /\ token' \in Tokens
        BY <1>1, <1>2, <4>3, EmptySeq
      <4>5. WiresOK' /\ HistoryTypes'
        BY DeliverWires
      <4> QED
        BY <4>4, <4>5, FramesBring
    <3> QED
      BY <3>1, <3>2
  <2> QED
    BY <2>6, <2>7 DEF GhostsKept
<1> QED
  BY <1>5, <1>6

\* Another browser adds a message.
LEMMA ElsewhereShows ==
    ASSUME ClientInv, HistoryTypes, PageKept, GhostsKept, NEW r \in Rooms, Elsewhere(r)
    PROVE  PageKept' /\ GhostsKept'
<1>1. /\ server \in [Rooms -> Nat] /\ server' = [server EXCEPT ![r] = @ + 1]
      /\ UNCHANGED <<token, active, members, switch, flight, painted, sock, wire, uplink,
                     told, spoiled>>
  BY DEF ClientInv, PageTypes, Elsewhere
<1>2. /\ PageTypes /\ told \in [frame : Nat, answer : Nat]
      /\ active \in Rooms => server'[active] \in Nat /\ server'[active] >= server[active]
      /\ (Built' => Built) /\ (MembersRead' => MembersRead)
  BY <1>1 DEF ClientInv, HistoryTypes, Built, MembersRead
<1>3. PageKept'
  BY <1>1, <1>2, PageSame
<1>4. GhostsKept'
  BY <1>1, <1>2, GhostsSame DEF RefreshComes, Asking
<1> QED
  BY <1>3, <1>4

\* A step that changes nothing the page is about.
LEMMA NothingShows ==
    ASSUME PageKept, GhostsKept,
           UNCHANGED <<server, token, active, members, switch, flight, painted, sock, wire,
                       uplink, told, spoiled>>
    PROVE  PageKept' /\ GhostsKept'
BY DEF PageKept, GhostsKept, MembersKept, RoomKept, FreshKept, FramesKept, MembersRead,
       Built, Asking, RefreshComes

\* Every step keeps the page in order; one step per action.
LEMMA NextScreen == ClientInv /\ ScreenInv /\ [Next]_vars => ScreenInv'
<1> SUFFICES ASSUME ClientInv, ScreenInv, [Next]_vars PROVE ScreenInv'
  OBVIOUS
<1>1. HistoryTypes /\ WiresOK /\ PageKept /\ GhostsKept
  BY DEF ScreenInv
<1>2. WiresOK' /\ HistoryTypes'
  BY <1>1, NextWires
<1>3. PageKept' /\ GhostsKept'
  <2>1. ASSUME NEW f \in DOMAIN flight, PaintMessages(f) \/ EndRefresh(f) \/ FailRefresh(f)
        PROVE  PageKept' /\ GhostsKept'
    BY <1>1, <2>1, PaintMessagesShows, EndRefreshShows, FailRefreshShows
  <2>2. ASSUME NEW r \in Rooms, Switch(r) \/ Elsewhere(r) PROVE PageKept' /\ GhostsKept'
    BY <1>1, <2>2, SwitchShows, ElsewhereShows
  <2>3. ASSUME NEW t \in Tokens, GotRoom(t) \/ GotMembers(t) \/ GotPersonas(t) \/ OpenSocket(t)
        PROVE  PageKept' /\ GhostsKept'
    BY <1>1, <2>3, GotRoomShows, GotMembersShows, GotPersonasShows, OpenSocketShows
  <2>4. ASSUME NEW t \in Tokens, FailSwitch(t) PROVE PageKept' /\ GhostsKept'
    BY <1>1, <2>4, SwitchEnds DEF FailSwitch
  <2>5. ASSUME NEW t \in Tokens, Refused(t) \/ Drop(t) \/ TearDown(t)
        PROVE  PageKept' /\ GhostsKept'
    <3>1. Live(t) /\ Lose(t)
      BY <2>5 DEF Refused, Drop, TearDown, IsOpen
    <3> QED
      BY <1>1, <3>1, LoseShows
  <2>6. ASSUME NEW t \in Tokens, Connected(t) \/ TimerFires(t) PROVE PageKept' /\ GhostsKept'
    BY <1>1, <2>6, ConnectedShows, TimerFiresShows
  <2>7. ASSUME NEW t \in Tokens, Send(t) \/ Command(t) \/ Handle(t) \/ Deliver(t)
        PROVE  PageKept' /\ GhostsKept'
    BY <1>1, <2>7, SendShows, CommandShows, HandleShows, DeliverShows
  <2>8. CASE PersonasChanged \/ Reconnect
    BY <1>1, <2>8, PersonasChangedShows, ReconnectShows
  <2>9. CASE QuoteEcho \/ Reading \/ UNCHANGED vars
    BY <1>1, <2>9, NothingShows DEF QuoteEcho, Reading, vars
  <2> QED
    BY <2>1, <2>2, <2>3, <2>4, <2>5, <2>6, <2>7, <2>8, <2>9 DEF Next
<1> QED
  BY <1>2, <1>3 DEF ScreenInv

\* What brings the screen up to date is on its way whenever it is needed: the inductive
\* invariant that NoGhosts follows from.
THEOREM ScreenIsInOrder == Spec => []ScreenInv
<1>1. Init => ScreenInv
  BY InitScreen
<1>2. ClientInv /\ ScreenInv /\ [Next]_vars => ScreenInv'
  BY NextScreen
<1> QED
  BY <1>1, <1>2, ClientIsInOrder, PTL DEF Spec

\* Once nothing is under way, no echo and no bubble is left of a turn, and the screen is
\* of the active room and its members, as far as a frame told of it (main.js).
THEOREM NoGhostsPersist == Spec => []NoGhosts
<1>1. ClientInv /\ ScreenInv => NoGhosts
  <2> SUFFICES ASSUME ClientInv, ScreenInv, Quiet, ~spoiled
               PROVE  /\ painted.room = active /\ members = active
                      /\ painted.length >= told.frame
                      /\ ~painted.echo /\ ~painted.live
    BY DEF NoGhosts
  <2>1. /\ token \in Tokens /\ sock[token].ready = "open" /\ wire[token] = <<>>
        /\ uplink[token] = <<>> /\ flight = <<>>
    BY DEF Quiet, IsOpen, ClientInv, Core, CoreTypes
  <2>2. Asking = {} /\ DOMAIN flight = {} /\ MembersRead /\ Built
    BY <2>1 DEF Asking, MembersRead, Built
  <2>3. ~RefreshComes
    BY <2>1 DEF RefreshComes
  <2>4. members = active /\ painted.room = active
    BY <2>2 DEF ScreenInv, PageKept, MembersKept, RoomKept
  <2>5. ~painted.echo /\ ~painted.live
    BY <2>2, <2>3 DEF ScreenInv, GhostsKept
  <2>6. painted.length >= told.frame
    <3>1. /\ painted.length \in Nat /\ told.frame \in Nat /\ told.answer \in Nat
          /\ painted.length >= told.answer /\ told.frame <= told.answer
      BY <2>2 DEF ScreenInv, PageKept, FramesKept, HistoryTypes, ClientInv, PageTypes,
                  Screen
    <3> QED
      BY <3>1
  <2> QED
    BY <2>4, <2>5, <2>6
<1> QED
  BY <1>1, ClientIsInOrder, ScreenIsInOrder, PTL
===============================================================================
