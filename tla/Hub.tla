---------------------------------- MODULE Hub ----------------------------------
(***************************************************************************)
(* The notification hub of server/internal/controlapi/websocket: one Run     *)
(* goroutine that owns the map of clients and their send channels, and for   *)
(* every connection a readPump and a writePump.                             *)
(*                                                                          *)
(* register, unregister, broadcast and deliver are unbuffered channels: a    *)
(* goroutine that sends on one waits until Run receives.  A case of Run's    *)
(* select is one step here, a broadcast's loop too: Run never waits in it    *)
(* (its sends have a default), and what the pumps do meanwhile to one client *)
(* commutes with Run's sends to the others.                                 *)
(***************************************************************************)
EXTENDS Integers, Sequences

CONSTANTS
    Conn,           \* connections
    Account,        \* accounts
    AccountOf,      \* [Conn -> Account]: Client.userID
    Publisher,      \* goroutines that call BroadcastToUser
    Everyone,       \* the empty userID
    Capacity,       \* the buffer of a send channel (256)
    MaxMessages     \* bound: broadcasts and pings

ASSUME HubAssumption ==
    /\ AccountOf \in [Conn -> Account]
    /\ Everyone \notin Account
    /\ Capacity \in Nat \ {0}
    /\ MaxMessages \in Nat

VARIABLES
    clients,    \* Hub.clients
    channel,    \* the state of each client.send
    buffer,     \* what client.send holds
    socket,     \* the connection, as the server sees it
    reader,     \* where each readPump is
    writer,     \* where each writePump is
    publisher,  \* the broadcast each publisher waits to hand over
    messages,   \* messages so far
    due,        \* auxiliary: what Run took in for each client since it registered
    got         \* auxiliary: what was written to each connection

vars == <<clients, channel, buffer, socket, reader, writer, publisher, messages, due, got>>

Idle == [to |-> Everyone, id |-> 0]

\* Broadcasts are told apart by their numbers, pongs are not.
Pong == 0
Message == {Pong} \cup 1 .. MaxMessages

NewMessage == messages < MaxMessages /\ messages' = messages + 1

-----------------------------------------------------------------------------
(***************************************************************************)
(* The send channels.                                                       *)
(***************************************************************************)

\* close(client.send); closing a closed channel panics.
Closed(c) == IF channel[c] = "open" THEN "closed" ELSE "panic"

\* The clients among S whose buffer is full: select takes its default.
Slow(S) == {c \in S : channel[c] = "open" /\ Len(buffer[c]) = Capacity}

\* Variant of SendTo: a slow client misses the message and stays.
SendToOrSkip(S, m) ==
    /\ buffer' = [c \in Conn |-> IF c \in S \ Slow(S) THEN Append(buffer[c], m) ELSE buffer[c]]
    /\ channel' = [c \in Conn |-> IF c \in S /\ channel[c] # "open" THEN "panic" ELSE channel[c]]
    /\ UNCHANGED clients

\* Variant of SendTo: a slow client is closed and not removed.
SendToAndKeep(S, m) ==
    /\ buffer' = [c \in Conn |-> IF c \in S \ Slow(S) THEN Append(buffer[c], m) ELSE buffer[c]]
    /\ channel' = [c \in Conn |->
           IF c \in Slow(S) THEN Closed(c)
           ELSE IF c \in S /\ channel[c] # "open" THEN "panic" ELSE channel[c]]
    /\ UNCHANGED clients

\* Run offers m to each of S; a client that cannot take it is removed and its
\* channel closed.  A send on a closed channel panics.
SendTo(S, m) ==
    /\ buffer' = [c \in Conn |-> IF c \in S \ Slow(S) THEN Append(buffer[c], m) ELSE buffer[c]]
    /\ channel' = [c \in Conn |->
           IF c \in Slow(S) THEN Closed(c)
           ELSE IF c \in S /\ channel[c] # "open" THEN "panic" ELSE channel[c]]
    /\ clients' = clients \ Slow(S)

Due(S, m) == due' = [c \in Conn |-> IF c \in S THEN Append(due[c], m) ELSE due[c]]

-----------------------------------------------------------------------------
(***************************************************************************)
(* Run.                                                                     *)
(***************************************************************************)

\* <-h.register: the handler that waited starts both pumps.
Register(c) ==
    /\ reader[c] = "registering"
    /\ clients' = clients \cup {c}
    /\ reader' = [reader EXCEPT ![c] = "reading"]
    /\ writer' = [writer EXCEPT ![c] = "writing"]
    /\ UNCHANGED <<channel, buffer, socket, publisher, messages, due, got>>

\* <-h.unregister: a client that Run has dropped is not closed again.
Unregister(c) ==
    /\ reader[c] = "unregistering"
    /\ clients' = clients \ {c}
    /\ channel' = [channel EXCEPT ![c] = IF c \in clients THEN Closed(c) ELSE @]
    /\ reader' = [reader EXCEPT ![c] = "ended"]
    /\ socket' = [socket EXCEPT ![c] = "closed"]
    /\ UNCHANGED <<buffer, writer, publisher, messages, due, got>>

\* The clients a broadcast is for.
Audience(to) == {c \in clients : to = Everyone \/ AccountOf[c] = to}

\* <-h.broadcast.
Broadcast(p) ==
    LET x == publisher[p] IN
    /\ x # Idle
    /\ SendTo(Audience(x.to), x.id)
    /\ Due({c \in clients : x.to \in {Everyone, AccountOf[c]}}, x.id)
    /\ publisher' = [publisher EXCEPT ![p] = Idle]
    /\ UNCHANGED <<socket, reader, writer, messages, got>>

\* <-h.deliver: the pong for a client that is still there.
Deliver(c) ==
    /\ reader[c] = "delivering"
    /\ SendTo({c} \cap clients, Pong)
    /\ Due({c} \cap clients, Pong)
    /\ reader' = [reader EXCEPT ![c] = "reading"]
    /\ UNCHANGED <<socket, writer, publisher, messages, got>>

-----------------------------------------------------------------------------
(***************************************************************************)
(* Publishers and handlers.                                                 *)
(***************************************************************************)

\* The caller waits until Run takes the message in.
BroadcastToUser(p, to) ==
    /\ publisher[p] = Idle
    /\ NewMessage
    /\ publisher' = [publisher EXCEPT ![p] = [to |-> to, id |-> messages + 1]]
    /\ UNCHANGED <<clients, channel, buffer, socket, reader, writer, due, got>>

\* NotifySyncEvent, NotifyFileChange and NotifyTransferUpdate.
Notify(p) == \E to \in Account \cup {Everyone} : BroadcastToUser(p, to)

\* The connection is upgraded; the handler waits for Run.
HandleWebSocket(c) ==
    /\ socket[c] = "none"
    /\ socket' = [socket EXCEPT ![c] = "open"]
    /\ channel' = [channel EXCEPT ![c] = "open"]
    /\ reader' = [reader EXCEPT ![c] = "registering"]
    /\ UNCHANGED <<clients, buffer, writer, publisher, messages, due, got>>

-----------------------------------------------------------------------------
(***************************************************************************)
(* The pumps.                                                               *)
(***************************************************************************)

\* handleMessage of a "ping": readPump waits for Run.  Other messages do
\* nothing.
HandleMessage(c) ==
    /\ reader[c] = "reading"
    /\ socket[c] = "open"
    /\ NewMessage
    /\ reader' = [reader EXCEPT ![c] = "delivering"]
    /\ UNCHANGED <<clients, channel, buffer, socket, writer, publisher, due, got>>

\* Variant of ReadFails: readPump returns without unregistering.
ReadFailsSilently(c) ==
    /\ reader[c] = "reading"
    /\ reader' = [reader EXCEPT ![c] = "ended"]
    /\ UNCHANGED <<clients, channel, buffer, socket, writer, publisher, messages, due, got>>

\* ReadMessage fails: the connection is closed, on either side, or a frame is
\* bad or exceeds the limit, or the read deadline passes, while writePump can
\* still write.
ReadFails(c) ==
    /\ reader[c] = "reading"
    /\ reader' = [reader EXCEPT ![c] = "unregistering"]
    /\ UNCHANGED <<clients, channel, buffer, socket, writer, publisher, messages, due, got>>

\* The peer goes away.
PeerGone(c) ==
    /\ socket[c] = "open"
    /\ socket' = [socket EXCEPT ![c] = "closed"]
    /\ UNCHANGED <<clients, channel, buffer, reader, writer, publisher, messages, due, got>>

\* writePump takes a message, which is still there after close(send), and
\* writes it.
WriteMessage(c) ==
    /\ writer[c] = "writing"
    /\ buffer[c] # <<>>
    /\ buffer' = [buffer EXCEPT ![c] = Tail(@)]
    /\ socket[c] = "open"
    /\ got' = [got EXCEPT ![c] = Append(@, Head(buffer[c]))]
    /\ UNCHANGED <<clients, channel, socket, reader, writer, publisher, messages, due>>

\* writePump returns and closes the connection: the channel is closed and
\* drained, or a write fails (the message is lost), or a ping fails.
WriteEnds(c) ==
    /\ writer[c] = "writing"
    /\ \/ buffer[c] = <<>> /\ channel[c] = "closed" /\ UNCHANGED buffer
       \/ buffer[c] # <<>> /\ buffer' = [buffer EXCEPT ![c] = Tail(@)]
       \/ socket[c] # "open" /\ UNCHANGED buffer
    /\ writer' = [writer EXCEPT ![c] = "ended"]
    /\ socket' = [socket EXCEPT ![c] = "closed"]
    /\ UNCHANGED <<clients, channel, reader, publisher, messages, due, got>>

-----------------------------------------------------------------------------
Init ==
    /\ clients = {}
    /\ channel = [c \in Conn |-> "none"]
    /\ buffer = [c \in Conn |-> <<>>]
    /\ socket = [c \in Conn |-> "none"]
    /\ reader = [c \in Conn |-> "none"]
    /\ writer = [c \in Conn |-> "none"]
    /\ publisher = [p \in Publisher |-> Idle]
    /\ messages = 0
    /\ due = [c \in Conn |-> <<>>]
    /\ got = [c \in Conn |-> <<>>]

\* The rendezvous of Run with a connection's goroutines.
Run(c) == Register(c) \/ Unregister(c) \/ Deliver(c)

Pumps(c) == ReadFails(c) \/ WriteMessage(c) \/ WriteEnds(c)

Environment(c) == HandleWebSocket(c) \/ HandleMessage(c) \/ PeerGone(c)

Next ==
    \/ \E c \in Conn : Run(c) \/ Pumps(c) \/ Environment(c)
    \/ \E p \in Publisher : Broadcast(p) \/ Notify(p)

Spec == Init /\ [][Next]_vars

\* A read of a closed connection.
ReadsClosed(c) == socket[c] # "open" /\ ReadFails(c)

\* A goroutine that waits for Run is served, since Run never waits and select
\* chooses at random; the pumps run, and writePump's ticker and write
\* deadline end a write to a dead connection.  A read of an open connection
\* need not fail.
Fairness ==
    /\ \A c \in Conn : WF_vars(Run(c)) /\ WF_vars(ReadsClosed(c)) /\ WF_vars(WriteMessage(c) \/ WriteEnds(c))
    /\ \A p \in Publisher : WF_vars(Broadcast(p))

LiveSpec == Spec /\ Fairness

-----------------------------------------------------------------------------
(***************************************************************************)
(* Properties.                                                              *)
(***************************************************************************)

\* Type invariant of the hub.  No buffer exceeds its capacity.
TypeOK ==
    /\ clients \subseteq Conn
    /\ channel \in [Conn -> {"none", "open", "closed", "panic"}]
    /\ buffer \in [Conn -> Seq(Message)]
    /\ \A c \in Conn : Len(buffer[c]) <= Capacity
    /\ socket \in [Conn -> {"none", "open", "closed"}]
    /\ reader \in [Conn -> {"none", "registering", "reading", "delivering", "unregistering", "ended"}]
    /\ writer \in [Conn -> {"none", "writing", "ended"}]
    /\ publisher \in [Publisher -> [to : Account \cup {Everyone}, id : 0 .. MaxMessages]]
    /\ messages \in 0 .. MaxMessages
    /\ due \in [Conn -> Seq(Message)]
    /\ got \in [Conn -> Seq(Message)]

\* Whatever the order in which a client is dropped as slow, unregisters and is
\* sent to: "a send channel can never be closed twice" (Hub), and nothing is
\* sent on a closed one.  Either would end the server.
NoPanic == \A c \in Conn : channel[c] # "panic"

IsPrefix(s, t) == Len(s) <= Len(t) /\ \A i \in 1 .. Len(s) : s[i] = t[i]

\* What a peer receives is, without a gap and in Run's order, what was meant
\* for it since it registered; a client that misses a message is cut off
\* instead of going on without it.
NoGaps ==
    \A c \in Conn :
        /\ IsPrefix(got[c], due[c])
        /\ c \in clients /\ writer[c] = "writing" => got[c] \o buffer[c] = due[c]

\* When a connection ends, for whatever reason, both pumps end and the hub
\* forgets the client: no goroutine leaks and nobody waits for ever.
ConnectionsEnd ==
    \A c \in Conn :
        socket[c] = "closed" ~> (reader[c] = "ended" /\ writer[c] = "ended" /\ c \notin clients)
================================================================================
