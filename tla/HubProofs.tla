-------------------------------- MODULE HubProofs ------------------------------
(***************************************************************************)
(* Proofs about Hub, for any number of connections, publishers and messages  *)
(* and any buffer: Run never panics, and no peer misses a message.          *)
(***************************************************************************)
EXTENDS Hub, SequenceTheorems, TLAPS

\* The map holds open channels only; a handler that waits to register has
\* one that is not in the map, and nothing is in it before it is connected.
Owned ==
    /\ \A c \in clients : channel[c] = "open"
    /\ \A c \in Conn : reader[c] = "registering" =>
          channel[c] = "open" /\ socket[c] # "none" /\ c \notin clients
    /\ \A c \in Conn : socket[c] = "none" => c \notin clients

Inv == TypeOK /\ NoPanic /\ Owned

-----------------------------------------------------------------------------
\* What a broadcast or a pong does to channels and buffers.
LEMMA SendToOwned ==
    ASSUME Inv, NEW S, S \subseteq clients, NEW m \in Message, SendTo(S, m)
    PROVE  /\ buffer' \in [Conn -> Seq(Message)]
           /\ \A c \in Conn : Len(buffer'[c]) <= Capacity
           /\ clients' \subseteq clients
           /\ channel' \in [Conn -> {"none", "open", "closed", "panic"}]
           /\ \A c \in Conn : channel'[c] # "panic"
           /\ \A c \in clients' : channel'[c] = "open"
           /\ \A c \in Conn : c \notin clients => channel'[c] = channel[c]
<1> USE HubAssumption DEF Inv
<1>0. S \subseteq Conn /\ \A c \in S : channel[c] = "open"
  BY DEF TypeOK, Owned
<1>1. buffer' \in [Conn -> Seq(Message)]
  <2>1. \A c \in Conn : Append(buffer[c], m) \in Seq(Message)
    BY AppendProperties DEF TypeOK
  <2> QED
    BY <2>1 DEF SendTo, TypeOK
<1>2. \A c \in Conn : Len(buffer'[c]) <= Capacity
  <2> SUFFICES ASSUME NEW c \in Conn PROVE Len(buffer'[c]) <= Capacity
    OBVIOUS
  <2>1. buffer[c] \in Seq(Message) /\ Len(buffer[c]) \in Nat /\ Len(buffer[c]) <= Capacity
    BY DEF TypeOK
  <2>2. CASE c \in S \ Slow(S)
    <3>1. buffer'[c] = Append(buffer[c], m)
      BY <2>2 DEF SendTo
    <3>2. Len(buffer'[c]) = Len(buffer[c]) + 1
      BY <2>1, <3>1, AppendProperties
    <3>3. Len(buffer[c]) # Capacity
      BY <1>0, <2>2 DEF Slow
    <3> QED
      BY <2>1, <3>2, <3>3
  <2>3. CASE c \notin S \ Slow(S)
    BY <2>1, <2>3 DEF SendTo
  <2> QED
    BY <2>2, <2>3
<1>3. clients' = clients \ Slow(S)
  BY DEF SendTo
<1>4. \A c \in Conn : channel'[c] = IF c \in Slow(S) THEN "closed" ELSE channel[c]
  BY <1>0 DEF SendTo, Slow, Closed
<1>5. channel' \in [Conn -> {"none", "open", "closed", "panic"}]
  BY <1>0, <1>4 DEF SendTo, TypeOK
<1>6. Slow(S) \subseteq S
  BY DEF Slow
<1> QED
  BY <1>1, <1>2, <1>3, <1>4, <1>5, <1>6 DEF TypeOK, NoPanic, Owned

\* What Run took in stays a sequence of messages.
LEMMA DueTyped ==
    ASSUME Inv, NEW S, NEW m \in Message, Due(S, m)
    PROVE  due' \in [Conn -> Seq(Message)]
<1>1. \A c \in Conn : Append(due[c], m) \in Seq(Message)
  BY AppendProperties DEF Inv, TypeOK
<1> QED
  BY <1>1 DEF Due, Inv, TypeOK

\* No connection yet.
LEMMA InitInv == Init => Inv
<1> SUFFICES ASSUME Init PROVE Inv
  OBVIOUS
<1>1. <<>> \in Seq(Message) /\ Len(<<>>) = 0
  OBVIOUS
<1>2. Idle \in [to : Account \cup {Everyone}, id : 0 .. MaxMessages]
  BY HubAssumption DEF Idle
<1>3. TypeOK
  BY <1>1, <1>2, HubAssumption DEF Init, TypeOK
<1> QED
  BY <1>3 DEF Init, Inv, NoPanic, Owned

\* Each case of Run's select.
LEMMA RunInv ==
    ASSUME Inv, NEW c \in Conn, Run(c)
    PROVE  Inv'
<1> USE DEF Inv
<1>1. CASE Register(c)
  <2>1. TypeOK'
    BY <1>1 DEF Register, TypeOK
  <2>2. NoPanic' /\ Owned'
    BY <1>1 DEF Register, TypeOK, NoPanic, Owned
  <2> QED
    BY <2>1, <2>2
<1>2. CASE Unregister(c)
  <2>1. channel' = [channel EXCEPT ![c] = IF c \in clients THEN "closed" ELSE channel[c]]
    BY <1>2 DEF Unregister, Closed, Owned
  <2>2. TypeOK'
    BY <1>2, <2>1 DEF Unregister, TypeOK
  <2>3. NoPanic' /\ Owned'
    BY <1>2, <2>1 DEF Unregister, TypeOK, NoPanic, Owned
  <2> QED
    BY <2>2, <2>3
<1>3. CASE Deliver(c)
  <2>1. SendTo({c} \cap clients, Pong) /\ {c} \cap clients \subseteq clients /\ Pong \in Message
    BY <1>3 DEF Deliver, Message
  <2>2. due' \in [Conn -> Seq(Message)]
    BY <1>3, <2>1, DueTyped DEF Deliver
  <2>3. /\ buffer' \in [Conn -> Seq(Message)]
        /\ \A d \in Conn : Len(buffer'[d]) <= Capacity
        /\ clients' \subseteq clients
        /\ channel' \in [Conn -> {"none", "open", "closed", "panic"}]
        /\ \A d \in Conn : channel'[d] # "panic"
        /\ \A d \in clients' : channel'[d] = "open"
        /\ \A d \in Conn : d \notin clients => channel'[d] = channel[d]
    BY <2>1, SendToOwned
  <2>4. TypeOK'
    BY <1>3, <2>2, <2>3 DEF Deliver, TypeOK
  <2>5. NoPanic'
    BY <2>3 DEF NoPanic
  <2>6. Owned'
    BY <1>3, <2>1, <2>3 DEF Deliver, Owned, TypeOK, SendTo, Slow
  <2> QED
    BY <2>4, <2>5, <2>6
<1> QED
  BY <1>1, <1>2, <1>3 DEF Run

\* The two pumps, and the peers at the other end.
LEMMA PumpsInv ==
    ASSUME Inv, NEW c \in Conn, Pumps(c) \/ Environment(c)
    PROVE  Inv'
<1> USE DEF Inv
<1>1. CASE ReadFails(c) \/ PeerGone(c)
  BY <1>1 DEF ReadFails, PeerGone, TypeOK, NoPanic, Owned
<1>2. CASE HandleWebSocket(c)
  BY <1>2 DEF HandleWebSocket, TypeOK, NoPanic, Owned
<1>3. CASE HandleMessage(c)
  <2>1. messages' \in 0 .. MaxMessages
    BY <1>3, HubAssumption DEF HandleMessage, NewMessage, TypeOK
  <2> QED
    BY <1>3, <2>1 DEF HandleMessage, TypeOK, NoPanic, Owned
<1>4. ASSUME buffer[c] # <<>>
      PROVE  /\ Tail(buffer[c]) \in Seq(Message) /\ Head(buffer[c]) \in Message
             /\ Len(Tail(buffer[c])) <= Capacity
  <2>1. buffer[c] \in Seq(Message) /\ Len(buffer[c]) \in Nat /\ Len(buffer[c]) <= Capacity
    BY DEF TypeOK
  <2>2. Tail(buffer[c]) \in Seq(Message) /\ Head(buffer[c]) \in Message /\ Len(Tail(buffer[c])) = Len(buffer[c]) - 1
    BY <1>4, <2>1, HeadTailProperties
  <2> QED
    BY <2>1, <2>2, HubAssumption
<1>5. CASE WriteMessage(c)
  <2>1. Append(got[c], Head(buffer[c])) \in Seq(Message)
    BY <1>4, <1>5, AppendProperties DEF WriteMessage, TypeOK
  <2>2. TypeOK'
    BY <1>4, <1>5, <2>1 DEF WriteMessage, TypeOK
  <2> QED
    BY <1>5, <2>2 DEF WriteMessage, NoPanic, Owned
<1>6. CASE WriteEnds(c)
  <2>1. buffer' = buffer \/ (buffer[c] # <<>> /\ buffer' = [buffer EXCEPT ![c] = Tail(@)])
    BY <1>6 DEF WriteEnds
  <2>2. buffer' \in [Conn -> Seq(Message)] /\ \A d \in Conn : Len(buffer'[d]) <= Capacity
    <3>1. CASE buffer' = buffer
      BY <3>1 DEF TypeOK
    <3>2. CASE buffer[c] # <<>> /\ buffer' = [buffer EXCEPT ![c] = Tail(@)]
      <4>1. PICK s \in Seq(Message) : s = Tail(buffer[c]) /\ Len(s) <= Capacity
        BY <1>4, <3>2
      <4>2. buffer \in [Conn -> Seq(Message)] /\ buffer' = [buffer EXCEPT ![c] = s]
        BY <3>2, <4>1 DEF TypeOK
      <4>3. buffer' \in [Conn -> Seq(Message)] /\ \A d \in Conn : buffer'[d] = IF d = c THEN s ELSE buffer[d]
        BY <4>2
      <4> QED
        BY <4>1, <4>3 DEF TypeOK
    <3> QED
      BY <2>1, <3>1, <3>2
  <2>3. TypeOK'
    BY <1>6, <2>2 DEF WriteEnds, TypeOK
  <2> QED
    BY <1>6, <2>3 DEF WriteEnds, NoPanic, Owned, TypeOK
<1> QED
  BY <1>1, <1>2, <1>3, <1>5, <1>6 DEF Pumps, Environment

\* BroadcastToUser, and Run taking its message in.
LEMMA PublisherInv ==
    ASSUME Inv, NEW p \in Publisher,
           Broadcast(p) \/ \E to \in Account \cup {Everyone} : BroadcastToUser(p, to)
    PROVE  Inv'
<1> USE DEF Inv
<1>1. CASE Broadcast(p)
  <2> DEFINE S == Audience(publisher[p].to)
             m == publisher[p].id
  <2>1. SendTo(S, m) /\ S \subseteq clients /\ m \in Message
    BY <1>1 DEF Broadcast, Audience, TypeOK, Message, Pong
  <2>2. due' \in [Conn -> Seq(Message)]
    BY <1>1, <2>1, DueTyped DEF Broadcast
  <2>3. /\ buffer' \in [Conn -> Seq(Message)]
        /\ \A d \in Conn : Len(buffer'[d]) <= Capacity
        /\ clients' \subseteq clients
        /\ channel' \in [Conn -> {"none", "open", "closed", "panic"}]
        /\ \A d \in Conn : channel'[d] # "panic"
        /\ \A d \in clients' : channel'[d] = "open"
        /\ \A d \in Conn : d \notin clients => channel'[d] = channel[d]
    BY <2>1, SendToOwned
  <2>4. publisher' \in [Publisher -> [to : Account \cup {Everyone}, id : 0 .. MaxMessages]]
    BY <1>1, HubAssumption DEF Broadcast, TypeOK, Idle
  <2>5. TypeOK'
    BY <1>1, <2>2, <2>3, <2>4 DEF Broadcast, TypeOK
  <2>6. NoPanic'
    BY <2>3 DEF NoPanic
  <2>7. Owned'
    BY <1>1, <2>3 DEF Broadcast, Owned, TypeOK
  <2> QED
    BY <2>5, <2>6, <2>7
<1>2. ASSUME NEW to \in Account \cup {Everyone}, BroadcastToUser(p, to) PROVE Inv'
  <2>1. messages + 1 \in 0 .. MaxMessages /\ messages' = messages + 1
    BY <1>2, HubAssumption DEF BroadcastToUser, NewMessage, TypeOK
  <2>2. TypeOK'
    BY <1>2, <2>1 DEF BroadcastToUser, TypeOK
  <2> QED
    BY <1>2, <2>2 DEF BroadcastToUser, NoPanic, Owned
<1> QED
  BY <1>1, <1>2

\* The invariant holds in every reachable state.
THEOREM Invariance == Spec => []Inv
<1>1. Init => Inv
  BY InitInv
<1>2. Inv /\ [Next]_vars => Inv'
  <2> SUFFICES ASSUME Inv, [Next]_vars PROVE Inv'
    OBVIOUS
  <2>1. CASE UNCHANGED vars
    BY <2>1 DEF vars, Inv, TypeOK, NoPanic, Owned
  <2>2. CASE Next
    BY <2>2, RunInv, PumpsInv, PublisherInv DEF Next, Notify
  <2> QED
    BY <2>1, <2>2
<1> QED
  BY <1>1, <1>2, PTL DEF Spec

\* Every reachable state is well typed: no send channel holds more than its
\* capacity, so Run never waits for a client.
THEOREM TypeCorrect == Spec => []TypeOK
BY Invariance, PTL DEF Inv

\* Run neither closes a send channel twice nor sends on a closed one.
THEOREM PanicFree == Spec => []NoPanic
BY Invariance, PTL DEF Inv

-----------------------------------------------------------------------------
(***************************************************************************)
(* Nothing is lost on the way.                                              *)
(***************************************************************************)

\* What was written and what is buffered is what was due, up to the message
\* that made Run drop the client or that writePump failed to write.
Stream(c) ==
    /\ IsPrefix(got[c], due[c])
    /\ writer[c] = "none" => got[c] = <<>> /\ buffer[c] = <<>> /\ due[c] = <<>>
    /\ writer[c] = "writing" => IsPrefix(got[c] \o buffer[c], due[c])
    /\ c \in clients /\ writer[c] = "writing" => got[c] \o buffer[c] = due[c]
    /\ c \in clients => writer[c] # "none"
    /\ reader[c] = "registering" => writer[c] = "none"
    /\ socket[c] = "none" => writer[c] = "none" /\ reader[c] = "none"

Streams == \A c \in Conn : Stream(c)

\* Every sequence is a prefix of itself.
LEMMA PrefixRefl ==
    ASSUME NEW S, NEW s \in Seq(S)
    PROVE  IsPrefix(s, s)
BY DEF IsPrefix

\* A prefix stays one when the longer sequence grows.
LEMMA PrefixAppend ==
    ASSUME NEW S, NEW s \in Seq(S), NEW t \in Seq(S), NEW m \in S, IsPrefix(s, t)
    PROVE  IsPrefix(s, Append(t, m))
<1>1. Len(Append(t, m)) = Len(t) + 1 /\ \A i \in 1 .. Len(t) : Append(t, m)[i] = t[i]
  BY AppendProperties
<1>2. Len(s) \in Nat /\ Len(t) \in Nat
  OBVIOUS
<1> QED
  BY <1>1, <1>2 DEF IsPrefix

\* The first part of a prefix is a prefix.
LEMMA PrefixOfConcat ==
    ASSUME NEW S, NEW s \in Seq(S), NEW t \in Seq(S), NEW u \in Seq(S), IsPrefix(s \o t, u)
    PROVE  IsPrefix(s, u)
<1>1. /\ Len(s \o t) = Len(s) + Len(t)
      /\ \A i \in 1 .. Len(s) + Len(t) : (s \o t)[i] = IF i <= Len(s) THEN s[i] ELSE t[i - Len(s)]
  BY ConcatProperties
<1>2. Len(s) \in Nat /\ Len(t) \in Nat /\ Len(u) \in Nat
  OBVIOUS
<1> QED
  BY <1>1, <1>2 DEF IsPrefix

\* Appending to the second part appends to the whole.
LEMMA ConcatAppend ==
    ASSUME NEW S, NEW s \in Seq(S), NEW t \in Seq(S), NEW m \in S
    PROVE  s \o Append(t, m) = Append(s \o t, m)
<1>1. Append(t, m) = t \o <<m>> /\ Append(s \o t, m) = (s \o t) \o <<m>> /\ <<m>> \in Seq(S)
  BY AppendIsConcat, ConcatProperties
<1> QED
  BY <1>1, ConcatAssociative

\* The same, for all messages at once.
LEMMA AppendToStream ==
    \A s, t \in Seq(Message), m \in Message : s \o Append(t, m) = Append(s \o t, m)
<1> TAKE s, t \in Seq(Message), m \in Message
<1> QED
  BY ConcatAppend

\* Moving the head of the buffer behind what was written changes nothing.
LEMMA ConcatTail ==
    ASSUME NEW S, NEW s \in Seq(S), NEW t \in Seq(S), t # <<>>
    PROVE  Append(s, Head(t)) \o Tail(t) = s \o t
<1>1. Head(t) \in S /\ Tail(t) \in Seq(S) /\ <<Head(t)>> \in Seq(S)
  BY HeadTailProperties
<1>2. Append(s, Head(t)) = s \o <<Head(t)>>
  BY <1>1, AppendIsConcat
<1>3. t = <<Head(t)>> \o Tail(t)
  <2>1. Len(t) \in Nat \ {0} /\ Len(Tail(t)) = Len(t) - 1 /\ \A i \in 1 .. Len(Tail(t)) : Tail(t)[i] = t[i + 1]
    BY HeadTailProperties, EmptySeq
  <2>2. /\ <<Head(t)>> \o Tail(t) \in Seq(S) /\ Len(<<Head(t)>> \o Tail(t)) = 1 + Len(Tail(t))
        /\ \A i \in 1 .. 1 + Len(Tail(t)) :
              (<<Head(t)>> \o Tail(t))[i] = IF i <= 1 THEN <<Head(t)>>[i] ELSE Tail(t)[i - 1]
    BY <1>1, ConcatProperties
  <2>3. \A i \in 1 .. Len(t) : t[i] = (<<Head(t)>> \o Tail(t))[i]
    BY <2>1, <2>2
  <2> QED
    BY <2>1, <2>2, <2>3, SeqEqual
<1> QED
  BY <1>1, <1>2, <1>3, ConcatAssociative

\* Run takes in m for the clients S.
LEMMA SendToStreams ==
    ASSUME Inv, Streams, NEW S, S \subseteq clients, NEW m \in Message,
           SendTo(S, m), Due(S, m), UNCHANGED <<got, writer, socket>>, NEW c \in Conn,
           reader'[c] = "registering" => reader[c] = "registering",
           reader'[c] = reader[c] \/ reader[c] # "none"
    PROVE  Stream(c)'
<1>0. /\ buffer[c] \in Seq(Message) /\ due[c] \in Seq(Message) /\ got[c] \in Seq(Message)
      /\ got[c] \o buffer[c] \in Seq(Message)
      /\ Stream(c) /\ S \subseteq Conn
  BY ConcatProperties DEF Inv, TypeOK, Streams
<1>1. clients' = clients \ Slow(S) /\ got'[c] = got[c] /\ writer'[c] = writer[c] /\ socket'[c] = socket[c]
  BY DEF SendTo
<1>2. CASE c \notin S
  <2>1. buffer'[c] = buffer[c] /\ due'[c] = due[c] /\ (c \in clients' => c \in clients)
    BY <1>1, <1>2 DEF SendTo, Due
  <2> QED
    BY <1>0, <1>1, <2>1 DEF Stream
<1>3. CASE c \in Slow(S)
  <2>1. buffer'[c] = buffer[c] /\ due'[c] = Append(due[c], m) /\ c \notin clients' /\ c \in clients
    BY <1>1, <1>3 DEF SendTo, Due, Slow
  <2>2. IsPrefix(got[c], Append(due[c], m))
    BY <1>0, PrefixAppend DEF Stream
  <2>3. writer[c] = "writing" => IsPrefix(got[c] \o buffer[c], Append(due[c], m))
    BY <1>0, PrefixAppend DEF Stream
  <2> QED
    BY <1>0, <1>1, <2>1, <2>2, <2>3 DEF Stream
<1>4. CASE c \in S \ Slow(S)
  <2>1. buffer'[c] = Append(buffer[c], m) /\ due'[c] = Append(due[c], m) /\ c \in clients
    BY <1>0, <1>4 DEF SendTo, Due
  <2>2. IsPrefix(got[c], Append(due[c], m))
    BY <1>0, PrefixAppend DEF Stream
  <2>3. writer[c] = "writing" => got[c] \o Append(buffer[c], m) = Append(due[c], m)
    <3>1. got[c] \o Append(buffer[c], m) = Append(got[c] \o buffer[c], m)
      BY <1>0, AppendToStream, Zenon
    <3>2. writer[c] = "writing" => got[c] \o buffer[c] = due[c]
      BY <1>0, <2>1 DEF Stream
    <3> QED
      BY <3>1, <3>2
  <2>4. Append(due[c], m) \in Seq(Message)
    BY <1>0, AppendProperties
  <2>5. IsPrefix(Append(due[c], m), Append(due[c], m))
    BY <2>4, PrefixRefl
  <2>6. writer[c] # "none" /\ socket[c] # "none"
    BY <1>0, <2>1 DEF Stream
  <2>7. /\ IsPrefix(got'[c], due'[c])
        /\ writer'[c] = "writing" => got'[c] \o buffer'[c] = due'[c]
    BY <1>1, <2>1, <2>2, <2>3
  <2>8. writer'[c] = "writing" => IsPrefix(got'[c] \o buffer'[c], due'[c])
    BY <2>1, <2>5, <2>7
  <2>9. reader'[c] = "registering" => writer'[c] = "none"
    BY <1>0, <1>1 DEF Stream
  <2> QED
    BY <1>1, <2>6, <2>7, <2>8, <2>9 DEF Stream
<1> QED
  BY <1>2, <1>3, <1>4

\* A step of the goroutines of connection c leaves the other streams alone.
LEMMA OthersUnchanged ==
    ASSUME Inv, Streams, NEW c \in Conn, NEW d \in Conn, d # c,
           Register(c) \/ Unregister(c) \/ Pumps(c) \/ Environment(c)
    PROVE  Stream(d)'
<1>1. /\ got'[d] = got[d] /\ due'[d] = due[d] /\ buffer'[d] = buffer[d] /\ writer'[d] = writer[d]
      /\ reader'[d] = reader[d] /\ socket'[d] = socket[d] /\ (d \in clients' <=> d \in clients)
  BY DEF Register, Unregister, Pumps, ReadFails, WriteMessage, WriteEnds, Environment, HandleWebSocket,
         HandleMessage, PeerGone, Inv, TypeOK
<1> QED
  BY <1>1 DEF Streams, Stream

\* A step of its own goroutines keeps a connection's stream.
LEMMA OwnStream ==
    ASSUME Inv, Streams, NEW c \in Conn, Register(c) \/ Unregister(c) \/ Pumps(c) \/ Environment(c)
    PROVE  Stream(c)'
<1>0. /\ buffer[c] \in Seq(Message) /\ due[c] \in Seq(Message) /\ got[c] \in Seq(Message)
      /\ got[c] \o buffer[c] \in Seq(Message)
      /\ Stream(c)
  BY ConcatProperties DEF Inv, TypeOK, Streams
<1>1. CASE Register(c)
  <2>1. got'[c] = <<>> /\ buffer'[c] = <<>> /\ due'[c] = <<>> /\ writer'[c] = "writing" /\ reader'[c] = "reading"
        /\ socket'[c] # "none"
    BY <1>0, <1>1 DEF Register, Stream, Inv, TypeOK
  <2>2. <<>> \o <<>> = <<>> /\ IsPrefix(<<>>, <<>>)
    BY DEF IsPrefix
  <2> QED
    BY <2>1, <2>2 DEF Stream
<1>2. CASE Unregister(c) \/ ReadFails(c) \/ Environment(c)
  <2>1. /\ got' = got /\ due' = due /\ buffer' = buffer /\ writer' = writer
        /\ (c \in clients' => c \in clients)
        /\ socket'[c] # "none"
    BY <1>0, <1>2 DEF Unregister, ReadFails, Environment, HandleWebSocket, HandleMessage, PeerGone, Inv, TypeOK, Stream
  <2>2. reader'[c] = "registering" => writer[c] = "none"
    BY <1>0, <1>2 DEF Unregister, ReadFails, Environment, HandleWebSocket, HandleMessage, PeerGone, Inv, TypeOK, Stream
  <2> QED
    BY <1>0, <2>1, <2>2 DEF Stream
<1>3. CASE WriteMessage(c)
  <2>1. /\ got'[c] = Append(got[c], Head(buffer[c])) /\ buffer'[c] = Tail(buffer[c]) /\ buffer[c] # <<>>
        /\ writer[c] = "writing" /\ UNCHANGED <<due, writer, reader, socket, clients>>
    BY <1>3 DEF WriteMessage, Inv, TypeOK
  <2>2. got'[c] \o buffer'[c] = got[c] \o buffer[c]
    BY <1>0, <2>1, ConcatTail
  <2>3. got'[c] \in Seq(Message) /\ buffer'[c] \in Seq(Message)
    BY <1>0, <2>1, HeadTailProperties, AppendProperties
  <2>4. IsPrefix(got'[c] \o buffer'[c], due[c])
    BY <1>0, <2>1, <2>2 DEF Stream
  <2>5. IsPrefix(got'[c], due[c])
    BY <1>0, <2>3, <2>4, PrefixOfConcat
  <2> QED
    BY <1>0, <2>1, <2>2, <2>4, <2>5 DEF Stream
<1>4. CASE WriteEnds(c)
  <2>1. writer'[c] = "ended" /\ writer[c] = "writing" /\ UNCHANGED <<got, due, reader, clients>> /\ socket'[c] = "closed"
    BY <1>4 DEF WriteEnds, Inv, TypeOK
  <2> QED
    BY <1>0, <2>1 DEF Stream
<1> QED
  BY <1>1, <1>2, <1>3, <1>4 DEF Pumps

\* Every step keeps every stream.
LEMMA StreamsStep == Inv /\ Streams /\ [Next]_vars => Streams'
<1> SUFFICES ASSUME Inv, Streams, [Next]_vars, NEW c \in Conn PROVE Stream(c)'
  BY DEF Streams
<1>1. CASE UNCHANGED vars
  BY <1>1 DEF vars, Streams, Stream
<1>2. ASSUME NEW b \in Conn, Register(b) \/ Unregister(b) \/ Pumps(b) \/ Environment(b) PROVE Stream(c)'
  BY <1>2, OwnStream, OthersUnchanged
<1>3. ASSUME NEW b \in Conn, Deliver(b) PROVE Stream(c)'
  <2>1. /\ SendTo({b} \cap clients, Pong) /\ Due({b} \cap clients, Pong) /\ Pong \in Message
        /\ {b} \cap clients \subseteq clients /\ UNCHANGED <<got, writer, socket>>
    BY <1>3 DEF Deliver, Message
  <2>2. /\ reader'[c] = "registering" => reader[c] = "registering"
        /\ reader'[c] = reader[c] \/ reader[c] # "none"
    BY <1>3 DEF Deliver, Inv, TypeOK
  <2> QED
    BY <2>1, <2>2, SendToStreams
<1>4. ASSUME NEW p \in Publisher, Broadcast(p) PROVE Stream(c)'
  <2> DEFINE S == Audience(publisher[p].to)
             m == publisher[p].id
  <2>1. SendTo(S, m) /\ S \subseteq clients /\ m \in Message
    BY <1>4 DEF Broadcast, Audience, Inv, TypeOK, Message, Pong
  <2>2. S = {d \in clients : publisher[p].to \in {Everyone, AccountOf[d]}}
    BY DEF Audience
  <2>3. Due(S, m) /\ UNCHANGED <<got, writer, socket, reader>>
    BY <1>4, <2>2 DEF Broadcast
  <2> QED
    BY <2>1, <2>3, SendToStreams
<1>5. ASSUME NEW p \in Publisher, NEW to \in Account \cup {Everyone}, BroadcastToUser(p, to) PROVE Stream(c)'
  BY <1>5 DEF BroadcastToUser, Streams, Stream
<1> QED
  BY <1>1, <1>2, <1>3, <1>4, <1>5 DEF Next, Run, Notify

\* A peer receives what is meant for it in Run's order and without a gap:
\* "drop and disconnect" never drops a message and keeps the client.
THEOREM Gapless == Spec => []NoGaps
<1>1. Init => Streams
  <2>1. <<>> \o <<>> = <<>> /\ IsPrefix(<<>>, <<>>)
    BY DEF IsPrefix
  <2> SUFFICES ASSUME Init, NEW c \in Conn PROVE Stream(c)
    BY DEF Streams
  <2>2. /\ got[c] = <<>> /\ buffer[c] = <<>> /\ due[c] = <<>> /\ writer[c] = "none"
        /\ reader[c] = "none" /\ c \notin clients
    BY DEF Init
  <2> QED
    BY <2>1, <2>2 DEF Stream
<1>2. Streams => NoGaps
  BY DEF Streams, Stream, NoGaps
<1> QED
  BY <1>1, <1>2, StreamsStep, Invariance, PTL DEF Spec
================================================================================
