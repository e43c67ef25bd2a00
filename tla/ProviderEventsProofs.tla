-------------------------- MODULE ProviderEventsProofs --------------------------
(***************************************************************************)
(* Proofs about ProviderEvents for any providers, threads, clients and     *)
(* texts, and any number of switches: the events account for the provider, *)
(* and an open stream is owed nothing but what waits for it.               *)
(***************************************************************************)
EXTENDS ProviderEvents, FiniteSetTheorems, SequenceTheorems, TLAPS

-----------------------------------------------------------------------------
(* Types.                                                                   *)

(* Every variable keeps its type: current_ is a registered provider and an  *)
(* event names two of them.                                                 *)
LEMMA TypeStep ==
  ASSUME EventsTypeOK, [EventsNext]_eventVars
  PROVE  EventsTypeOK'
<1> USE EventsAssumption DEF EventsTypeOK, Event, Text, switchVars, streamVars
<1>1. ASSUME NEW t \in Threads, NEW n \in Providers \cup {Unknown}, Switch(t, n)
      PROVE  EventsTypeOK'
  <2>1. <<<<current, n>>>> \in Seq(Providers \X Providers)
    BY <1>1 DEF Switch
  <2>2. calls' \in [Threads -> Seq(Providers \X Providers)]
    BY <1>1, <2>1 DEF Switch
  <2> QED  BY <1>1, <2>2 DEF Switch
<1>2. ASSUME NEW t \in Threads, Announce(t)  PROVE EventsTypeOK'
  <2>1. /\ calls[t] \in Seq(Providers \X Providers) /\ calls[t] # <<>>
        /\ Head(calls[t]) \in Providers \X Providers
    BY <1>2 DEF Announce
  <2>2. PICK e \in Providers \X Providers : e = Head(calls[t])
    BY <2>1
  <2>3. calls' \in [Threads -> Seq(Providers \X Providers)]
    BY <1>2 DEF Announce
  <2>4. sent' \in Seq(Providers \X Providers)
    BY <1>2, <2>2 DEF Announce
  <2>5. events' = [c \in Clients |-> IF c \in clients /\ stream[c] # "ended"
                                       THEN Append(events[c], e) ELSE events[c]]
    BY <1>2, <2>2 DEF Announce
  <2>6. owed' = [c \in Clients |-> IF stream[c] # "none" THEN Append(owed[c], e) ELSE owed[c]]
    BY <1>2, <2>2 DEF Announce
  <2>7. ASSUME NEW c \in Clients  PROVE events'[c] \in Seq((Providers \X Providers) \cup {Greeting})
    BY <2>5, <2>7
  <2>8. ASSUME NEW c \in Clients  PROVE owed'[c] \in Seq(Providers \X Providers)
    BY <2>6, <2>8
  <2>9. /\ events' \in [Clients -> Seq((Providers \X Providers) \cup {Greeting})]
        /\ owed' \in [Clients -> Seq(Providers \X Providers)]
    BY <2>5, <2>6, <2>7, <2>8
  <2> QED  BY <1>2, <2>3, <2>4, <2>9 DEF Announce
<1>3. ASSUME NEW c \in Clients, Register(c)  PROVE EventsTypeOK'
  BY <1>3 DEF Register
<1>4. ASSUME NEW c \in Clients, Greet(c)  PROVE EventsTypeOK'
  BY <1>4 DEF Greet
<1>5. ASSUME NEW c \in Clients, Look(c)  PROVE EventsTypeOK'
  BY <1>5 DEF Look
<1>6. ASSUME NEW c \in Clients, Pop(c)  PROVE EventsTypeOK'
  <2>1. CASE events[c] = <<>>
    BY <1>6, <2>1 DEF Pop
  <2>2. CASE events[c] # <<>>
    <3>1. /\ Head(events[c]) \in (Providers \X Providers) \cup {Greeting}
          /\ Tail(events[c]) \in Seq((Providers \X Providers) \cup {Greeting})
      BY <2>2
    <3>2. <<Head(events[c])>> \in Seq((Providers \X Providers) \cup {Greeting})
      BY <3>1
    <3> QED  BY <1>6, <2>2, <3>1, <3>2 DEF Pop
  <2> QED  BY <2>1, <2>2
<1>7. ASSUME NEW c \in Clients, Write(c)  PROVE EventsTypeOK'
  <2>1. got[c] \o hand[c] \in Seq((Providers \X Providers) \cup {Greeting})
    BY ConcatProperties
  <2>2. <<>> \in Seq((Providers \X Providers) \cup {Greeting})
    OBVIOUS
  <2>3. PICK written \in BOOLEAN :
          /\ got' = IF written THEN [got EXCEPT ![c] = @ \o hand[c]] ELSE got
          /\ active' = [active EXCEPT ![c] = active[c] /\ (AsNumber(written) = EventSize)]
          /\ stream' = [stream EXCEPT ![c] = IF AsNumber(written) = EventSize THEN "loop" ELSE "ended"]
    BY <1>7 DEF Write
  <2>4. got' \in [Clients -> Seq((Providers \X Providers) \cup {Greeting})]
    BY <2>1, <2>3
  <2>5. active' \in [Clients -> BOOLEAN]
    BY <2>3, Zenon
  <2>6. stream' \in [Clients -> {"none", "greet", "loop", "pop", "write", "ended"}]
    BY <2>3
  <2> QED  BY <1>7, <2>2, <2>4, <2>5, <2>6 DEF Write
<1>8. ASSUME NEW c \in Clients, Disconnect(c)  PROVE EventsTypeOK'
  BY <1>8 DEF Disconnect
<1>9. CASE ClearServerRunning
  BY <1>9 DEF ClearServerRunning
<1>10. CASE DropClients
  BY <1>10 DEF DropClients
<1>11. CASE UNCHANGED eventVars
  BY <1>11 DEF eventVars
<1> QED
  BY <1>1, <1>2, <1>3, <1>4, <1>5, <1>6, <1>7, <1>8, <1>9, <1>10, <1>11
     DEF EventsNext, Joined

LEMMA TypeInit ==
  ASSUME EventsInit
  PROVE  EventsTypeOK
BY EventsAssumption DEF EventsInit, EventsTypeOK, Event, Text

(* In every state each variable has its type.                               *)
THEOREM EventsTypeCorrect == EventsSpec => []EventsTypeOK
BY TypeInit, TypeStep, PTL DEF EventsSpec

-----------------------------------------------------------------------------
(* Open streams.                                                            *)

(* A stream that has not begun holds and is owed nothing; only one that is  *)
(* about to write has an event in hand, and what is registered has begun.   *)
StreamsBegin ==
  \A c \in Clients :
    /\ stream[c] = "none" =>
         c \notin clients /\ got[c] = <<>> /\ events[c] = <<>> /\ owed[c] = <<>>
    /\ stream[c] # "write" => hand[c] = <<>>

StreamsInv == EventsTypeOK /\ StreamsBegin /\ OpenStreamsComplete

(* A greeting among s is one among s followed by e: what was in its place   *)
(* stays there when broadcast_event pushes another event.                   *)
LEMMA GreetingStays ==
  ASSUME NEW s \in Seq(Event), NEW e \in Event, NEW f \in WithGreeting(s)
  PROVE  f \in Seq(Text) /\ Append(f, e) \in WithGreeting(Append(s, e))
<1> USE DEF Text
<1>1. PICK k \in 0..Len(s) :
        f = SubSeq(s, 1, k) \o <<Greeting>> \o SubSeq(s, k + 1, Len(s))
  BY DEF WithGreeting
<1> DEFINE a == SubSeq(s, 1, k)
           b == SubSeq(s, k + 1, Len(s))
           z == Append(s, e)
<1>2. /\ s \in Seq(Text) /\ e \in Text /\ z \in Seq(Text) /\ Len(z) = Len(s) + 1
      /\ \A i \in 1..Len(s) : z[i] = s[i]
      /\ z[Len(s) + 1] = e
  BY AppendProperties
<1> HIDE DEF z
<1>3. a \in Seq(Text) /\ b \in Seq(Text)
  <2>1. a \in Seq(Text)
    BY <1>2, SubSeqProperties
  <2>2. b \in Seq(Text)
    BY <1>2, SubSeqProperties
  <2> QED  BY <2>1, <2>2
<1>4. SubSeq(z, 1, k) = a
  <2>1. /\ SubSeq(z, 1, k) \in Seq(Text) /\ Len(SubSeq(z, 1, k)) = k
        /\ \A i \in 1..k : SubSeq(z, 1, k)[i] = s[i]
    BY <1>2, SubSeqProperties
  <2>2. Len(a) = k /\ \A i \in 1..k : a[i] = s[i]
    BY <1>2, SubSeqProperties
  <2> QED  BY <1>3, <2>1, <2>2, SeqEqual
<1>5. SubSeq(z, k + 1, Len(z)) = b \o <<e>>
  <2>1. SubSeq(z, k + 1, Len(z)) = SubSeq(z, k + 1, Len(z) - 1) \o <<z[Len(z)]>>
    <3>1. k + 1 \in 1..Len(z) /\ Len(z) \in (k + 1)..Len(z)
      BY <1>2
    <3> QED  BY <1>2, <3>1, SubSeqRecursiveSecond
  <2>2. SubSeq(z, k + 1, Len(s)) = b
    <3>1. /\ SubSeq(z, k + 1, Len(s)) \in Seq(Text)
          /\ Len(SubSeq(z, k + 1, Len(s))) = Len(s) - k
          /\ \A i \in 1..(Len(s) - k) : SubSeq(z, k + 1, Len(s))[i] = s[k + i]
      BY <1>2, SubSeqProperties
    <3>2. Len(b) = Len(s) - k /\ \A i \in 1..(Len(s) - k) : b[i] = s[k + i]
      BY <1>2, SubSeqProperties
    <3> HIDE DEF b
    <3>3. \A i \in 1..Len(b) : SubSeq(z, k + 1, Len(s))[i] = b[i]
      BY <3>1, <3>2
    <3> QED  BY <1>3, <3>1, <3>2, <3>3, SeqEqual
  <2>3. Len(z) - 1 = Len(s) /\ z[Len(z)] = e
    BY <1>2
  <2> QED  BY <2>1, <2>2, <2>3
<1> HIDE DEF a, b
<1>6. <<Greeting>> \in Seq(Text) /\ <<e>> \in Seq(Text)
  BY <1>2
<1>7. a \o <<Greeting>> \in Seq(Text)
  BY <1>3, <1>6, ConcatProperties
<1>8. f = (a \o <<Greeting>>) \o b /\ f \in Seq(Text)
  BY <1>1, <1>3, <1>7, ConcatProperties DEF a, b
<1>9. Append(f, e) = f \o <<e>>
  BY <1>2, <1>8, AppendIsConcat
<1>10. Append(f, e) = (a \o <<Greeting>>) \o (b \o <<e>>)
  <2>1. ((a \o <<Greeting>>) \o b) \o <<e>> = (a \o <<Greeting>>) \o (b \o <<e>>)
    BY <1>3, <1>6, <1>7, ConcatAssociative
  <2> QED  BY <1>8, <1>9, <2>1
<1>11. Append(f, e) = SubSeq(z, 1, k) \o <<Greeting>> \o SubSeq(z, k + 1, Len(z))
  BY <1>4, <1>5, <1>10
<1>12. k \in 0..Len(z)
  BY <1>2
<1> QED  BY <1>8, <1>11, <1>12 DEF WithGreeting, z

(* What is appended to a client's queue comes after all it got and holds.   *)
LEMMA FlowGrows ==
  ASSUME NEW g \in Seq(Text), NEW h \in Seq(Text), NEW q \in Seq(Text), NEW e \in Text
  PROVE  g \o h \o Append(q, e) = Append(g \o h \o q, e)
<1>1. g \o h \in Seq(Text)
  BY ConcatProperties
<1>2. (g \o h) \o q \in Seq(Text)
  BY <1>1, ConcatProperties
<1>3. <<e>> \in Seq(Text) /\ Append(q, e) = q \o <<e>>
  BY AppendIsConcat
<1>4. Append((g \o h) \o q, e) = ((g \o h) \o q) \o <<e>>
  BY <1>2, AppendIsConcat
<1> QED  BY <1>1, <1>3, <1>4, ConcatAssociative

(* pop moves the front of the queue into an empty hand.                     *)
LEMMA FlowPopped ==
  ASSUME NEW g \in Seq(Text), NEW q \in Seq(Text), q # <<>>
  PROVE  g \o <<Head(q)>> \o Tail(q) = g \o <<>> \o q
<1>1. Head(q) \in Text /\ Tail(q) \in Seq(Text) /\ <<Head(q)>> \in Seq(Text)
  BY HeadTailProperties
<1>2. q = <<Head(q)>> \o Tail(q)
  <2>1. <<Head(q)>> \o Tail(q) \in Seq(Text)
    BY <1>1, ConcatProperties
  <2>2. Len(<<Head(q)>> \o Tail(q)) = Len(q)
    BY <1>1, ConcatProperties, HeadTailProperties
  <2>3. ASSUME NEW i \in 1..Len(q)  PROVE (<<Head(q)>> \o Tail(q))[i] = q[i]
    BY <1>1, ConcatProperties, HeadTailProperties
  <2> QED  BY <2>1, <2>2, <2>3, SeqEqual
<1>3. g \o <<>> = g
  BY ConcatEmptySeq
<1> QED  BY <1>1, <1>2, <1>3, ConcatAssociative

(* An event written leaves the hand for what the client got.                *)
LEMMA FlowWritten ==
  ASSUME NEW g \in Seq(Text), NEW h \in Seq(Text), NEW q \in Seq(Text)
  PROVE  (g \o h) \o <<>> \o q = g \o h \o q
BY ConcatProperties, ConcatEmptySeq

(* handle_sse_events pushes the greeting behind what was broadcast before.  *)
LEMMA GreetingLast ==
  ASSUME NEW s \in Seq(Event)
  PROVE  Append(s, Greeting) \in WithGreeting(s)
<1> USE DEF Text
<1>1. s \in Seq(Text) /\ <<Greeting>> \in Seq(Text)
  OBVIOUS
<1>2. SubSeq(s, 1, Len(s)) = s
  BY SubSeqFull
<1>3. SubSeq(s, Len(s) + 1, Len(s)) = <<>>
  BY SubSeqEmpty
<1>4. Append(s, Greeting) = s \o <<Greeting>>
  BY <1>1, AppendIsConcat
<1>5. s \o <<Greeting>> \in Seq(Text)
  BY <1>1, ConcatProperties
<1>6. (s \o <<Greeting>>) \o <<>> = s \o <<Greeting>>
  BY <1>5, ConcatEmptySeq
<1>7. Len(s) \in 0..Len(s)
  OBVIOUS
<1>8. Append(s, Greeting) = SubSeq(s, 1, Len(s)) \o <<Greeting>> \o SubSeq(s, Len(s) + 1, Len(s))
  BY <1>2, <1>3, <1>4, <1>6
<1> QED  BY <1>7, <1>8 DEF WithGreeting

(* No step of a thread makes an open stream lose, repeat or reorder what    *)
(* was broadcast: an event is pushed to every stream that is owed it, pop   *)
(* moves one to the hand, and only a write that ends the stream drops one.  *)
LEMMA StreamsStep ==
  ASSUME StreamsInv, [EventsNext]_eventVars
  PROVE  StreamsInv'
<1>1. EventsTypeOK'
  BY TypeStep DEF StreamsInv
<1> DEFINE Begun(c) ==
             /\ stream[c] = "none" =>
                  c \notin clients /\ got[c] = <<>> /\ events[c] = <<>> /\ owed[c] = <<>>
             /\ stream[c] # "write" => hand[c] = <<>>
           Whole(c) == c \in clients /\ stream[c] # "ended" => Complete(c)
           Same(c) == /\ stream'[c] = stream[c] /\ hand'[c] = hand[c] /\ got'[c] = got[c]
                      /\ events'[c] = events[c] /\ owed'[c] = owed[c]
                      /\ c \in clients' => c \in clients
<1>2. SUFFICES ASSUME NEW c \in Clients
               PROVE  (Begun(c) /\ Whole(c))'
  BY <1>1, <1>2 DEF StreamsInv, StreamsBegin, OpenStreamsComplete, EventsTypeOK
<1>3. Begun(c) /\ Whole(c)
  BY DEF StreamsInv, StreamsBegin, OpenStreamsComplete
<1>4. /\ got[c] \in Seq(Text) /\ hand[c] \in Seq(Text) /\ events[c] \in Seq(Text)
      /\ owed[c] \in Seq(Event)
      /\ stream \in [Clients -> {"none", "greet", "loop", "pop", "write", "ended"}]
      /\ hand \in [Clients -> Seq(Text)] /\ got \in [Clients -> Seq(Text)]
      /\ events \in [Clients -> Seq(Text)]
  BY DEF StreamsInv, EventsTypeOK
<1>5. ASSUME Same(c)  PROVE (Begun(c) /\ Whole(c))'
  BY <1>3, <1>5 DEF Complete, Flow
<1>6. CASE UNCHANGED <<clients, stream, hand, got, events, owed>>
  BY <1>5, <1>6
<1>7. ASSUME NEW t \in Threads, Announce(t)  PROVE (Begun(c) /\ Whole(c))'
  <2>1. PICK e \in Event :
          /\ events'[c] = IF c \in clients /\ stream[c] # "ended"
                            THEN Append(events[c], e) ELSE events[c]
          /\ owed'[c] = IF stream[c] # "none" THEN Append(owed[c], e) ELSE owed[c]
    <3>1. Head(calls[t]) \in Event
      BY <1>7, HeadTailProperties DEF Announce, StreamsInv, EventsTypeOK
    <3> QED  BY <1>7, <3>1 DEF Announce
  <2>2. /\ clients' = clients /\ stream'[c] = stream[c] /\ hand'[c] = hand[c]
        /\ got'[c] = got[c]
    BY <1>7 DEF Announce
  <2>3. Begun(c)'
    BY <1>3, <2>1, <2>2
  <2>4. ASSUME c \in clients, stream[c] # "ended"  PROVE Complete(c)'
    <3>1. /\ stream[c] # "none" /\ Complete(c)
          /\ events'[c] = Append(events[c], e) /\ owed'[c] = Append(owed[c], e)
      BY <1>3, <2>1, <2>4
    <3>2. Flow(c)' = Append(Flow(c), e)
      BY <1>4, <2>2, <3>1, FlowGrows DEF Flow, Text
    <3>3. CASE stream[c] = "greet"
      BY <2>2, <3>1, <3>2, <3>3 DEF Complete
    <3>4. CASE stream[c] # "greet"
      <4>1. Flow(c) \in WithGreeting(owed[c])
        BY <3>1, <3>4 DEF Complete
      <4>2. Flow(c)' \in WithGreeting(owed'[c])
        BY <1>4, <3>1, <3>2, <4>1, GreetingStays
      <4> QED  BY <2>2, <3>1, <3>4, <4>2 DEF Complete
    <3> QED  BY <3>3, <3>4
  <2> QED  BY <2>2, <2>3, <2>4
<1>8. ASSUME NEW d \in Clients, Register(d)  PROVE (Begun(c) /\ Whole(c))'
  <2>1. CASE d # c
    BY <1>5, <1>8, <2>1 DEF Register
  <2>2. CASE d = c
    <3>1. /\ stream'[c] = "greet" /\ got'[c] = <<>> /\ events'[c] = <<>> /\ owed'[c] = <<>>
          /\ hand'[c] = <<>>
      BY <1>3, <1>4, <1>8, <2>2 DEF Register
    <3>2. <<>> \o <<>> \o <<>> = <<>>
      BY ConcatEmptySeq, EmptySeq
    <3> QED  BY <3>1, <3>2 DEF Complete, Flow
  <2> QED  BY <2>1, <2>2
<1>9. ASSUME NEW d \in Clients, Greet(d)  PROVE (Begun(c) /\ Whole(c))'
  <2>1. CASE d # c
    BY <1>5, <1>9, <2>1 DEF Greet
  <2>2. CASE d = c
    <3>1. /\ stream[c] = "greet" /\ stream'[c] = "loop" /\ got'[c] = got[c]
          /\ events'[c] = Append(events[c], Greeting) /\ owed'[c] = owed[c]
          /\ hand'[c] = hand[c] /\ clients' = clients
      BY <1>4, <1>9, <2>2 DEF Greet
    <3>2. Begun(c)'
      BY <1>3, <3>1
    <3>3. ASSUME c \in clients  PROVE Complete(c)'
      <4>1. Flow(c) = owed[c]
        BY <1>3, <3>1, <3>3 DEF Complete
      <4>2. Flow(c)' = Append(Flow(c), Greeting)
        BY <1>4, <3>1, FlowGrows DEF Flow, Text
      <4> QED  BY <1>4, <3>1, <4>1, <4>2, GreetingLast DEF Complete
    <3> QED  BY <3>1, <3>2, <3>3
  <2> QED  BY <2>1, <2>2
<1>10. ASSUME NEW d \in Clients, Look(d)  PROVE (Begun(c) /\ Whole(c))'
  <2>1. CASE d # c
    BY <1>5, <1>10, <2>1 DEF Look
  <2>2. CASE d = c
    BY <1>3, <1>4, <1>10, <2>2 DEF Look, Complete, Flow
  <2> QED  BY <2>1, <2>2
<1>11. ASSUME NEW d \in Clients, Pop(d)  PROVE (Begun(c) /\ Whole(c))'
  <2>1. CASE d # c
    <3>1. /\ stream'[c] = stream[c] /\ hand'[c] = hand[c] /\ events'[c] = events[c]
          /\ UNCHANGED <<got, owed, clients>>
      BY <1>4, <1>11, <2>1 DEF Pop
    <3> QED  BY <1>5, <3>1
  <2>2. CASE d = c /\ events[c] = <<>>
    BY <1>3, <1>4, <1>11, <2>2 DEF Pop, Complete, Flow
  <2>3. CASE d = c /\ events[c] # <<>>
    <3>1. /\ stream[c] = "pop" /\ stream'[c] = "write" /\ got'[c] = got[c]
          /\ hand'[c] = <<Head(events[c])>> /\ events'[c] = Tail(events[c])
          /\ owed'[c] = owed[c] /\ clients' = clients
      BY <1>4, <1>11, <2>3 DEF Pop
    <3>2. hand[c] = <<>>
      BY <1>3, <3>1
    <3>3. Flow(c)' = Flow(c)
      BY <1>4, <2>3, <3>1, <3>2, FlowPopped DEF Flow
    <3> QED  BY <1>3, <3>1, <3>3 DEF Complete
  <2> QED  BY <2>1, <2>2, <2>3
<1>12. ASSUME NEW d \in Clients, Write(d)  PROVE (Begun(c) /\ Whole(c))'
  <2>1. CASE d # c
    BY <1>5, <1>12, <2>1 DEF Write
  <2>2. CASE d = c
    <3>1. PICK written \in BOOLEAN :
            /\ stream[c] = "write" /\ hand'[c] = <<>> /\ events'[c] = events[c]
            /\ owed'[c] = owed[c] /\ clients' = clients
            /\ got'[c] = IF written THEN got[c] \o hand[c] ELSE got[c]
            /\ stream'[c] = IF AsNumber(written) = EventSize THEN "loop" ELSE "ended"
      BY <1>4, <1>12, <2>2 DEF Write
    <3>2. Begun(c)'
      BY <3>1
    <3>3. ASSUME c \in clients', stream'[c] # "ended"  PROVE Complete(c)'
      <4>1. AsNumber(written) = EventSize /\ stream'[c] = "loop"
        BY <3>1, <3>3
      <4>2. written
        BY <4>1, EventsAssumption DEF AsNumber
      <4>3. Flow(c)' = Flow(c)
        BY <1>4, <3>1, <4>2, FlowWritten DEF Flow
      <4> QED  BY <1>3, <3>1, <3>3, <4>1, <4>3 DEF Complete
    <3> QED  BY <3>2, <3>3
  <2> QED  BY <2>1, <2>2
<1>13. CASE DropClients
  BY <1>5, <1>13 DEF DropClients
<1> QED
  BY <1>6, <1>7, <1>8, <1>9, <1>10, <1>11, <1>12, <1>13
     DEF EventsNext, Joined, Switch, Disconnect, ClearServerRunning,
         eventVars, switchVars, streamVars

(* In every state an open stream is complete.                               *)
THEOREM StreamsComplete == EventsSpec => []OpenStreamsComplete
<1>1. ASSUME EventsInit  PROVE StreamsInv
  BY <1>1, TypeInit DEF StreamsInv, EventsInit, StreamsBegin, OpenStreamsComplete
<1> QED  BY <1>1, StreamsStep, PTL DEF EventsSpec, StreamsInv

-----------------------------------------------------------------------------
(* The events account for the current provider.                             *)

(* Events that leave (side 1) or enter (side 2) a provider: those broadcast *)
(* and, between the lock of switch_to and its callback, those under way.    *)
Announced(side, n) == {i \in DOMAIN sent : sent[i][side] = n}
UnderWay(side, n) == {t \in Pending : Head(calls[t])[side] = n}
Count(side, n) == Cardinality(Announced(side, n)) + Cardinality(UnderWay(side, n))

(* Each provider is entered as often as left, but for where the events      *)
(* start and where they end.                                                *)
Balanced ==
  \A n \in Providers : Count(2, n) + AsNumber(n = First) = Count(1, n) + AsNumber(n = current)

BalanceInv == EventsTypeOK /\ Balanced

LEMMA CountsAreFinite ==
  ASSUME EventsTypeOK, NEW side, NEW n
  PROVE  /\ IsFiniteSet(Announced(side, n)) /\ Cardinality(Announced(side, n)) \in Nat
         /\ IsFiniteSet(UnderWay(side, n)) /\ Cardinality(UnderWay(side, n)) \in Nat
<1>1. IsFiniteSet(1..Len(sent)) /\ Announced(side, n) \subseteq 1..Len(sent)
  <2>1. Len(sent) \in Nat /\ DOMAIN sent = 1..Len(sent)
    BY DEF EventsTypeOK
  <2> QED  BY <2>1, FS_Interval DEF Announced
<1>2. IsFiniteSet(Threads) /\ UnderWay(side, n) \subseteq Threads
  BY EventsAssumption DEF UnderWay, Pending
<1> QED  BY <1>1, <1>2, FS_Subset, FS_CardinalityType

(* switch_to puts one event under way, from the provider it replaces to its *)
(* own.                                                                     *)
LEMMA SwitchCounts ==
  ASSUME EventsTypeOK, NEW t \in Threads, NEW p, Switch(t, p),
         NEW side \in {1, 2}, NEW n
  PROVE  Count(side, n)' = Count(side, n) + AsNumber(<<current, p>>[side] = n)
<1>1. Announced(side, n)' = Announced(side, n)
  BY DEF Switch, Announced
<1>2. /\ t \notin Pending /\ Pending' = Pending \cup {t}
      /\ \A u \in Threads \ {t} : calls'[u] = calls[u]
      /\ Head(calls'[t]) = <<current, p>>
  BY DEF Switch, MaySwitch, Pending, EventsTypeOK
<1>3. UnderWay(side, n)' =
        IF <<current, p>>[side] = n THEN UnderWay(side, n) \cup {t} ELSE UnderWay(side, n)
  BY <1>2 DEF UnderWay, Pending
<1>4. t \notin UnderWay(side, n)
  BY <1>2 DEF UnderWay
<1>5. Cardinality(UnderWay(side, n) \cup {t}) = Cardinality(UnderWay(side, n)) + 1
  BY <1>4, CountsAreFinite, FS_AddElement
<1> QED  BY <1>1, <1>3, <1>5, CountsAreFinite DEF Count, AsNumber

(* The callback broadcasts the event that its thread has under way.         *)
LEMMA AnnounceCounts ==
  ASSUME EventsTypeOK, NEW t \in Threads, Announce(t), NEW side \in {1, 2}, NEW n
  PROVE  Count(side, n)' = Count(side, n)
<1>1. PICK e \in Event : e = Head(calls[t]) /\ sent' = Append(sent, e)
  BY HeadTailProperties DEF Announce, EventsTypeOK
<1>2. /\ sent \in Seq(Event) /\ sent' \in Seq(Event) /\ Len(sent') = Len(sent) + 1
      /\ DOMAIN sent = 1..Len(sent) /\ DOMAIN sent' = 1..(Len(sent) + 1)
      /\ \A i \in 1..Len(sent) : sent'[i] = sent[i]
      /\ sent'[Len(sent) + 1] = e
  BY <1>1, AppendProperties, LenProperties DEF EventsTypeOK
<1>3. /\ t \in Pending /\ Pending' = Pending \ {t}
      /\ \A u \in Threads \ {t} : calls'[u] = calls[u]
  BY DEF Announce, Pending, EventsTypeOK
<1>4. CASE e[side] = n
  <2>1. Announced(side, n)' = Announced(side, n) \cup {Len(sent) + 1}
    BY <1>2, <1>4 DEF Announced
  <2>2. Len(sent) + 1 \notin Announced(side, n)
    BY <1>2 DEF Announced
  <2>3. Cardinality(Announced(side, n)') = Cardinality(Announced(side, n)) + 1
    BY <2>1, <2>2, CountsAreFinite, FS_AddElement
  <2>4. UnderWay(side, n)' = UnderWay(side, n) \ {t} /\ t \in UnderWay(side, n)
    BY <1>1, <1>3, <1>4 DEF UnderWay, Pending
  <2>5. Cardinality(UnderWay(side, n)') = Cardinality(UnderWay(side, n)) - 1
    BY <2>4, CountsAreFinite, FS_RemoveElement
  <2> QED  BY <2>3, <2>5, CountsAreFinite DEF Count
<1>5. CASE e[side] # n
  <2>1. Announced(side, n)' = Announced(side, n)
    BY <1>2, <1>5 DEF Announced
  <2>2. UnderWay(side, n)' = UnderWay(side, n)
    BY <1>1, <1>3, <1>5 DEF UnderWay, Pending
  <2> QED  BY <2>1, <2>2 DEF Count
<1> QED  BY <1>4, <1>5

(* The balance survives every switch and every callback, in any order.      *)
LEMMA BalanceStep ==
  ASSUME BalanceInv, [EventsNext]_eventVars
  PROVE  BalanceInv'
<1>1. EventsTypeOK'
  BY TypeStep DEF BalanceInv
<1>2. SUFFICES ASSUME NEW n \in Providers
               PROVE  Count(2, n)' + AsNumber(n = First) =
                        Count(1, n)' + AsNumber(n = current')
  BY <1>1, <1>2 DEF BalanceInv, Balanced, AsNumber
<1>3. /\ Count(2, n) + AsNumber(n = First) = Count(1, n) + AsNumber(n = current)
      /\ Count(1, n) \in Nat /\ Count(2, n) \in Nat
  BY CountsAreFinite DEF BalanceInv, Balanced, Count
<1>4. ASSUME NEW t \in Threads, NEW p \in Providers \cup {Unknown}, Switch(t, p)
      PROVE  Count(2, n)' + AsNumber(n = First) = Count(1, n)' + AsNumber(n = current')
  <2>1. /\ Count(1, n)' = Count(1, n) + AsNumber(current = n)
        /\ Count(2, n)' = Count(2, n) + AsNumber(p = n)
    BY <1>4, SwitchCounts DEF BalanceInv
  <2>2. current' = p /\ p # current
    BY <1>4 DEF Switch
  <2> QED  BY <1>3, <2>1, <2>2 DEF AsNumber
<1>5. ASSUME NEW t \in Threads, Announce(t)
      PROVE  Count(2, n)' + AsNumber(n = First) = Count(1, n)' + AsNumber(n = current')
  <2>1. Count(1, n)' = Count(1, n) /\ Count(2, n)' = Count(2, n)
    BY <1>5, AnnounceCounts DEF BalanceInv
  <2> QED  BY <1>3, <1>5, <2>1 DEF Announce
<1>6. CASE UNCHANGED switchVars
  BY <1>3, <1>6 DEF switchVars, Count, Announced, UnderWay, Pending
<1> QED
  BY <1>4, <1>5, <1>6
     DEF EventsNext, Register, Greet, Look, Pop, Write, Disconnect,
         ClearServerRunning, DropClients, Joined, eventVars

LEMMA BalanceInit ==
  ASSUME EventsInit
  PROVE  BalanceInv
<1>1. EventsTypeOK
  BY TypeInit
<1>2. ASSUME NEW n \in Providers, NEW side  PROVE Count(side, n) = 0
  <2>1. Announced(side, n) = {} /\ UnderWay(side, n) = {}
    BY DEF EventsInit, Announced, UnderWay, Pending
  <2> QED  BY <2>1, FS_EmptySet DEF Count
<1> QED  BY <1>1, <1>2 DEF BalanceInv, Balanced, EventsInit

(* When no call is under way, the events account for the provider.          *)
THEOREM EventsAccount == EventsSpec => []EventsAccountForCurrent
<1>1. ASSUME BalanceInv  PROVE EventsAccountForCurrent
  <2>1. SUFFICES ASSUME Pending = {}, NEW n \in Providers
                 PROVE  Entered(n) + AsNumber(n = First) = Left(n) + AsNumber(n = current)
    BY DEF EventsAccountForCurrent
  <2>2. Entered(n) = Cardinality(Announced(2, n)) /\ Left(n) = Cardinality(Announced(1, n))
    BY DEF Entered, Left, Announced
  <2>3. Cardinality(UnderWay(1, n)) = 0 /\ Cardinality(UnderWay(2, n)) = 0
    <3>1. UnderWay(1, n) = {} /\ UnderWay(2, n) = {}
      BY <2>1 DEF UnderWay
    <3> QED  BY <3>1, FS_EmptySet
  <2> QED  BY <1>1, <2>2, <2>3, CountsAreFinite DEF BalanceInv, Balanced, Count
<1> QED  BY <1>1, BalanceInit, BalanceStep, PTL DEF EventsSpec
=============================================================================
