----------------------------- MODULE ProviderEvents -----------------------------
(***************************************************************************)
(* Switching the embedding provider, and the event stream that tells the   *)
(* clients of it: EmbeddingProviderManager::switch_to in several HTTP      *)
(* threads, whose callback runs outside the manager's lock, HttpServer's   *)
(* broadcast to the registered clients, and the thread of each stream.     *)
(*                                                                         *)
(* Providers are registered once, by initialize; nothing removes them.     *)
(***************************************************************************)
EXTENDS Integers, Sequences, FiniteSets

CONSTANTS
  Providers,   \* names of registered providers
  Unknown,     \* a name that clients ask for and nobody registered
  First,       \* the provider registered first
  Threads,     \* HTTP threads that serve /providers/switch
  Clients,     \* HTTP clients that open /events, each once
  Greeting,    \* the event "connected"
  EventSize,   \* the length of an event's text, which is never empty
  MaxSwitches  \* bound on the number of switches

ASSUME EventsAssumption ==
  /\ Unknown \notin Providers
  /\ First \in Providers
  /\ Greeting \notin Providers \X Providers
  /\ IsFiniteSet(Threads)
  /\ EventSize \in Nat \ {0}
  /\ MaxSwitches \in Nat

VARIABLES
  current,     \* EmbeddingProviderManager::current_
  calls,       \* [Threads -> sequence of the one event still to be announced]
  sent,        \* history: the events broadcast, in order; an event is <<old, new>>
  server,      \* HttpServer::stop: "running", "stopping" (running_ is false), "cleared"
  clients,     \* HttpServer::sse_clients_
  active,      \* [Clients -> BOOLEAN], SseClient::active
  events,      \* [Clients -> sequence], SseClient::events
  stream,      \* the thread of each client's stream
  hand,        \* [Clients -> sequence], the event it has popped
  gone,        \* clients that closed their connection
  got,         \* history: what each client received
  owed         \* history: what was broadcast since each client was registered

switchVars == <<current, calls, sent>>
streamVars == <<clients, active, events, stream, hand>>
eventVars == <<switchVars, server, streamVars, gone, got, owed>>

Running == server = "running"

Event == Providers \X Providers
Text  == Event \cup {Greeting}

EventsTypeOK ==
  /\ current \in Providers
  /\ calls \in [Threads -> Seq(Event)]
  /\ sent \in Seq(Event)
  /\ server \in {"running", "stopping", "cleared"}
  /\ clients \subseteq Clients
  /\ active \in [Clients -> BOOLEAN]
  /\ events \in [Clients -> Seq(Text)]
  /\ stream \in [Clients -> {"none", "greet", "loop", "pop", "write", "ended"}]
  /\ hand \in [Clients -> Seq(Text)]
  /\ gone \subseteq Clients
  /\ got \in [Clients -> Seq(Text)]
  /\ owed \in [Clients -> Seq(Event)]

EventsInit ==
  /\ current = First
  /\ calls = [t \in Threads |-> <<>>]
  /\ sent = <<>>
  /\ server = "running"
  /\ clients = {}
  /\ active = [c \in Clients |-> TRUE]
  /\ stream = [c \in Clients |-> "none"]
  /\ events = [c \in Clients |-> <<>>] /\ hand = events /\ got = events /\ owed = events
  /\ gone = {}

-----------------------------------------------------------------------------
(* The manager and the switch callback.                                     *)

Pending == {t \in Threads : calls[t] # <<>>}
MaySwitch(t) == t \notin Pending /\ Len(sent) + Cardinality(Pending) < MaxSwitches

(* Mutant: a name that is not found is made current.                        *)
SwitchUnchecked(t, n) ==
  /\ MaySwitch(t)
  /\ n # current
  /\ current' = n
  /\ calls' = [calls EXCEPT ![t] = <<<<current, n>>>>]
  /\ UNCHANGED <<sent, server, streamVars, gone, got, owed>>

(* Mutant: old_provider is read after current_ has been set.                *)
SwitchReadsLate(t, n) ==
  /\ MaySwitch(t)
  /\ n \in Providers \ {current}
  /\ current' = n
  /\ calls' = [calls EXCEPT ![t] = <<<<n, n>>>>]
  /\ UNCHANGED <<sent, server, streamVars, gone, got, owed>>

(* switch_to under the lock.  Asked for a name that is not registered or    *)
(* that is current, it returns without an event.                            *)
Switch(t, n) ==
  /\ MaySwitch(t)
  /\ n \in Providers \ {current}
  /\ current' = n
  /\ calls' = [calls EXCEPT ![t] = <<<<current, n>>>>]
  /\ UNCHANGED <<sent, server, streamVars, gone, got, owed>>

(* The callback, after the lock: broadcast_event pushes the event to every  *)
(* registered client whose stream still exists.  on_rebuild_index is empty. *)
Announce(t) ==
  /\ calls[t] # <<>>
  /\ LET e == Head(calls[t]) IN
     /\ sent' = Append(sent, e)
     /\ events' = [c \in Clients |-> IF c \in clients /\ stream[c] # "ended"
                                       THEN Append(events[c], e) ELSE events[c]]
     /\ owed' = [c \in Clients |-> IF stream[c] # "none" THEN Append(owed[c], e) ELSE owed[c]]
  /\ calls' = [calls EXCEPT ![t] = <<>>]
  /\ UNCHANGED <<current, server, clients, active, stream, hand, gone, got>>

-----------------------------------------------------------------------------
(* A client's stream: handle_sse_events and its content provider.           *)

Register(c) ==
  /\ stream[c] = "none"
  /\ stream' = [stream EXCEPT ![c] = "greet"]
  /\ clients' = clients \cup {c}
  /\ UNCHANGED <<switchVars, server, active, events, hand, gone, got, owed>>

(* Mutant: the greeting starts the queue of the client anew.                *)
GreetAnew(c) ==
  /\ stream[c] = "greet"
  /\ stream' = [stream EXCEPT ![c] = "loop"]
  /\ events' = [events EXCEPT ![c] = <<Greeting>>]
  /\ UNCHANGED <<switchVars, server, clients, active, hand, gone, got, owed>>

Greet(c) ==
  /\ stream[c] = "greet"
  /\ stream' = [stream EXCEPT ![c] = "loop"]
  /\ events' = [events EXCEPT ![c] = Append(@, Greeting)]
  /\ UNCHANGED <<switchVars, server, clients, active, hand, gone, got, owed>>

(* while (active && running_), and what follows the loop.                   *)
Look(c) ==
  /\ stream[c] = "loop"
  /\ stream' = [stream EXCEPT ![c] = IF active[c] /\ Running THEN "pop" ELSE "ended"]
  /\ active' = [active EXCEPT ![c] = active[c] /\ Running]
  /\ UNCHANGED <<switchVars, server, clients, events, hand, gone, got, owed>>

(* pop: an event if there is one; without one it comes back empty-handed    *)
(* after its timeout, or when the client is not active.                     *)
Pop(c) ==
  /\ stream[c] = "pop"
  /\ IF events[c] # <<>>
       THEN /\ hand' = [hand EXCEPT ![c] = <<Head(events[c])>>]
            /\ events' = [events EXCEPT ![c] = Tail(@)]
            /\ stream' = [stream EXCEPT ![c] = "write"]
       ELSE /\ stream' = [stream EXCEPT ![c] = "loop"]
            /\ UNCHANGED <<hand, events>>
  /\ UNCHANGED <<switchVars, server, clients, active, gone, got, owed>>

(* DataSink::write answers whether the text was written, as a bool, and the *)
(* stream is given up unless that number is the length of the text.         *)
AsNumber(b) == IF b THEN 1 ELSE 0

Write(c) ==
  /\ stream[c] = "write"
  /\ hand' = [hand EXCEPT ![c] = <<>>]
  /\ \E written \in BOOLEAN :
       LET whole == AsNumber(written) = EventSize IN
       /\ written \/ c \in gone
       /\ got' = IF written THEN [got EXCEPT ![c] = @ \o hand[c]] ELSE got
       /\ active' = [active EXCEPT ![c] = active[c] /\ whole]
       /\ stream' = [stream EXCEPT ![c] = IF whole THEN "loop" ELSE "ended"]
  /\ UNCHANGED <<switchVars, server, clients, events, gone, owed>>

Disconnect(c) ==
  /\ stream[c] # "none" /\ c \notin gone
  /\ gone' = gone \cup {c}
  /\ UNCHANGED <<switchVars, server, streamVars, got, owed>>

-----------------------------------------------------------------------------
(* HttpServer::stop: running_ is cleared first, then the list.              *)

ClearServerRunning ==
  /\ Running
  /\ server' = "stopping"
  /\ UNCHANGED <<switchVars, streamVars, gone, got, owed>>

DropClients ==
  /\ server = "stopping"
  /\ server' = "cleared"
  /\ active' = [c \in Clients |-> active[c] /\ c \notin clients]
  /\ clients' = {}
  /\ UNCHANGED <<switchVars, events, stream, hand, gone, got, owed>>

(* The joins of stop return: every handler and every stream has ended.      *)
Joined ==
  /\ server = "cleared" /\ Pending = {}
  /\ \A c \in Clients : stream[c] \in {"none", "ended"}
  /\ UNCHANGED eventVars

EventsNext ==
  \/ \E t \in Threads, n \in Providers \cup {Unknown} : Switch(t, n)
  \/ \E t \in Threads : Announce(t)
  \/ \E c \in Clients :
       Register(c) \/ Greet(c) \/ Look(c) \/ Pop(c) \/ Write(c) \/ Disconnect(c)
  \/ ClearServerRunning \/ DropClients
  \/ Joined

EventsSpec == EventsInit /\ [][EventsNext]_eventVars
-----------------------------------------------------------------------------
(* Properties *)

(* Switches of several threads overlap and their events may be broadcast in *)
(* another order than the switches; still every change of the provider is   *)
(* announced once, with the provider it replaced: when no call is under way,*)
(* the events lead from the first provider to the current one, in whatever  *)
(* order they are read (each other provider is left as often as entered).   *)
Entered(n) == Cardinality({i \in DOMAIN sent : sent[i][2] = n})
Left(n)    == Cardinality({i \in DOMAIN sent : sent[i][1] = n})
EventsAccountForCurrent ==
  Pending = {} =>
    \A n \in Providers : Entered(n) + AsNumber(n = First) = Left(n) + AsNumber(n = current)

(* While a stream is registered and has not ended, what its client got and  *)
(* what waits for it are the events broadcast since it was registered, in   *)
(* that order, each once, with its greeting before, among or after them     *)
(* (another thread may broadcast between the registration and the greeting).*)
Flow(c) == got[c] \o hand[c] \o events[c]
WithGreeting(s) ==
  {SubSeq(s, 1, k) \o <<Greeting>> \o SubSeq(s, k + 1, Len(s)) : k \in 0..Len(s)}
Complete(c) ==
  IF stream[c] \in {"none", "greet"} THEN Flow(c) = owed[c]
                                     ELSE Flow(c) \in WithGreeting(owed[c])
OpenStreamsComplete ==
  \A c \in clients : stream[c] # "ended" => Complete(c)

(* What README.md and the code do not agree on. *)

(* README.md:306, "ChatDB pushes events to all TCP connections": while the  *)
(* server runs, a client that stays connected misses none.                  *)
BroadcastsReachClients ==
  Running => \A c \in Clients \ gone : stream[c] # "none" => Complete(c)
=============================================================================
