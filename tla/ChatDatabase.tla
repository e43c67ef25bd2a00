------------------------------ MODULE ChatDatabase ------------------------------
(***************************************************************************)
(* The whole program from main() to its exit: initialize() builds the      *)
(* parts one by one, threads of theirs begin to work while later parts are *)
(* still missing, shutdown() stops them in another order, and a signal     *)
(* handler calls the same shutdown() on top of whatever main() is doing,   *)
(* itself included.  HttpServer, OneBotV11Client and ProcessGuard run with *)
(* their own steps; of the other parts only their life counts here.        *)
(*                                                                         *)
(* A signal to the process is delivered to its main thread, and what the   *)
(* handler itself allocates and logs does no harm.  Calls of the network   *)
(* and of other programs return.                                           *)
(***************************************************************************)
EXTENDS HttpServer, OneBotV11Client, ProcessGuard

CONSTANTS
  Commands,   \* the commands a user types, and the options of the program
  MaxInputs   \* bound: requests, events, commands, signals, process changes

VARIABLES
  main,       \* where main() is
  step,       \* the next part that initialize() builds
  stack,      \* activations of shutdown(): main's own below the handler's
  part,       \* the life of the parts that are not modelled in detail
  ready,      \* ready_
  busy,       \* parts whose threads are at work
  cmd,        \* the call main() makes for a command; "none" between commands
  inner,      \* the part in whose lock, call or setting up a signal caught main()
  missed,     \* pools with a thread that missed the notification of stop()
  lostDb,     \* the handler closed the database while main() was opening it
  sigAt,      \* where the signal came; "none" as long as g_running holds
  inputs      \* inputs so far

spoilt == <<missed, lostDb>>
mainVars == <<main, step, stack, part, ready, busy, cmd, inner, spoilt, sigAt>>
vars == <<mainVars, httpVars, wsVars, guardVars, inputs>>

-----------------------------------------------------------------------------
(* The parts, and the calls. *)

InitOrder == <<"sqlite", "providers", "redis", "ollama", "processor", "query",
               "summarizer", "http", "ws", "guard">>

(* Mutant: the storage is closed before its users are stopped.              *)
StopStorageFirst ==
  <<"http", "ws", "guard", "sqlite", "summarizer", "processor", "ollama", "redis">>

StopOrder ==
  <<"http", "ws", "guard", "summarizer", "processor", "ollama", "sqlite", "redis">>

Parts == {InitOrder[i] : i \in DOMAIN InitOrder}

(* The parts that a call needs; these calls ask ready_ first ...            *)
GatedUses ==
  [receive_message  |-> {"processor"},
   search           |-> {"query", "sqlite", "redis", "providers"},
   get_recent       |-> {"query", "sqlite"},
   get_memories     |-> {"summarizer", "sqlite"},
   summarize_now    |-> {"summarizer"},
   handle_recall    |-> {"summarizer", "sqlite"},
   switch_provider  |-> {"providers"},
   count_messages   |-> {"sqlite"},
   get_stats        |-> {"sqlite", "processor", "redis"},
   cleanup_old_data |-> {"sqlite", "redis"}]

(* ... and these do not: they test a pointer, or nothing.                   *)
UngatedUses ==
  [list_providers  |-> {"providers"},
   current         |-> {"providers"},
   vacuum          |-> {"sqlite"},
   backup_index    |-> {"redis"},
   get_context     |-> {"query", "sqlite"},
   mark_importance |-> {"summarizer", "sqlite"},
   merge_memories  |-> {"summarizer", "sqlite"},
   delete_memory   |-> {"summarizer", "sqlite"}]

IsGated(c) == c \in DOMAIN GatedUses
Uses ==
  [c \in DOMAIN GatedUses \cup DOMAIN UngatedUses |->
     IF IsGated(c) THEN GatedUses[c] ELSE UngatedUses[c]]

Admits(c) == IsGated(c) => ready

(* The parts whose mutex, or whose one connection, a call may be caught in; *)
(* switch_to's callback takes the mutex of the event streams.               *)
LocksOf(c) == IF c = "switch_provider" THEN Uses[c] \cup {"http"} ELSE Uses[c] \ {"query"}

(* What the processor's and the summarizer's threads call while at work.    *)
ThreadUses ==
  [processor  |-> {"sqlite", "redis", "ollama"},
   summarizer |-> {"sqlite", "redis", "providers"}]

(* main.cpp: the options that run one call and exit, the commands.          *)
OptionCalls ==
  {"get_stats", "vacuum", "cleanup_old_data", "switch_provider", "summarize_now", "backup_index"}
CommandCalls ==
  {"get_stats", "search", "get_recent", "get_context", "list_providers", "switch_provider",
   "get_memories", "summarize_now", "backup_index"}

ASSUME MainAssumption ==
  /\ Commands \subseteq OptionCalls \cup CommandCalls
  /\ MaxInputs \in Nat

-----------------------------------------------------------------------------
(* initialize() begins with the ports of Redis and Ollama (PortDetector),   *)
(* then builds the parts.                                                   *)
Asking == {"redis_asked", "ollama_asked"}
Detecting == {"redis_port", "ollama_port"} \cup Asking
BuildPlaces == {"init", "http_wait", "ws_wait"}
InitPlaces == Detecting \cup BuildPlaces
Places ==
  InitPlaces \cup
  {"options", "option", "prompt", "command", "shutdown", "destroy", "gone", "exit", "crashed"}
(* The pools whose threads wait without a timeout.                          *)
Untimed == {"summarizer", "processor", "ollama"}

Frame == [at : DOMAIN StopOrder, phase : {"stop", "join", "close"}]

TypeOK ==
  /\ HttpTypeOK /\ WsTypeOK /\ GuardTypeOK
  /\ main \in Places
  /\ step \in 1 .. Len(InitOrder) + 1
  /\ stack \in Seq(Frame) /\ Len(stack) <= 2
  /\ part \in [Parts -> {"none", "up", "stopping", "stopped"}]
  /\ ready \in BOOLEAN
  /\ busy \subseteq DOMAIN ThreadUses
  /\ cmd \in DOMAIN Uses \cup {"none"}
  /\ inner \in Parts \cup {"none"}
  /\ missed \subseteq Untimed /\ lostDb \in BOOLEAN
  /\ sigAt \in Places \cup {"stop", "join", "close", "none"}
  /\ inputs \in 0 .. MaxInputs

Init ==
  /\ HttpInit /\ WsInit /\ GuardInit
  /\ main \in {"redis_port", "init"}     \* auto_detect_ports
  /\ step = 1 /\ stack = <<>>
  /\ part = [p \in Parts |-> "none"]
  /\ ready = FALSE /\ busy = {}
  /\ cmd = "none" /\ inner = "none" /\ sigAt = "none"
  /\ missed = {} /\ lostDb = FALSE
  /\ inputs = 0

Alive == main \notin {"exit", "crashed"}

Input == inputs < MaxInputs /\ inputs' = inputs + 1

-----------------------------------------------------------------------------
(* main() and initialize(). *)

(* main() itself goes on when no shutdown() is on top of it.                *)
Uninterrupted == stack = <<>>

FirstFrame == [at |-> 1, phase |-> "stop"]

Moved(to) ==
  /\ main' = to
  /\ UNCHANGED <<step, stack, part, ready, busy, cmd, inner, spoilt, sigAt,
                 httpVars, wsVars, guardVars, inputs>>

NextPlace == IF main \in {"redis_port", "redis_asked"} THEN "ollama_port" ELSE "init"

(* The port answers, or the one of a process of that name does.             *)
PortFound == Uninterrupted /\ main \in Detecting \ Asking /\ Moved(NextPlace)

AskUser ==
  /\ Uninterrupted /\ main \in Detecting \ Asking
  /\ Moved(IF main = "redis_port" THEN "redis_asked" ELSE "ollama_asked")

(* A line of the user's, whatever is in it, or the end of the input.        *)
Answered == Uninterrupted /\ main \in Asking /\ Moved(NextPlace)

Building(p) == main = "init" /\ Uninterrupted /\ step <= Len(InitOrder) /\ InitOrder[step] = p

BuildPart(p) ==
  /\ p \notin {"http", "ws", "guard"} /\ Building(p)
  /\ part' = [part EXCEPT ![p] = "up"]
  /\ step' = step + 1
  /\ UNCHANGED <<main, stack, ready, busy, cmd, inner, spoilt, sigAt,
                 httpVars, wsVars, guardVars, inputs>>

(* The database cannot be opened: main() returns 1.                         *)
StorageFails ==
  /\ Building("sqlite")
  /\ main' = "destroy" /\ stack' = <<FirstFrame>>
  /\ UNCHANGED <<step, part, ready, busy, cmd, inner, spoilt, sigAt,
                 httpVars, wsVars, guardVars, inputs>>

BuildHttp ==
  /\ Building("http") /\ StartHttp
  /\ part' = [part EXCEPT !["http"] = "up"]
  /\ main' = "http_wait"
  /\ UNCHANGED <<step, stack, ready, busy, cmd, inner, spoilt, sigAt, wsVars, guardVars, inputs>>

(* start() sleeps 100 ms, in which the thread is assumed to reach listen(). *)
HttpWaitEnds ==
  /\ main = "http_wait" /\ Uninterrupted /\ http # "starting"
  /\ main' = "init" /\ step' = step + 1
  /\ UNCHANGED <<stack, part, ready, busy, cmd, inner, spoilt, sigAt,
                 httpVars, wsVars, guardVars, inputs>>

BuildWs ==
  /\ Building("ws") /\ StartWs
  /\ part' = [part EXCEPT !["ws"] = "up"]
  /\ main' = "ws_wait"
  /\ UNCHANGED <<step, stack, ready, busy, cmd, inner, spoilt, sigAt, httpVars, guardVars, inputs>>

(* Mutant: connect() waits until the server answers.                        *)
WsWaitForServer ==
  /\ main = "ws_wait" /\ Uninterrupted /\ connected
  /\ main' = "init" /\ step' = step + 1
  /\ UNCHANGED <<stack, part, ready, busy, cmd, inner, spoilt, sigAt,
                 httpVars, wsVars, guardVars, inputs>>

(* connect() returns when connected, or after 50 looks.                     *)
WsWaitEnds ==
  /\ main = "ws_wait" /\ Uninterrupted
  /\ main' = "init" /\ step' = step + 1
  /\ UNCHANGED <<stack, part, ready, busy, cmd, inner, spoilt, sigAt,
                 httpVars, wsVars, guardVars, inputs>>

BuildGuard ==
  /\ Building("guard") /\ StartGuard
  /\ part' = [part EXCEPT !["guard"] = "up"]
  /\ step' = step + 1
  /\ UNCHANGED <<main, stack, ready, busy, cmd, inner, spoilt, sigAt, httpVars, wsVars, inputs>>

FinishInit ==
  /\ main = "init" /\ Uninterrupted /\ step > Len(InitOrder)
  /\ ready' = TRUE
  /\ main' = "options"
  /\ UNCHANGED <<step, stack, part, busy, cmd, inner, spoilt, sigAt,
                 httpVars, wsVars, guardVars, inputs>>

CallNow(c) == cmd' = IF Admits(c) THEN c ELSE "none"

RunOption(c) ==
  /\ main = "options" /\ Uninterrupted
  /\ c \in OptionCalls
  /\ main' = "option" /\ CallNow(c)
  /\ UNCHANGED <<step, stack, part, ready, busy, inner, spoilt, sigAt,
                 httpVars, wsVars, guardVars, inputs>>

OptionDone ==
  /\ main = "option" /\ Uninterrupted
  /\ main' = "destroy" /\ stack' = <<FirstFrame>> /\ cmd' = "none"
  /\ UNCHANGED <<step, part, ready, busy, inner, spoilt, sigAt,
                 httpVars, wsVars, guardVars, inputs>>

(* while (g_running): to the next line, or to shutdown().                   *)
LoopTop ==
  IF sigAt = "none" THEN main' = "prompt" /\ UNCHANGED stack
                    ELSE main' = "shutdown" /\ stack' = <<FirstFrame>>

Interactive ==
  /\ main = "options" /\ Uninterrupted
  /\ LoopTop
  /\ UNCHANGED <<step, part, ready, busy, cmd, inner, spoilt, sigAt,
                 httpVars, wsVars, guardVars, inputs>>

(* A line, also one typed after a signal: reading it is resumed.            *)
Type(c) ==
  /\ main = "prompt" /\ Uninterrupted /\ Input
  /\ c \in CommandCalls
  /\ main' = "command" /\ CallNow(c)
  /\ UNCHANGED <<step, stack, part, ready, busy, inner, spoilt, sigAt,
                 httpVars, wsVars, guardVars>>

CommandReturns ==
  /\ main = "command" /\ Uninterrupted
  /\ LoopTop
  /\ cmd' = "none"
  /\ UNCHANGED <<step, part, ready, busy, inner, spoilt, sigAt,
                 httpVars, wsVars, guardVars, inputs>>

(* "quit", or the end of the input.                                         *)
Quit ==
  /\ main = "prompt" /\ Uninterrupted
  /\ main' = "shutdown" /\ stack' = <<FirstFrame>>
  /\ UNCHANGED <<step, part, ready, busy, cmd, inner, spoilt, sigAt,
                 httpVars, wsVars, guardVars, inputs>>

(* After main()'s own shutdown() comes the one of the destructor, then      *)
(* g_db dangles until the process is gone.                                  *)
Leave ==
  /\ Uninterrupted
  /\ \/ main = "shutdown" /\ main' = "destroy" /\ stack' = <<FirstFrame>>
     \/ main = "destroy" /\ main' = "gone" /\ UNCHANGED stack
     \/ main = "gone" /\ main' = "exit" /\ UNCHANGED stack
  /\ UNCHANGED <<step, part, ready, busy, cmd, inner, spoilt, sigAt,
                 httpVars, wsVars, guardVars, inputs>>

-----------------------------------------------------------------------------
(* shutdown(), called by main(), the destructor, and the signal handler. *)

ShuttingDown == Alive /\ stack # <<>>

Depth == Len(stack)
Top == stack[Depth]
P == StopOrder[Top.at]

(* The handler's shutdown() is at the very place of the one it interrupted. *)
SamePlace == Depth = 2 /\ stack[1] = Top

Phase(ph) == stack' = [stack EXCEPT ![Depth].phase = ph]
NextPart == stack' = [stack EXCEPT ![Depth] = [at |-> Top.at + 1, phase |-> "stop"]]

Stopped(p) == part' = [part EXCEPT ![p] = "stopped"]

(* Mutant: threads are joined without asking joinable().                    *)
HasThreadOnce == part[P] # "none"

(* Mutant: the client is disconnected only while it is connected.           *)
HasThreadIfConnected == part[P] \in {"up", "stopping"} /\ (P = "ws" => connected)

(* There is something to stop: the part exists, and is not joined yet.      *)
HasThread == part[P] \in {"up", "stopping"}

(* A signal caught main() in the middle of building this part.              *)
SettingUp == main = "init" /\ inner = P

(* Under main(), which opens the database, the handler may close it again.  *)
Skip ==
  /\ P # "redis" /\ ~HasThread
  /\ NextPart
  /\ lostDb' \in {lostDb, lostDb \/ (P = "sqlite" /\ SettingUp)}
  /\ UNCHANGED <<part, missed, httpVars, wsVars, guardVars>>

(* HttpServer::stop takes the mutex of the event streams.  A thread of an   *)
(* untimed pool that has tested its condition and does not wait yet misses  *)
(* notify_all(): running_ is cleared without its lock.                      *)
AskToStop ==
  /\ P # "redis" /\ HasThread
  /\ P = "http" => inner # "http"
  /\ IF P = "http" THEN StopListening ELSE UNCHANGED httpVars
  /\ IF P = "ws" THEN StopWs ELSE UNCHANGED wsVars
  /\ IF P = "guard" THEN ClearGuard ELSE UNCHANGED guardVars
  /\ part' = [part EXCEPT ![P] = IF @ = "up" THEN "stopping" ELSE @]
  /\ missed' \in {missed, missed \cup ({P} \cap Untimed)}
  /\ Phase("join")
  /\ UNCHANGED lostDb

(* Mutant: shutdown() closes the gate before it stops the callers.          *)
StopPartGateFirst ==
  /\ ShuttingDown /\ Top.phase = "stop"
  /\ Skip \/ AskToStop
  /\ ready' = FALSE
  /\ UNCHANGED <<main, step, busy, cmd, inner, sigAt, inputs>>

StopPart ==
  /\ ShuttingDown /\ Top.phase = "stop"
  /\ Skip \/ AskToStop
  /\ UNCHANGED <<main, step, ready, busy, cmd, inner, sigAt, inputs>>

Ended ==
  /\ P = "http" => HttpEnded
  /\ P = "ws" => WsEnded
  /\ P = "guard" => GuardEnded
  /\ P \notin busy \cup missed

Join ==
  /\ ShuttingDown /\ Top.phase = "join" /\ Ended
  /\ IF P \in {"ws", "sqlite"} THEN Phase("close") /\ UNCHANGED part
                               ELSE NextPart /\ Stopped(P)
  /\ UNCHANGED <<main, step, ready, busy, cmd, inner, spoilt, sigAt,
                 httpVars, wsVars, guardVars, inputs>>

(* ws_->close() and reset(); the last flush, under its lock, and the end of *)
(* the database connection.                                                 *)
Close ==
  /\ ShuttingDown /\ Top.phase = "close" /\ inner # P
  /\ IF P = "ws" THEN ResetWs ELSE UNCHANGED wsVars
  /\ Stopped(P) /\ NextPart
  /\ UNCHANGED <<main, step, ready, busy, cmd, inner, spoilt, sigAt, httpVars, guardVars, inputs>>

(* With messages to flush the handler waits here for main()'s lock, for     *)
(* ever.  With none, flush_batch returns before it takes the lock, and the  *)
(* statement main() is in the middle of is finalized under it.              *)
CloseUnderMain ==
  /\ ShuttingDown /\ Top.phase = "close" /\ P = "sqlite" /\ inner = "sqlite"
  /\ main' \in {main, "crashed"}
  /\ Stopped(P) /\ NextPart
  /\ UNCHANGED <<step, ready, busy, cmd, inner, spoilt, sigAt,
                 httpVars, wsVars, guardVars, inputs>>

(* redis_->disconnect() and ready_ = false.  Who was in the middle of a     *)
(* call on the connection, or of setting it up, then goes on with memory    *)
(* that is freed.                                                           *)
Finish ==
  /\ ShuttingDown /\ P = "redis"
  /\ part' = IF part["redis"] = "up" THEN [part EXCEPT !["redis"] = "stopped"] ELSE part
  /\ ready' = FALSE
  /\ stack' = SubSeq(stack, 1, Depth - 1)
  /\ IF inner = "redis" THEN main' = "crashed" /\ UNCHANGED inner
                        ELSE inner' = "none" /\ UNCHANGED main
  /\ UNCHANGED <<step, busy, cmd, spoilt, sigAt, httpVars, wsVars, guardVars, inputs>>

(* Two join() of one thread at once, or one after the other; close() or     *)
(* sqlite3_close() of what the handler has closed meanwhile.                *)
Crash ==
  /\ ShuttingDown /\ Top.phase \in {"join", "close"}
  /\ SamePlace \/ part[P] = "stopped"
  /\ Moved("crashed")

(* What main() is building is stopped, cleared or freed under it.           *)
Undo ==
  /\ ShuttingDown /\ Top.phase = "stop" /\ P # "redis" /\ SettingUp
  /\ Moved("crashed")

-----------------------------------------------------------------------------
(* signal_handler. *)

(* The parts that shutdown() takes apart while they are being built: their  *)
(* connection, their vector of threads, the client that is started.         *)
Fragile == {"sqlite", "redis", "ollama", "processor", "ws"}

(* What main() may be inside of when it is interrupted.                     *)
CaughtIn ==
  CASE Uninterrupted /\ cmd # "none" -> LocksOf(cmd)
    [] main = "init" /\ Uninterrupted /\ step <= Len(InitOrder) ->
         {InitOrder[step]} \cap Fragile
    [] ~Uninterrupted /\ Top = [at |-> 1, phase |-> "stop"] -> {"http"}
    [] ~Uninterrupted /\ P = "sqlite" /\ Top.phase = "close" -> {"sqlite"}
    [] OTHER -> {}

Signal ==
  /\ Alive /\ sigAt = "none" /\ main # "gone" /\ Input
  /\ stack' = Append(stack, FirstFrame)
  /\ sigAt' = IF Uninterrupted THEN main ELSE Top.phase
  /\ inner' \in CaughtIn \cup {"none"}
  /\ UNCHANGED <<main, step, part, ready, busy, cmd, spoilt, httpVars, wsVars, guardVars>>

(* The members of ChatDatabase are destroyed, or already are.               *)
SignalTooLate ==
  /\ sigAt = "none" /\ main = "gone" /\ Input
  /\ sigAt' = "gone" /\ main' = "crashed"
  /\ UNCHANGED <<step, stack, part, ready, busy, cmd, inner, spoilt, httpVars, wsVars, guardVars>>

-----------------------------------------------------------------------------
(* The other threads, and what comes from outside. *)

OnlyHttp == Alive /\ UNCHANGED <<mainVars, wsVars, guardVars>>
OnlyWs == Alive /\ UNCHANGED <<mainVars, httpVars, guardVars>>
OnlyGuard == Alive /\ UNCHANGED <<mainVars, httpVars, wsVars>>
OnlyWork ==
  Alive /\ UNCHANGED <<main, step, stack, part, ready, cmd, inner, spoilt, sigAt,
                       httpVars, wsVars, guardVars>>

Request(h) == OnlyHttp /\ Input /\ Accept(h)

HttpThread ==
  /\ OnlyHttp /\ UNCHANGED inputs
  /\ \/ Bind \/ ListenReturns
     \/ calls # <<>> /\ Enter(Admits(Head(calls)))
     \/ inside /\ inner \notin LocksOf(Head(calls)) /\ Return

(* The websocket's server comes and goes, and sends.                        *)
Connection == OnlyWs /\ UNCHANGED inputs /\ (Open \/ Closed)
Event(e) == OnlyWs /\ Input /\ Payload(e)

(* The callback at work on an event, and the end of the library's thread.   *)
WsThread ==
  /\ OnlyWs /\ UNCHANGED inputs
  /\ \/ ~Idle /\ Hand(Admits(event))
     \/ handed /\ inner \notin LocksOf(event) /\ Handled
     \/ LibraryEnds

Machine(p) == OnlyGuard /\ Input /\ ProcessChange(p)
Guarding == OnlyGuard /\ UNCHANGED inputs /\ GuardThread

(* A thread of a pool begins with a task, a summary, a round.               *)
Work(w) ==
  /\ OnlyWork /\ Input
  /\ part[w] = "up" /\ w \notin busy
  /\ busy' = busy \cup {w}

WorkDone(w) ==
  /\ OnlyWork /\ UNCHANGED inputs
  /\ w \in busy /\ inner \notin ThreadUses[w]
  /\ busy' = busy \ {w}

(* A thread that missed the notification is woken up for no reason, or by   *)
(* the notification of a second shutdown().                                 *)
WokenUp(w) ==
  /\ Alive /\ w \in missed
  /\ missed' = missed \ {w}
  /\ UNCHANGED <<main, step, stack, part, ready, busy, cmd, inner, lostDb, sigAt>>
  /\ UNCHANGED <<httpVars, wsVars, guardVars, inputs>>

(* Most calls on the database that a signal closed return an error; asked   *)
(* for the last row's id, or how many rows went, SQLite reads the           *)
(* connection, which is null.                                               *)
NoDatabase ==
  /\ Alive /\ (lostDb \/ part["sqlite"] = "stopped")
  /\ \/ "processor" \in busy
     \/ inside /\ Head(calls) = "cleanup_old_data"
     \/ Uninterrupted /\ cmd = "cleanup_old_data"
  /\ Moved("crashed")

-----------------------------------------------------------------------------
MainStep ==
  \/ PortFound \/ AskUser
  \/ \E p \in Parts : BuildPart(p)
  \/ StorageFails
  \/ BuildHttp \/ HttpWaitEnds \/ BuildWs \/ WsWaitEnds \/ BuildGuard \/ FinishInit
  \/ \E c \in Commands : RunOption(c)
  \/ OptionDone \/ Interactive \/ CommandReturns \/ Leave
  \/ StopPart \/ Join \/ Close \/ Finish \/ Crash \/ Undo

Next ==
  \/ MainStep
  \/ \E c \in Commands : Type(c)
  \/ Answered \/ Quit \/ Signal \/ SignalTooLate \/ CloseUnderMain
  \/ HttpThread \/ \E h \in Requests : Request(h)
  \/ WsThread \/ Connection \/ \E e \in Events : Event(e)
  \/ Guarding \/ \E p \in Pids : Machine(p)
  \/ \E w \in DOMAIN ThreadUses : Work(w) \/ WorkDone(w)
  \/ \E w \in Untimed : WokenUp(w)
  \/ NoDatabase

(* main() and every thread run on, calls return; nothing makes a client, a  *)
(* user, the websocket's peer or another process act, a signal come, or a   *)
(* thread wake up that nobody notifies.                                     *)
Fairness ==
  /\ WF_vars(MainStep)
  /\ WF_vars(HttpThread)
  /\ WF_vars(WsThread)
  /\ WF_vars(Guarding)
  /\ \A w \in DOMAIN ThreadUses : WF_vars(WorkDone(w))

Spec == Init /\ [][Next]_vars /\ Fairness

-----------------------------------------------------------------------------
(* Properties *)

(* Who is at work inside a request, an event, or a thread finds every part  *)
(* it calls still running: shutdown() stops the callers first.  (A signal   *)
(* during initialize() lets it build callers of parts that are stopped.)    *)
PartsInUse ==
  (IF inside THEN Uses[Head(calls)] ELSE {}) \cup
  (IF handed THEN Uses[event] ELSE {}) \cup
  UNION {ThreadUses[w] : w \in busy}

UsersFindParts ==
  sigAt \notin BuildPlaces => \A p \in PartsInUse : part[p] = "up"

(* The client is told "received" and receive_message drops the message only *)
(* while initialize() is not finished; in particular a message accepted     *)
(* during shutdown() still reaches the processor.                           *)
TurnedAway ==
  \/ calls # <<>> /\ ~inside /\ calls' # calls
  \/ ~Idle /\ ~handed /\ event' = "none"

DropsOnlyBeforeReady == [][TurnedAway => main \in InitPlaces]_vars

(* When main() is left, also after a signal in the middle of initialize(),  *)
(* no thread of ChatDatabase runs any more and no request is cut off.       *)
NothingRunsAtExit ==
  main \in {"gone", "exit"} =>
    /\ HttpEnded /\ WsEnded /\ GuardEnded /\ busy = {}
    /\ calls = <<>> /\ Idle

(* shutdown() runs twice at least, and on top of itself when a signal comes *)
(* during it.  The program dies of it only when the signal is met inside a  *)
(* join, after the thread of the websocket or of the storage, in a command  *)
(* or an option, or after main() -- or while initialize() builds the parts, *)
(* when it comes in the middle of building one, or when the database is     *)
(* closed already that later parts use.  Without a signal, or with one at   *)
(* the port question, between commands or as long as shutdown() asks a      *)
(* thread to stop, nothing is freed or joined twice.                        *)
CrashesOnlyWhenNested ==
  main = "crashed" =>
    \/ sigAt \in {"join", "close", "gone", "command", "option"}
    \/ sigAt \in BuildPlaces /\ (inner # "none" \/ lostDb \/ part["sqlite"] = "stopped")

(* The Open callback reads ws_ in the library's thread: the object is there *)
(* until that thread has ended.                                             *)
CallbacksHaveSocket == lib # "off" => socket

(* What can hold up a shutdown() for ever: a lock that main() holds below   *)
(* the handler, a server stopped before it listens, a thread of an untimed  *)
(* pool that missed the notification.                                       *)
StoppedTooEarly == sigAt = "http_wait" /\ http = "listening"
Stuck == inner # "none" \/ StoppedTooEarly \/ (stack # <<>> /\ P \in missed)

(* initialize() comes to its end whether or not the network answers, unless *)
(* it waits for the user to type a port, or a signal's shutdown() is stuck. *)
InitializeReturns ==
  main \in InitPlaces ~> main \notin InitPlaces \/ main \in Asking \/ Stuck

(* Every activation of shutdown() comes to its end: no join and no lock     *)
(* waits for ever, in none of the eight parts, except in those three cases. *)
ShutdownReturns ==
  stack # <<>> ~> Uninterrupted \/ ~Alive \/ Stuck

(* A process that keeps running is listed under its names at last, unless   *)
(* the guard is stopped: scan_processes returns, the sleep ends.            *)
RunningOnesAreListed ==
  \A p \in Pids : (p \in alive /\ running) ~>
    (Searched(p) \subseteq Listed \/ p \notin alive \/ ~running \/ ~Alive)
=============================================================================
