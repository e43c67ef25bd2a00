------------------------------ MODULE ProcessGuard ------------------------------
(***************************************************************************)
(* The thread that looks for the processes of the watch list: it reads the *)
(* entries of /proc one by one, while processes start and end, then notes  *)
(* what it found in current_status_, and sleeps.                           *)
(*                                                                         *)
(* An entry of current_status_ is always alive: scans only find living     *)
(* processes, and a process that is not found again is not looked at, so   *)
(* the branch that reports DOWN is never taken and the model has none.     *)
(* watch() and unwatch() have no callers.                                  *)
(***************************************************************************)
EXTENDS Naturals, Sequences, FiniteSets

CONSTANTS
  Pids,       \* processes of the machine
  WatchList,  \* cfg_.watch_list, a sequence of names
  Arguments,  \* [Pids -> command line: the names that each argument contains]
  MaxChanges  \* bound on how often a process starts or ends

Names == {WatchList[i] : i \in DOMAIN WatchList}

ASSUME GuardAssumption ==
  /\ WatchList \in Seq(Names)
  /\ Arguments \in [Pids -> Seq(SUBSET Names)]
  /\ MaxChanges \in Nat

VARIABLES
  alive,      \* the processes that run now
  changes,    \* how often that has changed
  running,    \* running_
  guard,      \* the place of the thread in guard_loop
  unread,     \* entries of /proc the scan has still to read
  found,      \* results of the scan, those not noted yet
  status,     \* current_status_
  steady      \* history: processes that ran since the scan began

guardVars == <<alive, changes, running, guard, unread, found, status, steady>>

Entry == [name : Names, pid : Pids]
Listed == {status[i].name : i \in DOMAIN status}

GuardTypeOK ==
  /\ alive \subseteq Pids /\ changes \in 0 .. MaxChanges
  /\ running \in BOOLEAN
  /\ guard \in {"off", "look", "scan", "note", "sleep"}
  /\ unread \subseteq Pids
  /\ found \in Seq(Entry) /\ status \in Seq(Entry)
  /\ steady \subseteq alive

GuardInit ==
  /\ alive = {} /\ changes = 0
  /\ running = FALSE /\ guard = "off"
  /\ unread = {} /\ found = <<>> /\ status = <<>> /\ steady = {}

-----------------------------------------------------------------------------
(* A process starts or ends.                                                *)
ProcessChange(p) ==
  /\ changes < MaxChanges
  /\ changes' = changes + 1
  /\ alive' = IF p \in alive THEN alive \ {p} ELSE alive \cup {p}
  /\ steady' = steady \cap alive'
  /\ UNCHANGED <<running, guard, unread, found, status>>

StartGuard ==
  /\ ~running
  /\ running' = TRUE /\ guard' = "look"
  /\ UNCHANGED <<alive, changes, unread, found, status, steady>>

(* Mutant: stop() only joins.                                               *)
ClearNothing == UNCHANGED guardVars

(* stop() before the join.                                                  *)
ClearGuard ==
  /\ running' = FALSE
  /\ UNCHANGED <<alive, changes, guard, unread, found, status, steady>>

GuardLooks ==
  /\ guard = "look"
  /\ guard' = IF running THEN "scan" ELSE "off"
  /\ unread' = IF running THEN Pids ELSE {}
  /\ steady' = alive
  /\ UNCHANGED <<alive, changes, running, found, status>>

(* The arguments are read as /proc has them, each with a NUL behind it, and *)
(* the string made of them ends at the first: the program's own name.       *)
Searched(p) == IF Arguments[p] = <<>> THEN {} ELSE Head(Arguments[p])

(* What one process is found as: every name of the list, in its order.      *)
Hits(p) == {i \in DOMAIN WatchList : WatchList[i] \in Searched(p)}
Rank(I, i) == Cardinality({j \in I : j <= i})
FoundAs(p) ==
  [k \in 1 .. Cardinality(Hits(p)) |->
     [name |-> WatchList[CHOOSE i \in Hits(p) : Rank(Hits(p), i) = k], pid |-> p]]

(* Mutant: a process counts for the first name it matches only.             *)
ReadEntryFirst(p) ==
  /\ guard = "scan" /\ p \in unread
  /\ unread' = unread \ {p}
  /\ found' = IF p \in alive THEN found \o SubSeq(FoundAs(p), 1, 1) ELSE found
  /\ UNCHANGED <<alive, changes, running, guard, status, steady>>

(* One directory entry; without a command line nothing is found.            *)
ReadEntry(p) ==
  /\ guard = "scan" /\ p \in unread
  /\ unread' = unread \ {p}
  /\ found' = IF p \in alive THEN found \o FoundAs(p) ELSE found
  /\ UNCHANGED <<alive, changes, running, guard, status, steady>>

(* Mutant: the scan is over with the first process of interest.              *)
ScanEndsEarly ==
  /\ guard = "scan" /\ (unread = {} \/ found # <<>>)
  /\ guard' = "note"
  /\ UNCHANGED <<alive, changes, running, unread, found, status, steady>>

ScanEnds ==
  /\ guard = "scan" /\ unread = {}
  /\ guard' = "note"
  /\ UNCHANGED <<alive, changes, running, unread, found, status, steady>>

(* Mutant: an entry is looked for by name and process.                      *)
NoteByPid ==
  /\ guard = "note" /\ found # <<>>
  /\ LET e == Head(found) IN
     status' = IF \E i \in DOMAIN status : status[i] = e THEN status ELSE Append(status, e)
  /\ found' = Tail(found)
  /\ UNCHANGED <<alive, changes, running, guard, unread, steady>>

(* One result, under the lock that nobody else takes meanwhile: the first   *)
(* entry of that name is updated, or a new one is added.                    *)
Note ==
  /\ guard = "note" /\ found # <<>>
  /\ LET e  == Head(found)
         at == {i \in DOMAIN status : status[i].name = e.name}
     IN status' = IF at = {} THEN Append(status, e)
                  ELSE [status EXCEPT ![CHOOSE i \in at : \A j \in at : i <= j] = e]
  /\ found' = Tail(found)
  /\ UNCHANGED <<alive, changes, running, guard, unread, steady>>

AllNoted ==
  /\ guard = "note" /\ found = <<>>
  /\ guard' = "sleep"
  /\ UNCHANGED <<alive, changes, running, unread, found, status, steady>>

GuardWakes ==
  /\ guard = "sleep"
  /\ guard' = "look"
  /\ UNCHANGED <<alive, changes, running, unread, found, status, steady>>

GuardThread ==
  \/ GuardLooks \/ ScanEnds \/ Note \/ AllNoted \/ GuardWakes
  \/ \E p \in Pids : ReadEntry(p)

GuardEnded == guard = "off"
-----------------------------------------------------------------------------
(* Properties *)

(* Several processes of one name are found in the same scan, and in other   *)
(* orders in the next one: still guard_loop keeps one entry for a name.     *)
OneEntryPerName ==
  \A i, j \in DOMAIN status : status[i].name = status[j].name => i = j

(* The scan reads /proc entry by entry while processes come and go; one     *)
(* that ran all the time is found by guard_loop under every watched name    *)
(* that its program's name contains.  A name in a later argument, as the    *)
(* script that a "python" runs, is not looked for: Searched.                *)
ScanMissesNobody ==
  guard = "note" /\ found = <<>> => \A p \in steady : Searched(p) \subseteq Listed
=============================================================================
