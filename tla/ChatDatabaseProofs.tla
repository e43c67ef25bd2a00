--------------------------- MODULE ChatDatabaseProofs ---------------------------
(***************************************************************************)
(* Proofs about ChatDatabase for every set of requests, commands and       *)
(* processes and any number of inputs: what holds of the parts, threads    *)
(* and activations of shutdown() in every reachable state, wherever a      *)
(* signal comes.                                                           *)
(***************************************************************************)
EXTENDS ChatDatabase, FiniteSetTheorems, SequenceTheorems, TLAPS

Stages == {"none", "up", "stopping", "stopped"}

(* There is nothing to stop: the negation of HasThread, for any part.       *)
Down(p) == part[p] \in {"none", "stopped"}

PartOK == part \in [Parts -> Stages]

(* At most two activations, and the signal came where the lower one is.     *)
StackOK ==
  /\ stack \in Seq(Frame) /\ Len(stack) <= 2
  /\ Len(stack) = 2 => sigAt = stack[1].phase

(* An activation has stopped every part before the one it is at.            *)
PassedOK ==
  \A k \in DOMAIN stack : \A i \in DOMAIN StopOrder :
    i < stack[k].at => Down(StopOrder[i])

(* Only two parts have something to do after the join.                      *)
CloseOK ==
  \A k \in DOMAIN stack :
    stack[k].phase = "close" =>
      /\ stack[k].at \in {2, 7}
      /\ stack[k].at = 2 => lib = "off"

(* A join is for a part that was asked to stop and is not joined, unless a  *)
(* signal came in between.                                                  *)
JoinOK ==
  \A k \in DOMAIN stack :
    stack[k].phase \in {"join", "close"} =>
      /\ stack[k].at < 8
      /\ part[StopOrder[stack[k].at]] = "stopping" \/ sigAt \in {"join", "close"}

(* The places of initialize() and what is not built yet.                    *)
BuildOK ==
  /\ step \in Nat \ {0}
  /\ main \in Detecting => step = 1 /\ Down("http") /\ Down("ws")
  /\ main = "http_wait" => step = 8
  /\ main = "ws_wait" => step = 9
  /\ main = "init" /\ step <= 8 => Down("http")
  /\ main \in {"init", "http_wait"} /\ step <= 9 => Down("ws")

(* main() is left with every part stopped.                                  *)
DestroyOK ==
  main \in {"gone", "exit"} \/ (main = "destroy" /\ stack = <<>>) =>
    \A i \in 1 .. 7 : Down(StopOrder[i])

(* main() is at a command as long as it makes its call.                     *)
CommandOK == cmd # "none" => main \in {"option", "command", "crashed"}

(* ready_ is only false before initialize() ends, and when nobody calls.    *)
ReadyOK ==
  ~ready /\ main \notin InitPlaces \cup {"crashed"} => Down("http") /\ Down("ws")

MainInv ==
  /\ PartOK /\ StackOK /\ PassedOK /\ CloseOK /\ JoinOK /\ BuildOK /\ DestroyOK
  /\ CommandOK /\ ReadyOK

(* The threads of what is down have ended, and have nothing in hand.        *)
QuietOK ==
  /\ Down("http") => HttpEnded
  /\ Down("ws") => WsEnded
  /\ Down("guard") => GuardEnded
  /\ busy \subseteq DOMAIN ThreadUses
  /\ \A w \in DOMAIN ThreadUses : Down(w) => w \notin busy

HandsOK ==
  /\ inside => calls # <<>>
  /\ http \notin {"listening", "closing"} => calls = <<>>
  /\ lib # "open" => Idle
  /\ CallbacksHaveSocket

Inv == MainInv /\ QuietOK /\ HandsOK

-----------------------------------------------------------------------------
(* Lemmas about the activations of shutdown(). *)

LEMMA Positions ==
  /\ DOMAIN StopOrder = 1 .. 8
  /\ \A i \in 1 .. 8 : StopOrder[i] \in Parts
  /\ StopOrder[1] = "http" /\ StopOrder[2] = "ws" /\ StopOrder[3] = "guard"
  /\ StopOrder[4] = "summarizer" /\ StopOrder[5] = "processor"
  /\ StopOrder[7] = "sqlite" /\ StopOrder[8] = "redis"
  /\ \A i, j \in 1 .. 8 : StopOrder[i] = StopOrder[j] => i = j
  BY DEF StopOrder, Parts, InitOrder

LEMMA FirstFrameTyped == FirstFrame \in Frame
  BY Positions DEF FirstFrame, Frame

LEMMA TopTyped ==
  ASSUME StackOK, ShuttingDown
  PROVE  /\ Depth \in {1, 2} /\ DOMAIN stack = 1 .. Depth /\ Len(stack) = Depth
         /\ Top \in Frame /\ Top.at \in 1 .. 8 /\ P \in Parts
<1>1. Len(stack) \in Nat /\ Len(stack) # 0 /\ DOMAIN stack = 1 .. Len(stack)
  BY EmptySeq, LenProperties DEF StackOK, ShuttingDown
<1>2. Depth \in {1, 2} /\ DOMAIN stack = 1 .. Depth /\ Len(stack) = Depth
  BY <1>1 DEF StackOK, Depth
<1>3. Top \in Frame
  BY <1>2, ElementOfSeq DEF StackOK, Top
<1>4. Top.at \in 1 .. 8
  BY <1>3, Positions DEF Frame
<1>5. QED
  BY <1>2, <1>3, <1>4, Positions DEF P

(* The uppermost activation goes on to frame f.                             *)
LEMMA TopGoesOn ==
  ASSUME StackOK, ShuttingDown, NEW f \in Frame,
         stack' = [stack EXCEPT ![Depth] = f], sigAt' = sigAt
  PROVE  /\ StackOK' /\ DOMAIN stack' = DOMAIN stack
         /\ stack' # <<>>
         /\ stack'[Depth] = f
         /\ \A k \in DOMAIN stack : k # Depth => stack'[k] = stack[k]
<1>1. Depth \in {1, 2} /\ DOMAIN stack = 1 .. Depth /\ Len(stack) = Depth
  BY TopTyped
<1>2. stack' \in Seq(Frame) /\ Len(stack') = Len(stack)
  BY <1>1, ExceptSeq DEF StackOK
<1>3. DOMAIN stack' = DOMAIN stack /\ stack'[Depth] = f
  BY <1>1
<1>4. \A k \in DOMAIN stack : k # Depth => stack'[k] = stack[k]
  BY <1>1
<1>5. Len(stack') = 2 => sigAt' = stack'[1].phase
  <2>1. SUFFICES ASSUME Len(stack') = 2 PROVE sigAt' = stack'[1].phase
    OBVIOUS
  <2>2. Depth = 2 /\ stack'[1] = stack[1]
    BY <1>1, <1>2, <1>4, <2>1
  <2>3. QED
    BY <1>1, <2>2 DEF StackOK
<1>6. QED
  BY <1>1, <1>2, <1>3, <1>4, <1>5, EmptySeq DEF StackOK

(* The forms in which shutdown() says so.                                   *)
LEMMA PhaseGoesOn ==
  ASSUME StackOK, ShuttingDown, NEW ph \in {"stop", "join", "close"}, Phase(ph)
  PROVE  /\ [at |-> Top.at, phase |-> ph] \in Frame
         /\ stack' = [stack EXCEPT ![Depth] = [at |-> Top.at, phase |-> ph]]
<1>1. Top \in Frame /\ Top.at \in 1 .. 8
  BY TopTyped
<1>2. stack' = [stack EXCEPT ![Depth] = [Top EXCEPT !.phase = ph]]
  BY DEF Phase, Top
<1>3. [Top EXCEPT !.phase = ph] = [at |-> Top.at, phase |-> ph]
  BY <1>1 DEF Frame
<1>4. QED
  BY <1>1, <1>2, <1>3, Positions DEF Frame

LEMMA NextPartGoesOn ==
  ASSUME StackOK, ShuttingDown, P # "redis", NextPart
  PROVE  /\ [at |-> Top.at + 1, phase |-> "stop"] \in Frame
         /\ stack' = [stack EXCEPT ![Depth] = [at |-> Top.at + 1, phase |-> "stop"]]
<1>1. Top.at \in 1 .. 8
  BY TopTyped
<1>2. Top.at # 8
  BY Positions DEF P
<1>3. QED
  BY <1>1, <1>2, Positions DEF NextPart, Frame

-----------------------------------------------------------------------------
(* The steps of shutdown() keep MainInv. *)

(* A frame that asks for nothing yet, or whose join is due, over parts that *)
(* only go down.                                                            *)
LEMMA ShutdownStep ==
  ASSUME MainInv, ShuttingDown, NEW f \in Frame,
         stack' = [stack EXCEPT ![Depth] = f],
         main' = main \/ main' = "crashed",
         UNCHANGED <<step, ready, cmd, inner, sigAt>>,
         lib' = lib,
         PartOK',
         \A p \in Parts : p # P => part'[p] = part[p],
         Down(P) => part'[P] \in {"none", "stopped"},
         f.at = Top.at \/ (f.at = Top.at + 1 /\ part'[P] \in {"none", "stopped"}),
         f.phase # "stop" =>
           /\ f.at < 8
           /\ part'[StopOrder[f.at]] = "stopping" \/ sigAt \in {"join", "close"},
         f.phase = "close" => f.at \in {2, 7} /\ (f.at = 2 => lib = "off")
  PROVE  MainInv'
<1> USE DEF MainInv
<1>1. /\ Depth \in {1, 2} /\ DOMAIN stack = 1 .. Depth /\ Len(stack) = Depth
      /\ Top \in Frame /\ Top.at \in 1 .. 8 /\ P \in Parts
  BY TopTyped
<1>2. /\ StackOK' /\ DOMAIN stack' = DOMAIN stack /\ stack'[Depth] = f /\ stack' # <<>>
      /\ \A k \in DOMAIN stack : k # Depth => stack'[k] = stack[k]
  BY TopGoesOn
<1>3. \A p \in Parts : Down(p) => Down(p)'
  BY DEF Down
<1>4. \A i \in 1 .. 8 : Down(StopOrder[i]) => Down(StopOrder[i])'
  BY <1>3, Positions
<1>5. Down("http") => Down("http")'
  BY <1>4, Positions
<1>6. Down("ws") => Down("ws")'
  BY <1>4, Positions
<1>7. PassedOK'
  <2>1. SUFFICES ASSUME NEW k \in DOMAIN stack, NEW i \in 1 .. 8, i < stack'[k].at
                 PROVE Down(StopOrder[i])'
    BY <1>2, Positions DEF PassedOK
  <2>2. CASE k # Depth
    BY <1>2, <1>4, <2>1, <2>2, Positions DEF PassedOK
  <2>3. CASE k = Depth /\ i < Top.at
    BY <1>1, <1>4, <2>3, Positions DEF PassedOK, Top
  <2>4. CASE k = Depth /\ ~(i < Top.at)
    <3>1. i = Top.at /\ part'[P] \in {"none", "stopped"}
      BY <1>1, <1>2, <2>1, <2>4
    <3>2. QED
      BY <3>1 DEF P, Down
  <2>5. QED
    BY <2>2, <2>3, <2>4
<1>8. CloseOK'
  BY <1>1, <1>2 DEF CloseOK
<1>9. JoinOK'
  <2>1. SUFFICES ASSUME NEW k \in DOMAIN stack, stack'[k].phase \in {"join", "close"}
                 PROVE /\ stack'[k].at < 8
                       /\ \/ part'[StopOrder[stack'[k].at]] = "stopping"
                          \/ sigAt' \in {"join", "close"}
    BY <1>2 DEF JoinOK
  <2>2. CASE k = Depth
    BY <1>2, <2>1, <2>2
  <2>3. CASE k # Depth
    <3>1. k = 1 /\ Depth = 2
      BY <1>1, <2>1, <2>3
    <3>2. sigAt = stack[1].phase
      BY <1>1, <3>1 DEF StackOK
    <3>3. QED
      BY <1>2, <2>1, <2>3, <3>1, <3>2 DEF JoinOK
  <2>4. QED
    BY <2>2, <2>3
<1>10. BuildOK' /\ ReadyOK' /\ CommandOK'
  BY <1>5, <1>6 DEF BuildOK, ReadyOK, CommandOK, InitPlaces, BuildPlaces, Detecting, Asking
<1>11. DestroyOK'
  BY <1>2, <1>4 DEF DestroyOK
<1>12. QED
  BY <1>2, <1>7, <1>8, <1>9, <1>10, <1>11

LEMMA StopPartKeepsMain ==
  ASSUME MainInv, StopPart
  PROVE  MainInv'
<1> USE DEF MainInv
<1>1. ShuttingDown /\ Top.phase = "stop" /\ UNCHANGED <<main, step, ready, cmd, inner, sigAt>>
  BY DEF StopPart
<1>2. /\ Depth \in {1, 2} /\ Top.at \in 1 .. 8 /\ P \in Parts /\ P = StopOrder[Top.at]
  BY <1>1, TopTyped DEF P
<1>3. CASE Skip
  <2>1. P # "redis" /\ part' = part /\ NextPart /\ lib' = lib
    BY <1>3 DEF Skip, wsVars
  <2>2. Down(P)
    BY <1>2, <1>3 DEF Skip, HasThread, Down, PartOK, Stages
  <2> DEFINE f == [at |-> Top.at + 1, phase |-> "stop"]
  <2>3. f \in Frame /\ stack' = [stack EXCEPT ![Depth] = f]
    BY <1>1, <2>1, NextPartGoesOn
  <2>4. f.at = Top.at + 1 /\ f.phase = "stop"
    OBVIOUS
  <2>5. PartOK'
    BY <2>1 DEF PartOK
  <2> HIDE DEF f
  <2>6. QED
    BY <1>1, <2>1, <2>2, <2>3, <2>4, <2>5, ShutdownStep DEF Down
<1>4. CASE AskToStop
  <2>1. P # "redis" /\ part[P] \in {"up", "stopping"} /\ lib' = lib
    BY <1>4 DEF AskToStop, HasThread, StopWs, wsVars
  <2>2. part' = [part EXCEPT ![P] = "stopping"] /\ Phase("join")
    BY <1>4, <2>1 DEF AskToStop, PartOK
  <2> DEFINE f == [at |-> Top.at, phase |-> "join"]
  <2>3. f \in Frame /\ stack' = [stack EXCEPT ![Depth] = f]
    BY <1>1, <2>2, PhaseGoesOn
  <2>4. f.at = Top.at /\ f.phase = "join"
    OBVIOUS
  <2>5. PartOK' /\ part'[P] = "stopping" /\ \A p \in Parts : p # P => part'[p] = part[p]
    BY <1>2, <2>2 DEF PartOK, Stages
  <2>6. Top.at < 8
    BY <1>2, <2>1, Positions
  <2>7. ~Down(P)
    BY <2>1 DEF Down
  <2> HIDE DEF f
  <2>8. QED
    BY <1>1, <1>2, <2>1, <2>3, <2>4, <2>5, <2>6, <2>7, ShutdownStep
<1>5. QED
  BY <1>3, <1>4 DEF StopPart

(* What JoinOK says of the uppermost activation.                            *)
LEMMA TopJoins ==
  ASSUME MainInv, ShuttingDown, Top.phase \in {"join", "close"}
  PROVE  /\ Top.at \in 1 .. 7 /\ P # "redis"
         /\ part[P] = "stopping" \/ sigAt \in {"join", "close"}
<1> USE DEF MainInv
<1>1. Depth \in DOMAIN stack /\ Top.at \in 1 .. 8
  BY TopTyped
<1>2. /\ Top.at < 8
      /\ part[StopOrder[Top.at]] = "stopping" \/ sigAt \in {"join", "close"}
  BY <1>1 DEF JoinOK, Top
<1>3. QED
  BY <1>1, <1>2, Positions DEF P

LEMMA JoinKeepsMain ==
  ASSUME MainInv, Join
  PROVE  MainInv'
<1> USE DEF MainInv
<1>1. /\ ShuttingDown /\ Top.phase = "join" /\ Ended /\ lib' = lib
      /\ UNCHANGED <<main, step, ready, cmd, inner, sigAt>>
  BY DEF Join, wsVars
<1>2. /\ Top.at \in 1 .. 7 /\ P # "redis" /\ P \in Parts /\ P = StopOrder[Top.at]
      /\ part[P] = "stopping" \/ sigAt \in {"join", "close"}
  BY <1>1, TopTyped, TopJoins DEF P
<1>3. CASE P \in {"ws", "sqlite"}
  <2>1. part' = part /\ Phase("close")
    BY <1>3 DEF Join
  <2> DEFINE f == [at |-> Top.at, phase |-> "close"]
  <2>2. f \in Frame /\ stack' = [stack EXCEPT ![Depth] = f]
    BY <1>1, <2>1, PhaseGoesOn
  <2>3. f.at = Top.at /\ f.phase = "close"
    OBVIOUS
  <2>4. Top.at \in {2, 7} /\ (Top.at = 2 => lib = "off")
    BY <1>1, <1>2, <1>3, Positions DEF Ended, WsEnded
  <2>5. PartOK' /\ (Down(P) => part'[P] \in {"none", "stopped"})
    BY <2>1 DEF PartOK, Down
  <2>6. f.at < 8 /\ (part'[StopOrder[f.at]] = "stopping" \/ sigAt \in {"join", "close"})
    BY <1>2, <2>1, <2>3
  <2> HIDE DEF f
  <2>7. QED
    BY <1>1, <2>1, <2>2, <2>3, <2>4, <2>5, <2>6, ShutdownStep
<1>4. CASE P \notin {"ws", "sqlite"}
  <2>1. Stopped(P) /\ NextPart
    BY <1>4 DEF Join
  <2> DEFINE f == [at |-> Top.at + 1, phase |-> "stop"]
  <2>2. f \in Frame /\ stack' = [stack EXCEPT ![Depth] = f]
    BY <1>1, <1>2, <2>1, NextPartGoesOn
  <2>3. f.at = Top.at + 1 /\ f.phase = "stop"
    OBVIOUS
  <2>4. PartOK' /\ part'[P] = "stopped" /\ \A p \in Parts : p # P => part'[p] = part[p]
    BY <1>2, <2>1 DEF PartOK, Stages, Stopped
  <2> HIDE DEF f
  <2>5. QED
    BY <1>1, <2>2, <2>3, <2>4, ShutdownStep
<1>5. QED
  BY <1>3, <1>4

LEMMA CloseKeepsMain ==
  ASSUME MainInv, Close \/ CloseUnderMain
  PROVE  MainInv'
<1> USE DEF MainInv
<1>1. /\ ShuttingDown /\ Top.phase = "close" /\ lib' = lib
      /\ main' = main \/ main' = "crashed"
      /\ UNCHANGED <<step, ready, cmd, inner, sigAt>>
      /\ Stopped(P) /\ NextPart
  BY DEF Close, CloseUnderMain, ResetWs, wsVars
<1>2. P # "redis" /\ P \in Parts
  BY <1>1, TopTyped, TopJoins
<1> DEFINE f == [at |-> Top.at + 1, phase |-> "stop"]
<1>3. f \in Frame /\ stack' = [stack EXCEPT ![Depth] = f]
  BY <1>1, <1>2, NextPartGoesOn
<1>4. f.at = Top.at + 1 /\ f.phase = "stop"
  OBVIOUS
<1>5. PartOK' /\ part'[P] = "stopped" /\ \A p \in Parts : p # P => part'[p] = part[p]
  BY <1>1, <1>2 DEF PartOK, Stages, Stopped
<1> HIDE DEF f
<1>6. QED
  BY <1>1, <1>3, <1>4, <1>5, ShutdownStep

(* disconnect() of Redis ends an activation.                                *)
LEMMA FinishKeepsMain ==
  ASSUME MainInv, Finish
  PROVE  MainInv'
<1> USE DEF MainInv
<1>1. /\ ShuttingDown /\ P = "redis" /\ ready' = FALSE /\ lib' = lib
      /\ UNCHANGED <<step, cmd, sigAt>>
      /\ main' = main \/ main' = "crashed"
      /\ stack' = SubSeq(stack, 1, Depth - 1)
  BY DEF Finish, wsVars
<1>2. /\ Depth \in {1, 2} /\ DOMAIN stack = 1 .. Depth /\ Len(stack) = Depth
      /\ Top.at \in 1 .. 8
  BY <1>1, TopTyped
<1>3. Top.at = 8
  BY <1>1, <1>2, Positions DEF P
<1>4. \A i \in 1 .. 7 : Down(StopOrder[i])
  BY <1>2, <1>3, Positions DEF PassedOK, Top
<1>5. PartOK' /\ \A p \in Parts : Down(p) => Down(p)'
  <2>1. part' = part \/ part' = [part EXCEPT !["redis"] = "stopped"]
    BY DEF Finish
  <2>2. QED
    BY <2>1 DEF PartOK, Down, Stages
<1>6. \A i \in 1 .. 8 : Down(StopOrder[i]) => Down(StopOrder[i])'
  BY <1>5, Positions
<1>7. Down("http")' /\ Down("ws")'
  BY <1>4, <1>6, Positions
<1>8. /\ StackOK' /\ Len(stack') = Depth - 1 /\ DOMAIN stack' = 1 .. Depth - 1
      /\ \A k \in DOMAIN stack' : k \in DOMAIN stack /\ stack'[k] = stack[k]
  <2>1. stack' \in Seq(Frame) /\ Len(stack') = Depth - 1
    BY <1>1, <1>2, SubSeqProperties DEF StackOK
  <2>2. DOMAIN stack' = 1 .. Depth - 1
    BY <2>1, LenProperties
  <2>3. \A k \in DOMAIN stack' : k \in DOMAIN stack /\ stack'[k] = stack[k]
    BY <1>1, <1>2, <2>2, SubSeqProperties DEF StackOK
  <2>4. QED
    BY <1>2, <2>1, <2>2, <2>3 DEF StackOK
<1>9. PassedOK'
  BY <1>6, <1>8, Positions DEF PassedOK
<1>10. CloseOK'
  BY <1>1, <1>8 DEF CloseOK
<1>11. JoinOK'
  <2>1. SUFFICES ASSUME NEW k \in DOMAIN stack', stack'[k].phase \in {"join", "close"}
                 PROVE stack'[k].at < 8 /\ sigAt' \in {"join", "close"}
    BY DEF JoinOK
  <2>2. k = 1 /\ Depth = 2 /\ stack'[1] = stack[1]
    BY <1>2, <1>8, <2>1
  <2>3. QED
    BY <1>1, <1>2, <2>1, <2>2 DEF StackOK, JoinOK
<1>12. BuildOK' /\ ReadyOK'
  BY <1>1, <1>7 DEF BuildOK, ReadyOK, InitPlaces, BuildPlaces, Detecting, Asking
<1>13. DestroyOK'
  BY <1>1, <1>4, <1>6, Positions DEF DestroyOK
<1>14. CommandOK'
  BY <1>1 DEF CommandOK
<1>15. QED
  BY <1>5, <1>8, <1>9, <1>10, <1>11, <1>12, <1>13, <1>14

(* A second join, or a second close, only meets what a signal interrupted.  *)
LEMMA CrashIsNested ==
  ASSUME MainInv, Crash
  PROVE  sigAt \in {"join", "close"}
<1> USE DEF MainInv
<1>1. /\ ShuttingDown /\ Top.phase \in {"join", "close"}
      /\ SamePlace \/ part[P] = "stopped"
  BY DEF Crash
<1>2. CASE SamePlace
  BY <1>1, <1>2, TopTyped DEF SamePlace, StackOK
<1>3. CASE part[P] = "stopped"
  BY <1>1, <1>3, TopJoins
<1>4. QED
  BY <1>1, <1>2, <1>3

-----------------------------------------------------------------------------
(* The steps of main() and initialize(), and the signal. *)

(* An activation of main() or of the destructor begins.                     *)
LEMMA FirstActivation ==
  ASSUME MainInv, stack = <<>>, stack' = <<FirstFrame>>, UNCHANGED <<part, sigAt>>
  PROVE  StackOK' /\ PassedOK' /\ CloseOK' /\ JoinOK'
<1>1. stack' \in Seq(Frame) /\ Len(stack') = 1 /\ DOMAIN stack' = 1 .. 1
  BY FirstFrameTyped
<1>2. stack'[1].at = 1 /\ stack'[1].phase = "stop"
  BY DEF FirstFrame
<1>3. \A k \in DOMAIN stack' : stack'[k].at = 1 /\ stack'[k].phase = "stop"
  BY <1>1, <1>2
<1>4. QED
  BY <1>1, <1>3, Positions DEF StackOK, PassedOK, CloseOK, JoinOK

(* With no activation, what is said of them holds.                          *)
LEMMA NoActivation ==
  ASSUME stack' = <<>>
  PROVE  StackOK' /\ PassedOK' /\ CloseOK' /\ JoinOK'
<1>1. stack' \in Seq(Frame) /\ Len(stack') = 0 /\ DOMAIN stack' = {}
  BY EmptySeq, LenProperties
<1>2. QED
  BY <1>1 DEF StackOK, PassedOK, CloseOK, JoinOK

LEMMA InitOrderIs ==
  /\ Len(InitOrder) = 10
  /\ InitOrder[1] = "sqlite" /\ InitOrder[8] = "http" /\ InitOrder[9] = "ws"
  /\ InitOrder[10] = "guard"
  /\ \A i \in 1 .. 10 : InitOrder[i] \in {"http", "ws", "guard"} => i \in 8 .. 10
  /\ \A i \in 1 .. 10 : InitOrder[i] = "sqlite" => i = 1
  /\ \A i \in 1 .. 10 : InitOrder[i] = "http" => i = 8
  /\ \A i \in 1 .. 10 : InitOrder[i] = "ws" => i = 9
  /\ \A i \in 1 .. 10 : InitOrder[i] = "guard" => i = 10
  /\ {"http", "ws", "guard"} \subseteq Parts
  BY DEF InitOrder, Parts

(* Where initialize() is when it builds one of these.                       *)
LEMMA NamedSteps ==
  ASSUME BuildOK
  PROVE  /\ Building("sqlite") => step = 1
         /\ Building("http") => step = 8
         /\ Building("ws") => step = 9
         /\ Building("guard") => step = 10
<1>1. ASSUME NEW p, Building(p)
      PROVE  step \in 1 .. 10 /\ InitOrder[step] = p
  BY <1>1, InitOrderIs DEF Building, BuildOK
<1>2. QED
  BY <1>1, InitOrderIs

(* initialize() builds a part.                                              *)
LEMMA BuildingKeepsMain ==
  ASSUME MainInv,
         \/ PortFound \/ AskUser \/ Answered
         \/ \E p \in Parts : BuildPart(p)
         \/ BuildHttp \/ HttpWaitEnds \/ BuildWs \/ WsWaitEnds \/ BuildGuard \/ FinishInit
  PROVE  MainInv'
<1> USE DEF MainInv, Uninterrupted, PortFound, AskUser, Answered, Moved, NextPlace
<1>1. stack = <<>> /\ stack' = stack /\ UNCHANGED <<cmd, sigAt>>
  BY DEF BuildPart, BuildHttp, HttpWaitEnds, BuildWs, WsWaitEnds, BuildGuard, FinishInit, Building
<1>2. StackOK' /\ PassedOK' /\ CloseOK' /\ JoinOK'
  BY <1>1, NoActivation
<1>3. main \in InitPlaces /\ main' \in InitPlaces \cup {"options"}
  BY DEF BuildPart, BuildHttp, HttpWaitEnds, BuildWs, WsWaitEnds, BuildGuard, FinishInit,
         Building, InitPlaces, BuildPlaces, Detecting, Asking
<1>4. DestroyOK' /\ CommandOK'
  BY <1>1, <1>3 DEF DestroyOK, CommandOK, InitPlaces, BuildPlaces, Detecting, Asking
<1>5. PartOK' /\ BuildOK' /\ ReadyOK'
  <2>1. CASE \E p \in Parts : BuildPart(p)
    <3>1. PICK p \in Parts : BuildPart(p)
      BY <2>1
    <3>2. /\ p \notin {"http", "ws", "guard"} /\ main = "init" /\ main' = main
          /\ step \in 1 .. 10 /\ p = InitOrder[step] /\ step' = step + 1 /\ ready' = ready
          /\ part' = [part EXCEPT ![p] = "up"]
      BY <3>1, InitOrderIs DEF BuildPart, Building, BuildOK
    <3>3. step \notin {8, 9, 10}
      BY <3>2, InitOrderIs
    <3>4. part'["http"] = part["http"] /\ part'["ws"] = part["ws"] /\ PartOK'
      BY <3>2, InitOrderIs DEF PartOK, Stages
    <3>5. QED
      BY <3>2, <3>3, <3>4 DEF BuildOK, ReadyOK, Down, InitPlaces, BuildPlaces, Detecting, Asking
  <2>2. CASE BuildHttp
    <3>1. /\ main = "init" /\ main' = "http_wait" /\ step' = step /\ ready' = ready
          /\ part' = [part EXCEPT !["http"] = "up"]
      BY <2>2 DEF BuildHttp, Building
    <3>2. step = 8
      BY <2>2, NamedSteps DEF BuildHttp
    <3>3. PartOK' /\ part'["ws"] = part["ws"]
      BY <3>1, InitOrderIs DEF PartOK, Stages
    <3>4. QED
      BY <3>1, <3>2, <3>3 DEF BuildOK, ReadyOK, Down, InitPlaces, BuildPlaces, Detecting, Asking
  <2>3. CASE HttpWaitEnds
    <3>1. /\ main = "http_wait" /\ main' = "init" /\ step = 8 /\ step' = step + 1
          /\ part' = part /\ ready' = ready
      BY <2>3 DEF HttpWaitEnds, BuildOK
    <3>2. Down("ws") /\ PartOK'
      BY <3>1 DEF BuildOK, PartOK
    <3>3. step' = 9
      BY <3>1
    <3>4. QED
      BY <3>1, <3>2, <3>3 DEF BuildOK, ReadyOK, Down, InitPlaces, BuildPlaces, Detecting, Asking
  <2>4. CASE BuildWs
    <3>1. /\ main = "init" /\ main' = "ws_wait" /\ step' = step /\ ready' = ready
          /\ part' = [part EXCEPT !["ws"] = "up"]
      BY <2>4 DEF BuildWs, Building
    <3>2. step = 9
      BY <2>4, NamedSteps DEF BuildWs
    <3>3. PartOK'
      BY <3>1 DEF PartOK, Stages
    <3>4. QED
      BY <3>1, <3>2, <3>3 DEF BuildOK, ReadyOK, Down, InitPlaces, BuildPlaces, Detecting, Asking
  <2>5. CASE WsWaitEnds
    <3>1. /\ main = "ws_wait" /\ main' = "init" /\ step = 9 /\ step' = step + 1
          /\ part' = part /\ ready' = ready
      BY <2>5 DEF WsWaitEnds, BuildOK
    <3>2. step' = 10 /\ PartOK'
      BY <3>1 DEF PartOK
    <3>3. QED
      BY <3>1, <3>2 DEF BuildOK, ReadyOK, Down, InitPlaces, BuildPlaces, Detecting, Asking
  <2>6. CASE BuildGuard
    <3>1. /\ main = "init" /\ main' = "init" /\ step' = step + 1 /\ ready' = ready
          /\ part' = [part EXCEPT !["guard"] = "up"]
      BY <2>6 DEF BuildGuard, Building
    <3>2. step = 10
      BY <2>6, NamedSteps DEF BuildGuard
    <3>3. PartOK'
      BY <3>1 DEF PartOK, Stages
    <3>4. step' = 11
      BY <3>1, <3>2
    <3>5. QED
      BY <3>1, <3>3, <3>4 DEF BuildOK, ReadyOK, Down, InitPlaces, BuildPlaces, Detecting, Asking
  <2>7. CASE FinishInit
    BY <2>7 DEF FinishInit, PartOK, BuildOK, ReadyOK, Down, InitPlaces, BuildPlaces, Detecting,
                Asking
  <2>8. CASE PortFound \/ AskUser \/ Answered
    <3>1. /\ main \in Detecting /\ main' \in Detecting \cup {"init"}
          /\ step' = step /\ part' = part /\ ready' = ready
      BY <2>8 DEF Detecting, Asking
    <3>2. step = 1 /\ Down("http") /\ Down("ws") /\ PartOK'
      BY <3>1 DEF BuildOK, PartOK
    <3>3. BuildOK'
      BY <3>1, <3>2 DEF BuildOK, Down, Detecting, Asking
    <3>4. ReadyOK'
      BY <3>1 DEF ReadyOK, InitPlaces, BuildPlaces, Detecting, Asking
    <3>5. QED
      BY <3>2, <3>3, <3>4
  <2>9. QED
    BY <2>1, <2>2, <2>3, <2>4, <2>5, <2>6, <2>7, <2>8
<1>6. QED
  BY <1>2, <1>4, <1>5

(* main() moves on, and where it calls shutdown() an activation begins.     *)
LEMMA MovingKeepsMain ==
  ASSUME MainInv,
         \/ StorageFails \/ (\E c \in Commands : RunOption(c)) \/ OptionDone \/ Interactive
         \/ (\E c \in Commands : Type(c)) \/ CommandReturns \/ Quit \/ Leave
  PROVE  MainInv'
<1> USE DEF MainInv, Uninterrupted
<1>1. /\ stack = <<>> /\ stack' \in {<<>>, <<FirstFrame>>}
      /\ UNCHANGED <<step, part, ready, sigAt>>
  BY DEF StorageFails, Building, RunOption, OptionDone, Interactive, Type, CommandReturns, Quit,
         Leave, LoopTop
<1>2. StackOK' /\ PassedOK' /\ CloseOK' /\ JoinOK'
  BY <1>1, NoActivation, FirstActivation
<1>3. main' \notin InitPlaces /\ (cmd' # "none" => main' \in {"option", "command"})
  BY DEF StorageFails, Building, RunOption, OptionDone, Interactive, Type, CommandReturns, Quit,
         Leave, LoopTop, CallNow, CommandOK, InitPlaces, BuildPlaces, Detecting, Asking
<1>4. main \in InitPlaces => main = "init" /\ step = 1
  <2>1. StorageFails => main = "init" /\ step = 1
    BY NamedSteps DEF StorageFails, Building
  <2>2. ~StorageFails => main \notin InitPlaces
    BY DEF RunOption, OptionDone, Interactive, Type, CommandReturns, Quit, Leave, InitPlaces,
           BuildPlaces, Detecting, Asking
  <2>3. QED
    BY <2>1, <2>2
<1>5. main # "crashed" /\ main' # "crashed"
  BY DEF StorageFails, Building, RunOption, OptionDone, Interactive, Type, CommandReturns, Quit,
         Leave, LoopTop
<1>6. DestroyOK'
  <2>1. main' \in {"gone", "exit"} => main \in {"destroy", "gone"}
    BY DEF StorageFails, RunOption, OptionDone, Interactive, Type, CommandReturns, Quit, Leave,
           LoopTop
  <2>2. main' = "destroy" => stack' # <<>>
    BY EmptySeq DEF StorageFails, RunOption, OptionDone, Interactive, Type, CommandReturns, Quit,
           Leave, LoopTop
  <2>3. QED
    BY <1>1, <2>1, <2>2 DEF DestroyOK, Down
<1>7. PartOK' /\ BuildOK' /\ CommandOK'
  BY <1>1, <1>3, <1>5 DEF PartOK, BuildOK, CommandOK, InitPlaces, BuildPlaces, Detecting, Asking
<1>8. ReadyOK'
  BY <1>1, <1>4, <1>5 DEF ReadyOK, BuildOK, Down, InitPlaces, BuildPlaces, Detecting, Asking
<1>9. QED
  BY <1>2, <1>6, <1>7, <1>8

(* A signal puts an activation on top of main() or of main()'s own.         *)
LEMMA SignalKeepsMain ==
  ASSUME MainInv, Signal
  PROVE  MainInv'
<1> USE DEF MainInv
<1>1. /\ sigAt = "none" /\ main \notin {"exit", "crashed", "gone"}
      /\ stack' = Append(stack, FirstFrame)
      /\ sigAt' = IF stack = <<>> THEN main ELSE Top.phase
      /\ lib' = lib
      /\ UNCHANGED <<main, step, part, ready, cmd>>
  BY DEF Signal, Alive, Uninterrupted, wsVars
<1>2. /\ stack \in Seq(Frame) /\ Len(stack) \in Nat /\ DOMAIN stack = 1 .. Len(stack)
      /\ Len(stack) <= 1
  <2>1. stack \in Seq(Frame) /\ Len(stack) \in Nat /\ DOMAIN stack = 1 .. Len(stack)
    BY LenProperties DEF StackOK
  <2>2. \A k \in DOMAIN stack : stack[k].phase \in {"stop", "join", "close"}
    <3>1. \A k \in DOMAIN stack : stack[k] \in Frame
      BY <2>1, ElementOfSeq
    <3>2. QED
      BY <3>1 DEF Frame
  <2>3. Len(stack) # 2
    BY <1>1, <2>1, <2>2 DEF StackOK
  <2>4. QED
    BY <2>1, <2>3 DEF StackOK
<1>3. /\ stack' \in Seq(Frame) /\ Len(stack') = Len(stack) + 1
      /\ DOMAIN stack' = 1 .. Len(stack) + 1
      /\ \A k \in DOMAIN stack : stack'[k] = stack[k]
      /\ stack'[Len(stack) + 1] = FirstFrame
  BY <1>1, <1>2, FirstFrameTyped, AppendProperties
<1>4. /\ stack' # <<>>
      /\ \A k \in DOMAIN stack' :
           k \in DOMAIN stack \/ (stack'[k].at = 1 /\ stack'[k].phase = "stop")
  BY <1>2, <1>3, EmptySeq DEF FirstFrame
<1>5. StackOK'
  <2>1. SUFFICES ASSUME Len(stack') = 2 PROVE sigAt' = stack'[1].phase
    BY <1>2, <1>3 DEF StackOK
  <2>2. Len(stack) = 1
    <3>1. ASSUME NEW m \in Nat, NEW n, n = m + 1, n = 2  PROVE m = 1
      BY <3>1
    <3>2. Len(stack) \in Nat
      BY <1>2
    <3>3. Len(stack') = Len(stack) + 1
      BY <1>3
    <3> QED  BY <2>1, <3>1, <3>2, <3>3
  <2>4. 1 \in DOMAIN stack /\ stack # <<>>
    BY <1>2, <2>2, EmptySeq
  <2>5. stack'[1] = stack[1]
    BY <1>3, <2>4
  <2>3. QED
    BY <1>1, <2>2, <2>4, <2>5 DEF Top, Depth
<1>6. PassedOK'
  BY <1>1, <1>3, <1>4, Positions DEF PassedOK, Down
<1>7. CloseOK'
  BY <1>1, <1>3, <1>4 DEF CloseOK
<1>8. JoinOK'
  <2>1. SUFFICES ASSUME NEW k \in DOMAIN stack, stack[k].phase \in {"join", "close"}
                 PROVE  stack[k].at < 8 /\ part[StopOrder[stack[k].at]] = "stopping"
    BY <1>1, <1>3, <1>4 DEF JoinOK
  <2>2. QED
    BY <1>1, <2>1 DEF JoinOK
<1>9. PartOK' /\ BuildOK' /\ ReadyOK' /\ DestroyOK' /\ CommandOK'
  BY <1>1, <1>4 DEF PartOK, BuildOK, ReadyOK, DestroyOK, CommandOK, Down
<1>10. QED
  BY <1>5, <1>6, <1>7, <1>8, <1>9

(* What the other threads do, the end of the program in a step of its own,  *)
(* and a signal that comes too late.                                        *)
LEMMA RestKeepsMain ==
  ASSUME MainInv, UNCHANGED <<step, stack, part, ready, cmd>>,
         lib = "off" => lib' = "off",
         \/ (main' = main \/ main' = "crashed") /\ UNCHANGED sigAt
         \/ main = "gone" /\ main' = "crashed" /\ sigAt = "none" /\ sigAt' = "gone"
  PROVE  MainInv'
<1> USE DEF MainInv
<1>1. CASE (main' = main \/ main' = "crashed") /\ UNCHANGED sigAt
  <2>1. PartOK' /\ StackOK' /\ PassedOK' /\ CloseOK' /\ JoinOK'
    BY <1>1 DEF PartOK, StackOK, PassedOK, CloseOK, JoinOK, Down
  <2>2. BuildOK' /\ DestroyOK' /\ CommandOK' /\ ReadyOK'
    BY <1>1 DEF BuildOK, DestroyOK, CommandOK, ReadyOK, Down, InitPlaces, BuildPlaces, Detecting,
                Asking
  <2>3. QED
    BY <2>1, <2>2
<1>2. CASE main = "gone" /\ main' = "crashed" /\ sigAt = "none" /\ sigAt' = "gone"
  <2>1. Len(stack) # 2
    <3>1. ASSUME Len(stack) = 2 PROVE FALSE
      <4>1. stack[1] \in Frame
        BY <3>1, ElementOfSeq DEF StackOK
      <4>2. QED
        BY <1>2, <3>1, <4>1 DEF StackOK, Frame
    <3>2. QED
      BY <3>1
  <2>2. PartOK' /\ StackOK' /\ PassedOK' /\ CloseOK'
    BY <1>2, <2>1 DEF PartOK, StackOK, PassedOK, CloseOK, Down
  <2>3. JoinOK'
    BY <1>2 DEF JoinOK
  <2>4. BuildOK' /\ DestroyOK' /\ ReadyOK' /\ CommandOK'
    BY <1>2 DEF BuildOK, DestroyOK, ReadyOK, CommandOK, Down, InitPlaces, BuildPlaces, Detecting,
                Asking
  <2>5. QED
    BY <2>2, <2>3, <2>4
<1>3. QED
  BY <1>1, <1>2

(* Every step keeps MainInv.                                                *)
LEMMA MainInvNext ==
  ASSUME MainInv, HandsOK, [Next]_vars
  PROVE  MainInv'
<1>1. CASE \/ PortFound \/ AskUser \/ Answered
           \/ (\E p \in Parts : BuildPart(p))
           \/ BuildHttp \/ HttpWaitEnds \/ BuildWs \/ WsWaitEnds \/ BuildGuard \/ FinishInit
  BY <1>1, BuildingKeepsMain
<1>2. CASE \/ StorageFails \/ (\E c \in Commands : RunOption(c)) \/ OptionDone \/ Interactive
           \/ (\E c \in Commands : Type(c)) \/ CommandReturns \/ Quit \/ Leave
  BY <1>2, MovingKeepsMain
<1>3. CASE StopPart \/ Join \/ Close \/ CloseUnderMain \/ Finish
  BY <1>3, StopPartKeepsMain, JoinKeepsMain, CloseKeepsMain, FinishKeepsMain
<1>4. CASE Signal
  BY <1>4, SignalKeepsMain
<1>5. CASE SignalTooLate \/ Crash \/ Undo \/ NoDatabase
  BY <1>5, RestKeepsMain DEF SignalTooLate, Crash, Undo, NoDatabase, Moved, wsVars
<1>6. CASE \/ HttpThread \/ (\E h \in Requests : Request(h))
           \/ Guarding \/ (\E p \in Pids : Machine(p))
           \/ (\E w \in DOMAIN ThreadUses : Work(w) \/ WorkDone(w))
           \/ (\E w \in Untimed : WokenUp(w))
           \/ UNCHANGED vars
  BY <1>6, RestKeepsMain
     DEF HttpThread, Request, Guarding, Machine, Work, WorkDone, WokenUp, OnlyHttp, OnlyGuard,
         OnlyWork, vars, mainVars, wsVars
<1>7. CASE WsThread \/ Connection \/ (\E e \in Events : Event(e))
  <2>1. UNCHANGED mainVars
    BY <1>7 DEF WsThread, Connection, Event, OnlyWs
  <2>2. lib = "off" => lib' = "off"
    BY <1>7 DEF WsThread, Connection, Event, Open, Closed, Payload, Hand, Handled, LibraryEnds
  <2>3. QED
    BY <2>1, <2>2, RestKeepsMain DEF mainVars
<1>8. QED
  BY <1>1, <1>2, <1>3, <1>4, <1>5, <1>6, <1>7 DEF Next, MainStep

-----------------------------------------------------------------------------
(* The threads. *)

(* What shutdown() knows of a thread when it takes it for joined.           *)
LEMMA WhenDown ==
  ASSUME MainInv, Join \/ Close \/ CloseUnderMain, NEW p \in Parts,
         part'[p] \in {"none", "stopped"}
  PROVE  \/ Down(p)
         \/ /\ p = "http" => HttpEnded
            /\ p = "ws" => WsEnded
            /\ p = "guard" => GuardEnded
            /\ p \in {"processor", "summarizer"} => p \notin busy
<1> USE DEF MainInv
<1>1. ShuttingDown /\ Top.phase \in {"join", "close"}
  BY DEF Join, Close, CloseUnderMain
<1>2. P \in Parts /\ Top.at \in 1 .. 8 /\ Depth \in DOMAIN stack
  BY <1>1, TopTyped
<1>3. part'[p] = part[p] \/ p = P
  BY <1>2 DEF Join, Close, CloseUnderMain, Stopped, PartOK
<1>4. CASE p # P
  BY <1>3, <1>4 DEF Down
<1>5. CASE p = P /\ Join
  BY <1>5 DEF Join, Ended
<1>6. CASE p = P /\ (Close \/ CloseUnderMain)
  <2>1. Top.at \in {2, 7} /\ (Top.at = 2 => lib = "off")
    BY <1>2, <1>6 DEF Close, CloseUnderMain, CloseOK, Top
  <2>2. (p = "ws" /\ lib = "off") \/ p = "sqlite"
    BY <1>6, <2>1, Positions DEF P
  <2>3. QED
    BY <2>2 DEF WsEnded
<1>7. QED
  BY <1>4, <1>5, <1>6

(* Who acts on what.                                                        *)
LEMMA Actors ==
  ASSUME [Next]_vars
  PROVE  /\ \/ BuildHttp \/ StopPart \/ HttpThread \/ (\E h \in Requests : Request(h))
            \/ UNCHANGED httpVars
         /\ \/ BuildWs \/ StopPart \/ Close \/ WsThread \/ Connection
            \/ (\E e \in Events : Event(e))
            \/ UNCHANGED wsVars
         /\ \/ BuildGuard \/ StopPart \/ Guarding \/ (\E p \in Pids : Machine(p))
            \/ UNCHANGED guardVars
         /\ (\E w \in DOMAIN ThreadUses : Work(w) \/ WorkDone(w)) \/ UNCHANGED busy
         /\ \/ (\E p \in Parts : BuildPart(p)) \/ BuildHttp \/ BuildWs \/ BuildGuard
            \/ StopPart \/ Join \/ Close \/ CloseUnderMain \/ Finish
            \/ UNCHANGED part
<1>1. CASE \/ (\E p \in Parts : BuildPart(p)) \/ StorageFails
           \/ BuildHttp \/ HttpWaitEnds \/ BuildWs \/ WsWaitEnds \/ BuildGuard \/ FinishInit
  BY <1>1 DEF BuildPart, StorageFails, BuildHttp, HttpWaitEnds, BuildWs, WsWaitEnds, BuildGuard,
              FinishInit
<1>2. CASE \/ (\E c \in Commands : RunOption(c)) \/ OptionDone \/ Interactive
           \/ (\E c \in Commands : Type(c)) \/ CommandReturns \/ Quit \/ Leave
  BY <1>2 DEF RunOption, OptionDone, Interactive, Type, CommandReturns, Quit, Leave
<1>3. CASE \/ PortFound \/ AskUser \/ Answered
           \/ StopPart \/ Join \/ Close \/ CloseUnderMain \/ Finish \/ Crash \/ Undo \/ NoDatabase
  BY <1>3 DEF PortFound, AskUser, Answered, StopPart, Join, Close, CloseUnderMain, Finish, Crash,
              Undo, NoDatabase, Moved
<1>4. CASE Signal \/ SignalTooLate \/ UNCHANGED vars
  BY <1>4 DEF Signal, SignalTooLate, vars, mainVars
<1>5. CASE HttpThread \/ (\E h \in Requests : Request(h))
  BY <1>5 DEF HttpThread, Request, OnlyHttp, mainVars
<1>6. CASE WsThread \/ Connection \/ (\E e \in Events : Event(e))
  BY <1>6 DEF WsThread, Connection, Event, OnlyWs, mainVars
<1>7. CASE Guarding \/ (\E p \in Pids : Machine(p))
  BY <1>7 DEF Guarding, Machine, OnlyGuard, mainVars
<1>8. CASE \/ (\E w \in DOMAIN ThreadUses : Work(w) \/ WorkDone(w))
           \/ (\E w \in Untimed : WokenUp(w))
  BY <1>8 DEF Work, WorkDone, WokenUp, OnlyWork
<1>9. QED
  BY <1>1, <1>2, <1>3, <1>4, <1>5, <1>6, <1>7, <1>8 DEF Next, MainStep

(* What goes down had its thread joined; what is built is not down.         *)
LEMMA DownSince ==
  ASSUME MainInv, [Next]_vars, NEW p \in Parts, p # "redis", part'[p] \in {"none", "stopped"}
  PROVE  \/ Down(p)
         \/ /\ p = "http" => HttpEnded
            /\ p = "ws" => WsEnded
            /\ p = "guard" => GuardEnded
            /\ p \in {"processor", "summarizer"} => p \notin busy
<1> USE DEF MainInv
<1>1. CASE Join \/ Close \/ CloseUnderMain
  BY <1>1, WhenDown
<1>2. CASE (\E q \in Parts : BuildPart(q)) \/ BuildHttp \/ BuildWs \/ BuildGuard
  <2>1. PICK q \in Parts : part' = [part EXCEPT ![q] = "up"]
    BY <1>2, InitOrderIs DEF BuildPart, BuildHttp, BuildWs, BuildGuard
  <2>2. p # q /\ part'[p] = part[p]
    BY <2>1 DEF PartOK
  <2>3. QED
    BY <2>2 DEF Down
<1>3. CASE StopPart
  <2>1. ShuttingDown
    BY <1>3 DEF StopPart
  <2>2. P \in Parts
    BY <2>1, TopTyped
  <2>3. part' = part \/ part' = [part EXCEPT ![P] = "stopping"]
    BY <1>3, <2>2 DEF StopPart, Skip, AskToStop, HasThread, PartOK
  <2>4. part'[p] = part[p]
    BY <2>2, <2>3 DEF PartOK
  <2>5. QED
    BY <2>4 DEF Down
<1>4. CASE Finish
  BY <1>4 DEF Finish, PartOK, Down
<1>5. CASE UNCHANGED part
  BY <1>5 DEF Down
<1>6. QED
  BY <1>1, <1>2, <1>3, <1>4, <1>5, Actors

(* A thread that has ended, or has nothing to do, is started by initialize()*)
(* or by work that comes.                                                   *)
LEMMA StartedBy ==
  ASSUME [Next]_vars
  PROVE  /\ HttpEnded => HttpEnded' \/ BuildHttp
         /\ WsEnded => WsEnded' \/ BuildWs
         /\ GuardEnded => GuardEnded' \/ BuildGuard
         /\ \A w \in busy' : w \in busy \/ (w \in DOMAIN ThreadUses /\ part'[w] = "up")
<1>1. HttpEnded => HttpEnded' \/ BuildHttp
  BY Actors DEF StopPart, Skip, AskToStop, StopListening, HttpThread, Bind, ListenReturns, Enter,
                Return, Request, Accept, httpVars, HttpEnded
<1>2. WsEnded => WsEnded' \/ BuildWs
  BY Actors DEF StopPart, Skip, AskToStop, StopWs, Close, ResetWs, WsThread, Hand, Handled,
                LibraryEnds, Connection, Open, Closed, Event, Payload, wsVars, WsEnded
<1>3. GuardEnded => GuardEnded' \/ BuildGuard
  BY Actors DEF StopPart, Skip, AskToStop, ClearGuard, Guarding, GuardThread, GuardLooks,
                ScanEnds, Note, AllNoted, GuardWakes, ReadEntry, Machine, ProcessChange,
                guardVars, GuardEnded
<1>4. \A w \in busy' : w \in busy \/ (w \in DOMAIN ThreadUses /\ part'[w] = "up")
  BY Actors DEF Work, WorkDone, OnlyWork
<1>5. QED
  BY <1>1, <1>2, <1>3, <1>4

LEMMA Workers ==
  DOMAIN ThreadUses = {"processor", "summarizer"} /\ DOMAIN ThreadUses \subseteq Parts
  BY DEF ThreadUses, Parts, InitOrder

(* Nothing starts a thread of a part that is down.                          *)
LEMMA QuietNext ==
  ASSUME MainInv, QuietOK, [Next]_vars
  PROVE  QuietOK'
<1> USE DEF MainInv
<1>1. Down("http")' => HttpEnded'
  <2>1. SUFFICES ASSUME part'["http"] \in {"none", "stopped"} PROVE HttpEnded'
    BY DEF Down
  <2>2. HttpEnded
    BY <2>1, DownSince, InitOrderIs DEF QuietOK
  <2>3. ~BuildHttp
    BY <2>1, InitOrderIs DEF BuildHttp, PartOK
  <2>4. QED
    BY <2>2, <2>3, StartedBy
<1>2. Down("ws")' => WsEnded'
  <2>1. SUFFICES ASSUME part'["ws"] \in {"none", "stopped"} PROVE WsEnded'
    BY DEF Down
  <2>2. WsEnded
    BY <2>1, DownSince, InitOrderIs DEF QuietOK
  <2>3. ~BuildWs
    BY <2>1, InitOrderIs DEF BuildWs, PartOK
  <2>4. QED
    BY <2>2, <2>3, StartedBy
<1>3. Down("guard")' => GuardEnded'
  <2>1. SUFFICES ASSUME part'["guard"] \in {"none", "stopped"} PROVE GuardEnded'
    BY DEF Down
  <2>2. GuardEnded
    BY <2>1, DownSince, InitOrderIs DEF QuietOK
  <2>3. ~BuildGuard
    BY <2>1, InitOrderIs DEF BuildGuard, PartOK
  <2>4. QED
    BY <2>2, <2>3, StartedBy
<1>4. busy' \subseteq DOMAIN ThreadUses
  BY StartedBy DEF QuietOK
<1>5. \A w \in DOMAIN ThreadUses : Down(w)' => w \notin busy'
  <2>1. SUFFICES ASSUME NEW w \in DOMAIN ThreadUses, part'[w] \in {"none", "stopped"}
                 PROVE  w \notin busy'
    BY DEF Down
  <2>2. w \notin busy
    BY <2>1, DownSince, Workers DEF QuietOK
  <2>3. QED
    BY <2>1, <2>2, StartedBy
<1>6. QED
  BY <1>1, <1>2, <1>3, <1>4, <1>5 DEF QuietOK

(* A request is under way only while the server listens or waits for it, an *)
(* event only in an open connection, and ws_ is there while its thread is.  *)
LEMMA HandsNext ==
  ASSUME MainInv, QuietOK, HandsOK, [Next]_vars
  PROVE  HandsOK'
<1> USE DEF MainInv
<1>1. /\ inside' => calls' # <<>>
      /\ http' \notin {"listening", "closing"} => calls' = <<>>
  <2>1. CASE BuildHttp
    BY <2>1 DEF BuildHttp, StartHttp, HandsOK
  <2>2. CASE StopPart
    BY <2>2 DEF StopPart, Skip, AskToStop, StopListening, httpVars, HandsOK
  <2>3. CASE HttpThread
    <3>1. CASE Bind \/ ListenReturns
      BY <3>1 DEF Bind, ListenReturns, HandsOK
    <3>2. CASE calls # <<>> /\ Enter(Admits(Head(calls)))
      BY <3>2 DEF Enter, HandsOK
    <3>3. CASE Return
      BY <3>3 DEF Return, HandsOK
    <3>4. QED
      BY <2>3, <3>1, <3>2, <3>3 DEF HttpThread
  <2>4. CASE \E h \in Requests : Request(h)
    BY <2>4 DEF Request, Accept, HandsOK
  <2>5. CASE UNCHANGED httpVars
    BY <2>5 DEF httpVars, HandsOK
  <2>6. QED
    BY <2>1, <2>2, <2>3, <2>4, <2>5, Actors
<1>2. (lib' # "open" => Idle') /\ CallbacksHaveSocket'
  <2> USE DEF HandsOK, Idle, CallbacksHaveSocket
  <2>1. CASE BuildWs
    <3>1. Down("ws")
      <4>1. main = "init" /\ step = 9
        BY <2>1, NamedSteps DEF BuildWs, Building
      <4>2. QED
        BY <4>1 DEF BuildOK
    <3>2. lib = "off"
      BY <3>1 DEF QuietOK, WsEnded
    <3>3. QED
      BY <2>1, <3>2 DEF BuildWs, StartWs
  <2>2. CASE StopPart
    BY <2>2 DEF StopPart, Skip, AskToStop, StopWs, wsVars
  <2>3. CASE Close
    <3>1. ShuttingDown /\ Top.phase = "close"
      BY <2>3 DEF Close
    <3>2. Depth \in DOMAIN stack /\ Top.at \in 1 .. 8
      BY <3>1, TopTyped
    <3>3. P = "ws" => lib = "off"
      BY <3>1, <3>2, Positions DEF CloseOK, Top, P
    <3>4. QED
      BY <2>3, <3>3 DEF Close, ResetWs, wsVars
  <2>4. CASE WsThread
    BY <2>4 DEF WsThread, Hand, Handled, LibraryEnds
  <2>5. CASE Connection \/ (\E e \in Events : Event(e))
    BY <2>5 DEF Connection, Open, Closed, Event, Payload
  <2>6. CASE UNCHANGED wsVars
    BY <2>6 DEF wsVars
  <2>7. QED
    BY <2>1, <2>2, <2>3, <2>4, <2>5, <2>6, Actors
<1>3. QED
  BY <1>1, <1>2 DEF HandsOK

LEMMA InvInit ==
  ASSUME Init
  PROVE  Inv
<1>1. StackOK /\ PassedOK /\ CloseOK /\ JoinOK
  <2>1. stack \in Seq(Frame) /\ Len(stack) = 0 /\ DOMAIN stack = {}
    BY EmptySeq, LenProperties DEF Init
  <2>2. QED
    BY <2>1 DEF StackOK, PassedOK, CloseOK, JoinOK
<1>2. PartOK /\ BuildOK /\ DestroyOK /\ CommandOK /\ ReadyOK
  BY InitOrderIs DEF Init, PartOK, BuildOK, DestroyOK, CommandOK, ReadyOK, Stages, Down,
                     InitPlaces, BuildPlaces, Detecting, Asking
<1>3. QuietOK
  BY DEF Init, HttpInit, WsInit, GuardInit, QuietOK, HttpEnded, WsEnded, GuardEnded
<1>4. HandsOK
  BY DEF Init, HttpInit, WsInit, HandsOK, Idle, CallbacksHaveSocket
<1>5. QED
  BY <1>1, <1>2, <1>3, <1>4 DEF Inv, MainInv

THEOREM LifeCycleInvariant == Spec => []Inv
<1>1. Inv /\ [Next]_vars => Inv'
  BY MainInvNext, QuietNext, HandsNext DEF Inv
<1>2. QED
  BY InvInit, <1>1, PTL DEF Spec

-----------------------------------------------------------------------------
(* Theorems *)

(* Wherever a signal comes, also in the middle of initialize() or of        *)
(* another shutdown(): when main() is left, every thread that initialize()  *)
(* started has been joined and no request or event is cut off.              *)
THEOREM NothingRunsAtTheEnd == Spec => []NothingRunsAtExit
<1>1. Inv => NothingRunsAtExit
  <2>1. SUFFICES ASSUME Inv, main \in {"gone", "exit"}
                 PROVE  /\ HttpEnded /\ WsEnded /\ GuardEnded /\ busy = {}
                        /\ calls = <<>> /\ Idle
    BY DEF NothingRunsAtExit
  <2>2. Down("http") /\ Down("ws") /\ Down("guard") /\ Down("summarizer") /\ Down("processor")
    BY <2>1, Positions DEF Inv, MainInv, DestroyOK
  <2>3. HttpEnded /\ WsEnded /\ GuardEnded
    BY <2>1, <2>2 DEF Inv, QuietOK
  <2>4. busy = {}
    BY <2>1, <2>2, Workers DEF Inv, QuietOK
  <2>5. calls = <<>> /\ Idle
    BY <2>1, <2>3 DEF Inv, HandsOK, HttpEnded, WsEnded
  <2>6. QED
    BY <2>3, <2>4, <2>5
<1>2. QED
  BY LifeCycleInvariant, <1>1, PTL

(* The callbacks of the websocket never run without their object.           *)
THEOREM CallbacksFindSocket == Spec => []CallbacksHaveSocket
<1>1. Inv => CallbacksHaveSocket
  BY DEF Inv, HandsOK
<1>2. QED
  BY LifeCycleInvariant, <1>1, PTL

(* A message that a client or the websocket delivers is passed over only    *)
(* while initialize() is not finished: ready_ is closed again when the      *)
(* callers are gone.                                                        *)
THEOREM DropsAreEarly == Spec => DropsOnlyBeforeReady
<1>1. Inv /\ [Next]_vars => [TurnedAway => main \in InitPlaces]_vars
  <2>1. SUFFICES ASSUME Inv, [Next]_vars, TurnedAway PROVE main \in InitPlaces
    OBVIOUS
  <2>2. CASE calls # <<>> /\ ~inside /\ calls' # calls
    <3>1. HttpThread
      <4>1. ~BuildHttp /\ calls' # calls
        BY <2>2 DEF BuildHttp, StartHttp
      <4>2. ~StopPart
        BY <2>2 DEF StopPart, Skip, AskToStop, StopListening, httpVars
      <4>3. ~(\E h \in Requests : Request(h))
        BY <2>2 DEF Request, Accept
      <4>4. ~UNCHANGED httpVars
        BY <2>2 DEF httpVars
      <4>5. QED
        BY <2>1, <4>1, <4>2, <4>3, <4>4, Actors
    <3>2. Alive /\ ~ready
      BY <2>2, <3>1 DEF HttpThread, OnlyHttp, Bind, ListenReturns, Enter, Return, Admits
    <3>3. ~Down("http")
      BY <2>1, <2>2 DEF Inv, QuietOK, HandsOK, HttpEnded
    <3>4. QED
      BY <2>1, <3>2, <3>3 DEF Inv, MainInv, ReadyOK, Alive
  <2>3. CASE ~Idle /\ ~handed /\ event' = "none"
    <3>1. WsThread \/ Connection \/ \E e \in Events : Event(e)
      <4>1. ~BuildWs /\ event' # event
        BY <2>3 DEF BuildWs, StartWs, Idle
      <4>2. ~StopPart /\ ~Close
        BY <4>1 DEF StopPart, Skip, AskToStop, StopWs, Close, ResetWs, wsVars
      <4>3. ~UNCHANGED wsVars
        BY <4>1 DEF wsVars
      <4>4. QED
        BY <2>1, <4>1, <4>2, <4>3, Actors
    <3>2. Alive /\ ~ready
      BY <2>3, <3>1 DEF WsThread, Connection, Event, OnlyWs, Open, Closed, Payload, Hand, Handled,
                        LibraryEnds, Admits, Idle
    <3>3. ~Down("ws")
      BY <2>1, <2>3 DEF Inv, QuietOK, HandsOK, WsEnded
    <3>4. QED
      BY <2>1, <3>2, <3>3 DEF Inv, MainInv, ReadyOK, Alive
  <2>4. QED
    BY <2>1, <2>2, <2>3 DEF TurnedAway
<1>2. QED
  BY LifeCycleInvariant, <1>1, PTL DEF Spec, DropsOnlyBeforeReady

(* current_status_ is a sequence, whatever the scans find.                  *)
StatusOK == (\E S : status \in Seq(S)) /\ OneEntryPerName

LEMMA NoteKeepsStatus ==
  ASSUME StatusOK, Note
  PROVE  StatusOK'
<1> DEFINE e  == Head(found)
           at == {i \in DOMAIN status : status[i].name = e.name}
<1>1. PICK S : status \in Seq(S) /\ e \in S
  <2>1. PICK T : status \in Seq(T)
    BY DEF StatusOK
  <2>2. status \in Seq(T \cup {e})
    BY <2>1
  <2>3. QED
    BY <2>2
<1>2. Len(status) \in Nat /\ DOMAIN status = 1 .. Len(status)
  BY <1>1, LenProperties
<1>3. CASE at = {}
  <2>1. status' = Append(status, e)
    BY <1>3 DEF Note
  <2>2. /\ status' \in Seq(S) /\ DOMAIN status' = 1 .. Len(status) + 1
        /\ \A i \in DOMAIN status : status'[i] = status[i]
        /\ status'[Len(status) + 1] = e
    BY <1>1, <1>2, <2>1, AppendProperties, LenProperties
  <2>3. \A i \in DOMAIN status : status'[i].name # e.name
    BY <1>3, <2>2
  <2>4. \A i, j \in DOMAIN status' : status'[i].name = status'[j].name => i = j
    BY <1>2, <2>2, <2>3 DEF StatusOK, OneEntryPerName
  <2>5. QED
    BY <2>2, <2>4 DEF StatusOK, OneEntryPerName
<1>4. CASE at # {}
  <2>1. PICK i \in DOMAIN status : at = {i}
    BY <1>4 DEF StatusOK, OneEntryPerName
  <2>2. i = CHOOSE k \in at : \A j \in at : k <= j
    BY <1>2, <2>1
  <2>3. status' = [status EXCEPT ![i] = e] /\ status[i].name = e.name
    BY <1>4, <2>1, <2>2 DEF Note
  <2>4. status' \in Seq(S) /\ DOMAIN status' = DOMAIN status
    BY <1>1, <1>2, <2>3, ExceptSeq
  <2>5. \A j \in DOMAIN status : status'[j].name = status[j].name
    BY <2>3
  <2>6. QED
    BY <2>4, <2>5 DEF StatusOK, OneEntryPerName
<1>5. QED
  BY <1>3, <1>4

LEMMA StatusNext ==
  ASSUME StatusOK, [Next]_vars
  PROVE  StatusOK'
<1>1. CASE Note
  BY <1>1, NoteKeepsStatus
<1>2. CASE ~Note
  <2>1. status' = status
    BY <1>2, Actors
       DEF BuildGuard, StartGuard, StopPart, Skip, AskToStop, ClearGuard, Guarding, GuardThread,
           GuardLooks, ScanEnds, AllNoted, GuardWakes, ReadEntry, Machine, ProcessChange, guardVars
  <2>2. QED
    BY <2>1 DEF StatusOK, OneEntryPerName
<1>3. QED
  BY <1>1, <1>2

(* However often and in whatever order the scans find processes of a name,  *)
(* guard_loop keeps one entry of current_status_ for it.                    *)
THEOREM EntriesAreDistinct == Spec => []OneEntryPerName
<1>1. Init => StatusOK
  BY EmptySeq DEF Init, GuardInit, StatusOK, OneEntryPerName
<1>2. StatusOK => OneEntryPerName
  BY DEF StatusOK
<1>3. QED
  BY <1>1, <1>2, StatusNext, PTL DEF Spec

-----------------------------------------------------------------------------
(* Who is at work finds its parts. *)

(* initialize() has built what comes before its step, and nothing after it. *)
BuiltOK ==
  /\ step \in 1 .. Len(InitOrder) + 1
  /\ \A i \in DOMAIN InitOrder :
       /\ i < step => part[InitOrder[i]] # "none"
       /\ i > step => part[InitOrder[i]] = "none"
  /\ main \in Detecting => part["sqlite"] = "none"
  /\ main = "http_wait" => part["http"] # "none"
  /\ main = "ws_wait" => part["ws"] # "none"

(* What an activation joins or closes was built; two parts are never        *)
(* stopped.                                                                 *)
StoppedOK ==
  /\ \A k \in DOMAIN stack :
       stack[k].phase \in {"join", "close"} => part[StopOrder[stack[k].at]] # "none"
  /\ \A p \in {"query", "providers"} : part[p] \in {"none", "up"}

(* Unless a signal came while initialize() built the parts, a part is asked *)
(* to stop when what is stopped before it is down, and not before all parts *)
(* are built.                                                               *)
Stopping(p) == part[p] \in {"stopping", "stopped"}
OrderOK ==
  sigAt \notin BuildPlaces =>
    /\ \A i, j \in DOMAIN StopOrder : i < j /\ Stopping(StopOrder[j]) => Down(StopOrder[i])
    /\ main \in InitPlaces =>
         /\ stack # <<>> => main \in Detecting /\ sigAt \in Detecting
         /\ sigAt \in Detecting \cup {"none"} /\ \A p \in Parts : ~Stopping(p)

(* The calls under way are calls that the handlers make.                    *)
CallsOK ==
  /\ calls \in Seq(Calls)
  /\ event \in Events \cup {"none"}
  /\ handed => ~Idle

(* What a signal caught main() in, below the handler's activation.          *)
InnerOK ==
  /\ inner # "none" => stack # <<>> \/ main = "crashed"
  /\ inner # "none" /\ main = "init" => sigAt = "init"
  /\ inner = "redis" => sigAt \in {"option", "command", "init"}
  /\ inner = "sqlite" => sigAt \in {"option", "command", "init", "close"}
  /\ lostDb => sigAt = "init"

(* A call of main()'s that ready_ let pass finds the database, or a signal  *)
(* came in the middle of it.                                                *)
AdmittedOK ==
  /\ cmd # "none" /\ stack # <<>> => sigAt \in {"option", "command"} \/ main = "crashed"
  /\ stack = <<>> /\ sigAt \notin BuildPlaces =>
       /\ ready => ~Stopping("sqlite")
       /\ cmd = "cleanup_old_data" => ~Stopping("sqlite") \/ sigAt \in {"option", "command"}

UsersInv ==
  Inv /\ BuiltOK /\ StoppedOK /\ OrderOK /\ CallsOK /\ InnerOK /\ AdmittedOK

(* The parts that calls need are built before the HTTP server and stopped   *)
(* after the websocket client.                                              *)
Served == {"processor", "query", "sqlite", "redis", "providers", "summarizer"}

LEMMA InOrder ==
  /\ DOMAIN InitOrder = 1 .. 10 /\ DOMAIN StopOrder = 1 .. 8
  /\ InitOrder[1] = "sqlite" /\ InitOrder[2] = "providers" /\ InitOrder[3] = "redis"
  /\ InitOrder[4] = "ollama" /\ InitOrder[5] = "processor" /\ InitOrder[6] = "query"
  /\ InitOrder[7] = "summarizer" /\ InitOrder[8] = "http" /\ InitOrder[9] = "ws"
  /\ InitOrder[10] = "guard"
  /\ StopOrder[6] = "ollama"
  /\ \A i \in 1 .. 10 : InitOrder[i] \in Parts
  /\ \A i, j \in 1 .. 10 : InitOrder[i] = InitOrder[j] => i = j
  /\ Parts = {"sqlite", "providers", "redis", "ollama", "processor", "query", "summarizer",
              "http", "ws", "guard"}
BY DEF InitOrder, StopOrder, Parts

LEMMA UsesTyped ==
  /\ \A c \in DOMAIN Uses : Uses[c] \subseteq Served
  /\ Events \subseteq DOMAIN Uses
<1>1. \A c \in DOMAIN GatedUses : GatedUses[c] \subseteq Served
  BY DEF GatedUses, Served
<1>2. \A c \in DOMAIN UngatedUses : UngatedUses[c] \subseteq Served
  BY DEF UngatedUses, Served
<1>3. Events \subseteq DOMAIN GatedUses
  BY DEF Events, GatedUses
<1> QED  BY <1>1, <1>2, <1>3 DEF Uses, IsGated

(* What a handler calls, ChatDatabase has.                                  *)
Handlers(group) == \A h \in DOMAIN group : \/ \E c \in DOMAIN Uses : group[h] = <<c>>
                                           \/ \E c, d \in DOMAIN Uses : group[h] = <<c, d>>

LEMMA HandlersTyped ==
  /\ \A h \in DOMAIN Handler : Handler[h] \in Seq(Calls)
  /\ Calls \subseteq DOMAIN Uses
<1>1. Handlers(MessageHandlers)
  BY DEF Handlers, MessageHandlers, Uses, GatedUses, UngatedUses
<1>2. Handlers(SearchHandlers)
  BY DEF Handlers, SearchHandlers, Uses, GatedUses, UngatedUses
<1>3. Handlers(MemoryHandlers)
  BY DEF Handlers, MemoryHandlers, Uses, GatedUses, UngatedUses
<1>4. Handlers(ProviderHandlers)
  BY DEF Handlers, ProviderHandlers, Uses, GatedUses, UngatedUses
<1>5. Handlers(SystemHandlers)
  BY DEF Handlers, SystemHandlers, Uses, GatedUses, UngatedUses
<1>6. Handlers(Handler)
  BY <1>1, <1>2, <1>3, <1>4, <1>5 DEF Handlers, Handler
<1> QED  BY <1>6 DEF Handlers, Calls

(* How a step changes the life of a part.                                   *)
Builds ==
  \E p \in Parts :
    /\ main \in BuildPlaces /\ main' \in BuildPlaces /\ stack = <<>> /\ stack' = stack
    /\ UNCHANGED sigAt
    /\ step \in DOMAIN InitOrder /\ p = InitOrder[step] /\ part' = [part EXCEPT ![p] = "up"]
    /\ \/ step' = step + 1 /\ main' = "init"
       \/ step' = step /\ <<main', p>> \in {<<"http_wait", "http">>, <<"ws_wait", "ws">>}
Stops ==
  /\ ShuttingDown /\ part[P] # "none" /\ UNCHANGED <<step, sigAt>>
  /\ main' = main \/ main' = "crashed"
  /\ \/ part[P] \in {"up", "stopping"} /\ part' = [part EXCEPT ![P] = "stopping"]
     \/ part' = [part EXCEPT ![P] = "stopped"]
(* A port is found, the wait of the HTTP server's or the websocket's start  *)
(* ends, initialize() fails, or main() is somewhere else.                   *)
MovesOn ==
  /\ part' = part
  /\ \/ /\ UNCHANGED <<step, main>>
        /\ \/ UNCHANGED <<stack, sigAt>>
           \/ ShuttingDown /\ (sigAt' = sigAt \/ sigAt = "none")
           \/ stack = <<>> /\ sigAt' = main
     \/ step' = step /\ main' \notin InitPlaces
     \/ /\ main \in {"http_wait", "ws_wait"} /\ main' = "init" /\ step' = step + 1
        /\ stack = <<>> /\ UNCHANGED <<stack, sigAt>>
     \/ /\ main \in Detecting /\ main' \in Detecting \cup {"init"} /\ step' = step
        /\ stack = <<>> /\ UNCHANGED <<stack, sigAt>>

LEMMA PartChanges ==
  ASSUME MainInv, BuiltOK, StoppedOK, [Next]_vars
  PROVE  Builds \/ Stops \/ Finish \/ MovesOn
<1> USE DEF MainInv
<1>1. ASSUME NEW p \in Parts, BuildPart(p)  PROVE Builds
  <2>1. /\ main = "init" /\ stack = <<>> /\ step <= 10 /\ p = InitOrder[step]
        /\ part' = [part EXCEPT ![p] = "up"] /\ step' = step + 1
        /\ UNCHANGED <<main, stack, sigAt>>
    BY <1>1, InitOrderIs DEF BuildPart, Building, Uninterrupted
  <2>2. step \in DOMAIN InitOrder
    BY <2>1, InOrder, InitOrderIs DEF BuiltOK
  <2> QED  BY <2>1, <2>2 DEF Builds, InitPlaces, BuildPlaces, Detecting, Asking
<1>2. CASE BuildHttp
  BY <1>2, InOrder, InitOrderIs DEF BuildHttp, Building, Builds, BuiltOK, InitPlaces, BuildPlaces,
                                    Detecting, Asking, Uninterrupted
<1>3. CASE BuildWs
  BY <1>3, InOrder, InitOrderIs DEF BuildWs, Building, Builds, BuiltOK, InitPlaces, BuildPlaces,
                                    Detecting, Asking, Uninterrupted
<1>4. CASE BuildGuard
  BY <1>4, InOrder, InitOrderIs DEF BuildGuard, Building, Builds, BuiltOK, InitPlaces,
                                    BuildPlaces, Detecting, Asking, Uninterrupted
<1>5. CASE StopPart
  <2>1. ShuttingDown /\ UNCHANGED <<main, step, sigAt>> /\ P \in Parts
    BY <1>5, TopTyped DEF StopPart
  <2>2. CASE Skip
    BY <2>1, <2>2 DEF Skip, MovesOn
  <2>3. CASE AskToStop
    <3>1. part[P] \in {"up", "stopping"}
      BY <2>3 DEF AskToStop, HasThread
    <3>2. part' = [part EXCEPT ![P] = "stopping"]
      BY <2>1, <2>3, <3>1 DEF AskToStop, PartOK
    <3> QED  BY <2>1, <3>1, <3>2 DEF Stops
  <2> QED  BY <1>5, <2>2, <2>3 DEF StopPart
<1>6. CASE Join \/ Close \/ CloseUnderMain
  <2>1. /\ ShuttingDown /\ Top.phase \in {"join", "close"} /\ UNCHANGED <<step, sigAt>>
        /\ main' = main \/ (main' = "crashed" /\ part' = [part EXCEPT ![P] = "stopped"])
    BY <1>6 DEF Join, Close, CloseUnderMain, Stopped
  <2>2. part[P] # "none"
    <3>1. Depth \in DOMAIN stack
      BY <2>1, TopTyped
    <3> QED  BY <2>1, <3>1 DEF StoppedOK, Top, P
  <2>3. part' = part \/ part' = [part EXCEPT ![P] = "stopped"]
    BY <1>6 DEF Join, Close, CloseUnderMain, Stopped
  <2> QED  BY <2>1, <2>2, <2>3 DEF Stops, MovesOn
<1>7. CASE Crash \/ Undo \/ NoDatabase \/ Signal \/ SignalTooLate \/ UNCHANGED vars
  BY <1>7 DEF Crash, Undo, NoDatabase, Moved, Signal, SignalTooLate, vars, mainVars, MovesOn,
              InitPlaces, BuildPlaces, Detecting, Asking, Uninterrupted,
              ShuttingDown
<1>8. CASE HttpWaitEnds \/ WsWaitEnds \/ FinishInit
  BY <1>8 DEF HttpWaitEnds, WsWaitEnds, FinishInit, Uninterrupted, MovesOn, InitPlaces,
              BuildPlaces, Detecting, Asking
<1>9. CASE \/ StorageFails \/ (\E c \in Commands : RunOption(c)) \/ OptionDone \/ Interactive
           \/ (\E c \in Commands : Type(c)) \/ CommandReturns \/ Quit \/ Leave
  BY <1>9 DEF StorageFails, RunOption, OptionDone, Interactive, Type, CommandReturns, Quit, Leave,
              LoopTop, MovesOn, InitPlaces, BuildPlaces, Detecting, Asking
<1>10. CASE \/ HttpThread \/ (\E h \in Requests : Request(h))
            \/ WsThread \/ Connection \/ (\E e \in Events : Event(e))
            \/ Guarding \/ (\E p \in Pids : Machine(p))
            \/ (\E w \in DOMAIN ThreadUses : Work(w) \/ WorkDone(w))
            \/ (\E w \in Untimed : WokenUp(w))
  BY <1>10 DEF HttpThread, Request, WsThread, Connection, Event, Guarding, Machine, Work, WorkDone,
               WokenUp, OnlyHttp, OnlyWs, OnlyGuard, OnlyWork, mainVars, MovesOn
<1>11. CASE PortFound \/ AskUser \/ Answered
  BY <1>11 DEF PortFound, AskUser, Answered, Moved, NextPlace, MovesOn, Uninterrupted, Detecting,
               Asking
<1> QED
  BY <1>1, <1>2, <1>3, <1>4, <1>5, <1>6, <1>7, <1>8, <1>9, <1>10, <1>11 DEF Next, MainStep

LEMMA BuiltNext ==
  ASSUME MainInv, BuiltOK, StoppedOK, [Next]_vars
  PROVE  BuiltOK'
<1> USE DEF MainInv
<1>1. \A i \in 1 .. 10 : InitOrder[i] \in DOMAIN part
  BY InOrder DEF PartOK
<1>2. Len(InitOrder) = 10 /\ step \in 1 .. 11
  BY InitOrderIs DEF BuiltOK
<1>3. CASE Builds
  BY <1>1, <1>2, <1>3, InOrder DEF Builds, BuiltOK, BuildPlaces, Detecting, Asking
<1>4. CASE Stops
  BY <1>1, <1>2, <1>4, InOrder DEF Stops, BuiltOK, Detecting, Asking
<1>5. CASE Finish
  BY <1>1, <1>2, <1>5, InOrder DEF Finish, BuiltOK, Detecting, Asking
<1>6. CASE MovesOn
  BY <1>1, <1>2, <1>6, InOrder DEF MovesOn, BuiltOK, BuildOK, InitPlaces, BuildPlaces, Detecting,
                                   Asking
<1> QED  BY <1>3, <1>4, <1>5, <1>6, PartChanges

(* An activation that joins or closes was at it before, or has found the    *)
(* part it is at.                                                           *)
LEMMA JoinsSince ==
  ASSUME MainInv, StoppedOK, [Next]_vars,
         NEW k \in DOMAIN stack', stack'[k].phase \in {"join", "close"}
  PROVE  /\ k \in DOMAIN stack
         /\ \/ stack'[k] = stack[k]
            \/ ShuttingDown /\ k = Depth /\ stack'[k].at = Top.at /\ part[P] # "none"
<1> USE DEF MainInv
<1> DEFINE Since == /\ k \in DOMAIN stack
                    /\ \/ stack'[k] = stack[k]
                       \/ ShuttingDown /\ k = Depth /\ stack'[k].at = Top.at /\ part[P] # "none"
<1>1. ASSUME ShuttingDown, NEW f \in Frame, stack' = [stack EXCEPT ![Depth] = f],
             f.phase = "stop" \/ (f.at = Top.at /\ part[P] # "none")
      PROVE  Since
  <2>1. /\ Depth \in {1, 2} /\ DOMAIN stack = 1 .. Depth /\ DOMAIN stack' = DOMAIN stack
    BY <1>1, TopTyped
  <2> QED  BY <1>1, <2>1
<1>2. CASE StopPart
  <2>1. ShuttingDown
    BY <1>2 DEF StopPart
  <2>2. CASE Skip
    <3>1. [at |-> Top.at + 1, phase |-> "stop"] \in Frame
          /\ stack' = [stack EXCEPT ![Depth] = [at |-> Top.at + 1, phase |-> "stop"]]
      BY <2>1, <2>2, NextPartGoesOn DEF Skip
    <3> QED  BY <1>1, <2>1, <3>1
  <2>3. CASE AskToStop
    <3>1. [at |-> Top.at, phase |-> "join"] \in Frame
          /\ stack' = [stack EXCEPT ![Depth] = [at |-> Top.at, phase |-> "join"]]
      BY <2>1, <2>3, PhaseGoesOn DEF AskToStop
    <3>2. part[P] # "none"
      BY <2>3 DEF AskToStop, HasThread
    <3> QED  BY <1>1, <2>1, <3>1, <3>2
  <2> QED  BY <1>2, <2>2, <2>3 DEF StopPart
<1>3. CASE Join \/ Close \/ CloseUnderMain
  <2>1. ShuttingDown /\ Top.phase \in {"join", "close"}
    BY <1>3 DEF Join, Close, CloseUnderMain
  <2>2. P # "redis" /\ Depth \in DOMAIN stack
    BY <2>1, TopJoins, TopTyped
  <2>3. part[P] # "none"
    BY <2>1, <2>2 DEF StoppedOK, Top, P
  <2>4. CASE NextPart
    <3>1. [at |-> Top.at + 1, phase |-> "stop"] \in Frame
          /\ stack' = [stack EXCEPT ![Depth] = [at |-> Top.at + 1, phase |-> "stop"]]
      BY <2>1, <2>2, <2>4, NextPartGoesOn
    <3> QED  BY <1>1, <2>1, <3>1
  <2>5. CASE Phase("close")
    <3>1. [at |-> Top.at, phase |-> "close"] \in Frame
          /\ stack' = [stack EXCEPT ![Depth] = [at |-> Top.at, phase |-> "close"]]
      BY <2>1, <2>5, PhaseGoesOn
    <3> QED  BY <1>1, <2>1, <2>3, <3>1
  <2> QED  BY <1>3, <2>4, <2>5 DEF Join, Close, CloseUnderMain
<1>4. CASE Finish
  <2>1. /\ Depth \in {1, 2} /\ DOMAIN stack = 1 .. Depth /\ stack \in Seq(Frame)
        /\ stack' = SubSeq(stack, 1, Depth - 1)
    BY <1>4, TopTyped DEF Finish, StackOK
  <2>2. DOMAIN stack' = 1 .. Depth - 1 /\ \A i \in 1 .. Depth - 1 : stack'[i] = stack[i]
    BY <2>1, SubSeqProperties, LenProperties
  <2> QED  BY <2>1, <2>2
<1>5. CASE stack' = <<FirstFrame>>
  <2>1. FALSE
    BY <1>5 DEF FirstFrame
  <2> QED  BY <2>1
<1>6. CASE Signal
  <2>1. stack \in Seq(Frame) /\ stack' = Append(stack, FirstFrame)
    BY <1>6 DEF Signal, StackOK
  <2>2. /\ DOMAIN stack' = 1 .. Len(stack) + 1 /\ DOMAIN stack = 1 .. Len(stack)
        /\ Len(stack) \in Nat
        /\ \A i \in 1 .. Len(stack) : stack'[i] = stack[i]
        /\ stack'[Len(stack) + 1] = FirstFrame
    BY <2>1, FirstFrameTyped, AppendProperties, LenProperties
  <2>3. k # Len(stack) + 1
    BY <2>2 DEF FirstFrame
  <2> QED  BY <2>2, <2>3
<1>7. CASE UNCHANGED stack
  BY <1>7
<1>8. \/ StopPart \/ Join \/ Close \/ CloseUnderMain \/ Finish \/ stack' = <<FirstFrame>> \/ Signal
      \/ UNCHANGED stack
  <2>1. CASE \/ (\E p \in Parts : BuildPart(p)) \/ StorageFails
             \/ BuildHttp \/ HttpWaitEnds \/ BuildWs \/ WsWaitEnds \/ BuildGuard \/ FinishInit
    BY <2>1 DEF BuildPart, StorageFails, BuildHttp, HttpWaitEnds, BuildWs, WsWaitEnds, BuildGuard,
                FinishInit
  <2>2. CASE \/ (\E c \in Commands : RunOption(c)) \/ OptionDone \/ Interactive
             \/ (\E c \in Commands : Type(c)) \/ CommandReturns \/ Quit \/ Leave
    BY <2>2 DEF RunOption, OptionDone, Interactive, Type, CommandReturns, Quit, Leave, LoopTop
  <2>3. CASE \/ PortFound \/ AskUser \/ Answered
             \/ Crash \/ Undo \/ NoDatabase \/ SignalTooLate \/ UNCHANGED vars
    BY <2>3 DEF PortFound, AskUser, Answered, Crash, Undo, NoDatabase, Moved, SignalTooLate, vars,
                mainVars
  <2>4. CASE \/ HttpThread \/ (\E h \in Requests : Request(h))
             \/ WsThread \/ Connection \/ (\E e \in Events : Event(e))
             \/ Guarding \/ (\E p \in Pids : Machine(p))
             \/ (\E w \in DOMAIN ThreadUses : Work(w) \/ WorkDone(w))
             \/ (\E w \in Untimed : WokenUp(w))
    BY <2>4 DEF HttpThread, Request, WsThread, Connection, Event, Guarding, Machine, Work,
                WorkDone, WokenUp, OnlyHttp, OnlyWs, OnlyGuard, OnlyWork, mainVars
  <2> QED  BY <2>1, <2>2, <2>3, <2>4 DEF Next, MainStep
<1> QED  BY <1>2, <1>3, <1>4, <1>5, <1>6, <1>7, <1>8

LEMMA StoppedNext ==
  ASSUME MainInv, BuiltOK, StoppedOK, [Next]_vars
  PROVE  StoppedOK'
<1> USE DEF MainInv
<1>1. \A p \in Parts : part[p] # "none" => part'[p] # "none"
  BY PartChanges DEF Builds, Stops, Finish, MovesOn, PartOK
<1>2. \A p \in {"query", "providers"} : part'[p] \in {"none", "up"}
  <2>1. {"query", "providers"} \subseteq Parts
    BY InOrder
  <2>2. ShuttingDown => P \notin {"query", "providers"}
    BY TopTyped, Positions DEF P, StopOrder
  <2> QED
    BY <2>1, <2>2, PartChanges DEF Builds, Stops, Finish, MovesOn, PartOK, StoppedOK
<1>3. ASSUME NEW k \in DOMAIN stack', stack'[k].phase \in {"join", "close"}
      PROVE  part'[StopOrder[stack'[k].at]] # "none"
  <2>1. /\ k \in DOMAIN stack
        /\ \/ stack'[k] = stack[k]
           \/ ShuttingDown /\ k = Depth /\ stack'[k].at = Top.at /\ part[P] # "none"
    BY <1>3, JoinsSince
  <2>2. CASE stack'[k] = stack[k]
    <3>1. part[StopOrder[stack[k].at]] # "none"
      BY <1>3, <2>1, <2>2 DEF StoppedOK
    <3>2. stack[k] \in Frame
      BY <2>1, ElementOfSeq, LenProperties DEF StackOK
    <3>3. StopOrder[stack[k].at] \in Parts
      BY <3>2, Positions DEF Frame
    <3> QED  BY <1>1, <2>2, <3>1, <3>3
  <2>3. CASE ShuttingDown /\ k = Depth /\ stack'[k].at = Top.at /\ part[P] # "none"
    BY <1>1, <2>3, TopTyped DEF P
  <2> QED  BY <2>1, <2>2, <2>3
<1> QED  BY <1>2, <1>3 DEF StoppedOK

(* Only the handler says where the signal came.                             *)
LEMMA SigAtStays ==
  ASSUME [Next]_vars, ~Signal, ~SignalTooLate
  PROVE  sigAt' = sigAt
<1>1. CASE MainStep
  BY <1>1 DEF MainStep, PortFound, AskUser, Moved, BuildPart, StorageFails, BuildHttp,
              HttpWaitEnds, BuildWs, WsWaitEnds,
              BuildGuard, FinishInit, RunOption, OptionDone, Interactive, CommandReturns, Leave,
              StopPart, Join, Close, Finish, Crash, Undo
<1>2. CASE ~MainStep
  BY <1>2 DEF Next, Answered, Moved, CloseUnderMain, NoDatabase, WokenUp, Type, Quit, HttpThread,
              Request, WsThread, Connection, Event, Guarding, Machine,
              Work, WorkDone, OnlyHttp, OnlyWs, OnlyGuard, OnlyWork, mainVars, vars
<1> QED  BY <1>1, <1>2

(* shutdown() takes the parts in its order.                                 *)
LEMMA OrderNext ==
  ASSUME MainInv, BuiltOK, StoppedOK, OrderOK, [Next]_vars
  PROVE  OrderOK'
<1> USE DEF MainInv
<1>1. SUFFICES ASSUME sigAt' \notin BuildPlaces
               PROVE  /\ \A i, j \in 1 .. 8 : i < j /\ part'[StopOrder[j]] \in {"stopping", "stopped"}
                            => part'[StopOrder[i]] \in {"none", "stopped"}
                      /\ main' \in InitPlaces =>
                           /\ stack' # <<>> => main' \in Detecting /\ sigAt' \in Detecting
                           /\ sigAt' \in Detecting \cup {"none"}
                           /\ \A p \in Parts : part'[p] \notin {"stopping", "stopped"}
  BY Positions DEF OrderOK, Stopping, Down
<1>2. /\ sigAt \notin BuildPlaces /\ (sigAt' = sigAt \/ part' = part)
  <2>1. CASE Signal \/ SignalTooLate
    BY <2>1 DEF Signal, SignalTooLate, InitPlaces, BuildPlaces, Detecting, Asking
  <2>2. CASE ~Signal /\ ~SignalTooLate
    <3>1. sigAt' = sigAt
      BY <2>2, SigAtStays
    <3> QED  BY <1>1, <3>1
  <2> QED  BY <2>1, <2>2
<1>3. /\ \A i, j \in 1 .. 8 : i < j /\ part[StopOrder[j]] \in {"stopping", "stopped"}
           => part[StopOrder[i]] \in {"none", "stopped"}
      /\ main \in InitPlaces =>
           /\ stack # <<>> => main \in Detecting /\ sigAt \in Detecting
           /\ sigAt \in Detecting \cup {"none"}
           /\ \A p \in Parts : part[p] \notin {"stopping", "stopped"}
  BY <1>2, Positions DEF OrderOK, Stopping, Down
<1>4. main \in Detecting => \A p \in Parts : part[p] = "none"
  <2>1. SUFFICES ASSUME main \in Detecting, NEW i \in 1 .. 10  PROVE part[InitOrder[i]] = "none"
    BY InOrder
  <2>2. step = 1 /\ part[InitOrder[1]] = "none"
    BY <2>1, InOrder DEF BuildOK, BuiltOK
  <2>3. CASE i # 1
    BY <2>2, <2>3, InOrder DEF BuiltOK
  <2> QED  BY <2>2, <2>3
<1>8. CASE Builds
  BY <1>3, <1>8, Positions DEF Builds, PartOK, InitPlaces, BuildPlaces, Detecting, Asking
<1>5. CASE Stops
  <2>1. /\ Top.at \in 1 .. 8 /\ P = StopOrder[Top.at] /\ P \in Parts /\ Depth \in DOMAIN stack
        /\ stack # <<>> /\ main' \in {main, "crashed"} /\ part[P] # "none"
    BY <1>5, TopTyped DEF Stops, P, ShuttingDown
  <2>2. \A i \in 1 .. 8 : i < Top.at => part[StopOrder[i]] \in {"none", "stopped"}
    BY <2>1, Positions DEF PassedOK, Top, Down
  <2>3. ASSUME NEW i \in 1 .. 8, NEW j \in 1 .. 8, i < j,
               part'[StopOrder[j]] \in {"stopping", "stopped"}
        PROVE  part'[StopOrder[i]] \in {"none", "stopped"}
    <3>1. /\ \A k \in 1 .. 8 : k # Top.at => part'[StopOrder[k]] = part[StopOrder[k]]
          /\ \/ part[P] \in {"up", "stopping"} /\ part'[P] = "stopping"
             \/ part'[P] = "stopped"
      BY <1>5, <2>1, Positions DEF Stops, PartOK
    <3>2. CASE j = Top.at
      BY <2>2, <2>3, <3>1, <3>2
    <3>3. CASE j # Top.at
      <4>1. part[StopOrder[i]] \in {"none", "stopped"}
        BY <1>3, <2>3, <3>1, <3>3
      <4> QED  BY <2>1, <3>1, <4>1
    <3> QED  BY <3>2, <3>3
  <2>4. main' \notin InitPlaces
    BY <1>3, <1>4, <2>1 DEF InitPlaces, BuildPlaces, Detecting, Asking
  <2> QED  BY <2>3, <2>4
<1>6. CASE Finish
  <2>1. /\ Top.at = 8 /\ Depth \in DOMAIN stack /\ stack # <<>> /\ main' \in {main, "crashed"}
    <3>1. ShuttingDown /\ P = "redis" /\ main' \in {main, "crashed"}
      BY <1>6 DEF Finish
    <3>2. Top.at \in 1 .. 8 /\ Depth \in DOMAIN stack
      BY <3>1, TopTyped
    <3>3. Top.at = 8
      BY <3>1, <3>2, Positions DEF P
    <3> QED  BY <3>1, <3>2, <3>3 DEF ShuttingDown
  <2>2. \A i \in 1 .. 7 : part[StopOrder[i]] \in {"none", "stopped"}
    BY <2>1, Positions DEF PassedOK, Top, Down
  <2>3. \A i \in 1 .. 7 : part'[StopOrder[i]] = part[StopOrder[i]]
    BY <1>6, Positions DEF Finish, PartOK
  <2>4. main' \in InitPlaces => main' = main /\ part' = part /\ sigAt' = sigAt
    <3>1. main \in Detecting => part["redis"] = "none"
      BY <1>4, InOrder
    <3> QED  BY <1>3, <1>6, <2>1, <3>1 DEF Finish, InitPlaces, BuildPlaces, Detecting, Asking
  <2>5. main' \in InitPlaces => main \in Detecting /\ sigAt \in Detecting
    BY <1>3, <2>1, <2>4 DEF InitPlaces, BuildPlaces, Detecting, Asking
  <2> QED  BY <1>3, <2>1, <2>2, <2>3, <2>4, <2>5
<1>7. CASE MovesOn
  <2>1. main' \in InitPlaces => main \in InitPlaces /\ (main' \in Detecting => main \in Detecting)
    BY <1>7 DEF MovesOn, InitPlaces, BuildPlaces, Detecting, Asking
  <2>2. CASE main' \notin InitPlaces
    BY <1>3, <1>7, <2>2 DEF MovesOn
  <2>3. CASE main' \in InitPlaces /\ UNCHANGED <<stack, sigAt>>
    BY <1>3, <1>7, <2>1, <2>3 DEF MovesOn, InitPlaces, BuildPlaces, Detecting, Asking
  <2>4. CASE main' \in InitPlaces /\ main' = main /\ ShuttingDown
    BY <1>1, <1>3, <1>7, <2>1, <2>4 DEF MovesOn, ShuttingDown, InitPlaces, BuildPlaces, Detecting,
                                        Asking
  <2>5. CASE main' \in InitPlaces /\ main' = main /\ stack = <<>> /\ sigAt' = main
    BY <1>1, <1>3, <1>7, <2>1, <2>5 DEF MovesOn, InitPlaces, BuildPlaces, Detecting, Asking
  <2> QED  BY <1>7, <2>2, <2>3, <2>4, <2>5 DEF MovesOn
<1> QED  BY <1>5, <1>6, <1>7, <1>8, PartChanges

(* A request, or an event, makes calls that its handler names.              *)
LEMMA CallsNext ==
  ASSUME CallsOK, HandsOK, [Next]_vars
  PROVE  CallsOK'
<1>1. calls' \in Seq(Calls)
  <2>1. CASE BuildHttp \/ StopPart \/ UNCHANGED httpVars
    BY <2>1 DEF BuildHttp, StartHttp, StopPart, Skip, AskToStop, StopListening, httpVars, CallsOK
  <2>2. CASE HttpThread
    <3>1. calls # <<>> => Tail(calls) \in Seq(Calls)
      BY DEF CallsOK
    <3> QED
      BY <2>2, <3>1 DEF HttpThread, Bind, ListenReturns, Enter, Return, CallsOK, HandsOK
  <2>3. CASE \E h \in Requests : Request(h)
    BY <2>3, HandlersTyped, HttpAssumption DEF Request, Accept
  <2> QED  BY <2>1, <2>2, <2>3, Actors
<1>2. event' \in Events \cup {"none"} /\ (handed' => event' # "none")
  <2> USE DEF CallsOK, Idle
  <2>1. CASE BuildWs \/ StopPart \/ Close \/ UNCHANGED wsVars
    BY <2>1 DEF BuildWs, StartWs, StopPart, Skip, AskToStop, StopWs, Close, ResetWs, wsVars
  <2>2. CASE WsThread
    BY <2>2 DEF WsThread, Hand, Handled, LibraryEnds
  <2>3. CASE Connection
    BY <2>3 DEF Connection, Open, Closed
  <2>4. CASE \E e \in Events : Event(e)
    BY <2>4 DEF Event, Payload, Events
  <2> QED  BY <2>1, <2>2, <2>3, <2>4, Actors
<1> QED  BY <1>1, <1>2 DEF CallsOK, Idle

(* After a crash nothing moves.                                             *)
LEMMA NothingAfterACrash ==
  ASSUME main = "crashed", [Next]_vars
  PROVE  UNCHANGED vars
<1>1. ~Alive
  BY DEF Alive
<1>2. ~MainStep
  BY <1>1 DEF MainStep, PortFound, AskUser, Detecting, Asking, BuildPart, StorageFails, BuildHttp,
              Building, HttpWaitEnds, BuildWs, WsWaitEnds, BuildGuard, FinishInit, RunOption,
              OptionDone, Interactive, CommandReturns, Leave, StopPart, Join, Close, Finish,
              Crash, Undo, ShuttingDown
<1>3. /\ ~(\E c \in Commands : Type(c)) /\ ~Answered /\ ~Quit /\ ~Signal /\ ~SignalTooLate
      /\ ~CloseUnderMain /\ ~NoDatabase
  BY <1>1 DEF Type, Answered, Asking, Quit, Signal, SignalTooLate, CloseUnderMain, ShuttingDown,
              NoDatabase
<1>4. /\ ~HttpThread /\ ~(\E h \in Requests : Request(h))
      /\ ~WsThread /\ ~Connection /\ ~(\E e \in Events : Event(e))
      /\ ~Guarding /\ ~(\E p \in Pids : Machine(p))
      /\ ~(\E w \in DOMAIN ThreadUses : Work(w) \/ WorkDone(w))
      /\ ~(\E w \in Untimed : WokenUp(w))
  BY <1>1 DEF HttpThread, Request, WsThread, Connection, Event, Guarding, Machine, Work, WorkDone,
              WokenUp, OnlyHttp, OnlyWs, OnlyGuard, OnlyWork
<1> QED  BY <1>2, <1>3, <1>4 DEF Next

(* main() itself moves, and whatever it does no activation is on top of it. *)
Moves ==
  \/ PortFound \/ AskUser \/ Answered
  \/ (\E p \in Parts : BuildPart(p)) \/ StorageFails
  \/ BuildHttp \/ HttpWaitEnds \/ BuildWs \/ WsWaitEnds \/ BuildGuard \/ FinishInit
  \/ (\E c \in Commands : RunOption(c)) \/ OptionDone \/ Interactive
  \/ (\E c \in Commands : Type(c)) \/ CommandReturns \/ Quit \/ Leave

LEMMA MovesKeep ==
  ASSUME Moves
  PROVE  stack = <<>> /\ main # "crashed" /\ UNCHANGED <<inner, lostDb, sigAt>>
BY DEF Moves, PortFound, AskUser, Answered, Moved, Detecting, Asking, BuildPart, StorageFails,
       BuildHttp, Building, HttpWaitEnds, BuildWs, WsWaitEnds, BuildGuard, FinishInit, RunOption,
       OptionDone, Interactive, Type, CommandReturns, Quit, Leave, LoopTop, Uninterrupted, spoilt

(* An activation moves, and is not at its end.                              *)
LEMMA ActivationsKeep ==
  ASSUME StackOK, StopPart \/ Join \/ Close \/ CloseUnderMain, MainInv
  PROVE  /\ stack # <<>> /\ stack' # <<>> /\ main' \in {main, "crashed"}
         /\ UNCHANGED <<ready, cmd, inner, sigAt>>
         /\ lostDb' => lostDb \/ (main = "init" /\ inner = "sqlite")
<1> USE DEF MainInv
<1>1. ShuttingDown /\ main' \in {main, "crashed"} /\ UNCHANGED <<ready, cmd, inner, sigAt>>
  BY DEF StopPart, Join, Close, CloseUnderMain
<1>4. lostDb' => lostDb \/ (main = "init" /\ inner = "sqlite")
  <2>1. CASE StopPart /\ Skip
    BY <2>1, Zenon DEF Skip, SettingUp
  <2>2. CASE StopPart /\ AskToStop
    BY <2>2 DEF AskToStop
  <2>3. CASE Join \/ Close \/ CloseUnderMain
    BY <2>3 DEF Join, Close, CloseUnderMain, spoilt
  <2> QED  BY <2>1, <2>2, <2>3 DEF StopPart
<1>2. \E f \in Frame : stack' = [stack EXCEPT ![Depth] = f]
  <2>1. NextPart /\ P # "redis" => \E f \in Frame : stack' = [stack EXCEPT ![Depth] = f]
    BY <1>1, NextPartGoesOn
  <2>2. \A ph \in {"stop", "join", "close"} :
          Phase(ph) => \E f \in Frame : stack' = [stack EXCEPT ![Depth] = f]
    BY <1>1, PhaseGoesOn
  <2>3. Top.phase \in {"join", "close"} => P # "redis"
    BY <1>1, TopJoins
  <2> QED
    BY <2>1, <2>2, <2>3 DEF StopPart, Skip, AskToStop, Join, Close, CloseUnderMain
<1>3. stack' # <<>>
  BY <1>1, <1>2, TopGoesOn
<1> QED  BY <1>1, <1>3, <1>4 DEF ShuttingDown

(* What touches neither the activations nor main().                         *)
LEMMA OthersKeep ==
  ASSUME [Next]_vars,
         ~Moves, ~StopPart, ~Join, ~Close, ~CloseUnderMain, ~Finish, ~Signal, ~SignalTooLate
  PROVE  /\ UNCHANGED <<stack, part, ready, cmd, inner, lostDb, sigAt>>
         /\ main' \in {main, "crashed"}
         /\ Crash \/ Undo \/ NoDatabase \/ main' = main
<1>1. CASE Crash \/ Undo \/ NoDatabase \/ UNCHANGED vars
  BY <1>1 DEF Crash, Undo, NoDatabase, Moved, spoilt, vars, mainVars
<1>2. CASE \/ HttpThread \/ (\E h \in Requests : Request(h))
           \/ WsThread \/ Connection \/ (\E e \in Events : Event(e))
           \/ Guarding \/ (\E p \in Pids : Machine(p))
           \/ (\E w \in DOMAIN ThreadUses : Work(w) \/ WorkDone(w))
           \/ (\E w \in Untimed : WokenUp(w))
  BY <1>2 DEF HttpThread, Request, WsThread, Connection, Event, Guarding, Machine, Work, WorkDone,
              WokenUp, OnlyHttp, OnlyWs, OnlyGuard, OnlyWork, mainVars, spoilt
<1> QED  BY <1>1, <1>2 DEF Next, MainStep, Moves

(* A signal catches main() in its own call, or under a lock of its own.     *)
LEMMA InnerNext ==
  ASSUME MainInv, OrderOK, InnerOK, [Next]_vars
  PROVE  InnerOK'
<1> USE DEF InnerOK
<1>1. CASE main = "crashed"
  BY <1>1, NothingAfterACrash DEF vars, mainVars, spoilt
<1>2. CASE Moves
  BY <1>2, MovesKeep
<1>3. CASE StopPart \/ Join \/ Close \/ CloseUnderMain
  BY <1>3, ActivationsKeep DEF MainInv
<1>4. CASE Finish /\ main # "crashed"
  BY <1>4 DEF Finish, spoilt
<1>5. CASE Signal
  <2>1. /\ sigAt = "none" /\ UNCHANGED <<main, lostDb>> /\ stack' = Append(stack, FirstFrame)
        /\ sigAt' = (IF stack = <<>> THEN main ELSE Top.phase)
        /\ inner' \in CaughtIn \cup {"none"} /\ main \notin {"exit", "crashed"}
    BY <1>5 DEF Signal, Alive, Uninterrupted, spoilt
  <2>2. stack' # <<>>
    BY <2>1, FirstFrameTyped, AppendProperties, EmptySeq DEF MainInv, StackOK
  <2>3. main = "init" => stack = <<>>
    BY <2>1 DEF OrderOK, InitPlaces, BuildPlaces, Detecting, Asking
  <2>4. inner' = "redis" => sigAt' \in {"option", "command", "init"}
    <3>1. CASE stack = <<>>
      BY <2>1, <3>1 DEF CaughtIn, Uninterrupted, MainInv, CommandOK
    <3>2. CASE stack # <<>>
      BY <2>1, <3>2 DEF CaughtIn, Uninterrupted
    <3> QED  BY <3>1, <3>2
  <2>5. inner' = "sqlite" => sigAt' \in {"option", "command", "init", "close"}
    <3>1. CASE stack = <<>>
      BY <2>1, <3>1 DEF CaughtIn, Uninterrupted, MainInv, CommandOK
    <3>2. CASE stack # <<>>
      BY <2>1, <3>2 DEF CaughtIn, Uninterrupted
    <3> QED  BY <3>1, <3>2
  <2> QED  BY <2>1, <2>2, <2>3, <2>4, <2>5
<1>6. CASE SignalTooLate
  BY <1>6 DEF SignalTooLate, spoilt
<1>7. CASE /\ ~Moves /\ ~StopPart /\ ~Join /\ ~Close /\ ~CloseUnderMain
           /\ ~Finish /\ ~Signal /\ ~SignalTooLate
  BY <1>7, OthersKeep
<1> QED  BY <1>1, <1>2, <1>3, <1>4, <1>5, <1>6, <1>7

(* A call that ready_ lets pass begins when no part is stopped.             *)
LEMMA AdmittedNext ==
  ASSUME MainInv, BuiltOK, OrderOK, AdmittedOK, [Next]_vars
  PROVE  AdmittedOK'
<1> USE DEF AdmittedOK, Stopping
<1>1. CASE main = "crashed"
  BY <1>1, NothingAfterACrash DEF vars, mainVars, spoilt
<1>2. CASE Moves
  <2>1. stack = <<>> /\ sigAt' = sigAt
    BY <1>2, MovesKeep
  <2>2. CASE \/ StorageFails \/ (\E c \in Commands : RunOption(c)) \/ OptionDone \/ Interactive
             \/ (\E c \in Commands : Type(c)) \/ CommandReturns \/ Quit \/ Leave
    <3>1. UNCHANGED <<part, ready>>
      BY <2>2 DEF StorageFails, RunOption, OptionDone, Interactive, Type, CommandReturns, Quit,
                  Leave
    <3>2. cmd' # "none" => stack' = <<>> /\ (IsGated(cmd') => ready)
      <4>1. CASE (\E c \in Commands : RunOption(c)) \/ (\E c \in Commands : Type(c))
        BY <2>1, <4>1 DEF RunOption, Type, CallNow, Admits
      <4>2. CASE StorageFails \/ OptionDone \/ Interactive \/ CommandReturns \/ Quit \/ Leave
        BY <4>2 DEF StorageFails, Building, OptionDone, Interactive, CommandReturns, Quit, Leave,
                    MainInv, CommandOK
      <4> QED  BY <2>2, <4>1, <4>2
    <3>3. IsGated("cleanup_old_data")
      BY DEF IsGated, GatedUses
    <3> QED  BY <2>1, <3>1, <3>2, <3>3
  <2>3. CASE \/ PortFound \/ AskUser \/ Answered
             \/ (\E p \in Parts : BuildPart(p))
             \/ BuildHttp \/ HttpWaitEnds \/ BuildWs \/ WsWaitEnds \/ BuildGuard
    <3>1. UNCHANGED <<stack, ready, cmd>> /\ main \in InitPlaces
      BY <2>3 DEF PortFound, AskUser, Answered, Moved, BuildPart, BuildHttp, Building,
                  HttpWaitEnds, BuildWs, WsWaitEnds, BuildGuard, InitPlaces, BuildPlaces,
                  Detecting,
                  Asking
    <3>2. cmd = "none"
      BY <3>1 DEF MainInv, CommandOK, InitPlaces, BuildPlaces, Detecting, Asking
    <3>3. part' = part \/ \E q \in Parts : part' = [part EXCEPT ![q] = "up"]
      BY <2>3, InOrder DEF PortFound, AskUser, Answered, Moved, BuildPart, BuildHttp,
                  HttpWaitEnds, BuildWs, WsWaitEnds, BuildGuard
    <3>4. part'["sqlite"] \in {part["sqlite"], "up"}
      BY <3>3, InOrder DEF MainInv, PartOK
    <3> QED  BY <2>1, <3>1, <3>2, <3>4
  <2>4. CASE FinishInit
    <3>1. UNCHANGED <<stack, part, cmd>> /\ main = "init"
      BY <2>4 DEF FinishInit
    <3>2. cmd = "none" /\ (sigAt \notin BuildPlaces => ~Stopping("sqlite"))
      BY <3>1, InOrder DEF MainInv, CommandOK, OrderOK, InitPlaces, BuildPlaces
    <3> QED  BY <2>1, <3>1, <3>2
  <2> QED  BY <1>2, <2>2, <2>3, <2>4 DEF Moves
<1>3. CASE StopPart \/ Join \/ Close \/ CloseUnderMain
  BY <1>3, ActivationsKeep DEF MainInv
<1>4. CASE Finish
  BY <1>4 DEF Finish, ShuttingDown, Alive
<1>5. CASE Signal
  <2>1. /\ sigAt = "none" /\ UNCHANGED <<main, cmd>> /\ stack' = Append(stack, FirstFrame)
        /\ sigAt' = (IF stack = <<>> THEN main ELSE Top.phase) /\ main # "crashed"
    BY <1>5 DEF Signal, Alive, Uninterrupted
  <2>2. stack' # <<>>
    BY <2>1, FirstFrameTyped, AppendProperties, EmptySeq DEF MainInv, StackOK
  <2> QED  BY <2>1, <2>2 DEF MainInv, CommandOK
<1>6. CASE SignalTooLate
  BY <1>6 DEF SignalTooLate, BuildPlaces
<1>7. CASE /\ ~Moves /\ ~StopPart /\ ~Join /\ ~Close /\ ~CloseUnderMain
           /\ ~Finish /\ ~Signal /\ ~SignalTooLate
  BY <1>7, OthersKeep
<1> QED  BY <1>1, <1>2, <1>3, <1>4, <1>5, <1>6, <1>7

LEMMA UsersInit ==
  ASSUME Init
  PROVE  UsersInv
<1>1. BuiltOK
  BY InOrder, InitOrderIs DEF Init, BuiltOK
<1>2. StoppedOK
  BY InOrder, EmptySeq, LenProperties DEF Init, StoppedOK
<1>3. OrderOK
  BY InOrder, Positions DEF Init, OrderOK, Stopping, InitPlaces, BuildPlaces, Detecting, Asking
<1>4. CallsOK
  BY DEF Init, HttpInit, WsInit, CallsOK, Idle
<1>5. InnerOK /\ AdmittedOK
  BY DEF Init, InnerOK, AdmittedOK
<1> QED  BY <1>1, <1>2, <1>3, <1>4, <1>5, InvInit DEF UsersInv

LEMMA UsersNext ==
  ASSUME UsersInv, [Next]_vars
  PROVE  UsersInv'
BY MainInvNext, QuietNext, HandsNext, BuiltNext, StoppedNext, OrderNext, CallsNext, InnerNext,
   AdmittedNext DEF UsersInv, Inv

(* What a thread at work needs was built before its part and is stopped     *)
(* after it.                                                                *)
LEMMA PartsAreUp ==
  ASSUME UsersInv, sigAt \notin BuildPlaces
  PROVE  /\ ~Down("http") \/ ~Down("ws") => \A p \in Served : part[p] = "up"
         /\ \A w \in DOMAIN ThreadUses : ~Down(w) => \A p \in ThreadUses[w] : part[p] = "up"
<1> USE DEF UsersInv, Inv, MainInv
<1>1. /\ \A p \in Parts : part[p] \in {"none", "up", "stopping", "stopped"}
      /\ \A i, j \in 1 .. 8 : i < j /\ part[StopOrder[i]] \notin {"none", "stopped"}
           => part[StopOrder[j]] \notin {"stopping", "stopped"}
      /\ \A i, j \in 1 .. 10 : i < j /\ part[InitOrder[j]] # "none" => part[InitOrder[i]] # "none"
  BY InOrder DEF PartOK, Stages, OrderOK, Stopping, Down, BuiltOK
<1>2. part["query"] \in {"none", "up"} /\ part["providers"] \in {"none", "up"}
  BY DEF StoppedOK
<1>3. ASSUME ~Down("http") \/ ~Down("ws"), NEW p \in Served  PROVE part[p] = "up"
  <2>1. part["http"] # "none" /\ (part["http"] = "up" \/ part["http"] = "stopping" \/ ~Down("ws"))
    BY <1>1, <1>3, InOrder DEF Down
  <2>2. part[p] # "none"
    BY <1>1, <1>3, <2>1, InOrder DEF Served
  <2>3. part[p] \notin {"stopping", "stopped"}
    BY <1>1, <1>2, <1>3, InOrder, Positions DEF Served, Down
  <2> QED  BY <1>1, <2>2, <2>3, InOrder DEF Served
<1>4. ASSUME NEW w \in DOMAIN ThreadUses, ~Down(w), NEW p \in ThreadUses[w]
      PROVE  part[p] = "up"
  <2>1. CASE w = "processor"
    <3>1. p \in {"sqlite", "redis", "ollama"}
      BY <1>4, <2>1 DEF ThreadUses
    <3> QED  BY <1>1, <1>4, <2>1, <3>1, InOrder, Positions DEF Down
  <2>2. CASE w = "summarizer"
    <3>1. p \in {"sqlite", "redis", "providers"}
      BY <1>4, <2>2 DEF ThreadUses
    <3> QED  BY <1>1, <1>2, <1>4, <2>2, <3>1, InOrder, Positions DEF Down
  <2> QED  BY <1>4, <2>1, <2>2, Workers
<1> QED  BY <1>3, <1>4

(* Requests, events and the threads of the parts find every part they call  *)
(* running, up to the end of shutdown(), unless a signal came while         *)
(* initialize() was building them.                                          *)
THEOREM PartsAreFound == Spec => []UsersFindParts
<1>1. ASSUME UsersInv  PROVE UsersFindParts
  <2>1. SUFFICES ASSUME sigAt \notin BuildPlaces, NEW p \in PartsInUse  PROVE part[p] = "up"
    BY DEF UsersFindParts
  <2>2. CASE inside /\ p \in Uses[Head(calls)]
    <3>1. calls # <<>> /\ http \in {"listening", "closing"}
      BY <1>1, <2>2 DEF UsersInv, Inv, HandsOK
    <3>2. Head(calls) \in DOMAIN Uses
      BY <1>1, <3>1, HandlersTyped DEF UsersInv, CallsOK
    <3>3. p \in Served /\ ~Down("http")
      BY <1>1, <2>2, <3>1, <3>2, UsesTyped DEF UsersInv, Inv, QuietOK, HttpEnded
    <3> QED  BY <1>1, <2>1, <3>3, PartsAreUp
  <2>3. CASE handed /\ p \in Uses[event]
    <3>1. event \in Events /\ lib = "open"
      BY <1>1, <2>3 DEF UsersInv, Inv, HandsOK, CallsOK, Idle
    <3>2. p \in Served /\ ~Down("ws")
      BY <1>1, <2>3, <3>1, UsesTyped DEF UsersInv, Inv, QuietOK, WsEnded
    <3> QED  BY <1>1, <2>1, <3>2, PartsAreUp
  <2>4. CASE \E w \in busy : p \in ThreadUses[w]
    BY <1>1, <2>1, <2>4, PartsAreUp DEF UsersInv, Inv, QuietOK
  <2> QED  BY <2>2, <2>3, <2>4 DEF PartsInUse
<1> QED  BY <1>1, UsersInit, UsersNext, PTL DEF Spec

(* What the program dies of.                                                *)
LEMMA CrashesNext ==
  ASSUME UsersInv, CrashesOnlyWhenNested, [Next]_vars
  PROVE  CrashesOnlyWhenNested'
<1> USE DEF UsersInv, CrashesOnlyWhenNested
<1>1. CASE main = "crashed"
  BY <1>1, NothingAfterACrash DEF vars, mainVars, spoilt
<1>2. CASE Moves
  <2>1. main' # "crashed"
    BY <1>2 DEF Moves, PortFound, AskUser, Answered, Moved, NextPlace, BuildPart, StorageFails,
                BuildHttp, Building, HttpWaitEnds, BuildWs, WsWaitEnds, BuildGuard, FinishInit,
                RunOption, OptionDone, Interactive, Type, CommandReturns, Quit, Leave, LoopTop
  <2> QED  BY <2>1
<1>3. CASE main # "crashed" /\ (StopPart \/ Join \/ Close)
  BY <1>3 DEF StopPart, Join, Close
<1>4. CASE CloseUnderMain
  BY <1>4 DEF CloseUnderMain, InnerOK, BuildPlaces
<1>5. CASE main # "crashed" /\ Finish
  BY <1>5 DEF Finish, InnerOK, BuildPlaces
<1>6. CASE main # "crashed" /\ Signal
  BY <1>6 DEF Signal
<1>7. CASE SignalTooLate
  BY <1>7 DEF SignalTooLate
<1>8. CASE Crash
  BY <1>8, CrashIsNested DEF Inv, Crash, Moved
<1>9. CASE Undo
  <2>1. inner = P /\ main = "init" /\ inner' = inner /\ sigAt' = sigAt /\ ShuttingDown
    BY <1>9 DEF Undo, SettingUp, Moved
  <2>2. inner # "none"
    BY <2>1, TopTyped, InOrder DEF Inv, MainInv
  <2> QED  BY <2>1, <2>2 DEF InnerOK, BuildPlaces
<1>10. CASE NoDatabase
  <2>1. /\ UNCHANGED <<inner, lostDb, part, sigAt>>
        /\ lostDb \/ part["sqlite"] = "stopped"
    BY <1>10 DEF NoDatabase, Moved, spoilt
  <2>2. CASE lostDb
    BY <2>1, <2>2 DEF InnerOK, BuildPlaces
  <2>3. CASE sigAt \in BuildPlaces
    BY <2>1, <2>2, <2>3
  <2>4. CASE sigAt \notin BuildPlaces /\ part["sqlite"] = "stopped"
    <3>1. "processor" \notin busy
      <4>1. "processor" \in busy => ~Down("processor")
        BY Workers DEF Inv, QuietOK
      <4>2. ~Down("processor") => part["sqlite"] = "up"
        BY <2>4, PartsAreUp DEF ThreadUses
      <4> QED  BY <2>4, <4>1, <4>2
    <3>2. ~inside
      <4>1. inside => ~Down("http")
        BY DEF Inv, QuietOK, HandsOK, HttpEnded
      <4>2. ~Down("http") => part["sqlite"] = "up"
        BY <2>4, PartsAreUp DEF Served
      <4> QED  BY <2>4, <4>1, <4>2
    <3>3. stack = <<>> /\ cmd = "cleanup_old_data"
      BY <1>10, <3>1, <3>2 DEF NoDatabase, Uninterrupted
    <3>4. sigAt \in {"option", "command"}
      BY <2>4, <3>3 DEF AdmittedOK, Stopping
    <3> QED  BY <2>1, <3>4
  <2> QED  BY <2>1, <2>2, <2>3, <2>4
<1>11. CASE /\ ~Moves /\ ~StopPart /\ ~Join /\ ~Close /\ ~CloseUnderMain /\ ~Finish
            /\ ~Signal /\ ~SignalTooLate /\ ~Crash /\ ~Undo /\ ~NoDatabase
  BY <1>11, OthersKeep
<1> QED
  BY <1>1, <1>2, <1>3, <1>4, <1>5, <1>6, <1>7, <1>8, <1>9, <1>10, <1>11

(* However the activations of shutdown() nest, and whatever the signal      *)
(* handler closes or frees under main(): the program dies only of a signal  *)
(* inside a join, a close, a command or an option, after main(), or while   *)
(* initialize() builds the parts.                                           *)
THEOREM CrashesAreNested == Spec => []CrashesOnlyWhenNested
<1>1. Init => CrashesOnlyWhenNested
  BY DEF Init, CrashesOnlyWhenNested
<1> QED  BY <1>1, UsersInit, UsersNext, CrashesNext, PTL DEF Spec

-----------------------------------------------------------------------------
(* The scans of ProcessGuard. *)

(* Counting from below numbers the members of a set from 1 on.              *)
LEMMA RankIs ==
  ASSUME NEW n \in Nat, NEW I \in SUBSET (1 .. n)
  PROVE  /\ Cardinality(I) \in Nat
         /\ \A k \in 1 .. Cardinality(I) : \E i \in I : Rank(I, i) = k
         /\ \A i \in I : Rank(I, i) \in 1 .. Cardinality(I)
         /\ \A i, j \in I : Rank(I, i) = Rank(I, j) => i = j
<1> DEFINE Upto(i) == {j \in I : j <= i}
           f == [i \in I |-> Rank(I, i)]
           T == 1 .. Cardinality(I)
<1>1. IsFiniteSet(I) /\ Cardinality(I) \in Nat
  <2>1. IsFiniteSet(1 .. n)
    BY FS_Interval
  <2> QED  BY <2>1, FS_Subset, FS_CardinalityType
<1>2. ASSUME NEW i \in I  PROVE IsFiniteSet(Upto(i)) /\ Rank(I, i) \in T
  <2>1. IsFiniteSet(Upto(i)) /\ Cardinality(Upto(i)) <= Cardinality(I)
    BY <1>1, FS_Subset
  <2>2. Cardinality(Upto(i)) \in Nat /\ Cardinality(Upto(i)) # 0
    <3>1. i \in Upto(i)
      OBVIOUS
    <3> QED  BY <2>1, <3>1, FS_CardinalityType, FS_EmptySet
  <2> QED  BY <1>1, <2>1, <2>2 DEF Rank
<1>3. ASSUME NEW i \in I, NEW j \in I, i < j  PROVE Rank(I, i) # Rank(I, j)
  <2>1. Upto(i) \subseteq Upto(j) /\ j \in Upto(j) /\ j \notin Upto(i)
    <3>1. i \in Nat /\ j \in Nat /\ \A k \in I : k \in Nat
      OBVIOUS
    <3>2. \A k \in I : k <= i => k <= j
      BY <1>3, <3>1
    <3>3. j <= j /\ ~(j <= i)
      BY <1>3, <3>1
    <3> QED  BY <3>2, <3>3
  <2>2. IsFiniteSet(Upto(j))
    BY <1>2
  <2>3. Cardinality(Upto(j)) # Cardinality(Upto(i))
    BY <2>1, <2>2, FS_Subset
  <2> QED  BY <2>3 DEF Rank
<1>4. \A i, j \in I : Rank(I, i) = Rank(I, j) => i = j
  BY <1>3
<1>5. f \in Injection(I, T)
  <2>1. f \in [I -> T]
    BY <1>2
  <2>2. \A i, j \in I : f[i] = f[j] => i = j
    BY <1>4
  <2> HIDE DEF f, T
  <2> QED  BY <2>1, <2>2 DEF Injection, IsInjective
<1>6. IsFiniteSet(T) /\ Cardinality(T) = Cardinality(I)
  BY <1>1, FS_Interval
<1>7. f \in Surjection(I, T)
  <2> HIDE DEF f, T
  <2> QED  BY <1>5, <1>6, FS_Injection
<1>8. \A k \in T : \E i \in I : f[i] = k
  BY <1>7 DEF Surjection
<1> QED  BY <1>1, <1>2, <1>4, <1>8

(* One entry of /proc is found under each name it matches, and no other.    *)
LEMMA FoundAsIs ==
  ASSUME NEW p \in Pids
  PROVE  /\ FoundAs(p) \in Seq(Entry)
         /\ \A n \in Searched(p) : \E k \in DOMAIN FoundAs(p) : FoundAs(p)[k].name = n
<1> DEFINE I == Hits(p)
           c == Cardinality(I)
<1>1. Len(WatchList) \in Nat /\ DOMAIN WatchList = 1 .. Len(WatchList)
  BY GuardAssumption, LenProperties
<1>2. I \in SUBSET (1 .. Len(WatchList))
  BY <1>1 DEF Hits
<1>3. /\ c \in Nat
      /\ \A k \in 1 .. c : \E i \in I : Rank(I, i) = k
      /\ \A i \in I : Rank(I, i) \in 1 .. c
      /\ \A i, j \in I : Rank(I, i) = Rank(I, j) => i = j
  BY <1>1, <1>2, RankIs
<1> DEFINE At(k) == CHOOSE i \in I : Rank(I, i) = k
<1>4. \A k \in 1 .. c : At(k) \in I
  BY <1>3
<1>5. \A i \in I : At(Rank(I, i)) = i
  <2>1. ASSUME NEW i \in I  PROVE At(Rank(I, i)) = i
    <3>1. At(Rank(I, i)) \in I /\ Rank(I, At(Rank(I, i))) = Rank(I, i)
      OBVIOUS
    <3> QED  BY <1>3, <3>1
  <2> QED  BY <2>1
<1>6. FoundAs(p) = [k \in 1 .. c |-> [name |-> WatchList[At(k)], pid |-> p]]
  BY DEF FoundAs
<1>7. \A i \in I : WatchList[i] \in Names
  BY DEF Hits, Names
<1> HIDE DEF At
<1>8. FoundAs(p) \in [1 .. c -> Entry]
  BY <1>4, <1>6, <1>7 DEF Entry
<1>9. FoundAs(p) \in Seq(Entry)
  BY <1>3, <1>8
<1>10. ASSUME NEW n \in Searched(p)
       PROVE  \E k \in DOMAIN FoundAs(p) : FoundAs(p)[k].name = n
  <2>1. PICK i \in I : WatchList[i] = n
    <3>1. Arguments[p] \in Seq(SUBSET Names)
      BY GuardAssumption
    <3>2. Searched(p) \subseteq Names
      BY <3>1, HeadTailProperties DEF Searched
    <3> QED  BY <3>2 DEF Names, Hits
  <2>2. Rank(I, i) \in 1 .. c /\ At(Rank(I, i)) = i
    BY <1>3, <1>5
  <2>3. FoundAs(p)[Rank(I, i)].name = n
    BY <1>6, <2>1, <2>2
  <2> QED  BY <1>6, <2>2, <2>3
<1> QED  BY <1>9, <1>10

(* What the scan has read of a process that ran all the time is in its      *)
(* results or already noted.                                                *)
Results == {found[i].name : i \in DOMAIN found}
ScanOK ==
  /\ guard = "scan" => \A p \in steady \ unread : Searched(p) \subseteq Results \cup Listed
  /\ guard = "note" => \A p \in steady : Searched(p) \subseteq Results \cup Listed

GuardInv == GuardTypeOK /\ OneEntryPerName /\ ScanOK

LEMMA NoteKeepsGuard ==
  ASSUME GuardInv, Note
  PROVE  GuardInv'
<1> USE DEF GuardInv, GuardTypeOK
<1> DEFINE e  == Head(found)
           at == {i \in DOMAIN status : status[i].name = e.name}
<1>1. /\ e \in Entry /\ Tail(found) \in Seq(Entry) /\ found # <<>>
      /\ found' = Tail(found) /\ guard = "note"
      /\ UNCHANGED <<alive, changes, running, guard, unread, steady>>
  BY HeadTailProperties DEF Note
<1>2. Results = {e.name} \cup Results'
  <2>1. /\ DOMAIN found = 1 .. Len(found) /\ Len(found) \in Nat \ {0}
        /\ found[1] = e
        /\ DOMAIN found' = 1 .. Len(found) - 1
        /\ \A i \in 1 .. Len(found) - 1 : found'[i] = found[i + 1]
    BY <1>1, HeadTailProperties, LenProperties, EmptySeq
  <2>2. \A i \in DOMAIN found : i = 1 \/ (i - 1 \in DOMAIN found' /\ found[i] = found'[i - 1])
    BY <2>1
  <2>3. \A i \in DOMAIN found' : i + 1 \in DOMAIN found /\ found[i + 1] = found'[i]
    BY <2>1
  <2>4. 1 \in DOMAIN found
    BY <2>1
  <2> QED  BY <2>1, <2>2, <2>3, <2>4 DEF Results
<1>3. status' \in Seq(Entry) /\ Listed' = Listed \cup {e.name}
  <2>1. Len(status) \in Nat /\ DOMAIN status = 1 .. Len(status)
    BY LenProperties
  <2>2. CASE at = {}
    <3>1. status' = Append(status, e)
      BY <2>2 DEF Note
    <3>2. /\ status' \in Seq(Entry) /\ DOMAIN status' = 1 .. Len(status) + 1
          /\ \A i \in DOMAIN status : status'[i] = status[i]
          /\ status'[Len(status) + 1] = e
      BY <1>1, <2>1, <3>1, AppendProperties, LenProperties
    <3>3. \A i \in DOMAIN status' : i \in DOMAIN status \/ i = Len(status) + 1
      BY <2>1, <3>2
    <3>4. Len(status) + 1 \in DOMAIN status' /\ DOMAIN status \subseteq DOMAIN status'
      BY <2>1, <3>2
    <3> QED  BY <3>2, <3>3, <3>4 DEF Listed
  <2>3. CASE at # {}
    <3>1. PICK i \in DOMAIN status : at = {i}
      BY <2>3 DEF OneEntryPerName
    <3>2. i = CHOOSE k \in at : \A j \in at : k <= j
      BY <2>1, <3>1
    <3>3. status' = [status EXCEPT ![i] = e] /\ status[i].name = e.name
      BY <2>3, <3>1, <3>2 DEF Note
    <3>4. status' \in Seq(Entry) /\ DOMAIN status' = DOMAIN status
      BY <1>1, <2>1, <3>3, ExceptSeq
    <3>5. \A j \in DOMAIN status : status'[j].name = status[j].name
      BY <3>3
    <3> QED  BY <3>3, <3>4, <3>5 DEF Listed
  <2> QED  BY <2>2, <2>3
<1>4. OneEntryPerName'
  <2>1. StatusOK
    BY DEF StatusOK
  <2> QED  BY <2>1, NoteKeepsStatus DEF StatusOK
<1>5. ScanOK'
  BY <1>1, <1>2, <1>3 DEF ScanOK
<1> QED  BY <1>1, <1>3, <1>4, <1>5

LEMMA ReadKeepsGuard ==
  ASSUME GuardInv, NEW p \in Pids, ReadEntry(p)
  PROVE  GuardInv'
<1> USE DEF GuardInv, GuardTypeOK
<1>1. /\ guard = "scan" /\ unread' = unread \ {p}
      /\ found' = IF p \in alive THEN found \o FoundAs(p) ELSE found
      /\ UNCHANGED <<alive, changes, running, guard, status, steady>>
  BY DEF ReadEntry
<1>2. FoundAs(p) \in Seq(Entry) /\ found \o FoundAs(p) \in Seq(Entry)
  BY FoundAsIs, ConcatProperties
<1>3. Results \subseteq Results' /\ (p \in alive => Searched(p) \subseteq Results')
  <2>1. CASE p \notin alive
    BY <1>1, <2>1 DEF Results
  <2>2. CASE p \in alive
    <3>1. /\ DOMAIN found = 1 .. Len(found) /\ Len(found) \in Nat
          /\ DOMAIN FoundAs(p) = 1 .. Len(FoundAs(p)) /\ Len(FoundAs(p)) \in Nat
          /\ DOMAIN found' = 1 .. Len(found) + Len(FoundAs(p))
          /\ \A i \in 1 .. Len(found) + Len(FoundAs(p)) :
               found'[i] = IF i <= Len(found) THEN found[i] ELSE FoundAs(p)[i - Len(found)]
      BY <1>1, <1>2, <2>2, ConcatProperties, LenProperties
    <3>2. \A i \in DOMAIN found : i \in DOMAIN found' /\ found'[i] = found[i]
      BY <3>1
    <3>3. \A k \in DOMAIN FoundAs(p) : /\ Len(found) + k \in DOMAIN found'
                                       /\ found'[Len(found) + k] = FoundAs(p)[k]
      BY <3>1
    <3>4. Results \subseteq Results'
      BY <3>2 DEF Results
    <3>5. Searched(p) \subseteq Results'
      BY <3>3, FoundAsIs DEF Results
    <3> QED  BY <3>4, <3>5
  <2> QED  BY <2>1, <2>2
<1>4. Listed' = Listed
  BY <1>1 DEF Listed
<1>5. ScanOK'
  BY <1>1, <1>3, <1>4 DEF ScanOK
<1> QED  BY <1>1, <1>2, <1>5 DEF OneEntryPerName

(* A scan begins with nothing read and ends with everything read.           *)
LEMMA GuardNext ==
  ASSUME GuardInv, [Next]_vars
  PROVE  GuardInv'
<1> USE GuardAssumption DEF GuardInv, GuardTypeOK
<1>1. CASE Note
  BY <1>1, NoteKeepsGuard
<1>2. CASE \E p \in Pids : ReadEntry(p)
  BY <1>2, ReadKeepsGuard
<1>3. CASE GuardLooks
  BY <1>3 DEF GuardLooks, OneEntryPerName, ScanOK, Results, Listed
<1>4. CASE ScanEnds
  BY <1>4 DEF ScanEnds, OneEntryPerName, ScanOK, Results, Listed
<1>5. CASE AllNoted \/ GuardWakes
  BY <1>5 DEF AllNoted, GuardWakes, OneEntryPerName, ScanOK, Results, Listed
<1>6. CASE StartGuard \/ ClearGuard
  <2>1. /\ running' \in BOOLEAN /\ guard' \in {guard, "look"}
        /\ UNCHANGED <<alive, changes, unread, found, status, steady>>
    BY <1>6 DEF StartGuard, ClearGuard
  <2>2. GuardTypeOK'
    BY <2>1
  <2> QED  BY <2>1, <2>2 DEF OneEntryPerName, ScanOK, Results, Listed
<1>7. ASSUME NEW p \in Pids, ProcessChange(p)  PROVE GuardInv'
  <2>1. /\ alive' \in SUBSET Pids /\ changes' \in 0 .. MaxChanges
        /\ steady' \subseteq steady /\ steady' \subseteq alive'
        /\ UNCHANGED <<running, guard, unread, found, status>>
    BY <1>7 DEF ProcessChange
  <2>2. GuardTypeOK'
    BY <2>1
  <2>3. Results' = Results /\ Listed' = Listed
    BY <2>1 DEF Results, Listed
  <2>4. ScanOK'
    BY <2>1, <2>3 DEF ScanOK
  <2> QED  BY <2>1, <2>2, <2>4 DEF OneEntryPerName
<1>8. CASE UNCHANGED guardVars
  <2>1. GuardTypeOK' /\ Results' = Results /\ Listed' = Listed
    BY <1>8 DEF guardVars, Results, Listed
  <2> QED  BY <1>8, <2>1 DEF guardVars, OneEntryPerName, ScanOK
<1> QED
  BY <1>1, <1>2, <1>3, <1>4, <1>5, <1>6, <1>7, <1>8, Actors
     DEF BuildGuard, StopPart, Skip, AskToStop, Guarding, GuardThread, Machine

LEMMA GuardInitial ==
  ASSUME Init
  PROVE  GuardInv
<1>1. GuardTypeOK
  <2>1. <<>> \in Seq(Entry) /\ 0 \in 0 .. MaxChanges
    BY GuardAssumption
  <2> QED  BY <2>1 DEF Init, GuardInit, GuardTypeOK
<1>2. OneEntryPerName /\ ScanOK
  BY DEF Init, GuardInit, OneEntryPerName, ScanOK
<1> QED  BY <1>1, <1>2 DEF GuardInv

(* Processes come and go while the scan reads /proc; one that ran all the   *)
(* time is listed under every name it matches when the scan is noted.       *)
THEOREM NobodyIsMissed == Spec => []ScanMissesNobody
<1>1. ASSUME GuardInv  PROVE ScanMissesNobody
  BY <1>1, EmptySeq DEF GuardInv, ScanOK, Results, ScanMissesNobody
<1> QED  BY <1>1, GuardInitial, GuardNext, PTL DEF Spec

-----------------------------------------------------------------------------
(* Every variable keeps its type. *)

(* What the invariants above leave open.                                    *)
HttpTyped == http \in {"none", "starting", "listening", "failed", "closing", "ended"}
WsTyped == lib \in {"off", "trying", "open"}
FlagsTyped ==
  inside \in BOOLEAN /\ socket \in BOOLEAN /\ ending \in BOOLEAN /\ connected \in BOOLEAN
  /\ handed \in BOOLEAN /\ ready \in BOOLEAN
MainTyped ==
  /\ main \in Places
  /\ cmd \in DOMAIN Uses \cup {"none"}
  /\ inner \in Parts \cup {"none"}
  /\ sigAt \in Places \cup {"stop", "join", "close", "none"}
SpoiltTyped == missed \subseteq Untimed /\ lostDb \in BOOLEAN
InputsTyped == inputs \in 0 .. MaxInputs

TypesInv ==
  /\ UsersInv /\ GuardInv
  /\ HttpTyped /\ WsTyped /\ FlagsTyped /\ MainTyped /\ SpoiltTyped /\ InputsTyped

(* main() makes calls that ChatDatabase has, with locks of its parts.       *)
LEMMA CommandsTyped ==
  /\ OptionCalls \cup CommandCalls \subseteq DOMAIN Uses
  /\ \A c \in DOMAIN Uses : LocksOf(c) \subseteq Parts
<1>1. OptionCalls \cup CommandCalls \subseteq DOMAIN GatedUses \cup DOMAIN UngatedUses
  BY DEF OptionCalls, CommandCalls, GatedUses, UngatedUses
<1>2. Served \subseteq Parts /\ "http" \in Parts
  BY InOrder DEF Served
<1> QED  BY <1>1, <1>2, UsesTyped DEF Uses, LocksOf

LEMMA HttpTypedNext ==
  ASSUME HttpTyped, [Next]_vars
  PROVE  HttpTyped'
BY Actors DEF HttpTyped, BuildHttp, StartHttp, StopPart, Skip, AskToStop, StopListening,
              HttpThread,
              Bind, ListenReturns, Enter, Return, Request, Accept, httpVars

LEMMA WsTypedNext ==
  ASSUME WsTyped, [Next]_vars
  PROVE  WsTyped'
BY Actors DEF WsTyped, BuildWs, StartWs, StopPart, Skip, AskToStop, StopWs, Close, ResetWs,
              WsThread,
              Hand, Handled, LibraryEnds, Connection, Open, Closed, Event, Payload, wsVars

(* How a step changes where main() is and what it does there.               *)
LEMMA MainChanges ==
  ASSUME [Next]_vars
  PROVE  \/ UNCHANGED <<main, ready, cmd, inner, sigAt>>
         \/ /\ main' \in {main, "init", "http_wait", "ws_wait", "options"} \cup Detecting
            /\ ready' = ready \/ ready' = TRUE
            /\ UNCHANGED <<cmd, inner, sigAt>>
         \/ /\ main' \in Places
            /\ cmd' \in {cmd, "none"} \cup OptionCalls \cup CommandCalls
            /\ UNCHANGED <<ready, inner, sigAt>>
         \/ /\ main' \in {main, "crashed"}
            /\ ready' = ready \/ ready' = FALSE
            /\ inner' \in {inner, "none"} /\ UNCHANGED <<cmd, sigAt>>
         \/ Signal \/ SignalTooLate
<1>1. CASE \/ PortFound \/ AskUser \/ Answered
           \/ (\E p \in Parts : BuildPart(p))
           \/ BuildHttp \/ HttpWaitEnds \/ BuildWs \/ WsWaitEnds \/ BuildGuard \/ FinishInit
  BY <1>1 DEF PortFound, AskUser, Answered, Moved, NextPlace, Detecting, Asking, BuildPart,
              BuildHttp, HttpWaitEnds, BuildWs, WsWaitEnds, BuildGuard, FinishInit
<1>2. CASE \/ StorageFails \/ (\E c \in Commands : RunOption(c)) \/ OptionDone \/ Interactive
           \/ (\E c \in Commands : Type(c)) \/ CommandReturns \/ Quit \/ Leave
  BY <1>2 DEF StorageFails, RunOption, OptionDone, Interactive, Type, CommandReturns, Quit, Leave,
              LoopTop, CallNow, Places
<1>3. CASE \/ StopPart \/ Join \/ Close \/ CloseUnderMain \/ Finish
           \/ Crash \/ Undo \/ NoDatabase
  BY <1>3 DEF StopPart, Join, Close, CloseUnderMain, Finish, Crash, Undo, NoDatabase, Moved
<1>4. CASE UNCHANGED vars
  BY <1>4 DEF vars, mainVars
<1>5. CASE \/ HttpThread \/ (\E h \in Requests : Request(h))
           \/ WsThread \/ Connection \/ (\E e \in Events : Event(e))
           \/ Guarding \/ (\E p \in Pids : Machine(p))
           \/ (\E w \in DOMAIN ThreadUses : Work(w) \/ WorkDone(w))
           \/ (\E w \in Untimed : WokenUp(w))
  BY <1>5 DEF HttpThread, Request, WsThread, Connection, Event, Guarding, Machine, Work, WorkDone,
              WokenUp, OnlyHttp, OnlyWs, OnlyGuard, OnlyWork, mainVars
<1> QED  BY <1>1, <1>2, <1>3, <1>4, <1>5 DEF Next, MainStep

LEMMA FlagsTypedNext ==
  ASSUME FlagsTyped, [Next]_vars
  PROVE  FlagsTyped'
<1>1. \A c : Admits(c) \in BOOLEAN
  BY DEF Admits
<1>2. inside' \in BOOLEAN
  <2>1. CASE BuildHttp \/ StopPart \/ (\E h \in Requests : Request(h)) \/ UNCHANGED httpVars
    BY <2>1 DEF FlagsTyped, BuildHttp, StartHttp, StopPart, Skip, AskToStop, StopListening,
                Request, Accept, httpVars
  <2>2. CASE HttpThread
    BY <1>1, <2>2, Zenon DEF FlagsTyped, HttpThread, Bind, ListenReturns, Enter, Return
  <2> QED  BY <2>1, <2>2, Actors
<1>3. socket' \in BOOLEAN /\ ending' \in BOOLEAN /\ connected' \in BOOLEAN /\ handed' \in BOOLEAN
  <2>1. CASE BuildWs \/ StopPart \/ Close \/ UNCHANGED wsVars
    BY <2>1 DEF FlagsTyped, BuildWs, StartWs, StopPart, Skip, AskToStop, StopWs, Close, ResetWs,
                wsVars
  <2>2. CASE WsThread
    <3>1. CASE ~Idle /\ Hand(Admits(event))
      BY <1>1, <3>1, Zenon DEF FlagsTyped, Hand
    <3>2. CASE Handled \/ LibraryEnds
      BY <3>2 DEF FlagsTyped, Handled, LibraryEnds
    <3> QED  BY <2>2, <3>1, <3>2 DEF WsThread
  <2>3. CASE Connection \/ (\E e \in Events : Event(e))
    BY <2>3 DEF FlagsTyped, Connection, Open, Closed, Event, Payload
  <2> QED  BY <2>1, <2>2, <2>3, Actors
<1>4. ready' \in BOOLEAN
  <2>1. ready' = ready \/ ready' = TRUE \/ ready' = FALSE
    BY MainChanges, Zenon DEF Signal, SignalTooLate
  <2> QED  BY <2>1 DEF FlagsTyped
<1> QED  BY <1>2, <1>3, <1>4 DEF FlagsTyped

LEMMA MainTypedNext ==
  ASSUME UsersInv, MainTyped, [Next]_vars
  PROVE  MainTyped'
<1> USE DEF MainTyped, UsersInv, Inv, MainInv
<1>1. CASE \/ UNCHANGED <<main, ready, cmd, inner, sigAt>>
           \/ /\ main' \in {main, "init", "http_wait", "ws_wait", "options"} \cup Detecting
              /\ UNCHANGED <<cmd, inner, sigAt>>
           \/ /\ main' \in Places
              /\ cmd' \in {cmd, "none"} \cup OptionCalls \cup CommandCalls
              /\ UNCHANGED <<inner, sigAt>>
           \/ /\ main' \in {main, "crashed"}
              /\ inner' \in {inner, "none"} /\ UNCHANGED <<cmd, sigAt>>
  BY <1>1, CommandsTyped DEF Places, InitPlaces, BuildPlaces, Detecting, Asking
<1>2. CASE Signal
  <2>1. main' = main /\ cmd' = cmd /\ sigAt' = (IF Uninterrupted THEN main ELSE Top.phase)
    BY <1>2 DEF Signal
  <2>2. sigAt' \in Places \cup {"stop", "join", "close", "none"}
    <3>1. ~Uninterrupted => Top \in Frame
      BY <1>2, TopTyped DEF Signal, Uninterrupted, ShuttingDown
    <3> QED  BY <2>1, <3>1 DEF Frame
  <2>3. inner' \in Parts \cup {"none"}
    <3>1. CaughtIn \subseteq Parts
      BY CommandsTyped, InOrder DEF CaughtIn, Fragile
    <3> QED  BY <1>2, <3>1 DEF Signal
  <2> QED  BY <2>1, <2>2, <2>3
<1>3. CASE SignalTooLate
  BY <1>3 DEF SignalTooLate, Places
<1> QED  BY <1>1, <1>2, <1>3, MainChanges

(* Only AskToStop, WokenUp and Skip touch what a signal or a lost           *)
(* notification has spoilt.                                                 *)
LEMMA SpoiltTypedNext ==
  ASSUME SpoiltTyped, [Next]_vars
  PROVE  SpoiltTyped'
<1>1. CASE StopPart
  <2>1. CASE Skip
    BY <1>1, <2>1 DEF Skip, SpoiltTyped
  <2>2. CASE AskToStop
    BY <1>1, <2>2 DEF AskToStop, SpoiltTyped
  <2> QED  BY <1>1, <2>1, <2>2 DEF StopPart
<1>2. CASE \E w \in Untimed : WokenUp(w)
  BY <1>2 DEF WokenUp, SpoiltTyped
<1>3. StopPart \/ (\E w \in Untimed : WokenUp(w)) \/ UNCHANGED spoilt
  <2>1. CASE MainStep
    BY <2>1 DEF MainStep, PortFound, AskUser, Moved, BuildPart, StorageFails, BuildHttp,
                HttpWaitEnds, BuildWs, WsWaitEnds, BuildGuard, FinishInit, RunOption, OptionDone,
                Interactive, CommandReturns, Leave, Join, Close, Finish, Crash, Undo
  <2>2. CASE ~MainStep
    BY <2>2 DEF Next, Answered, Moved, CloseUnderMain, NoDatabase, Type, Quit, Signal,
                SignalTooLate, HttpThread, Request, WsThread, Connection, Event, Guarding, Machine,
                Work, WorkDone, OnlyHttp, OnlyWs, OnlyGuard, OnlyWork, mainVars, vars
  <2> QED  BY <2>1, <2>2
<1> QED  BY <1>1, <1>2, <1>3 DEF spoilt, SpoiltTyped

LEMMA InputsTypedNext ==
  ASSUME InputsTyped, [Next]_vars
  PROVE  InputsTyped'
<1>1. Input \/ inputs' = inputs
  <2>1. CASE MainStep
    BY <2>1 DEF MainStep, PortFound, AskUser, Moved, BuildPart, StorageFails, BuildHttp,
                HttpWaitEnds, BuildWs, WsWaitEnds,
                BuildGuard, FinishInit, RunOption, OptionDone, Interactive, CommandReturns, Leave,
                StopPart, Join, Close, Finish, Crash, Undo
  <2>2. CASE ~MainStep
    BY <2>2 DEF Next, Answered, Moved, CloseUnderMain, NoDatabase, WokenUp, Type, Quit, Signal,
                SignalTooLate, HttpThread, Request, WsThread, Connection,
                Event, Guarding, Machine, Work, WorkDone, vars
  <2> QED  BY <2>1, <2>2
<1> QED  BY <1>1, MainAssumption DEF Input, InputsTyped

(* In every reachable state the variables of the server, the client, the    *)
(* guard, main() and shutdown() have the values their types name: no        *)
(* activation goes past the last part, and no third one begins.             *)
THEOREM TypesAreKept == Spec => []TypeOK
<1>1. ASSUME Init  PROVE TypesInv
  <2>1. HttpTyped /\ WsTyped /\ FlagsTyped
    BY <1>1 DEF Init, HttpInit, WsInit, HttpTyped, WsTyped, FlagsTyped
  <2>2. MainTyped /\ SpoiltTyped /\ InputsTyped
    <3>1. main \in Places
      BY <1>1 DEF Init, Places, InitPlaces, BuildPlaces, Detecting
    <3>2. cmd = "none" /\ inner = "none" /\ sigAt = "none" /\ missed = {} /\ lostDb = FALSE
      BY <1>1 DEF Init
    <3>3. inputs \in 0 .. MaxInputs
      BY <1>1, MainAssumption DEF Init
    <3> QED  BY <3>1, <3>2, <3>3 DEF MainTyped, SpoiltTyped, InputsTyped
  <2> QED  BY <1>1, <2>1, <2>2, UsersInit, GuardInitial DEF TypesInv
<1>2. ASSUME TypesInv, [Next]_vars  PROVE TypesInv'
  BY <1>2, UsersNext, GuardNext, HttpTypedNext, WsTypedNext, FlagsTypedNext, MainTypedNext,
     SpoiltTypedNext, InputsTypedNext DEF TypesInv
<1>3. ASSUME TypesInv  PROVE TypeOK
  <2> USE <1>3 DEF TypesInv, UsersInv, Inv
  <2>1. HttpTypeOK
    BY DEF HttpTypeOK, HttpTyped, FlagsTyped, CallsOK, HandsOK
  <2>2. WsTypeOK
    BY DEF WsTypeOK, WsTyped, FlagsTyped, CallsOK
  <2>3. GuardTypeOK /\ step \in 1 .. Len(InitOrder) + 1 /\ stack \in Seq(Frame) /\ Len(stack) <= 2
    BY DEF GuardInv, BuiltOK, MainInv, StackOK
  <2>4. part \in [Parts -> {"none", "up", "stopping", "stopped"}] /\ busy \subseteq DOMAIN ThreadUses
    BY DEF MainInv, PartOK, Stages, QuietOK
  <2>5. ready \in BOOLEAN
    BY DEF FlagsTyped
  <2> QED  BY <2>1, <2>2, <2>3, <2>4, <2>5 DEF TypeOK, MainTyped, SpoiltTyped, InputsTyped
<1> QED  BY <1>1, <1>2, <1>3, PTL DEF Spec
=============================================================================
