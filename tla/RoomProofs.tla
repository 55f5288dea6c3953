----------------------------- MODULE RoomProofs -----------------------------
(* Theorems about Room, for every set of agents and callers and every bound.*)
EXTENDS Room, WellFoundedInduction, TLAPS

(***************************************************************************)
(* Types.                                                                  *)
(***************************************************************************)

(* What a step leaves alone keeps its type.                                 *)
LEMMA TypeStable ==
    /\ LogType /\ UNCHANGED logVars => LogType'
    /\ RoomType /\ UNCHANGED roomVars => RoomType'
    /\ LaneType /\ UNCHANGED laneVars => LaneType'
    /\ CallType /\ UNCHANGED call => CallType'
    /\ BoundType /\ UNCHANGED boundVars => BoundType'
<1>1. LogType /\ UNCHANGED logVars => LogType'
  BY DEF LogType, logVars
<1>2. RoomType /\ UNCHANGED roomVars => RoomType'
  BY DEF RoomType, roomVars
<1>3. LaneType /\ UNCHANGED laneVars => LaneType'
  BY DEF LaneType, laneVars
<1>4. CallType /\ UNCHANGED call => CallType'
  BY DEF CallType
<1>5. BoundType /\ UNCHANGED boundVars => BoundType'
  BY DEF BoundType, boundVars
<1>. QED
  BY <1>1, <1>2, <1>3, <1>4, <1>5

(* A turn with an end of its own is an ended turn.                          *)
LEMMA EndedTurns ==
    /\ EndedTurn \subseteq Turn
    /\ NoTurn \in Turn
    /\ \A t \in Turn : \A end \in Ends : [t EXCEPT !.end = end] \in EndedTurn
    /\ \A t \in Turn : [t EXCEPT !.end = FoldEnd(@)] \in EndedTurn
BY DEF EndedTurn, Turn, NoTurn, Ends, FoldEnd

(* A terminal event changes the end of the turn it names and nothing else.  *)
LEMMA WithEndType ==
    ASSUME NEW turns \in Seq(Turn), NEW no, NEW end \in Ends
    PROVE  WithEnd(turns, no, end) \in Seq(Turn)
<1>1. \A t \in Turn : [t EXCEPT !.end = end] \in Turn
  BY EndedTurns
<1>. QED
  BY <1>1 DEF WithEnd

(* The fold of a well-formed log is a well-formed room. *)
LEMMA FoldType ==
    ASSUME LogType
    PROVE  /\ FoldInbox \in Seq(Input)
           /\ FoldSpeakers \subseteq Clients
           /\ \A a \in Agents : FoldHistory(a) \in Seq(EndedTurn)
<1>1. FoldInbox \in Seq(Input)
  <2>1. \A i \in DOMAIN logInputs :
            [wake |-> logInputs[i].wake, withdrawn |-> i \in logWithdrawn] \in Input
    <3> SUFFICES ASSUME NEW i \in DOMAIN logInputs
                 PROVE  [wake |-> logInputs[i].wake, withdrawn |-> i \in logWithdrawn] \in Input
      OBVIOUS
    <3>1. logInputs[i] \in LogInput
      BY DEF LogType
    <3>2. logInputs[i].wake \subseteq Agents
      BY <3>1 DEF LogInput
    <3>3. (i \in logWithdrawn) \in BOOLEAN
      OBVIOUS
    <3>. QED
      BY <3>2, <3>3 DEF Input
  <2>2. DOMAIN logInputs = 1..Len(logInputs) /\ Len(logInputs) \in Nat
    BY DEF LogType
  <2>. QED
    BY <2>1, <2>2 DEF FoldInbox
<1>2. FoldSpeakers \subseteq Clients
  <2>1. \A i \in DOMAIN logInputs : logInputs[i] \in LogInput
    BY DEF LogType
  <2>. QED
    BY <2>1 DEF FoldSpeakers, LogInput
<1>3. ASSUME NEW a \in Agents PROVE FoldHistory(a) \in Seq(EndedTurn)
  <2>1. logTurns[a] \in Seq(Turn)
    BY DEF LogType
  <2>. QED
    BY <2>1, EndedTurns DEF FoldHistory
<1>. QED
  BY <1>1, <1>2, <1>3

LEMMA InitType == Init => TypeOK
<1> SUFFICES ASSUME Init PROVE TypeOK
  OBVIOUS
<1>0. /\ <<>> \in Seq(LogInput) /\ <<>> \in Seq(Input)
      /\ <<>> \in Seq(Turn) /\ <<>> \in Seq(EndedTurn)
  OBVIOUS
<1>1. LogType
  BY <1>0 DEF Init, LogType
<1>2. RoomType
  BY <1>0 DEF Init, RoomType
<1>3. LaneType
  BY <1>0, EndedTurns DEF Init, LaneType, Resting
<1>4. CallType
  BY DEF Init, CallType, Call, Idle
<1>5. BoundType
  BY DEF Init, BoundType
<1>. QED
  BY <1>1, <1>2, <1>3, <1>4, <1>5 DEF TypeOK

(* The steps of API calls. *)
LEMMA CallKeepsType ==
    ASSUME TypeOK, NEW c \in Clients,
           SubmitCheck(c) \/ SubmitAppend(c) \/ SubmitFails(c) \/ CancelCall(c)
           \/ CancelRecord(c) \/ CancelFails(c) \/ CancelFire(c) \/ CloseCommit(c)
    PROVE  TypeOK'
<1>0. call[c] \in Call /\ Idle \in Call
  BY DEF TypeOK, CallType, Call, Idle
<1>1. CASE SubmitCheck(c)
  <2>1. CallType'
    BY <1>1, <1>0 DEF SubmitCheck, TypeOK, CallType, Call
  <2>. QED
    BY <1>1, <2>1, TypeStable DEF SubmitCheck, TypeOK
<1>2. CASE SubmitAppend(c)
  <2>1. LogType'
    BY <1>2 DEF SubmitAppend, TypeOK, LogType, LogInput
  <2>2. RoomType'
    BY <1>2 DEF SubmitAppend, TypeOK, LogType, RoomType, Input
  <2>3. CallType'
    BY <1>2 DEF SubmitAppend, TypeOK, LogType, CallType, Call
  <2>. QED
    BY <1>2, <2>1, <2>2, <2>3, TypeStable DEF SubmitAppend, TypeOK
<1>3. CASE SubmitFails(c)
  BY <1>3, <1>0, TypeStable DEF SubmitFails, AppendFails, TypeOK, CallType, BoundType
<1>4. CASE CancelCall(c)
  <2>1. CallType' /\ BoundType'
    BY <1>4 DEF CancelCall, TypeOK, LogType, CallType, Call, BoundType
  <2>. QED
    BY <1>4, <2>1, TypeStable DEF CancelCall, TypeOK
<1>5. CASE CancelRecord(c)
  <2>1. call[c].held \subseteq Agents \X Nat /\ [call[c] EXCEPT !.op = "fire"] \in Call
    BY <1>0 DEF Call
  <2>2. CallType'
    BY <1>5, <1>0, <2>1 DEF CancelRecord, TypeOK, CallType
  <2>3. LogType'
    BY <1>5, <2>1 DEF CancelRecord, TypeOK, LogType
  <2>. QED
    BY <1>5, <2>2, <2>3, TypeStable DEF CancelRecord, TypeOK
<1>6. CASE CancelFails(c)
  BY <1>6, <1>0, TypeStable DEF CancelFails, AppendFails, TypeOK, CallType, BoundType
<1>7. CASE CancelFire(c)
  <2>1. LaneType'
    BY <1>7 DEF CancelFire, StopHeld, TypeOK, LaneType
  <2>2. CallType'
    BY <1>7, <1>0 DEF CancelFire, TypeOK, CallType
  <2>. QED
    BY <1>7, <2>1, <2>2, TypeStable DEF CancelFire, TypeOK
<1>8. CASE CloseCommit(c)
  <2>1. LogType' /\ RoomType'
    BY <1>8 DEF CloseCommit, TypeOK, LogType, RoomType
  <2>2. CallType'
    BY <1>8 DEF CloseCommit, TypeOK, LogType, CallType, Call
  <2>. QED
    BY <1>8, <2>1, <2>2, TypeStable DEF CloseCommit, TypeOK
<1>. QED
  BY <1>1, <1>2, <1>3, <1>4, <1>5, <1>6, <1>7, <1>8

(* The steps that visit one lane after another. *)
LEMMA VisitKeepsType ==
    ASSUME TypeOK, NEW c \in Clients, NEW a \in Agents,
           SubmitNudge(c, a) \/ CancelCollect(c, a) \/ CloseLane(c, a)
    PROVE  TypeOK'
<1>0. call[c] \in Call /\ Visited(c, a) \in Call
  BY DEF TypeOK, CallType, Call, Idle, Visited
<1>1. CASE SubmitNudge(c, a)
  <2>1. CallType'
    BY <1>0, <1>1 DEF SubmitNudge, TypeOK, CallType
  <2>2. LaneType'
    BY <1>1 DEF SubmitNudge, Nudge, TypeOK, LaneType
  <2>. QED
    BY <1>1, <2>1, <2>2, TypeStable DEF SubmitNudge, TypeOK
<1>2. CASE CancelCollect(c, a)
  <2>1. turn[a].no \in Nat
    BY DEF TypeOK, LaneType, Turn
  <2>2. call[c].left \subseteq Agents /\ call[c].held \cup Token(a) \subseteq Agents \X Nat
    BY <1>0, <2>1 DEF Call, Token
  <2>3. [op |-> "cancel", left |-> call[c].left \ {a}, held |-> call[c].held \cup Token(a)] \in Call
    BY <2>2 DEF Call
  <2>4. CallType'
    BY <1>2, <2>3 DEF CancelCollect, TypeOK, CallType
  <2>. QED
    BY <1>2, <2>4, TypeStable DEF CancelCollect, TypeOK
<1>3. CASE CloseLane(c, a)
  <2>1. CallType'
    BY <1>0, <1>3 DEF CloseLane, TypeOK, CallType
  <2>2. LaneType'
    BY <1>3 DEF CloseLane, Nudge, TypeOK, LaneType
  <2>. QED
    BY <1>3, <2>1, <2>2, TypeStable DEF CloseLane, TypeOK
<1>. QED
  BY <1>1, <1>2, <1>3

LEMMA WithdrawKeepsType == ASSUME TypeOK, NEW i \in DOMAIN inbox, Withdraw(i) PROVE TypeOK'
<1>1. LogType'
  BY DEF Withdraw, TypeOK, LogType, RoomType
<1>2. RoomType'
  <2>1. inbox[i] \in Input
    BY DEF TypeOK, RoomType
  <2>2. [inbox[i] EXCEPT !.withdrawn = TRUE] \in Input
    BY <2>1 DEF Input
  <2>. QED
    BY <2>2 DEF Withdraw, TypeOK, RoomType
<1>. QED
  BY <1>1, <1>2, TypeStable DEF Withdraw, TypeOK

(* The steps of a lane. *)
LEMMA LaneKeepsType ==
    ASSUME TypeOK, NEW a \in Agents, LaneStep(a)
    PROVE  TypeOK'
<1>0. /\ turn[a] \in Turn /\ turn[a].inputs \subseteq Nat \ {0}
      /\ seen[a] \in Seq(Input) /\ cursor[a] \in Nat /\ minted[a] \in Nat
  BY DEF TypeOK, LaneType, Turn
<1>1. CASE Recv(a)
  <2>1. LaneType'
    BY <1>1 DEF Recv, AfterRecv, TypeOK, LaneType, Resting
  <2>. QED
    BY <1>1, <2>1, TypeStable DEF Recv, TypeOK
<1>2. CASE Snapshot(a)
  <2>1. LaneType'
    BY <1>2 DEF Snapshot, TypeOK, LaneType, RoomType, Resting
  <2>. QED
    BY <1>2, <2>1, TypeStable DEF Snapshot, TypeOK
<1>3. CASE TakeTurn(a)
  <2>1. [no |-> minted[a] + 1, inputs |-> Unread(a), end |-> "running"] \in Turn
    BY <1>0 DEF Turn, Unread
  <2>2. LaneType'
    BY <1>0, <1>3, <2>1 DEF TakeTurn, TypeOK, LaneType, Busy
  <2>. QED
    BY <1>3, <2>2, TypeStable DEF TakeTurn, TypeOK
<1>4. CASE TakeNothing(a)
  <2>1. CursorAfterNone(a) \in Nat
    BY <1>0 DEF CursorAfterNone
  <2>2. LaneType'
    BY <1>4, <2>1 DEF TakeNothing, TypeOK, LaneType, Resting
  <2>. QED
    BY <1>4, <2>2, TypeStable DEF TakeNothing, TypeOK
<1>5. CASE NoAgent(a)
  <2>1. [turn[a] EXCEPT !.end = "failed"] \in EndedTurn \cap Turn
    BY <1>0, EndedTurns DEF Ends
  <2>2. LaneType'
    BY <1>5, <2>1 DEF NoAgent, TypeOK, LaneType, Busy
  <2>3. BoundType'
    BY <1>5 DEF NoAgent, AppendFails, TypeOK, BoundType
  <2>. QED
    BY <1>5, <2>2, <2>3, TypeStable DEF NoAgent, TypeOK
<1>6. CASE TurnStarted(a)
  <2>1. LogType'
    <3>1. Append(logTurns[a], turn[a]) \in Seq(Turn)
      BY <1>0 DEF TypeOK, LogType
    <3>. QED
      BY <3>1, <1>6 DEF TurnStarted, TypeOK, LogType
  <2>2. LaneType'
    BY <1>6 DEF TurnStarted, TypeOK, LaneType, Busy
  <2>3. BoundType'
    BY <1>6 DEF TurnStarted, AppendFails, TypeOK, BoundType
  <2>. QED
    BY <1>6, <2>1, <2>2, <2>3, TypeStable DEF TurnStarted, TypeOK
<1>7. CASE Arm(a)
  <2>1. ran[a] \cup turn[a].inputs \subseteq Nat \ {0}
    BY <1>0 DEF TypeOK, LaneType
  <2>2. /\ pc' \in [Agents -> Resting \cup Busy \cup {"gone"}]
        /\ \A b \in Agents : pc'[b] \in {"finish", "keep"} => pc'[b] = pc[b]
        /\ ran' \in [Agents -> SUBSET (Nat \ {0})]
    BY ZenonT(30), <1>7, <2>1 DEF Arm, TypeOK, LaneType, Busy
  <2>3. LaneType'
    BY <1>7, <2>2 DEF Arm, TypeOK, LaneType
  <2>. QED
    BY <1>7, <2>3, TypeStable DEF Arm, TypeOK
<1>8. CASE Opened(a)
  <2>1. LogType'
    BY <1>8 DEF Opened, TypeOK, LogType
  <2>2. LaneType'
    BY <1>0, <1>8 DEF Opened, TypeOK, LaneType, Busy
  <2>3. BoundType'
    BY <1>8 DEF Opened, AppendFails, TypeOK, BoundType
  <2>. QED
    BY <1>8, <2>1, <2>2, <2>3, TypeStable DEF Opened, TypeOK
<1>9. ASSUME NEW end \in Ends, EndTurn(a, end) PROVE TypeOK'
  <2>1. WithEnd(logTurns[a], turn[a].no, end) \in Seq(Turn)
    BY WithEndType DEF TypeOK, LogType
  <2>2. LogType'
    BY <1>9, <2>1 DEF EndTurn, TypeOK, LogType
  <2>3. [turn[a] EXCEPT !.end = end] \in EndedTurn \cap Turn
    BY <1>0, EndedTurns
  <2>4. LaneType'
    BY <1>9, <2>3 DEF EndTurn, TypeOK, LaneType, Busy
  <2>5. BoundType'
    BY <1>9 DEF EndTurn, AppendFails, TypeOK, BoundType
  <2>. QED
    BY <1>9, <2>2, <2>4, <2>5, TypeStable DEF EndTurn, TypeOK
<1>10. CASE Finish(a)
  <2>1. LaneType'
    BY <1>10 DEF Finish, TypeOK, LaneType, Busy
  <2>. QED
    BY <1>10, <2>1, TypeStable DEF Finish, TypeOK
<1>11. CASE Keep(a)
  <2>1. turn[a] \in EndedTurn
    BY <1>11 DEF Keep, TypeOK, LaneType
  <2>2. RoomType'
    BY <1>11, <2>1 DEF Keep, TypeOK, RoomType
  <2>3. LaneType'
    BY <1>11, EndedTurns DEF Keep, TypeOK, LaneType, Resting
  <2>. QED
    BY <1>11, <2>2, <2>3, TypeStable DEF Keep, TypeOK
<1>. QED
  BY <1>1, <1>2, <1>3, <1>4, <1>5, <1>6, <1>7, <1>8, <1>9, <1>10, <1>11 DEF LaneStep

LEMMA RestartKeepsType == ASSUME TypeOK, Restart PROVE TypeOK'
<1>1. RoomType'
  BY FoldType DEF Restart, TypeOK, RoomType, LogType
<1>2. LaneType'
  <2>1. cursor' \in [Agents -> Nat]
    BY DEF Restart, TypeOK, LogType
  <2>2. pc' \in [Agents -> Resting \cup Busy \cup {"gone"}]
        /\ \A a \in Agents : pc'[a] \notin {"finish", "keep"}
    BY DEF Restart, Resting
  <2>. QED
    BY <2>1, <2>2, EndedTurns DEF Restart, TypeOK, LaneType, LogType
<1>3. CallType'
  BY DEF Restart, CallType, Call, Idle
<1>4. BoundType'
  BY DEF Restart, TypeOK, BoundType
<1>. QED
  BY <1>1, <1>2, <1>3, <1>4, TypeStable DEF Restart, TypeOK

LEMMA StepType == TypeOK /\ [Next]_vars => TypeOK'
<1> SUFFICES ASSUME TypeOK, [Next]_vars PROVE TypeOK'
  OBVIOUS
<1>1. CASE Next
  BY <1>1, LaneKeepsType, CallKeepsType, VisitKeepsType, WithdrawKeepsType, RestartKeepsType
     DEF Next, CallStep, CallBegins
<1>2. CASE UNCHANGED vars
  BY <1>2, TypeStable DEF TypeOK, vars
<1>. QED
  BY <1>1, <1>2

(* Whatever the agents, the callers and the bounds, every variable keeps    *)
(* its type, and no turn in a room's history is ever still running.         *)
THEOREM TypeCorrect == Spec => []TypeOK
BY InitType, StepType, PTL DEF Spec

(***************************************************************************)
(* The lanes of a room.                                                    *)
(***************************************************************************)

(* An agent has a lane only in a room that was made with it.                *)
OnlyMembers == \A a \in Agents : pc[a] # "gone" => a \in members

LEMMA OnlyMembersAlways == Spec => []OnlyMembers
<1>1. Init => OnlyMembers
  BY DEF Init, OnlyMembers
<1>2. ASSUME TypeOK, OnlyMembers, [Next]_vars PROVE OnlyMembers'
  <2>0. pc \in [Agents -> Resting \cup Busy \cup {"gone"}]
    BY <1>2 DEF TypeOK, LaneType
  <2>1. ASSUME NEW a \in Agents, LaneStep(a) PROVE OnlyMembers'
    <3>1. members' = members /\ pc[a] # "gone" /\ \E w : pc' = [pc EXCEPT ![a] = w]
      BY <2>1
         DEF LaneStep, Recv, AfterRecv, Snapshot, TakeTurn, TakeNothing, NoAgent, TurnStarted, Arm,
             Opened, EndTurn, Finish, Keep, logVars
    <3>. QED
      BY <1>2, <2>0, <3>1 DEF OnlyMembers
  <2>2. CASE (\E c \in Clients : CallStep(c)) \/ CallBegins \/ UNCHANGED vars
    <3>1. pc' = pc /\ members' = members
      BY <2>2
         DEF CallStep, CallBegins, SubmitCheck, SubmitAppend, SubmitFails, SubmitNudge, Withdraw,
             CancelCall, CancelCollect, CancelRecord, CancelFails, CancelFire, CloseCommit,
             CloseLane, vars, logVars, laneVars
    <3>. QED
      BY <1>2, <3>1 DEF OnlyMembers
  <2>3. CASE Restart
    BY <2>3 DEF Restart, logVars, OnlyMembers
  <2>. QED
    BY <1>2, <2>1, <2>2, <2>3 DEF Next
<1>. QED
  BY <1>1, <1>2, TypeCorrect, PTL DEF Spec

(***************************************************************************)
(* A closed room.                                                          *)
(***************************************************************************)

ClosePending(a) == \E c \in Clients : call[c].op = "close" /\ a \in call[c].left

(* CloseReachesEveryLane speaks of parked lanes only. A lane that is busy   *)
(* when the room closes parks later: it must find a token then.             *)
CloseOnItsWay ==
    closed => \A a \in Agents : pc[a] # "gone" => wake[a] \/ ClosePending(a)

(* Steps that neither close the room, nor take a token from a lane, nor     *)
(* advance a close.                                                         *)
LEMMA CloseStable ==
    ASSUME CloseOnItsWay, closed' = closed,
           \A a \in Agents : pc'[a] # "gone" => pc[a] # "gone",
           \A a \in Agents : wake[a] /\ pc'[a] # "gone" => wake'[a],
           \A c \in Clients : call[c].op = "close" => call'[c] = call[c]
    PROVE  CloseOnItsWay'
BY DEF CloseOnItsWay, ClosePending

LEMMA CloseInductive ==
    ASSUME TypeOK, OnlyMembers, CloseOnItsWay, [Next]_vars
    PROVE  CloseOnItsWay'
<1>0. /\ pc \in [Agents -> Resting \cup Busy \cup {"gone"}] /\ wake \in [Agents -> BOOLEAN]
      /\ call \in [Clients -> Call] /\ closed \in BOOLEAN
  BY DEF TypeOK, LaneType, CallType, RoomType
<1>1. ASSUME NEW a \in Agents, LaneStep(a) PROVE CloseOnItsWay'
  <2>1. CASE Recv(a)
    BY <2>1, <1>0 DEF Recv, AfterRecv, roomVars, CloseOnItsWay, ClosePending
  <2>2. CASE ~Recv(a)
    <3>1. closed' = closed /\ wake' = wake /\ call' = call /\ \E w : pc' = [pc EXCEPT ![a] = w]
      BY <1>1, <2>2
         DEF LaneStep, Snapshot, TakeTurn, TakeNothing, NoAgent, TurnStarted, Arm, Opened,
             EndTurn, Finish, Keep, roomVars
    <3>2. pc[a] # "gone"
      BY <1>1, <2>2
         DEF LaneStep, Snapshot, TakeTurn, TakeNothing, NoAgent, TurnStarted, Arm, Opened,
             EndTurn, Finish, Keep
    <3>. QED
      BY <1>0, <3>1, <3>2, CloseStable
  <2>. QED
    BY <2>1, <2>2
<1>2. ASSUME NEW c \in Clients, NEW a \in Agents, SubmitNudge(c, a)
      PROVE  CloseOnItsWay'
  BY <1>0, <1>2, CloseStable DEF SubmitNudge, Nudge, roomVars, boundVars
<1>3. ASSUME NEW c \in Clients, NEW a \in Agents, CloseLane(c, a)
      PROVE  CloseOnItsWay'
  <2>1. pc' = pc /\ closed' = closed /\ wake' = [wake EXCEPT ![a] = pc[a] # "gone"]
        /\ call' = [call EXCEPT ![c] = Visited(c, a)] /\ call[c].op = "close"
    BY <1>3 DEF CloseLane, Nudge, roomVars
  <2>2. ASSUME NEW b \in Agents, b # a, b \in call[c].left
        PROVE  Visited(c, a).op = "close" /\ b \in Visited(c, a).left
    <3>1. call[c] \in Call
      BY <1>0
    <3>. QED
      BY <2>1, <2>2, <3>1 DEF Visited, Call
  <2>3. SUFFICES ASSUME closed, NEW b \in Agents, pc[b] # "gone"
                 PROVE  wake'[b] \/ ClosePending(b)'
    BY <2>1 DEF CloseOnItsWay
  <2>4. CASE b = a
    BY <1>0, <2>1, <2>3, <2>4
  <2>5. CASE b # a /\ wake[b]
    BY <1>0, <2>1, <2>5
  <2>6. CASE b # a /\ ~wake[b]
    <3>1. PICK d \in Clients : call[d].op = "close" /\ b \in call[d].left
      BY <2>3, <2>6 DEF CloseOnItsWay, ClosePending
    <3>2. call'[d].op = "close" /\ b \in call'[d].left
      BY <1>0, <2>1, <2>2, <2>6, <3>1
    <3>. QED
      BY <3>2 DEF ClosePending
  <2>. QED
    BY <2>4, <2>5, <2>6
<1>4. ASSUME NEW c \in Clients, CloseCommit(c) PROVE CloseOnItsWay'
  BY <1>0, <1>4 DEF CloseCommit, laneVars, CloseOnItsWay, ClosePending, OnlyMembers
<1>5. ASSUME NEW c \in Clients,
             SubmitCheck(c) \/ SubmitAppend(c) \/ SubmitFails(c) \/ CancelCall(c)
             \/ CancelRecord(c) \/ CancelFails(c) \/ CancelFire(c)
             \/ \E a \in Agents : CancelCollect(c, a)
      PROVE  CloseOnItsWay'
  <2>1. pc' = pc /\ wake' = wake /\ closed' = closed
    BY <1>5
       DEF SubmitCheck, SubmitAppend, SubmitFails, CancelCall, CancelRecord, CancelFails,
           CancelFire, CancelCollect, roomVars, laneVars
  <2>2. call[c].op # "close" /\ \A d \in Clients \ {c} : call'[d] = call[d]
    BY <1>0, <1>5
       DEF SubmitCheck, SubmitAppend, SubmitFails, CancelCall, CancelRecord, CancelFails,
           CancelFire, CancelCollect
  <2>. QED
    BY <2>1, <2>2, CloseStable
<1>6. ASSUME NEW i \in DOMAIN inbox, Withdraw(i) PROVE CloseOnItsWay'
  BY <1>6, CloseStable DEF Withdraw, laneVars
<1>7. CASE Restart
  BY <1>7 DEF Restart, CloseOnItsWay
<1>8. CASE UNCHANGED vars
  BY <1>8, CloseStable DEF vars, roomVars, laneVars
<1>. QED
  BY <1>1, <1>2, <1>3, <1>4, <1>5, <1>6, <1>7, <1>8 DEF Next, CallStep, CallBegins

(* Session::close wakes every lane of the room, whatever the lanes were at: *)
(* none stays parked for good once the close has gone round.                *)
THEOREM CloseReaches == Spec => []CloseReachesEveryLane
<1>1. Init => CloseOnItsWay
  BY DEF Init, CloseOnItsWay
<1>2. TypeOK /\ OnlyMembers /\ CloseOnItsWay /\ [Next]_vars => CloseOnItsWay'
  BY CloseInductive
<1>3. CloseOnItsWay => CloseReachesEveryLane
  BY DEF CloseOnItsWay, CloseReachesEveryLane, ClosePending
<1>. QED
  BY <1>1, <1>2, <1>3, TypeCorrect, OnlyMembersAlways, PTL DEF Spec

(***************************************************************************)
(* Reading in order.                                                       *)
(***************************************************************************)

(* What the log shows an agent was given lies below its lane's cursor, also *)
(* after a restart has set the cursor from the log; and a turn about to be  *)
(* recorded holds messages between the two.                                 *)
GivenBelowCursor(a) ==
    \A k \in DOMAIN logTurns[a] : \A x \in logTurns[a][k].inputs : x <= cursor[a]

NextIsAhead(a) ==
    pc[a] = "start" =>
        \A x \in turn[a].inputs :
            /\ x <= cursor[a]
            /\ \A k \in DOMAIN logTurns[a] : \A y \in logTurns[a][k].inputs : y < x

LaneOrder(a) ==
    \A j, k \in DOMAIN logTurns[a] :
        j < k => \A x \in logTurns[a][j].inputs, y \in logTurns[a][k].inputs : x < y

OrderKept == \A a \in Agents : LaneOrder(a) /\ GivenBelowCursor(a) /\ NextIsAhead(a)

(* A lane that starts no turn, whose cursor does not fall, keeps the order. *)
LEMMA OrderStable ==
    ASSUME TypeOK, NEW a \in Agents,
           LaneOrder(a), GivenBelowCursor(a), NextIsAhead(a),
           logTurns'[a] = logTurns[a],
           cursor'[a] \in Nat, cursor[a] <= cursor'[a],
           pc'[a] = "start" => pc[a] = "start" /\ turn'[a] = turn[a]
    PROVE  LaneOrder(a)' /\ GivenBelowCursor(a)' /\ NextIsAhead(a)'
<1>1. /\ cursor[a] \in Nat /\ turn[a].inputs \subseteq Nat
      /\ \A k \in DOMAIN logTurns[a] : logTurns[a][k].inputs \subseteq Nat
  <2>1. turn[a] \in Turn /\ cursor[a] \in Nat /\ logTurns[a] \in Seq(Turn)
    BY DEF TypeOK, LaneType, LogType
  <2>2. \A k \in DOMAIN logTurns[a] : logTurns[a][k] \in Turn
    BY <2>1
  <2>. QED
    BY <2>1, <2>2 DEF Turn
<1>. QED
  BY <1>1 DEF LaneOrder, GivenBelowCursor, NextIsAhead

(* The steps of a lane that touch its turns or its cursor. *)
LEMMA OrderLane ==
    ASSUME TypeOK, OrderKept, NEW a \in Agents, LaneStep(a)
    PROVE  LaneOrder(a)' /\ GivenBelowCursor(a)' /\ NextIsAhead(a)'
<1>0. /\ turn[a] \in Turn /\ cursor[a] \in Nat /\ logTurns[a] \in Seq(Turn)
      /\ seen[a] \in Seq(Input)
      /\ logTurns \in [Agents -> Seq(Turn)] /\ cursor \in [Agents -> Nat]
      /\ turn \in [Agents -> Turn] /\ pc \in [Agents -> Resting \cup Busy \cup {"gone"}]
      /\ LaneOrder(a) /\ GivenBelowCursor(a) /\ NextIsAhead(a)
  BY DEF TypeOK, LaneType, LogType, OrderKept
<1>1. turn[a].inputs \subseteq Nat /\ \A k \in DOMAIN logTurns[a] : logTurns[a][k].inputs \subseteq Nat
  <2>1. \A k \in DOMAIN logTurns[a] : logTurns[a][k] \in Turn
    BY <1>0
  <2>. QED
    BY <1>0, <2>1 DEF Turn
<1>2. CASE TakeTurn(a)
  <2>1. /\ logTurns' = logTurns /\ cursor'[a] = Len(seen[a]) /\ turn'[a].inputs = Unread(a)
    BY <1>0, <1>2 DEF TakeTurn, logVars
  <2>2. \A x \in Unread(a) : x \in Nat /\ cursor[a] < x /\ x <= Len(seen[a])
    BY <1>0 DEF Unread
  <2>3. cursor[a] < Len(seen[a]) /\ Len(seen[a]) \in Nat
    BY <1>0, <1>2, <2>2 DEF TakeTurn, Wanted
  <2>. QED
    BY <1>0, <1>1, <2>1, <2>2, <2>3 DEF LaneOrder, GivenBelowCursor, NextIsAhead
<1>3. CASE TakeNothing(a)
  <2>1. CursorAfterNone(a) \in Nat /\ cursor[a] <= CursorAfterNone(a)
    BY <1>0 DEF CursorAfterNone
  <2>. QED
    BY <1>0, <1>3, <2>1, OrderStable DEF TakeNothing, logVars
<1>4. CASE TurnStarted(a)
  <2>1. cursor' = cursor /\ pc'[a] = "arm" /\ pc[a] = "start"
        /\ logTurns'[a] \in {logTurns[a], Append(logTurns[a], turn[a])}
    BY <1>0, <1>4 DEF TurnStarted
  <2>2. CASE logTurns'[a] = logTurns[a]
    <3>1. cursor'[a] = cursor[a] /\ pc'[a] # "start"
      BY <2>1
    <3>. QED
      BY <1>0, <2>2, <3>1, OrderStable
  <2>3. CASE logTurns'[a] = Append(logTurns[a], turn[a])
    <3>1. DEFINE n == Len(logTurns[a])
    <3>2. /\ n \in Nat /\ DOMAIN logTurns[a] = 1..n /\ DOMAIN logTurns'[a] = 1..(n + 1)
          /\ \A k \in 1..n : logTurns'[a][k] = logTurns[a][k]
          /\ logTurns'[a][n + 1] = turn[a]
      BY <1>0, <2>3
    <3>3. \A x \in turn[a].inputs :
              /\ x <= cursor[a]
              /\ \A k \in 1..n : \A y \in logTurns[a][k].inputs : y < x
      BY <1>0, <2>1, <3>2 DEF NextIsAhead
    <3>4. GivenBelowCursor(a)'
      BY <1>0, <2>1, <3>2, <3>3 DEF GivenBelowCursor
    <3>5. LaneOrder(a)'
      <4>1. SUFFICES ASSUME NEW j \in 1..(n + 1), NEW k \in 1..(n + 1), j < k,
                            NEW x \in logTurns'[a][j].inputs, NEW y \in logTurns'[a][k].inputs
                     PROVE  x < y
        BY <3>2 DEF LaneOrder
      <4>2. j \in 1..n
        BY <3>2, <4>1
      <4>3. CASE k \in 1..n
        BY <1>0, <3>2, <4>1, <4>2, <4>3 DEF LaneOrder
      <4>4. CASE k = n + 1
        BY <3>2, <3>3, <4>1, <4>2, <4>4
      <4>. QED
        BY <3>2, <4>3, <4>4
    <3>. QED
      BY <2>1, <3>4, <3>5 DEF NextIsAhead
  <2>. QED
    BY <2>1, <2>2, <2>3
<1>5. ASSUME NEW end \in Ends, EndTurn(a, end)
      PROVE  LaneOrder(a)' /\ GivenBelowCursor(a)' /\ NextIsAhead(a)'
  <2>1. cursor' = cursor /\ pc'[a] = "finish"
        /\ logTurns'[a] \in {logTurns[a], WithEnd(logTurns[a], turn[a].no, end)}
    BY <1>0, <1>5 DEF EndTurn
  <2>2. /\ DOMAIN logTurns'[a] = DOMAIN logTurns[a]
        /\ \A k \in DOMAIN logTurns[a] : logTurns'[a][k].inputs = logTurns[a][k].inputs
    <3>1. \A k \in DOMAIN logTurns[a] : logTurns[a][k] \in Turn
      BY <1>0
    <3>2. \A t \in Turn : [t EXCEPT !.end = end].inputs = t.inputs
      BY DEF Turn
    <3>. QED
      BY <2>1, <3>1, <3>2 DEF WithEnd
  <2>. QED
    BY <1>0, <2>1, <2>2 DEF LaneOrder, GivenBelowCursor, NextIsAhead
<1>6. CASE Recv(a) \/ Snapshot(a) \/ NoAgent(a) \/ Arm(a) \/ Opened(a) \/ Finish(a) \/ Keep(a)
  <2>1. /\ logTurns' = logTurns /\ cursor' = cursor /\ pc'[a] # "start"
    BY <1>0, <1>6
       DEF Recv, AfterRecv, Snapshot, NoAgent, Arm, Opened, Finish, Keep, logVars
  <2>. QED
    BY <1>0, <2>1, OrderStable
<1>. QED
  BY <1>2, <1>3, <1>4, <1>5, <1>6 DEF LaneStep

LEMMA OrderInductive ==
    ASSUME TypeOK, OrderKept, [Next]_vars
    PROVE  OrderKept'
<1> SUFFICES ASSUME NEW a \in Agents
             PROVE  LaneOrder(a)' /\ GivenBelowCursor(a)' /\ NextIsAhead(a)'
  BY DEF OrderKept
<1>0. /\ LaneOrder(a) /\ GivenBelowCursor(a) /\ NextIsAhead(a) /\ cursor[a] \in Nat
      /\ logTurns \in [Agents -> Seq(Turn)] /\ cursor \in [Agents -> Nat]
      /\ turn \in [Agents -> Turn] /\ pc \in [Agents -> Resting \cup Busy \cup {"gone"}]
  BY DEF OrderKept, TypeOK, LaneType, LogType
<1>1. CASE LaneStep(a)
  BY <1>1, OrderLane
<1>2. ASSUME NEW b \in Agents, b # a, LaneStep(b)
      PROVE  LaneOrder(a)' /\ GivenBelowCursor(a)' /\ NextIsAhead(a)'
  <2>1. logTurns'[a] = logTurns[a] /\ cursor'[a] = cursor[a] /\ turn'[a] = turn[a] /\ pc'[a] = pc[a]
    BY <1>0, <1>2
       DEF LaneStep, Recv, Snapshot, TakeTurn, TakeNothing, NoAgent, TurnStarted, Arm, Opened,
           EndTurn, Finish, Keep, logVars
  <2>. QED
    BY <1>0, <2>1, OrderStable, SMTT(60)
<1>3. CASE Restart
  <2>1. logTurns' = logTurns /\ pc'[a] # "start" /\ IsFoldCursor(a, cursor'[a])
    BY <1>3 DEF Restart, logVars
  <2>2. \A k \in DOMAIN logTurns[a] : \A x \in logTurns[a][k].inputs : x <= cursor'[a]
    BY <2>1 DEF IsFoldCursor, Given
  <2>. QED
    BY <1>0, <2>1, <2>2 DEF LaneOrder, GivenBelowCursor, NextIsAhead
<1>4. CASE (\E c \in Clients : CallStep(c)) \/ CallBegins \/ UNCHANGED vars
  <2>1. logTurns' = logTurns /\ cursor' = cursor /\ turn' = turn /\ pc' = pc
    BY <1>4
       DEF CallStep, CallBegins, SubmitCheck, SubmitAppend, SubmitFails, SubmitNudge, Withdraw,
           CancelCall, CancelCollect, CancelRecord, CancelFails, CancelFire, CloseCommit,
           CloseLane, vars, logVars, laneVars
  <2>. QED
    BY <1>0, <2>1, OrderStable
<1>. QED
  BY <1>1, <1>2, <1>3, <1>4 DEF Next

LEMMA OrderAlways == Spec => []OrderKept
<1>1. Init => OrderKept
  BY DEF Init, OrderKept, LaneOrder, GivenBelowCursor, NextIsAhead
<1>2. TypeOK /\ OrderKept /\ [Next]_vars => OrderKept'
  BY OrderInductive
<1>. QED
  BY <1>1, <1>2, TypeCorrect, PTL DEF Spec

(* Lane::take and rebuild_session together: no interleaving, lost record or *)
(* restart makes the log show an agent reading a message twice, or a later  *)
(* message before an earlier one.                                           *)
THEOREM InOrder == Spec => []ReadsInOrder
<1>1. OrderKept => ReadsInOrder
  BY DEF OrderKept, LaneOrder, ReadsInOrder
<1>. QED
  BY <1>1, OrderAlways, PTL

(***************************************************************************)
(* Wake-ups.                                                               *)
(***************************************************************************)

(* The clone a lane looks through is an earlier inbox: a prefix of what the *)
(* inbox is now, in which only withdrawals can be missing.                  *)
SeenIsEarlier(a) ==
    pc[a] = "take" =>
        /\ Len(seen[a]) <= Len(inbox)
        /\ \A i \in 1..Len(seen[a]) :
            /\ seen[a][i].wake = inbox[i].wake
            /\ seen[a][i].withdrawn => inbox[i].withdrawn

ForLane(a, i) == a \in inbox[i].wake /\ ~inbox[i].withdrawn

NudgePending(a) == \E c \in Clients : call[c].op = "nudge" /\ a \in call[c].left

(* What a lane has yet to read, it will look for: a wake-up is kept for it  *)
(* or on its way, or the lane will clone the inbox before it parks, or it   *)
(* has the message in the clone it took.                                    *)
WillLook(a, i) ==
    \/ wake[a] \/ NudgePending(a)
    \/ pc[a] \in {"snapshot"} \cup Busy
    \/ pc[a] = "take" /\ i <= Len(seen[a])

WakeKept(a) ==
    /\ SeenIsEarlier(a)
    /\ ~closed /\ pc[a] # "gone" =>
        \A i \in (cursor[a] + 1)..Len(inbox) : ForLane(a, i) => WillLook(a, i)

(* A lane that no step moves, in a room whose inbox does not change, keeps  *)
(* its wake-ups as long as none is taken from it.                           *)
LEMMA WakeStable ==
    ASSUME NEW a \in Agents, WakeKept(a),
           inbox' = inbox, closed' = closed,
           pc'[a] = pc[a], seen'[a] = seen[a], cursor'[a] = cursor[a],
           wake[a] /\ pc[a] # "gone" => wake'[a],
           NudgePending(a) /\ pc[a] # "gone" => NudgePending(a)' \/ wake'[a]
    PROVE  WakeKept(a)'
BY DEF WakeKept, SeenIsEarlier, ForLane, WillLook

LEMMA WakeLane ==
    ASSUME TypeOK, NEW a \in Agents, WakeKept(a), LaneStep(a)
    PROVE  WakeKept(a)'
<1>0. /\ seen[a] \in Seq(Input) /\ cursor[a] \in Nat /\ inbox \in Seq(Input)
      /\ pc \in [Agents -> Resting \cup Busy \cup {"gone"}] /\ wake \in [Agents -> BOOLEAN]
      /\ seen \in [Agents -> Seq(Input)] /\ cursor \in [Agents -> Nat] /\ closed \in BOOLEAN
  BY DEF TypeOK, LaneType, RoomType
<1>1. inbox' = inbox /\ closed' = closed
  BY DEF LaneStep, Recv, Snapshot, TakeTurn, TakeNothing, NoAgent, TurnStarted, Arm, Opened,
         EndTurn, Finish, Keep, roomVars
<1>2. CASE Recv(a)
  BY <1>0, <1>1, <1>2 DEF Recv, AfterRecv, WakeKept, SeenIsEarlier, WillLook
<1>3. CASE Snapshot(a)
  <2>1. pc'[a] = "take" /\ seen'[a] = inbox /\ cursor' = cursor
    BY <1>0, <1>3 DEF Snapshot
  <2>2. Len(inbox) \in Nat
    BY <1>0
  <2>. QED
    BY <1>0, <1>1, <2>1, <2>2 DEF WakeKept, SeenIsEarlier, WillLook
<1>4. CASE TakeNothing(a)
  <2>1. /\ pc[a] = "take" /\ pc'[a] = "recv" /\ wake' = wake /\ call' = call
        /\ cursor'[a] = CursorAfterNone(a) /\ ~Wanted(a)
    BY <1>0, <1>4 DEF TakeNothing
  <2>2. Len(seen[a]) \in Nat /\ Len(inbox) \in Nat
    BY <1>0
  <2>3. cursor[a] <= CursorAfterNone(a) /\ CursorAfterNone(a) \in Nat
    BY <1>0, <2>2 DEF CursorAfterNone
  <2>4. ASSUME ~closed, NEW i \in (cursor'[a] + 1)..Len(inbox), ForLane(a, i)
        PROVE  wake[a] \/ NudgePending(a)
    <3>1. i \in (cursor[a] + 1)..Len(inbox)
      BY <1>0, <2>1, <2>2, <2>3
    <3>2. CASE i <= Len(seen[a])
      <4>1. i \in 1..Len(seen[a]) /\ i \in (cursor[a] + 1)..Len(seen[a])
        BY <1>0, <2>2, <3>1, <3>2
      <4>2. a \in seen[a][i].wake /\ ~seen[a][i].withdrawn
        BY <2>1, <2>4, <4>1 DEF WakeKept, SeenIsEarlier, ForLane
      <4>3. Wanted(a)
        BY <4>1, <4>2 DEF Wanted, Unread
      <4>. QED
        BY <2>1, <4>3
    <3>3. CASE ~(i <= Len(seen[a]))
      <4>1. WillLook(a, i)
        BY <2>1, <2>4, <3>1 DEF WakeKept
      <4>. QED
        BY <2>1, <3>3, <4>1 DEF WillLook, Busy
    <3>. QED
      BY <3>2, <3>3
  <2>. QED
    BY <1>1, <2>1, <2>4 DEF WakeKept, SeenIsEarlier, ForLane, WillLook, NudgePending
<1>5. CASE ~(Recv(a) \/ Snapshot(a) \/ TakeNothing(a))
  <2>1. pc'[a] \in {"snapshot"} \cup Busy
    BY <1>0, <1>5
       DEF LaneStep, TakeTurn, NoAgent, TurnStarted, Arm, Opened, EndTurn, Finish, Keep, Busy
  <2>. QED
    BY <1>1, <2>1 DEF WakeKept, SeenIsEarlier, WillLook, Busy
<1>. QED
  BY <1>2, <1>3, <1>4, <1>5

LEMMA WakeInductive ==
    ASSUME TypeOK, OnlyMembers, NEW a \in Agents, WakeKept(a), [Next]_vars
    PROVE  WakeKept(a)'
<1>0. /\ pc \in [Agents -> Resting \cup Busy \cup {"gone"}] /\ wake \in [Agents -> BOOLEAN]
      /\ seen \in [Agents -> Seq(Input)] /\ cursor \in [Agents -> Nat] /\ closed \in BOOLEAN
      /\ call \in [Clients -> Call] /\ inbox \in Seq(Input)
  BY DEF TypeOK, LaneType, CallType, RoomType
<1>1. CASE LaneStep(a)
  BY <1>1, WakeLane
<1>2. ASSUME NEW b \in Agents, b # a, LaneStep(b) PROVE WakeKept(a)'
  <2>1. /\ inbox' = inbox /\ closed' = closed /\ call' = call
        /\ pc'[a] = pc[a] /\ seen'[a] = seen[a] /\ cursor'[a] = cursor[a] /\ wake'[a] = wake[a]
    BY <1>0, <1>2
       DEF LaneStep, Recv, Snapshot, TakeTurn, TakeNothing, NoAgent, TurnStarted, Arm, Opened,
           EndTurn, Finish, Keep, roomVars
  <2>. QED
    BY <2>1, WakeStable DEF NudgePending
<1>3. ASSUME NEW c \in Clients, NEW b \in Agents, SubmitNudge(c, b) PROVE WakeKept(a)'
  <2>1. /\ pc' = pc /\ seen' = seen /\ cursor' = cursor /\ inbox' = inbox /\ closed' = closed
        /\ wake' = [wake EXCEPT ![b] = pc[b] # "gone"]
        /\ call' = [call EXCEPT ![c] = Visited(c, b)] /\ call[c].op = "nudge"
    BY <1>3 DEF SubmitNudge, Nudge, roomVars
  <2>2. wake[a] /\ pc[a] # "gone" => wake'[a]
    BY <1>0, <2>1
  <2>3. ASSUME NudgePending(a), pc[a] # "gone" PROVE NudgePending(a)' \/ wake'[a]
    <3>1. PICK d \in Clients : call[d].op = "nudge" /\ a \in call[d].left
      BY <2>3 DEF NudgePending
    <3>2. CASE a = b
      BY <1>0, <2>1, <2>3, <3>2
    <3>3. CASE a # b /\ d = c
      <4>1. call[c] \in Call
        BY <1>0
      <4>2. Visited(c, b).op = "nudge" /\ a \in Visited(c, b).left
        BY <2>1, <3>1, <3>3, <4>1 DEF Visited, Call
      <4>. QED
        BY <1>0, <2>1, <4>2 DEF NudgePending
    <3>4. CASE d # c
      BY <1>0, <2>1, <3>1, <3>4 DEF NudgePending
    <3>. QED
      BY <3>2, <3>3, <3>4
  <2>. QED
    BY <2>1, <2>2, <2>3, WakeStable
<1>4. ASSUME NEW c \in Clients, SubmitAppend(c) PROVE WakeKept(a)'
  <2>1. /\ \E w \in SUBSET members :
                inbox' = Append(inbox, [wake |-> w, withdrawn |-> FALSE])
        /\ call' = [call EXCEPT ![c] = [op |-> "nudge", left |-> members, held |-> {}]]
        /\ pc' = pc /\ seen' = seen /\ closed' = closed
    BY <1>4 DEF SubmitAppend, laneVars
  <2>2. Len(inbox) \in Nat /\ Len(inbox') = Len(inbox) + 1 /\ \A i \in 1..Len(inbox) : inbox'[i] = inbox[i]
    BY <1>0, <2>1
  <2>3. pc[a] # "gone" => NudgePending(a)'
    BY <1>0, <2>1 DEF NudgePending, OnlyMembers
  <2>4. SeenIsEarlier(a)'
    <3>1. seen[a] \in Seq(Input) /\ Len(seen[a]) \in Nat
      BY <1>0
    <3>. QED
      BY <2>1, <2>2, <3>1 DEF WakeKept, SeenIsEarlier
  <2>. QED
    BY <2>1, <2>3, <2>4 DEF WakeKept, WillLook
<1>5. ASSUME NEW j \in DOMAIN inbox, Withdraw(j) PROVE WakeKept(a)'
  <2>1. /\ inbox' = [inbox EXCEPT ![j].withdrawn = TRUE]
        /\ pc' = pc /\ seen' = seen /\ closed' = closed /\ cursor' = cursor /\ wake' = wake
        /\ call' = call
    BY <1>5 DEF Withdraw, laneVars
  <2>2. /\ Len(inbox) \in Nat /\ Len(inbox') = Len(inbox) /\ DOMAIN inbox = 1..Len(inbox)
        /\ Len(seen[a]) \in Nat
    BY <1>0, <2>1
  <2>3. \A i \in 1..Len(inbox) :
            inbox'[i].wake = inbox[i].wake /\ (inbox[i].withdrawn => inbox'[i].withdrawn)
    <3>1. \A i \in 1..Len(inbox) : inbox[i] \in Input
      BY <1>0
    <3>. QED
      BY <1>0, <2>1, <2>2, <3>1 DEF Input
  <2>4. SeenIsEarlier(a)'
    BY <2>1, <2>2, <2>3 DEF WakeKept, SeenIsEarlier
  <2>5. \A i \in 1..Len(inbox) : ForLane(a, i)' => ForLane(a, i)
    BY <2>3 DEF ForLane
  <2>6. \A i : WillLook(a, i) => WillLook(a, i)'
    BY <2>1 DEF WillLook, NudgePending
  <2>7. \A i \in (cursor[a] + 1)..Len(inbox) : i \in 1..Len(inbox)
    BY <1>0, <2>2
  <2>. QED
    BY <2>1, <2>2, <2>4, <2>5, <2>6, <2>7 DEF WakeKept
<1>6. ASSUME NEW c \in Clients, CloseCommit(c) PROVE WakeKept(a)'
  BY <1>6 DEF CloseCommit, laneVars, WakeKept, SeenIsEarlier
<1>7. ASSUME NEW c \in Clients,
             SubmitCheck(c) \/ SubmitFails(c) \/ CancelCall(c) \/ CancelRecord(c)
             \/ CancelFails(c) \/ CancelFire(c)
             \/ \E b \in Agents : CancelCollect(c, b) \/ CloseLane(c, b)
      PROVE  WakeKept(a)'
  <2>1. /\ inbox' = inbox /\ closed' = closed /\ pc' = pc /\ seen' = seen /\ cursor' = cursor
        /\ wake[a] /\ pc[a] # "gone" => wake'[a]
    BY <1>0, <1>7
       DEF SubmitCheck, SubmitFails, CancelCall, CancelRecord, CancelFails, CancelFire,
           CancelCollect, CloseLane, Nudge, roomVars, laneVars
  <2>2. call[c].op # "nudge" /\ \A d \in Clients \ {c} : call'[d] = call[d]
    BY <1>0, <1>7
       DEF SubmitCheck, SubmitFails, CancelCall, CancelRecord, CancelFails, CancelFire,
           CancelCollect, CloseLane
  <2>. QED
    BY <2>1, <2>2, WakeStable DEF NudgePending
<1>8. CASE Restart
  <2>1. /\ closed' = logClosed /\ pc'[a] = (IF logClosed \/ a \notin members THEN "gone" ELSE "recv")
        /\ wake'[a] = (~logClosed /\ a \in members)
    BY <1>8 DEF Restart
  <2>. QED
    BY <2>1 DEF WakeKept, SeenIsEarlier, WillLook
<1>9. CASE UNCHANGED vars
  BY <1>9, WakeStable DEF vars, roomVars, laneVars, NudgePending
<1>. QED
  BY <1>1, <1>2, <1>3, <1>4, <1>5, <1>6, <1>7, <1>8, <1>9 DEF Next, CallStep, CallBegins

WakesKept == \A a \in Agents : WakeKept(a)

LEMMA WakesAlways == Spec => []WakesKept
<1>1. Init => WakesKept
  BY DEF Init, WakesKept, WakeKept, SeenIsEarlier
<1>2. TypeOK /\ OnlyMembers /\ WakesKept /\ [Next]_vars => WakesKept'
  BY WakeInductive DEF WakesKept
<1>. QED
  BY <1>1, <1>2, TypeCorrect, OnlyMembersAlways, PTL DEF Spec

(* Lane::nudge leaves at most one token, and may find the lane awake: no    *)
(* message is lost by it, however nudges, turns and clones interleave.      *)
THEOREM WakeupsKept == Spec => []NoLostWakeup
<1>1. WakesKept => NoLostWakeup
  BY DEF WakesKept, WakeKept, WillLook, ForLane, NudgePending, NoLostWakeup, Busy
<1>. QED
  BY <1>1, WakesAlways, PTL

(***************************************************************************)
(* Cancelling.                                                             *)
(***************************************************************************)

Asked(a, no) == logClosed \/ <<a, no>> \in logAsked

(* Calls fire what they have recorded, and close what they have closed.     *)
CallsRecorded ==
    \A c \in Clients :
        /\ call[c].op = "close" => logClosed
        /\ call[c].op = "fire" => call[c].held \subseteq logAsked

(* A lane has a token, and a fired one, only from Arm to Finish, and what   *)
(* fired it was about the turn the lane is at.                              *)
LaneAsked(a) ==
    /\ armed[a] => pc[a] \in {"open", "run", "finish"}
    /\ stop[a] => armed[a] /\ Asked(a, turn[a].no)
    /\ pc[a] = "start" => turn[a].end = "running"
    /\ \A k \in DOMAIN logTurns[a] :
            logTurns[a][k].end = "cancelled" => Asked(a, logTurns[a][k].no)

CancelKept == CallsRecorded /\ \A a \in Agents : LaneAsked(a)

(* What is asked stays asked. *)
LEMMA AskedStable ==
    ASSUME NEW a \in Agents, LaneAsked(a),
           logClosed => logClosed', logAsked \subseteq logAsked',
           logTurns'[a] = logTurns[a], pc'[a] = pc[a], turn'[a] = turn[a], armed'[a] = armed[a],
           stop'[a] => stop[a] \/ (armed[a] /\ Asked(a, turn[a].no)')
    PROVE  LaneAsked(a)'
BY DEF LaneAsked, Asked

LEMMA AskedLane ==
    ASSUME TypeOK, CallsRecorded, NEW a \in Agents, LaneAsked(a), LaneStep(a)
    PROVE  LaneAsked(a)'
<1>0. /\ turn[a] \in Turn /\ logTurns[a] \in Seq(Turn)
      /\ logTurns \in [Agents -> Seq(Turn)] /\ turn \in [Agents -> Turn]
      /\ pc \in [Agents -> Resting \cup Busy \cup {"gone"}]
      /\ armed \in [Agents -> BOOLEAN] /\ stop \in [Agents -> BOOLEAN]
  BY DEF TypeOK, LaneType, LogType
<1>1. logClosed' = logClosed /\ logAsked' = logAsked
  BY DEF LaneStep, Recv, Snapshot, TakeTurn, TakeNothing, NoAgent, TurnStarted, Arm, Opened,
         EndTurn, Finish, Keep, logVars
<1>2. CASE Recv(a) \/ Snapshot(a) \/ TakeNothing(a) \/ Arm(a) \/ Opened(a)
  <2>1. /\ logTurns' = logTurns /\ turn' = turn /\ stop' = stop /\ pc'[a] # "start"
        /\ armed'[a] => pc'[a] \in {"open", "run", "finish"} /\ (armed[a] \/ Arm(a))
        /\ armed[a] => armed'[a]
    BY <1>0, <1>2
       DEF Recv, AfterRecv, Snapshot, TakeNothing, Arm, Opened, logVars, LaneAsked
  <2>. QED
    BY <1>1, <2>1 DEF LaneAsked, Asked
<1>3. CASE TakeTurn(a)
  <2>1. /\ logTurns' = logTurns /\ turn'[a].end = "running" /\ pc[a] = "take"
        /\ armed' = armed /\ stop' = stop
    BY <1>0, <1>3 DEF TakeTurn, logVars
  <2>. QED
    BY <1>1, <2>1 DEF LaneAsked, Asked
<1>4. CASE NoAgent(a)
  <2>1. /\ logTurns' = logTurns /\ turn'[a].no = turn[a].no /\ pc'[a] = "finish"
        /\ armed' = armed /\ stop' = stop
    BY <1>0, <1>4 DEF NoAgent, logVars, Turn
  <2>. QED
    BY <1>1, <2>1 DEF LaneAsked, Asked
<1>5. CASE TurnStarted(a)
  <2>1. /\ turn' = turn /\ pc[a] = "start" /\ pc'[a] = "arm" /\ armed' = armed /\ stop' = stop
        /\ logTurns'[a] \in {logTurns[a], Append(logTurns[a], turn[a])}
    BY <1>0, <1>5 DEF TurnStarted
  <2>2. \A k \in DOMAIN logTurns'[a] :
            (k \in DOMAIN logTurns[a] /\ logTurns'[a][k] = logTurns[a][k])
            \/ logTurns'[a][k] = turn[a]
    <3>1. \A k \in DOMAIN Append(logTurns[a], turn[a]) :
              (k \in DOMAIN logTurns[a] /\ Append(logTurns[a], turn[a])[k] = logTurns[a][k])
              \/ Append(logTurns[a], turn[a])[k] = turn[a]
      BY <1>0
    <3>2. CASE logTurns'[a] = logTurns[a]
      BY <3>2
    <3>3. CASE logTurns'[a] = Append(logTurns[a], turn[a])
      BY <3>1, <3>3
    <3>. QED
      BY <2>1, <3>2, <3>3
  <2>. QED
    BY <1>1, <2>1, <2>2 DEF LaneAsked, Asked
<1>6. ASSUME NEW end \in Ends, EndTurn(a, end) PROVE LaneAsked(a)'
  <2>1. /\ turn'[a].no = turn[a].no /\ pc[a] \in {"open", "run"} /\ pc'[a] = "finish"
        /\ armed' = armed /\ stop' = stop /\ (end = "cancelled" => stop[a])
        /\ logTurns'[a] \in {logTurns[a], WithEnd(logTurns[a], turn[a].no, end)}
    BY <1>0, <1>6 DEF EndTurn, MayEnd, Turn
  <2>2. \A k \in DOMAIN logTurns'[a] :
            /\ k \in DOMAIN logTurns[a]
            /\ \/ logTurns'[a][k] = logTurns[a][k]
               \/ logTurns'[a][k].end = end /\ logTurns'[a][k].no = turn[a].no
    <3>1. \A k \in DOMAIN logTurns[a] : logTurns[a][k] \in Turn
      BY <1>0
    <3>2. \A t \in Turn : [t EXCEPT !.end = end].no = t.no /\ [t EXCEPT !.end = end].end = end
      BY DEF Turn
    <3>3. CASE logTurns'[a] = logTurns[a]
      BY <3>3
    <3>4. CASE logTurns'[a] = WithEnd(logTurns[a], turn[a].no, end)
      <4>1. DOMAIN logTurns'[a] = DOMAIN logTurns[a]
        BY <3>4 DEF WithEnd
      <4>2. ASSUME NEW k \in DOMAIN logTurns[a], logTurns[a][k].no # turn[a].no
            PROVE  logTurns'[a][k] = logTurns[a][k]
        BY <3>4, <4>2 DEF WithEnd
      <4>3. ASSUME NEW k \in DOMAIN logTurns[a], logTurns[a][k].no = turn[a].no
            PROVE  logTurns'[a][k].end = end /\ logTurns'[a][k].no = turn[a].no
        <5>1. logTurns'[a][k] = [logTurns[a][k] EXCEPT !.end = end]
          BY <3>4, <4>3 DEF WithEnd
        <5>. QED
          BY <3>1, <3>2, <4>3, <5>1
      <4>. QED
        BY <4>1, <4>2, <4>3
    <3>. QED
      BY <2>1, <3>3, <3>4
  <2>. QED
    BY <1>1, <2>1, <2>2 DEF LaneAsked, Asked
<1>7. CASE Finish(a) \/ Keep(a)
  <2>1. /\ logTurns' = logTurns /\ pc'[a] \in {"keep", "snapshot"}
        /\ ~armed'[a] /\ ~stop'[a]
    BY <1>0, <1>7 DEF Finish, Keep, logVars, LaneAsked
  <2>. QED
    BY <1>1, <2>1 DEF LaneAsked, Asked
<1>. QED
  BY <1>2, <1>3, <1>4, <1>5, <1>6, <1>7 DEF LaneStep

LEMMA CancelInductive ==
    ASSUME TypeOK, CancelKept, [Next]_vars
    PROVE  CancelKept'
<1>0. /\ call \in [Clients -> Call] /\ stop \in [Agents -> BOOLEAN] /\ turn \in [Agents -> Turn]
      /\ armed \in [Agents -> BOOLEAN] /\ logTurns \in [Agents -> Seq(Turn)]
      /\ pc \in [Agents -> Resting \cup Busy \cup {"gone"}]
  BY DEF TypeOK, LaneType, CallType, LogType
<1>1. ASSUME NEW b \in Agents, LaneStep(b) PROVE CancelKept'
  <2>1. /\ logClosed' = logClosed /\ logAsked' = logAsked /\ call' = call
        /\ \A a \in Agents \ {b} :
              /\ logTurns'[a] = logTurns[a] /\ pc'[a] = pc[a] /\ turn'[a] = turn[a]
              /\ armed'[a] = armed[a] /\ stop'[a] = stop[a]
    BY <1>0, <1>1
       DEF LaneStep, Recv, Snapshot, TakeTurn, TakeNothing, NoAgent, TurnStarted, Arm, Opened,
           EndTurn, Finish, Keep, logVars
  <2>2. \A a \in Agents : LaneAsked(a)'
    BY <1>1, <2>1, AskedLane, AskedStable DEF CancelKept
  <2>. QED
    BY <2>1, <2>2 DEF CancelKept, CallsRecorded
<1>2. ASSUME NEW c \in Clients,
             CallStep(c) \/ SubmitCheck(c) \/ CancelCall(c) \/ CloseCommit(c)
      PROVE  CancelKept'
  <2>1. /\ logClosed => logClosed'
        /\ logAsked \subseteq logAsked'
        /\ logTurns' = logTurns /\ pc' = pc /\ turn' = turn /\ armed' = armed
        /\ \A d \in Clients \ {c} : call'[d] = call[d]
    BY <1>0, <1>2
       DEF CallStep, SubmitCheck, SubmitAppend, SubmitFails, SubmitNudge, CancelCall,
           CancelCollect, CancelRecord, CancelFails, CancelFire, CloseCommit, CloseLane,
           logVars, laneVars
  <2>2. CASE CancelRecord(c)
    <3>1. /\ call'[c].op = "fire" => call'[c].held \subseteq logAsked'
          /\ call'[c].op # "close" /\ stop' = stop
      <4>1. stop' = stop /\ call[c] \in Call
        BY <1>0, <2>2 DEF CancelRecord, laneVars
      <4>2. CASE call[c].held = {}
        <5>1. call'[c] = Idle
          BY <1>0, <2>2, <4>2 DEF CancelRecord
        <5>. QED
          BY <4>1, <5>1 DEF Idle
      <4>3. CASE call[c].held # {}
        <5>1. call'[c] = [call[c] EXCEPT !.op = "fire"] /\ logAsked' = logAsked \cup call[c].held
          BY <1>0, <2>2, <4>3 DEF CancelRecord
        <5>2. call'[c].op = "fire" /\ call'[c].held = call[c].held
          BY <4>1, <5>1 DEF Call
        <5>. QED
          BY <4>1, <5>1, <5>2
      <4>. QED
        BY <4>2, <4>3
    <3>. QED
      BY <2>1, <3>1, AskedStable DEF CancelKept, CallsRecorded
  <2>3. CASE CancelFire(c)
    <3>1. /\ stop' = StopHeld(c) /\ call'[c].op = "idle"
      BY <1>0, <2>3 DEF CancelFire, Idle
    <3>2. \A a \in Agents : stop'[a] => stop[a] \/ (armed[a] /\ Asked(a, turn[a].no)')
      BY <1>0, <2>1, <2>3, <3>1 DEF CancelFire, StopHeld, CancelKept, CallsRecorded, Asked
    <3>. QED
      BY <2>1, <3>1, <3>2, AskedStable DEF CancelKept, CallsRecorded
  <2>4. ASSUME NEW b \in Agents, CloseLane(c, b) PROVE CancelKept'
    <3>1. /\ logClosed /\ logClosed'
          /\ call'[c].op # "fire"
          /\ \A a \in Agents : stop'[a] => stop[a] \/ armed[a]
      BY <1>0, <2>1, <2>4
         DEF CloseLane, Visited, Idle, Call, CancelKept, CallsRecorded
    <3>2. \A a \in Agents : stop'[a] => stop[a] \/ (armed[a] /\ Asked(a, turn[a].no)')
      BY <3>1 DEF Asked
    <3>. QED
      BY <2>1, <3>1, <3>2, AskedStable DEF CancelKept, CallsRecorded
  <2>5. CASE CloseCommit(c)
    <3>1. logClosed' /\ call'[c].op = "close" /\ stop' = stop
      BY <1>0, <2>5 DEF CloseCommit, laneVars
    <3>. QED
      BY <2>1, <3>1, AskedStable DEF CancelKept, CallsRecorded
  <2>6. ASSUME SubmitCheck(c) \/ SubmitAppend(c) \/ SubmitFails(c) \/ CancelCall(c)
               \/ CancelFails(c)
               \/ \E b \in Agents : SubmitNudge(c, b) \/ CancelCollect(c, b)
        PROVE  CancelKept'
    <3>1. stop' = stop /\ call'[c].op \notin {"fire", "close"}
      BY <1>0, <2>6
         DEF SubmitCheck, SubmitAppend, SubmitFails, SubmitNudge, CancelCall, CancelCollect,
             CancelFails, Visited, Idle, Call, laneVars
    <3>. QED
      BY <2>1, <3>1, AskedStable DEF CancelKept, CallsRecorded
  <2>. QED
    BY <1>2, <2>2, <2>3, <2>4, <2>5, <2>6 DEF CallStep
<1>3. ASSUME NEW i \in DOMAIN inbox, Withdraw(i) PROVE CancelKept'
  <2>1. /\ logClosed' = logClosed /\ logAsked' = logAsked /\ call' = call /\ logTurns' = logTurns
        /\ pc' = pc /\ turn' = turn /\ armed' = armed /\ stop' = stop
    BY <1>3 DEF Withdraw, laneVars
  <2>. QED
    BY <2>1, AskedStable DEF CancelKept, CallsRecorded
<1>4. CASE Restart
  <2>1. /\ logClosed' = logClosed /\ logAsked' = logAsked /\ logTurns' = logTurns
        /\ \A a \in Agents : pc'[a] # "start" /\ ~armed'[a] /\ ~stop'[a]
        /\ \A c \in Clients : call'[c].op = "idle"
    BY <1>4 DEF Restart, logVars, Idle
  <2>. QED
    BY <2>1 DEF CancelKept, CallsRecorded, LaneAsked, Asked
<1>5. CASE UNCHANGED vars
  <2>1. /\ logClosed' = logClosed /\ logAsked' = logAsked /\ call' = call /\ logTurns' = logTurns
        /\ pc' = pc /\ turn' = turn /\ armed' = armed /\ stop' = stop
    BY <1>5 DEF vars, logVars, laneVars
  <2>. QED
    BY <2>1, AskedStable DEF CancelKept, CallsRecorded
<1>. QED
  BY <1>1, <1>2, <1>3, <1>4, <1>5 DEF Next, CallBegins

(* SessionManager::cancel collects tokens, records, and only then fires     *)
(* them: a lane that has moved on to another turn in between is not         *)
(* stopped, so whatever the log shows cancelled was asked for.              *)
THEOREM CancelsAsked == Spec => []CancelledWasAsked
<1>1. Init => CancelKept
  BY DEF Init, CancelKept, CallsRecorded, LaneAsked, Idle
<1>2. TypeOK /\ CancelKept /\ [Next]_vars => CancelKept'
  BY CancelInductive
<1>3. CancelKept => CancelledWasAsked
  BY DEF CancelKept, LaneAsked, Asked, CancelledWasAsked
<1>. QED
  BY <1>1, <1>2, <1>3, TypeCorrect, PTL DEF Spec

(***************************************************************************)
(* The numbers of turns.                                                   *)
(***************************************************************************)

(* A set of numbers has a least one. The library's induction theorems take  *)
(* the property as an operator, which no prover here can instantiate; that  *)
(* a non-empty set has a minimal element does not.                          *)
LEMMA LeastNatural ==
    ASSUME NEW T, T \subseteq Nat, T # {}
    PROVE  \E t \in T : \A u \in T : t <= u
<1>. DEFINE R == {p \in Nat \X Nat : p[1] < p[2]}
<1>1. IsWellFoundedOn(R, Nat)
  BY NatLessThanWellFounded DEF OpToRel
<1>2. PICK t \in T : \A u \in T : ~(<<u, t>> \in R)
  <2>. HIDE DEF R
  <2>. QED
    BY <1>1, WFMin
<1>3. ASSUME NEW u \in T PROVE t <= u
  <2>1. u \in Nat /\ t \in Nat /\ <<u, t>> \in Nat \X Nat
    OBVIOUS
  <2>2. ~(<<u, t>> \in R)
    BY <1>2
  <2>3. ~(u < t)
    BY <2>1, <2>2
  <2>. QED
    BY <2>1, <2>3
<1>. QED
  BY <1>3

(* A bounded set of numbers has a greatest one. *)
LEMMA GreatestBelow ==
    ASSUME NEW m \in Nat, NEW U \in SUBSET (0..m), U # {}
    PROVE  \E n \in U : \A i \in U : i <= n
<1>. DEFINE T == {k \in 0..m : m - k \in U}
<1>1. T \subseteq Nat /\ T # {}
  <2>1. PICK i \in U : TRUE
    OBVIOUS
  <2>2. m - i \in 0..m /\ m - (m - i) = i
    BY <2>1
  <2>3. m - i \in T
    BY <2>1, <2>2
  <2>4. T \subseteq Nat
    OBVIOUS
  <2>. HIDE DEF T
  <2>. QED
    BY <2>3, <2>4
<1>2. PICK t \in T : \A u \in T : t <= u
  <2>. HIDE DEF T
  <2>. QED
    BY <1>1, LeastNatural
<1>3. ASSUME NEW i \in U PROVE i <= m - t
  <2>1. m - i \in 0..m /\ m - (m - i) = i
    OBVIOUS
  <2>2. t <= m - i
    BY <1>2, <2>1
  <2>. QED
    BY <2>1, <2>2
<1>. QED
  BY <1>3

(* A terminal event leaves the turns of a log their numbers and inputs. *)
LEMMA WithEndKeeps ==
    ASSUME NEW turns \in Seq(Turn), NEW no, NEW end \in Ends
    PROVE  /\ Len(WithEnd(turns, no, end)) = Len(turns)
           /\ DOMAIN WithEnd(turns, no, end) = DOMAIN turns
           /\ \A k \in DOMAIN turns : WithEnd(turns, no, end)[k].no = turns[k].no
           /\ \A k \in DOMAIN turns : WithEnd(turns, no, end)[k].inputs = turns[k].inputs
<1>1. \A k \in DOMAIN turns : turns[k] \in Turn
  OBVIOUS
<1>2. \A t \in Turn : [t EXCEPT !.end = end].no = t.no /\ [t EXCEPT !.end = end].inputs = t.inputs
  BY DEF Turn
<1>3. /\ DOMAIN WithEnd(turns, no, end) = DOMAIN turns
      /\ \A k \in DOMAIN turns :
            WithEnd(turns, no, end)[k] =
                IF turns[k].no = no THEN [turns[k] EXCEPT !.end = end] ELSE turns[k]
  BY DEF WithEnd
<1>4. Len(WithEnd(turns, no, end)) = Len(turns)
  BY <1>3, WithEndType
<1>. QED
  BY <1>1, <1>2, <1>3, <1>4

(* The lane mints a turn's number when it takes it: the turns of a log      *)
(* carry numbers that rise, and the one a lane holds is above them.         *)
NumbersRise(a) ==
    /\ \A j, k \in DOMAIN logTurns[a] : j < k => logTurns[a][j].no < logTurns[a][k].no
    /\ \A k \in DOMAIN logTurns[a] : logTurns[a][k].no <= minted[a]
    /\ pc[a] = "start" => \A k \in DOMAIN logTurns[a] : logTurns[a][k].no < turn[a].no
    /\ pc[a] \in Busy => turn[a].no <= minted[a]

LEMMA NumbersStable ==
    ASSUME NEW a \in Agents, NumbersRise(a),
           DOMAIN logTurns'[a] = DOMAIN logTurns[a],
           \A k \in DOMAIN logTurns[a] : logTurns'[a][k].no = logTurns[a][k].no,
           minted'[a] = minted[a],
           pc'[a] = "start" => pc[a] = "start",
           pc'[a] \in Busy => pc[a] \in Busy /\ turn'[a].no = turn[a].no
    PROVE  NumbersRise(a)'
BY DEF NumbersRise, Busy

LEMMA NumbersLane ==
    ASSUME TypeOK, NEW a \in Agents, NumbersRise(a), LaneStep(a)
    PROVE  NumbersRise(a)'
<1>0. /\ turn[a] \in Turn /\ logTurns[a] \in Seq(Turn) /\ minted[a] \in Nat
      /\ \A k \in DOMAIN logTurns[a] : logTurns[a][k].no \in Nat
      /\ turn[a].no \in Nat
      /\ logTurns \in [Agents -> Seq(Turn)] /\ minted \in [Agents -> Nat]
      /\ turn \in [Agents -> Turn] /\ pc \in [Agents -> Resting \cup Busy \cup {"gone"}]
  <2>1. /\ turn[a] \in Turn /\ logTurns[a] \in Seq(Turn) /\ minted[a] \in Nat
        /\ logTurns \in [Agents -> Seq(Turn)] /\ minted \in [Agents -> Nat]
        /\ turn \in [Agents -> Turn] /\ pc \in [Agents -> Resting \cup Busy \cup {"gone"}]
    BY DEF TypeOK, LaneType, LogType
  <2>2. \A k \in DOMAIN logTurns[a] : logTurns[a][k] \in Turn
    BY <2>1
  <2>. QED
    BY <2>1, <2>2 DEF Turn
<1>1. CASE TakeTurn(a)
  <2>1. /\ logTurns' = logTurns /\ minted'[a] = minted[a] + 1 /\ turn'[a].no = minted[a] + 1
        /\ pc'[a] = "start"
    BY <1>0, <1>1 DEF TakeTurn, logVars
  <2>. QED
    BY <1>0, <2>1 DEF NumbersRise
<1>2. CASE TurnStarted(a)
  <2>1. /\ pc[a] = "start" /\ pc'[a] = "arm" /\ minted' = minted /\ turn' = turn
        /\ logTurns'[a] \in {logTurns[a], Append(logTurns[a], turn[a])}
    BY <1>0, <1>2 DEF TurnStarted
  <2>2. CASE logTurns'[a] = logTurns[a]
    BY <2>1, <2>2, NumbersStable DEF Busy
  <2>3. CASE logTurns'[a] = Append(logTurns[a], turn[a])
    <3>1. DEFINE n == Len(logTurns[a])
    <3>2. /\ n \in Nat /\ DOMAIN logTurns[a] = 1..n /\ DOMAIN logTurns'[a] = 1..(n + 1)
          /\ \A k \in 1..n : logTurns'[a][k] = logTurns[a][k]
          /\ logTurns'[a][n + 1] = turn[a]
      BY <1>0, <2>3
    <3>3. \A k \in 1..(n + 1) : k \in 1..n \/ k = n + 1
      BY <3>2
    <3>4. \A k \in 1..n : logTurns[a][k].no < turn[a].no
      BY <2>1, <3>2 DEF NumbersRise
    <3>5. turn[a].no <= minted[a]
      BY <2>1 DEF NumbersRise, Busy
    <3>6. \A k \in DOMAIN logTurns'[a] : logTurns'[a][k].no <= minted'[a]
      BY <1>0, <2>1, <3>2, <3>3, <3>5 DEF NumbersRise
    <3>7. ASSUME NEW j \in 1..(n + 1), NEW k \in 1..(n + 1), j < k
          PROVE  logTurns'[a][j].no < logTurns'[a][k].no
      <4>1. j \in 1..n
        BY <3>2, <3>7
      <4>2. CASE k \in 1..n
        BY <3>2, <3>7, <4>1, <4>2 DEF NumbersRise
      <4>3. CASE k = n + 1
        BY <3>2, <3>4, <4>1, <4>3
      <4>. QED
        BY <3>3, <4>2, <4>3
    <3>. HIDE DEF n
    <3>. QED
      BY <2>1, <3>2, <3>5, <3>6, <3>7 DEF NumbersRise
  <2>. QED
    BY <2>1, <2>2, <2>3
<1>3. ASSUME NEW end \in Ends, EndTurn(a, end) PROVE NumbersRise(a)'
  <2>1. /\ pc[a] \in Busy /\ pc'[a] = "finish" /\ minted' = minted /\ turn'[a].no = turn[a].no
        /\ logTurns'[a] \in {logTurns[a], WithEnd(logTurns[a], turn[a].no, end)}
    BY <1>0, <1>3 DEF EndTurn, Turn, Busy
  <2>2. /\ DOMAIN logTurns'[a] = DOMAIN logTurns[a]
        /\ \A k \in DOMAIN logTurns[a] : logTurns'[a][k].no = logTurns[a][k].no
    <3>1. CASE logTurns'[a] = logTurns[a]
      BY <3>1
    <3>2. /\ DOMAIN WithEnd(logTurns[a], turn[a].no, end) = DOMAIN logTurns[a]
          /\ \A k \in DOMAIN logTurns[a] :
                WithEnd(logTurns[a], turn[a].no, end)[k].no = logTurns[a][k].no
      BY <1>0, WithEndKeeps
    <3>3. CASE logTurns'[a] = WithEnd(logTurns[a], turn[a].no, end)
      BY <3>2, <3>3
    <3>. QED
      BY <2>1, <3>1, <3>3
  <2>. QED
    BY <2>1, <2>2, NumbersStable
<1>4. CASE Recv(a) \/ Snapshot(a) \/ TakeNothing(a) \/ NoAgent(a) \/ Arm(a) \/ Opened(a)
           \/ Finish(a) \/ Keep(a)
  <2>1. /\ logTurns' = logTurns /\ minted' = minted /\ pc'[a] # "start"
        /\ pc'[a] \in Busy => pc[a] \in Busy /\ turn'[a].no = turn[a].no
    BY <1>0, <1>4
       DEF Recv, AfterRecv, Snapshot, TakeNothing, NoAgent, Arm, Opened, Finish, Keep, logVars,
           Busy, Turn
  <2>. QED
    BY <2>1, NumbersStable
<1>. QED
  BY <1>1, <1>2, <1>3, <1>4 DEF LaneStep

LEMMA NumbersInductive ==
    ASSUME TypeOK, NEW a \in Agents, NumbersRise(a), [Next]_vars
    PROVE  NumbersRise(a)'
<1>0. /\ logTurns \in [Agents -> Seq(Turn)] /\ minted \in [Agents -> Nat]
      /\ turn \in [Agents -> Turn] /\ pc \in [Agents -> Resting \cup Busy \cup {"gone"}]
  BY DEF TypeOK, LaneType, LogType
<1>1. CASE LaneStep(a)
  BY <1>1, NumbersLane
<1>2. ASSUME NEW b \in Agents, b # a, LaneStep(b) PROVE NumbersRise(a)'
  <2>1. /\ logTurns'[a] = logTurns[a] /\ minted'[a] = minted[a] /\ turn'[a] = turn[a]
        /\ pc'[a] = pc[a]
    BY <1>0, <1>2
       DEF LaneStep, Recv, Snapshot, TakeTurn, TakeNothing, NoAgent, TurnStarted, Arm, Opened,
           EndTurn, Finish, Keep, logVars
  <2>. QED
    BY <2>1, NumbersStable
<1>3. CASE Restart
  <2>1. logTurns' = logTurns /\ minted' = minted /\ pc'[a] \notin Busy
    BY <1>3 DEF Restart, logVars, Busy
  <2>. QED
    BY <2>1, NumbersStable DEF Busy
<1>4. CASE (\E c \in Clients : CallStep(c)) \/ CallBegins \/ UNCHANGED vars
  <2>1. logTurns' = logTurns /\ minted' = minted /\ turn' = turn /\ pc' = pc
    BY <1>4
       DEF CallStep, CallBegins, SubmitCheck, SubmitAppend, SubmitFails, SubmitNudge, Withdraw,
           CancelCall, CancelCollect, CancelRecord, CancelFails, CancelFire, CloseCommit,
           CloseLane, vars, logVars, laneVars
  <2>. QED
    BY <2>1, NumbersStable
<1>. QED
  BY <1>1, <1>2, <1>3, <1>4 DEF Next

LEMMA NumbersAlways == Spec => [](\A a \in Agents : NumbersRise(a))
<1>1. Init => \A a \in Agents : NumbersRise(a)
  BY DEF Init, NumbersRise, Busy
<1>2. TypeOK /\ (\A a \in Agents : NumbersRise(a)) /\ [Next]_vars
        => (\A a \in Agents : NumbersRise(a))'
  BY NumbersInductive
<1>. QED
  BY <1>1, <1>2, TypeCorrect, PTL DEF Spec

(***************************************************************************)
(* The room in memory is the fold of its log.                              *)
(***************************************************************************)

(* The inbox, message by message. *)
InboxIsFold ==
    /\ Len(inbox) = Len(logInputs)
    /\ \A i \in 1..Len(inbox) :
        /\ inbox[i].wake = logInputs[i].wake
        /\ inbox[i].withdrawn <=> i \in logWithdrawn
    /\ \A i \in logWithdrawn : i <= Len(inbox)

RoomIsFold == InboxIsFold /\ speakers = FoldSpeakers /\ closed = logClosed

Folded(t) == [t EXCEPT !.end = FoldEnd(@)]

(* The lane's turn has its turn.started in the log.                         *)
InLog(a) == pc[a] \in {"arm", "open", "run", "finish", "keep"}

(* Only a turn in progress is in the log and not yet in the history: it is  *)
(* the log's last, with the end the lane has it at.                         *)
LaneIsFold(a) ==
    /\ Len(logTurns[a]) = Len(history[a]) + (IF InLog(a) THEN 1 ELSE 0)
    /\ \A k \in DOMAIN history[a] : history[a][k] = Folded(logTurns[a][k])
    /\ InLog(a) => logTurns[a][Len(logTurns[a])] = turn[a]
    /\ pc[a] \in {"start", "arm", "open", "run"} => turn[a].end = "running"
    /\ pc[a] \notin Busy => turn[a] = NoTurn
    /\ opened[a] <=> a \in logOpened

(* What the cursor has passed was given to the agent, or is about to be, or *)
(* was withdrawn; and the agent only ever worked on what it was given.      *)
CursorCovered(a) ==
    /\ cursor[a] <= Len(inbox)
    /\ \A i \in 1..cursor[a] :
        inbox[i].withdrawn \/ i \in Given(a) \/ (pc[a] = "start" /\ i \in turn[a].inputs)
    /\ ran[a] \subseteq Given(a)
    /\ pc[a] \in {"start", "arm", "open"} => turn[a].inputs \cap ran[a] = {}

FoldKept == faults = 0 => RoomIsFold /\ \A a \in Agents : LaneIsFold(a) /\ CursorCovered(a)

(* The inbox the log gives, from its messages one by one. *)
LEMMA InboxFolds ==
    ASSUME TypeOK, InboxIsFold
    PROVE  inbox = FoldInbox
<1>0. inbox \in Seq(Input) /\ logInputs \in Seq(LogInput)
  BY DEF TypeOK, LogType, RoomType
<1>1. /\ DOMAIN inbox = 1..Len(inbox) /\ DOMAIN logInputs = 1..Len(inbox)
      /\ inbox = [i \in 1..Len(inbox) |-> inbox[i]]
  BY <1>0 DEF InboxIsFold
<1>2. ASSUME NEW i \in 1..Len(inbox)
      PROVE  inbox[i] = [wake |-> logInputs[i].wake, withdrawn |-> i \in logWithdrawn]
  <2>1. inbox[i] \in Input
    BY <1>0
  <2>2. inbox[i].wake = logInputs[i].wake /\ (inbox[i].withdrawn <=> i \in logWithdrawn)
    BY DEF InboxIsFold
  <2>3. /\ inbox[i] = [wake |-> inbox[i].wake, withdrawn |-> inbox[i].withdrawn]
        /\ inbox[i].withdrawn \in BOOLEAN /\ (i \in logWithdrawn) \in BOOLEAN
    BY <2>1 DEF Input
  <2>4. inbox[i].withdrawn = (i \in logWithdrawn)
    BY <2>2, <2>3
  <2>. QED
    BY <2>2, <2>3, <2>4
<1>. QED
  BY <1>1, <1>2 DEF FoldInbox

(* Steps that leave the room and its part of the log alone. *)
LEMMA RoomStable ==
    ASSUME RoomIsFold, inbox' = inbox, logInputs' = logInputs, logWithdrawn' = logWithdrawn,
           speakers' = speakers, closed' = closed, logClosed' = logClosed
    PROVE  RoomIsFold'
BY DEF RoomIsFold, InboxIsFold, FoldSpeakers

LEMMA RoomFold ==
    ASSUME TypeOK, RoomIsFold, [Next]_vars
    PROVE  RoomIsFold'
<1>0. /\ inbox \in Seq(Input) /\ logInputs \in Seq(LogInput) /\ Len(inbox) \in Nat
      /\ DOMAIN inbox = 1..Len(inbox) /\ DOMAIN logInputs = 1..Len(logInputs)
  BY DEF TypeOK, LogType, RoomType
<1>1. ASSUME NEW c \in Clients, SubmitAppend(c) PROVE RoomIsFold'
  <2>1. PICK w \in SUBSET members :
            /\ logInputs' = Append(logInputs, [author |-> c, wake |-> w])
            /\ inbox' = Append(inbox, [wake |-> w, withdrawn |-> FALSE])
    BY <1>1 DEF SubmitAppend
  <2>2. /\ speakers' = speakers \cup {c} /\ closed' = closed /\ logClosed' = logClosed
        /\ logWithdrawn' = logWithdrawn
    BY <1>1 DEF SubmitAppend
  <2>3. DEFINE n == Len(inbox)
  <2>4. /\ n \in Nat /\ Len(logInputs) = n
        /\ Len(inbox') = n + 1 /\ Len(logInputs') = n + 1 /\ DOMAIN logInputs' = 1..(n + 1)
        /\ \A i \in 1..n : inbox'[i] = inbox[i] /\ logInputs'[i] = logInputs[i]
        /\ inbox'[n + 1] = [wake |-> w, withdrawn |-> FALSE]
        /\ logInputs'[n + 1] = [author |-> c, wake |-> w]
    BY <1>0, <2>1 DEF RoomIsFold, InboxIsFold
  <2>5. \A i \in logWithdrawn : i <= n
    BY DEF RoomIsFold, InboxIsFold
  <2>6. n + 1 \notin logWithdrawn
    BY <2>4, <2>5
  <2>7. \A i \in 1..n : inbox[i].wake = logInputs[i].wake /\ (inbox[i].withdrawn <=> i \in logWithdrawn)
    BY DEF RoomIsFold, InboxIsFold
  <2>8. logWithdrawn \subseteq Nat
    BY DEF TypeOK, LogType
  <2>9. \A i \in 1..(n + 1) : i \in 1..n \/ i = n + 1
    BY <2>4
  <2>10. \A i \in 1..(n + 1) :
            inbox'[i].wake = logInputs'[i].wake /\ (inbox'[i].withdrawn <=> i \in logWithdrawn)
    <3>1. \A i \in 1..n :
            inbox'[i].wake = logInputs'[i].wake /\ (inbox'[i].withdrawn <=> i \in logWithdrawn)
      BY <2>4, <2>7
    <3>2. /\ inbox'[n + 1].wake = logInputs'[n + 1].wake
          /\ inbox'[n + 1].withdrawn <=> n + 1 \in logWithdrawn
      BY <2>4, <2>6
    <3>. QED
      BY <2>9, <3>1, <3>2
  <2>11. InboxIsFold'
    BY <2>2, <2>4, <2>5, <2>8, <2>10 DEF InboxIsFold
  <2>12. speakers' = FoldSpeakers'
    <3>1. speakers = {logInputs[i].author : i \in 1..n}
      BY <1>0, <2>4 DEF RoomIsFold, FoldSpeakers
    <3>2. FoldSpeakers' = {logInputs'[i].author : i \in 1..(n + 1)}
      BY <2>4 DEF FoldSpeakers
    <3>3. /\ \A i \in 1..n : logInputs'[i].author = logInputs[i].author
          /\ logInputs'[n + 1].author = c
      BY <2>4
    <3>4. n + 1 \in 1..(n + 1) /\ \A i \in 1..n : i \in 1..(n + 1)
      BY <2>4
    <3>. HIDE DEF n
    <3>5. ASSUME NEW x PROVE x \in speakers' <=> x \in FoldSpeakers'
      <4>1. x \in FoldSpeakers' <=> \E i \in 1..(n + 1) : x = logInputs'[i].author
        BY <3>2
      <4>2. x \in speakers' <=> x = c \/ \E i \in 1..n : x = logInputs[i].author
        BY <2>2, <3>1
      <4>. QED
        BY <2>9, <3>3, <3>4, <4>1, <4>2
    <3>. QED
      BY <3>5
  <2>. QED
    BY <2>2, <2>11, <2>12 DEF RoomIsFold
<1>2. ASSUME NEW j \in DOMAIN inbox, Withdraw(j) PROVE RoomIsFold'
  <2>1. /\ logWithdrawn' = logWithdrawn \cup {j}
        /\ inbox' = [inbox EXCEPT ![j].withdrawn = TRUE]
        /\ logInputs' = logInputs /\ speakers' = speakers
        /\ closed' = closed /\ logClosed' = logClosed
    BY <1>2 DEF Withdraw
  <2>2. Len(inbox') = Len(inbox)
    BY <1>0, <2>1
  <2>3. ASSUME NEW i \in 1..Len(inbox)
        PROVE  /\ inbox'[i].wake = inbox[i].wake
               /\ inbox'[i].withdrawn <=> i = j \/ inbox[i].withdrawn
    <3>1. inbox[i] \in Input
      BY <1>0
    <3>. QED
      BY <1>0, <2>1, <3>1 DEF Input
  <2>4. ASSUME NEW i \in 1..Len(inbox)
        PROVE  inbox'[i].withdrawn <=> i \in logWithdrawn'
    <3>1. inbox[i].withdrawn <=> i \in logWithdrawn
      BY DEF RoomIsFold, InboxIsFold
    <3>. QED
      BY <2>1, <2>3, <3>1
  <2>5. \A i \in logWithdrawn' : i <= Len(inbox')
    BY <1>0, <2>1, <2>2 DEF RoomIsFold, InboxIsFold
  <2>6. InboxIsFold'
    BY <1>0, <2>1, <2>2, <2>3, <2>4, <2>5 DEF RoomIsFold, InboxIsFold
  <2>. QED
    BY <2>1, <2>6 DEF RoomIsFold, FoldSpeakers
<1>3. ASSUME NEW c \in Clients, CloseCommit(c) PROVE RoomIsFold'
  BY <1>3 DEF CloseCommit, RoomIsFold, InboxIsFold, FoldSpeakers
<1>4. CASE Restart
  <2>1. /\ logInputs' = logInputs /\ logWithdrawn' = logWithdrawn /\ logClosed' = logClosed
        /\ inbox' = FoldInbox /\ speakers' = FoldSpeakers /\ closed' = logClosed
    BY <1>4 DEF Restart, logVars
  <2>2. inbox = FoldInbox
    BY InboxFolds DEF RoomIsFold
  <2>. QED
    BY <2>1, <2>2 DEF RoomIsFold, InboxIsFold, FoldSpeakers
<1>5. ASSUME NEW a \in Agents, LaneStep(a) PROVE RoomIsFold'
  <2>1. /\ inbox' = inbox /\ logInputs' = logInputs /\ logWithdrawn' = logWithdrawn
        /\ speakers' = speakers /\ closed' = closed /\ logClosed' = logClosed
    BY <1>5
       DEF LaneStep, Recv, Snapshot, TakeTurn, TakeNothing, NoAgent, TurnStarted, Arm, Opened,
           EndTurn, Finish, Keep, logVars, roomVars
  <2>. QED
    BY <2>1, RoomStable
<1>6. ASSUME NEW c \in Clients,
             \/ SubmitCheck(c) \/ SubmitFails(c) \/ CancelCall(c) \/ CancelRecord(c)
             \/ CancelFails(c) \/ CancelFire(c)
             \/ \E a \in Agents : SubmitNudge(c, a) \/ CancelCollect(c, a) \/ CloseLane(c, a)
      PROVE  RoomIsFold'
  <2>1. /\ inbox' = inbox /\ logInputs' = logInputs /\ logWithdrawn' = logWithdrawn
        /\ speakers' = speakers /\ closed' = closed /\ logClosed' = logClosed
    BY <1>6
       DEF SubmitCheck, SubmitFails, CancelCall, CancelRecord, CancelFails, CancelFire,
           SubmitNudge, CancelCollect, CloseLane, logVars, roomVars
  <2>. QED
    BY <2>1, RoomStable
<1>7. CASE UNCHANGED vars
  BY <1>7, RoomStable DEF vars, logVars, roomVars
<1>. QED
  BY <1>1, <1>2, <1>3, <1>4, <1>5, <1>6, <1>7 DEF Next, CallStep, CallBegins

(* What Given and the fold of one turn are. *)
LEMMA GivenIs ==
    ASSUME NEW a \in Agents, NEW x
    PROVE  /\ x \in Given(a) <=> \E k \in DOMAIN logTurns[a] : x \in logTurns[a][k].inputs
           /\ x \in Given(a)' <=> \E k \in DOMAIN logTurns'[a] : x \in logTurns'[a][k].inputs
BY DEF Given

LEMMA FoldedIs ==
    /\ \A t \in Turn : Folded(t) \in EndedTurn /\ Folded(t).inputs = t.inputs
    /\ \A t \in EndedTurn : Folded(t) = t
BY DEF Folded, FoldEnd, Turn, EndedTurn, Ends

(* Steps that leave a lane's turns and where it is alone. *)
LEMMA LaneFoldStable ==
    ASSUME NEW a \in Agents, LaneIsFold(a),
           logTurns'[a] = logTurns[a], history'[a] = history[a],
           opened'[a] = opened[a], logOpened' = logOpened,
           InLog(a)' = InLog(a), pc'[a] \in {"start", "arm", "open", "run"} => turn[a].end = "running",
           pc'[a] \notin Busy => turn[a] = NoTurn,
           turn'[a] = turn[a]
    PROVE  LaneIsFold(a)'
BY DEF LaneIsFold

LEMMA LaneFoldLane ==
    ASSUME TypeOK, NEW a \in Agents, NumbersRise(a), LaneIsFold(a), LaneStep(a), faults' = 0
    PROVE  LaneIsFold(a)'
<1>0. /\ turn[a] \in Turn /\ logTurns[a] \in Seq(Turn) /\ history[a] \in Seq(EndedTurn)
      /\ logTurns \in [Agents -> Seq(Turn)] /\ history \in [Agents -> Seq(EndedTurn)]
      /\ turn \in [Agents -> Turn] /\ pc \in [Agents -> Resting \cup Busy \cup {"gone"}]
      /\ opened \in [Agents -> BOOLEAN] /\ faults \in Nat
  BY DEF TypeOK, LaneType, LogType, RoomType, BoundType
<1>. DEFINE n == Len(logTurns[a])
            m == Len(history[a])
<1>1. /\ n \in Nat /\ m \in Nat /\ DOMAIN logTurns[a] = 1..n /\ DOMAIN history[a] = 1..m
      /\ \A k \in 1..n : logTurns[a][k] \in Turn
  BY <1>0
<1>2. CASE Recv(a) \/ Snapshot(a) \/ TakeNothing(a)
  <2>1. /\ logTurns' = logTurns /\ history' = history /\ opened' = opened
        /\ logOpened' = logOpened /\ turn' = turn
        /\ pc[a] \in Resting /\ pc'[a] \in Resting \cup {"gone"}
    BY <1>0, <1>2 DEF Recv, AfterRecv, Snapshot, TakeNothing, logVars, roomVars, Resting
  <2>2. InLog(a)' = FALSE /\ InLog(a) = FALSE /\ pc'[a] \notin Busy
    BY <2>1 DEF InLog, Resting, Busy
  <2>3. turn[a] = NoTurn
    BY <2>1 DEF LaneIsFold, Resting, Busy
  <2>. QED
    BY <2>1, <2>2, <2>3, LaneFoldStable DEF Busy
<1>3. CASE TakeTurn(a)
  <2>1. /\ logTurns' = logTurns /\ history' = history /\ opened' = opened
        /\ logOpened' = logOpened /\ turn'[a].end = "running" /\ pc[a] = "take" /\ pc'[a] = "start"
    BY <1>0, <1>3 DEF TakeTurn, logVars, roomVars
  <2>. QED
    BY <2>1 DEF LaneIsFold, InLog, Busy
<1>4. CASE NoAgent(a)
  BY <1>0, <1>4 DEF NoAgent, AppendFails
<1>5. CASE TurnStarted(a)
  <2>1. /\ pc[a] = "start" /\ pc'[a] = "arm" /\ turn' = turn /\ history' = history
        /\ opened' = opened /\ logOpened' = logOpened
        /\ logTurns'[a] = Append(logTurns[a], turn[a])
    BY <1>0, <1>5 DEF TurnStarted, AppendFails, roomVars
  <2>2. /\ Len(logTurns'[a]) = n + 1 /\ logTurns'[a][n + 1] = turn[a]
        /\ \A k \in 1..n : logTurns'[a][k] = logTurns[a][k]
    BY <1>0, <2>1
  <2>3. n = m /\ turn[a].end = "running"
    BY <1>1, <2>1 DEF LaneIsFold, InLog
  <2>4. \A k \in 1..m : history'[a][k] = Folded(logTurns'[a][k])
    BY <1>1, <2>1, <2>2, <2>3 DEF LaneIsFold
  <2>. QED
    BY <1>1, <2>1, <2>2, <2>3, <2>4 DEF LaneIsFold, InLog, Busy
<1>6. CASE Arm(a)
  <2>1. /\ logTurns' = logTurns /\ history' = history /\ opened' = opened
        /\ logOpened' = logOpened /\ turn' = turn
        /\ pc[a] = "arm" /\ pc'[a] \in {"open", "run"}
    BY <1>0, <1>6 DEF Arm, logVars, roomVars
  <2>. QED
    BY <2>1 DEF LaneIsFold, InLog, Busy
<1>7. CASE Opened(a)
  <2>1. /\ logTurns' = logTurns /\ history' = history /\ opened'[a] = TRUE
        /\ a \in logOpened' /\ turn' = turn
        /\ pc[a] = "open" /\ pc'[a] = "run"
    BY <1>0, <1>7 DEF Opened, AppendFails, roomVars
  <2>. QED
    BY <2>1 DEF LaneIsFold, InLog, Busy
<1>8. ASSUME NEW end \in Ends, EndTurn(a, end) PROVE LaneIsFold(a)'
  <2>1. /\ pc[a] \in {"open", "run"} /\ pc'[a] = "finish" /\ history' = history
        /\ opened' = opened /\ logOpened' = logOpened
        /\ turn'[a] = [turn[a] EXCEPT !.end = end]
        /\ logTurns'[a] = WithEnd(logTurns[a], turn[a].no, end)
    BY <1>0, <1>8 DEF EndTurn, AppendFails, roomVars
  <2>2. n = m + 1 /\ logTurns[a][n] = turn[a]
    BY <1>1, <2>1 DEF LaneIsFold, InLog
  <2>3. /\ Len(logTurns'[a]) = n
        /\ \A k \in 1..n :
              logTurns'[a][k] = IF logTurns[a][k].no = turn[a].no
                                THEN [logTurns[a][k] EXCEPT !.end = end] ELSE logTurns[a][k]
    <3>1. Len(WithEnd(logTurns[a], turn[a].no, end)) = Len(logTurns[a])
      BY <1>0, WithEndKeeps
    <3>. QED
      BY <1>1, <2>1, <3>1 DEF WithEnd
  <2>4. \A k \in 1..m : logTurns[a][k].no # turn[a].no
    <3>1. ASSUME NEW k \in 1..m PROVE logTurns[a][k].no # turn[a].no
      <4>1. k \in 1..n /\ n \in 1..n /\ k < n
        BY <1>1, <2>2
      <4>2. logTurns[a][k].no < logTurns[a][n].no
        BY <1>1, <4>1 DEF NumbersRise
      <4>3. logTurns[a][k].no \in Nat /\ logTurns[a][n].no \in Nat
        BY <1>1, <4>1 DEF Turn
      <4>. QED
        BY <2>2, <4>2, <4>3
    <3>. QED
      BY <3>1
  <2>5. logTurns'[a][n] = turn'[a] /\ \A k \in 1..m : logTurns'[a][k] = logTurns[a][k]
    <3>1. n \in 1..n /\ \A k \in 1..m : k \in 1..n
      BY <1>1, <2>2
    <3>. HIDE DEF n, m
    <3>2. logTurns'[a][n] = turn'[a]
      BY <2>1, <2>2, <2>3, <3>1
    <3>3. \A k \in 1..m : logTurns'[a][k] = logTurns[a][k]
      BY <2>3, <2>4, <3>1
    <3>. QED
      BY <3>2, <3>3
  <2>. QED
    BY <1>1, <2>1, <2>2, <2>3, <2>5 DEF LaneIsFold, InLog, Busy
<1>9. CASE Finish(a)
  <2>1. /\ logTurns' = logTurns /\ history' = history /\ opened' = opened
        /\ logOpened' = logOpened /\ turn' = turn /\ pc[a] = "finish" /\ pc'[a] = "keep"
    BY <1>0, <1>9 DEF Finish, logVars, roomVars
  <2>. QED
    BY <2>1 DEF LaneIsFold, InLog, Busy
<1>10. CASE Keep(a)
  <2>1. /\ logTurns' = logTurns /\ history'[a] = Append(history[a], turn[a]) /\ opened' = opened
        /\ logOpened' = logOpened /\ turn'[a] = NoTurn /\ pc[a] = "keep" /\ pc'[a] = "snapshot"
    BY <1>0, <1>10 DEF Keep, logVars
  <2>2. turn[a] \in EndedTurn
    BY <2>1 DEF TypeOK, LaneType
  <2>3. n = m + 1 /\ logTurns[a][n] = turn[a]
    BY <1>1, <2>1 DEF LaneIsFold, InLog
  <2>4. /\ Len(history'[a]) = m + 1 /\ DOMAIN history'[a] = 1..(m + 1)
        /\ history'[a][m + 1] = turn[a]
        /\ \A k \in 1..m : history'[a][k] = history[a][k]
    BY <1>0, <2>1, <2>2
  <2>5. \A k \in 1..m : history'[a][k] = Folded(logTurns'[a][k])
    BY <1>1, <2>1, <2>4 DEF LaneIsFold
  <2>6. history'[a][m + 1] = Folded(logTurns'[a][m + 1])
    BY <2>1, <2>2, <2>3, <2>4, FoldedIs
  <2>7. \A k \in 1..(m + 1) : k \in 1..m \/ k = m + 1
    BY <1>1
  <2>8. \A k \in DOMAIN history'[a] : history'[a][k] = Folded(logTurns'[a][k])
    BY <2>4, <2>5, <2>6, <2>7
  <2>. HIDE DEF n, m
  <2>9. Len(logTurns'[a]) = n
    BY <2>1 DEF n
  <2>. QED
    BY <1>1, <2>1, <2>3, <2>4, <2>8, <2>9 DEF LaneIsFold, InLog, Busy
<1>. QED
  BY <1>2, <1>3, <1>4, <1>5, <1>6, <1>7, <1>8, <1>9, <1>10 DEF LaneStep

LEMMA LaneFold ==
    ASSUME TypeOK, NEW a \in Agents, NumbersRise(a), LaneIsFold(a), [Next]_vars, faults' = 0
    PROVE  LaneIsFold(a)'
<1>0. /\ logTurns \in [Agents -> Seq(Turn)] /\ history \in [Agents -> Seq(EndedTurn)]
      /\ turn \in [Agents -> Turn] /\ pc \in [Agents -> Resting \cup Busy \cup {"gone"}]
      /\ opened \in [Agents -> BOOLEAN]
  BY DEF TypeOK, LaneType, LogType, RoomType
<1>1. CASE LaneStep(a)
  BY <1>1, LaneFoldLane
<1>2. ASSUME NEW b \in Agents, b # a, LaneStep(b) PROVE LaneIsFold(a)'
  <2>1. /\ logTurns'[a] = logTurns[a] /\ history'[a] = history[a] /\ turn'[a] = turn[a]
        /\ pc'[a] = pc[a] /\ opened'[a] = opened[a] /\ (a \in logOpened' <=> a \in logOpened)
    BY <1>0, <1>2
       DEF LaneStep, Recv, Snapshot, TakeTurn, TakeNothing, NoAgent, TurnStarted, Arm, Opened,
           EndTurn, Finish, Keep, logVars, roomVars
  <2>. QED
    BY <2>1 DEF LaneIsFold, InLog
<1>3. CASE Restart
  <2>1. /\ logTurns' = logTurns /\ history'[a] = FoldHistory(a) /\ turn'[a] = NoTurn
        /\ pc'[a] \notin Busy /\ logOpened' = logOpened
    BY <1>3 DEF Restart, logVars, Busy
  <2>2. logTurns[a] \in Seq(Turn) /\ FoldHistory(a) \in Seq(EndedTurn)
    BY <1>0, FoldType DEF TypeOK
  <2>3. /\ DOMAIN FoldHistory(a) = DOMAIN logTurns[a]
        /\ \A k \in DOMAIN logTurns[a] : FoldHistory(a)[k] = Folded(logTurns[a][k])
    BY DEF FoldHistory, Folded
  <2>4. Len(FoldHistory(a)) = Len(logTurns[a])
    BY <2>2, <2>3
  <2>5. Len(logTurns[a]) \in Nat
    BY <2>2
  <2>6. opened'[a] <=> a \in logOpened'
    BY <1>3 DEF Restart, logVars
  <2>7. pc'[a] \notin {"start", "arm", "open", "run"} /\ ~InLog(a)'
    BY <2>1 DEF Busy, InLog
  <2>8. Len(logTurns'[a]) = Len(history'[a]) + 0
    BY <2>1, <2>4, <2>5
  <2>9. \A k \in DOMAIN history'[a] : history'[a][k] = Folded(logTurns'[a][k])
    BY <2>1, <2>3
  <2>. QED
    BY <2>1, <2>6, <2>7, <2>8, <2>9 DEF LaneIsFold
<1>4. CASE (\E c \in Clients : CallStep(c)) \/ CallBegins \/ UNCHANGED vars
  <2>1. /\ logTurns' = logTurns /\ history' = history /\ turn' = turn /\ pc' = pc
        /\ opened' = opened /\ logOpened' = logOpened
    BY <1>4
       DEF CallStep, CallBegins, SubmitCheck, SubmitAppend, SubmitFails, SubmitNudge, Withdraw,
           CancelCall, CancelCollect, CancelRecord, CancelFails, CancelFire, CloseCommit,
           CloseLane, vars, logVars, roomVars, laneVars
  <2>. QED
    BY <2>1 DEF LaneIsFold, InLog
<1>. QED
  BY <1>1, <1>2, <1>3, <1>4 DEF Next

(* A lane whose cursor and turns no step moves stays covered, as withdrawn  *)
(* messages stay withdrawn.                                                 *)
LEMMA CoverStable ==
    ASSUME TypeOK, NEW a \in Agents, CursorCovered(a),
           cursor'[a] = cursor[a], turn'[a] = turn[a], ran'[a] = ran[a],
           \A x : x \in Given(a)' <=> x \in Given(a),
           pc'[a] \in {"start", "arm", "open"} => pc[a] \in {"start", "arm", "open"},
           pc[a] = "start" => pc'[a] = "start",
           Len(inbox') \in Nat, Len(inbox) <= Len(inbox'),
           \A i \in 1..Len(inbox) : inbox[i].withdrawn => inbox'[i].withdrawn
    PROVE  CursorCovered(a)'
<1>1. cursor[a] \in Nat /\ Len(inbox) \in Nat
  BY DEF TypeOK, LaneType, RoomType
<1>2. cursor[a] <= Len(inbox) /\ \A i \in 1..cursor[a] : i \in 1..Len(inbox)
  BY <1>1 DEF CursorCovered
<1>3. cursor'[a] <= Len(inbox')
  BY <1>1, <1>2
<1>4. \A i \in 1..cursor'[a] :
        inbox'[i].withdrawn \/ i \in Given(a)' \/ (pc'[a] = "start" /\ i \in turn'[a].inputs)
  BY <1>2 DEF CursorCovered
<1>5. ran'[a] \subseteq Given(a)'
  BY DEF CursorCovered
<1>6. pc'[a] \in {"start", "arm", "open"} => turn'[a].inputs \cap ran'[a] = {}
  BY DEF CursorCovered
<1>. QED
  BY <1>3, <1>4, <1>5, <1>6 DEF CursorCovered

LEMMA CoverLane ==
    ASSUME TypeOK, NEW a \in Agents, OrderKept, WakesKept, LaneIsFold(a), CursorCovered(a),
           LaneStep(a), faults' = 0
    PROVE  CursorCovered(a)'
<1>0. /\ turn[a] \in Turn /\ logTurns[a] \in Seq(Turn) /\ seen[a] \in Seq(Input)
      /\ cursor[a] \in Nat /\ Len(inbox) \in Nat /\ Len(seen[a]) \in Nat
      /\ logTurns \in [Agents -> Seq(Turn)] /\ cursor \in [Agents -> Nat]
      /\ turn \in [Agents -> Turn] /\ pc \in [Agents -> Resting \cup Busy \cup {"gone"}]
      /\ ran \in [Agents -> SUBSET (Nat \ {0})] /\ faults \in Nat
      /\ GivenBelowCursor(a) /\ SeenIsEarlier(a)
  BY DEF TypeOK, LaneType, LogType, RoomType, BoundType, OrderKept, WakesKept, WakeKept
<1>1. /\ inbox' = inbox /\ cursor[a] <= Len(inbox)
      /\ \A x \in Given(a) : x \in Nat /\ x <= cursor[a]
  <2>1. inbox' = inbox
    BY DEF LaneStep, Recv, Snapshot, TakeTurn, TakeNothing, NoAgent, TurnStarted, Arm, Opened,
           EndTurn, Finish, Keep, roomVars
  <2>2. \A k \in DOMAIN logTurns[a] : logTurns[a][k].inputs \subseteq Nat
    <3>1. \A k \in DOMAIN logTurns[a] : logTurns[a][k] \in Turn
      BY <1>0
    <3>. QED
      BY <3>1 DEF Turn
  <2>3. \A x \in Given(a) : x \in Nat /\ x <= cursor[a]
    BY <1>0, <2>2, GivenIs DEF GivenBelowCursor
  <2>. QED
    BY <2>1, <2>3 DEF CursorCovered
<1>2. CASE TakeTurn(a)
  <2>1. /\ logTurns' = logTurns /\ ran' = ran /\ turn'[a].inputs = Unread(a)
        /\ cursor'[a] = Len(seen[a]) /\ pc[a] = "take" /\ pc'[a] = "start"
    BY <1>0, <1>2 DEF TakeTurn, logVars
  <2>2. Len(seen[a]) <= Len(inbox) /\ \A i \in 1..Len(seen[a]) :
            seen[a][i].withdrawn => inbox[i].withdrawn
    BY <1>0, <2>1 DEF SeenIsEarlier
  <2>3. \A x : x \in Given(a)' <=> x \in Given(a)
    BY <2>1, GivenIs
  <2>4. ASSUME NEW i \in 1..Len(seen[a])
        PROVE  inbox'[i].withdrawn \/ i \in Given(a)' \/ i \in turn'[a].inputs
    <3>1. CASE i <= cursor[a]
      BY <1>0, <1>1, <2>1, <2>3, <3>1 DEF CursorCovered
    <3>2. CASE i > cursor[a]
      <4>1. i \in (cursor[a] + 1)..Len(seen[a])
        BY <1>0, <3>2
      <4>. QED
        BY <1>1, <2>1, <2>2, <4>1 DEF Unread
    <3>. QED
      BY <1>0, <3>1, <3>2
  <2>5. \A x \in Unread(a) : x \in Nat /\ cursor[a] < x
    BY <1>0 DEF Unread
  <2>6. ran[a] \subseteq Given(a)
    BY DEF CursorCovered
  <2>7. turn'[a].inputs \cap ran'[a] = {}
    <3>1. ASSUME NEW x \in Unread(a), x \in ran[a] PROVE FALSE
      <4>1. x \in Given(a) /\ x <= cursor[a] /\ cursor[a] < x /\ x \in Nat
        BY <1>1, <2>5, <2>6, <3>1
      <4>. QED
        BY <1>0, <4>1
    <3>. QED
      BY <2>1, <3>1
  <2>8. cursor'[a] <= Len(inbox') /\ ran'[a] \subseteq Given(a)'
    BY <1>1, <2>1, <2>2, <2>3, <2>6
  <2>. QED
    BY <2>1, <2>4, <2>7, <2>8 DEF CursorCovered
<1>3. CASE TakeNothing(a)
  <2>1. /\ logTurns' = logTurns /\ ran' = ran /\ turn' = turn
        /\ cursor'[a] = CursorAfterNone(a) /\ pc[a] = "take" /\ pc'[a] = "recv"
    BY <1>0, <1>3 DEF TakeNothing, logVars
  <2>2. Len(seen[a]) <= Len(inbox) /\ \A i \in 1..Len(seen[a]) :
            seen[a][i].withdrawn => inbox[i].withdrawn
    BY <1>0, <2>1 DEF SeenIsEarlier
  <2>3. \A x : x \in Given(a)' <=> x \in Given(a)
    BY <2>1, GivenIs
  <2>4. /\ CursorAfterNone(a) \in Nat /\ CursorAfterNone(a) <= Len(inbox)
        /\ \A i \in 1..CursorAfterNone(a) : i <= cursor[a] \/
                (i \in (cursor[a] + 1)..Len(seen[a]) /\ Unread(a) = {})
    BY <1>0, <1>1, <2>2 DEF CursorAfterNone
  <2>5. ASSUME NEW i \in 1..CursorAfterNone(a)
        PROVE  inbox'[i].withdrawn \/ i \in Given(a)'
    <3>1. CASE i <= cursor[a]
      BY <1>0, <1>1, <2>1, <2>3, <2>4, <3>1 DEF CursorCovered
    <3>2. CASE i \in (cursor[a] + 1)..Len(seen[a]) /\ Unread(a) = {}
      <4>1. seen[a][i].withdrawn
        BY <3>2 DEF Unread
      <4>2. i \in 1..Len(seen[a])
        BY <1>0, <3>2
      <4>. QED
        BY <1>1, <2>2, <4>1, <4>2
    <3>. QED
      BY <2>4, <3>1, <3>2
  <2>6. cursor'[a] <= Len(inbox') /\ ran'[a] \subseteq Given(a)'
    BY <1>1, <2>1, <2>3, <2>4 DEF CursorCovered
  <2>. QED
    BY <2>1, <2>5, <2>6 DEF CursorCovered
<1>4. CASE NoAgent(a)
  BY <1>0, <1>4 DEF NoAgent, AppendFails
<1>5. CASE TurnStarted(a)
  <2>1. /\ pc[a] = "start" /\ pc'[a] = "arm" /\ turn' = turn /\ ran' = ran /\ cursor' = cursor
        /\ logTurns'[a] = Append(logTurns[a], turn[a])
    BY <1>0, <1>5 DEF TurnStarted, AppendFails
  <2>2. DEFINE n == Len(logTurns[a])
  <2>3. /\ n \in Nat /\ DOMAIN logTurns[a] = 1..n /\ DOMAIN logTurns'[a] = 1..(n + 1)
        /\ \A k \in 1..n : logTurns'[a][k] = logTurns[a][k]
        /\ logTurns'[a][n + 1] = turn[a]
        /\ n + 1 \in 1..(n + 1) /\ \A k \in 1..n : k \in 1..(n + 1)
    BY <1>0, <2>1
  <2>. HIDE DEF n
  <2>4. \A x : x \in Given(a) \/ x \in turn[a].inputs => x \in Given(a)'
    BY <2>3, GivenIs
  <2>5. \A i \in 1..cursor[a] : inbox[i].withdrawn \/ i \in Given(a) \/ i \in turn[a].inputs
    BY DEF CursorCovered
  <2>6. \A i \in 1..cursor'[a] : inbox'[i].withdrawn \/ i \in Given(a)'
    BY <1>1, <2>1, <2>4, <2>5
  <2>7. ran'[a] \subseteq Given(a)' /\ turn'[a].inputs \cap ran'[a] = {}
    BY <2>1, <2>4 DEF CursorCovered
  <2>. QED
    BY <1>1, <2>1, <2>6, <2>7 DEF CursorCovered
<1>6. CASE Arm(a) \/ Opened(a)
  <2>1. /\ pc[a] \in {"arm", "open"} /\ pc'[a] \in {"open", "run"} /\ turn' = turn
        /\ cursor' = cursor /\ logTurns' = logTurns
        /\ ran'[a] \subseteq ran[a] \cup turn[a].inputs
        /\ pc'[a] = "open" => ran' = ran
    <3>1. CASE Arm(a)
      <4>1. CASE a \in Openers /\ ~opened[a]
        BY <1>0, <3>1, <4>1 DEF Arm, logVars
      <4>2. CASE ~(a \in Openers /\ ~opened[a])
        BY <1>0, <3>1, <4>2 DEF Arm, logVars
      <4>. QED
        BY <4>1, <4>2
    <3>2. CASE Opened(a)
      BY <1>0, <3>2 DEF Opened
    <3>. QED
      BY <1>6, <3>1, <3>2
  <2>2. \A x \in turn[a].inputs : x \in Given(a)
    <3>1. Len(logTurns[a]) \in DOMAIN logTurns[a] /\ logTurns[a][Len(logTurns[a])] = turn[a]
      <4>1. history[a] \in Seq(EndedTurn)
        BY DEF TypeOK, RoomType
      <4>2. InLog(a)
        BY <2>1 DEF InLog
      <4>3. Len(history[a]) \in Nat /\ Len(logTurns[a]) = Len(history[a]) + 1
        BY <4>1, <4>2 DEF LaneIsFold
      <4>. QED
        BY <1>0, <4>2, <4>3 DEF LaneIsFold
    <3>. QED
      BY <3>1, GivenIs
  <2>3. \A x : x \in Given(a)' <=> x \in Given(a)
    BY <2>1, GivenIs
  <2>4. ran'[a] \subseteq Given(a)'
    BY <2>1, <2>2, <2>3 DEF CursorCovered
  <2>5. \A i \in 1..cursor'[a] : inbox'[i].withdrawn \/ i \in Given(a)'
    BY <1>1, <2>1, <2>3 DEF CursorCovered
  <2>6. pc'[a] = "open" => turn'[a].inputs \cap ran'[a] = {}
    BY <2>1 DEF CursorCovered
  <2>. QED
    BY <1>1, <2>1, <2>4, <2>5, <2>6 DEF CursorCovered
<1>7. ASSUME NEW end \in Ends, EndTurn(a, end) PROVE CursorCovered(a)'
  <2>1. /\ pc[a] \in {"open", "run"} /\ pc'[a] = "finish" /\ ran' = ran /\ cursor' = cursor
        /\ logTurns'[a] = WithEnd(logTurns[a], turn[a].no, end)
    BY <1>0, <1>7 DEF EndTurn, AppendFails
  <2>2. /\ DOMAIN WithEnd(logTurns[a], turn[a].no, end) = DOMAIN logTurns[a]
        /\ \A k \in DOMAIN logTurns[a] :
                WithEnd(logTurns[a], turn[a].no, end)[k].inputs = logTurns[a][k].inputs
    BY <1>0, WithEndKeeps
  <2>3. \A x : x \in Given(a)' <=> x \in Given(a)
    BY <2>1, <2>2, GivenIs
  <2>. QED
    BY <1>1, <2>1, <2>3 DEF CursorCovered
<1>8. CASE Recv(a) \/ Snapshot(a) \/ Finish(a) \/ Keep(a)
  <2>1. /\ pc[a] # "start" /\ pc'[a] \notin {"start", "arm", "open"}
        /\ ran' = ran /\ cursor' = cursor /\ logTurns' = logTurns
    BY <1>0, <1>8 DEF Recv, AfterRecv, Snapshot, Finish, Keep, logVars
  <2>2. \A x : x \in Given(a)' <=> x \in Given(a)
    BY <2>1, GivenIs
  <2>. QED
    BY <1>1, <2>1, <2>2 DEF CursorCovered
<1>. QED
  BY <1>2, <1>3, <1>4, <1>5, <1>6, <1>7, <1>8 DEF LaneStep

LEMMA Cover ==
    ASSUME TypeOK, NEW a \in Agents, OrderKept, WakesKept, RoomIsFold, LaneIsFold(a),
           CursorCovered(a), [Next]_vars, faults' = 0
    PROVE  CursorCovered(a)'
<1>0. /\ logTurns \in [Agents -> Seq(Turn)] /\ cursor \in [Agents -> Nat]
      /\ turn \in [Agents -> Turn] /\ pc \in [Agents -> Resting \cup Busy \cup {"gone"}]
      /\ ran \in [Agents -> SUBSET (Nat \ {0})]
      /\ inbox \in Seq(Input) /\ Len(inbox) \in Nat /\ DOMAIN inbox = 1..Len(inbox)
  BY DEF TypeOK, LaneType, LogType, RoomType
<1>1. CASE LaneStep(a)
  BY <1>1, CoverLane
<1>2. ASSUME NEW b \in Agents, b # a, LaneStep(b) PROVE CursorCovered(a)'
  <2>1. /\ logTurns'[a] = logTurns[a] /\ cursor'[a] = cursor[a] /\ turn'[a] = turn[a]
        /\ pc'[a] = pc[a] /\ ran'[a] = ran[a] /\ inbox' = inbox
    BY <1>0, <1>2
       DEF LaneStep, Recv, Snapshot, TakeTurn, TakeNothing, NoAgent, TurnStarted, Arm, Opened,
           EndTurn, Finish, Keep, logVars, roomVars
  <2>2. \A x : x \in Given(a)' <=> x \in Given(a)
    BY <2>1, GivenIs
  <2>3. Len(inbox') \in Nat /\ Len(inbox) <= Len(inbox')
    BY <1>0, <2>1
  <2>. QED
    BY <2>1, <2>2, <2>3, CoverStable
<1>3. ASSUME (\E c \in Clients : CallStep(c) \/ SubmitCheck(c) \/ CancelCall(c) \/ CloseCommit(c))
             \/ (\E i \in DOMAIN inbox : Withdraw(i)) \/ UNCHANGED vars
      PROVE  CursorCovered(a)'
  <2>1. logTurns' = logTurns /\ cursor' = cursor /\ turn' = turn /\ pc' = pc /\ ran' = ran
    BY <1>3, ZenonT(60)
       DEF CallStep, SubmitCheck, SubmitAppend, SubmitFails, SubmitNudge, Withdraw,
           CancelCall, CancelCollect, CancelRecord, CancelFails, CancelFire, CloseCommit,
           CloseLane, vars, logVars, laneVars
  <2>2. \A x : x \in Given(a)' <=> x \in Given(a)
    BY <2>1, GivenIs
  <2>3. /\ Len(inbox') \in Nat /\ Len(inbox) <= Len(inbox')
        /\ \A i \in 1..Len(inbox) : inbox[i].withdrawn => inbox'[i].withdrawn
    <3>1. ASSUME NEW c \in Clients, SubmitAppend(c)
          PROVE  /\ Len(inbox') \in Nat /\ Len(inbox) <= Len(inbox')
                 /\ \A i \in 1..Len(inbox) : inbox'[i] = inbox[i]
      BY <1>0, <3>1 DEF SubmitAppend
    <3>2. ASSUME NEW j \in DOMAIN inbox, Withdraw(j)
          PROVE  /\ Len(inbox') \in Nat /\ Len(inbox) <= Len(inbox')
                 /\ \A i \in 1..Len(inbox) : inbox[i].withdrawn => inbox'[i].withdrawn
      <4>1. inbox' = [inbox EXCEPT ![j].withdrawn = TRUE]
        BY <3>2 DEF Withdraw
      <4>2. Len(inbox') = Len(inbox)
        BY <1>0, <4>1
      <4>3. \A i \in 1..Len(inbox) : inbox[i] \in Input
        BY <1>0
      <4>4. \A i \in 1..Len(inbox) : inbox[i].withdrawn => inbox'[i].withdrawn
        BY <1>0, <4>1, <4>3 DEF Input
      <4>. QED
        BY <1>0, <4>2, <4>4
    <3>3. ASSUME ~(\E c \in Clients : SubmitAppend(c)), ~(\E i \in DOMAIN inbox : Withdraw(i))
          PROVE  inbox' = inbox
      BY <1>3, <3>3, ZenonT(60)
         DEF CallStep, SubmitCheck, SubmitFails, SubmitNudge, CancelCall, CancelCollect,
             CancelRecord, CancelFails, CancelFire, CloseCommit, CloseLane, vars, roomVars
    <3>. QED
      BY <1>0, <3>1, <3>2, <3>3
  <2>. QED
    BY <2>1, <2>2, <2>3, CoverStable
<1>4. CASE Restart
  <2>1. /\ logTurns' = logTurns /\ ran' = ran /\ inbox' = FoldInbox
        /\ cursor'[a] \in 0..Len(logInputs) /\ IsFoldCursor(a, cursor'[a])
        /\ pc'[a] \notin {"start", "arm", "open"}
    BY <1>4 DEF Restart, logVars
  <2>2. inbox' = inbox /\ Len(logInputs) = Len(inbox)
    BY <2>1, InboxFolds DEF RoomIsFold, InboxIsFold
  <2>3. \A x : x \in Given(a)' <=> x \in Given(a)
    BY <2>1, GivenIs
  <2>4. cursor'[a] \in Nat /\ cursor'[a] <= Len(inbox')
    BY <1>0, <2>1, <2>2
  <2>5. ran'[a] \subseteq Given(a)'
    BY <2>1, <2>3 DEF CursorCovered
  <2>6. ASSUME NEW i \in 1..cursor'[a] PROVE inbox'[i].withdrawn \/ i \in Given(a)'
    <3>1. i \in Nat /\ i <= cursor'[a] /\ cursor'[a] \in Given(a)
      BY <2>1, <2>4 DEF IsFoldCursor
    <3>2. PICK k \in DOMAIN logTurns[a] : cursor'[a] \in logTurns[a][k].inputs
      BY <3>1, GivenIs
    <3>3. cursor'[a] <= cursor[a] /\ cursor[a] \in Nat
      BY <1>0, <3>2 DEF OrderKept, GivenBelowCursor
    <3>4. i \in 1..cursor[a]
      BY <2>4, <3>3
    <3>5. ASSUME pc[a] = "start", i \in turn[a].inputs PROVE FALSE
      <4>1. cursor'[a] < i
        BY <3>2, <3>5 DEF OrderKept, NextIsAhead
      <4>. QED
        BY <2>4, <3>1, <4>1
    <3>. QED
      BY <2>2, <2>3, <3>4, <3>5 DEF CursorCovered
  <2>. QED
    BY <2>1, <2>4, <2>5, <2>6 DEF CursorCovered
<1>. QED
  BY <1>1, <1>2, <1>3, <1>4 DEF Next, CallBegins

(* No step takes a fault back. *)
LEMMA FaultsStay ==
    ASSUME TypeOK, [Next]_vars, faults' = 0
    PROVE  faults = 0
<1>1. faults \in Nat
  BY DEF TypeOK, BoundType
<1>2. faults' = faults \/ faults' = faults + 1
  <2>1. ASSUME NEW a \in Agents, LaneStep(a) PROVE faults' = faults \/ faults' = faults + 1
    BY <2>1
       DEF LaneStep, Recv, Snapshot, TakeTurn, TakeNothing, NoAgent, TurnStarted, Arm, Opened,
           EndTurn, Finish, Keep, AppendFails, boundVars
  <2>2. ASSUME (\E c \in Clients : CallStep(c)) \/ CallBegins \/ Restart \/ UNCHANGED vars
        PROVE  faults' = faults \/ faults' = faults + 1
    BY <2>2
       DEF CallStep, CallBegins, SubmitCheck, SubmitAppend, SubmitFails, SubmitNudge, Withdraw,
           CancelCall, CancelCollect, CancelRecord, CancelFails, CancelFire, CloseCommit,
           CloseLane, Restart, AppendFails, vars, boundVars
  <2>. QED
    BY <2>1, <2>2 DEF Next
<1>. QED
  BY <1>1, <1>2

LEMMA FoldInductive ==
    ASSUME TypeOK, OrderKept, WakesKept, \A a \in Agents : NumbersRise(a), FoldKept, [Next]_vars
    PROVE  FoldKept'
<1> SUFFICES ASSUME faults' = 0
             PROVE  RoomIsFold' /\ \A a \in Agents : LaneIsFold(a)' /\ CursorCovered(a)'
  BY DEF FoldKept
<1>1. RoomIsFold /\ \A a \in Agents : LaneIsFold(a) /\ CursorCovered(a)
  BY FaultsStay DEF FoldKept
<1>. QED
  BY <1>1, RoomFold, LaneFold, Cover

LEMMA FoldAlways == Spec => [](TypeOK /\ OrderKept /\ FoldKept)
<1>1. Init => FoldKept
  <2> SUFFICES ASSUME Init PROVE FoldKept
    OBVIOUS
  <2>1. Len(<<>>) = 0 /\ DOMAIN <<>> = {} /\ 1..0 = {}
    OBVIOUS
  <2>2. RoomIsFold
    BY <2>1 DEF Init, RoomIsFold, InboxIsFold, FoldSpeakers
  <2>3. ASSUME NEW a \in Agents PROVE LaneIsFold(a) /\ CursorCovered(a)
    BY <2>1 DEF Init, LaneIsFold, CursorCovered, InLog, Busy
  <2>. QED
    BY <2>2, <2>3 DEF FoldKept
<1>2. TypeOK /\ OrderKept /\ WakesKept /\ (\A a \in Agents : NumbersRise(a)) /\ FoldKept
        /\ [Next]_vars => FoldKept'
  BY FoldInductive
<1>. QED
  BY <1>1, <1>2, TypeCorrect, OrderAlways, WakesAlways, NumbersAlways, PTL DEF Spec

(* What a lane at rest has in its history is what the log folds to.         *)
LEMMA HistoryFolds ==
    ASSUME TypeOK, NEW a \in Agents, LaneIsFold(a), ~InLog(a)
    PROVE  history[a] = FoldHistory(a)
<1>1. logTurns[a] \in Seq(Turn) /\ history[a] \in Seq(EndedTurn)
  BY DEF TypeOK, LogType, RoomType
<1>2. Len(history[a]) = Len(logTurns[a])
  BY <1>1 DEF LaneIsFold
<1>3. DOMAIN history[a] = DOMAIN logTurns[a] /\ history[a] = [k \in DOMAIN history[a] |-> history[a][k]]
  BY <1>1, <1>2
<1>4. \A k \in DOMAIN history[a] : history[a][k] = [logTurns[a][k] EXCEPT !.end = FoldEnd(@)]
  BY DEF LaneIsFold, Folded
<1>. QED
  BY <1>3, <1>4 DEF FoldHistory

(* The fold's cursor of a lane at rest is at or below its own, over         *)
(* nothing but withdrawn messages.                                          *)
LEMMA CursorFolds ==
    ASSUME TypeOK, NEW a \in Agents, GivenBelowCursor(a), CursorCovered(a), pc[a] # "start"
    PROVE  \E n \in 0..cursor[a] :
                IsFoldCursor(a, n) /\ \A i \in (n + 1)..cursor[a] : inbox[i].withdrawn
<1>1. logTurns[a] \in Seq(Turn) /\ cursor[a] \in Nat
  BY DEF TypeOK, LogType, LaneType
<1>2. \A k \in DOMAIN logTurns[a] : logTurns[a][k].inputs \subseteq Nat \ {0}
  <2>1. \A k \in DOMAIN logTurns[a] : logTurns[a][k] \in Turn
    BY <1>1
  <2>. QED
    BY <2>1 DEF Turn
<1>3. \A x \in Given(a) : x \in 1..cursor[a]
  BY <1>1, <1>2, GivenIs DEF GivenBelowCursor
<1>4. \A i \in 1..cursor[a] : inbox[i].withdrawn \/ i \in Given(a)
  BY DEF CursorCovered
<1>5. PICK n \in 0..cursor[a] : IsFoldCursor(a, n)
  <2>1. CASE Given(a) = {}
    BY <1>1, <2>1 DEF IsFoldCursor
  <2>2. CASE Given(a) # {}
    <3>0. Given(a) \in SUBSET (0..cursor[a])
      BY <1>1, <1>3
    <3>1. PICK n \in Given(a) : \A i \in Given(a) : i <= n
      BY <1>1, <2>2, <3>0, GreatestBelow
    <3>. QED
      BY <1>1, <1>3, <3>1 DEF IsFoldCursor
  <2>. QED
    BY <2>1, <2>2
<1>6. ASSUME NEW i \in (n + 1)..cursor[a] PROVE inbox[i].withdrawn
  <2>1. i \in 1..cursor[a] /\ ~(i <= n)
    BY <1>1
  <2>. QED
    BY <1>4, <1>5, <2>1 DEF IsFoldCursor
<1>. QED
  BY <1>5, <1>6

(* rebuild_session is right about the room it rebuilds: as long as every    *)
(* append succeeded, a restart at any moment would rebuild the room there   *)
(* is, and each lane that is between turns stands where it would put it.    *)
THEOREM ReplayIsTheRoom == Spec => []ReplayAgrees
<1>1. TypeOK /\ OrderKept /\ FoldKept => ReplayAgrees
  <2> SUFFICES ASSUME TypeOK, OrderKept, FoldKept, faults = 0
               PROVE  /\ inbox = FoldInbox /\ speakers = FoldSpeakers /\ closed = logClosed
                      /\ \A a \in Agents : pc[a] \notin Busy =>
                            /\ history[a] = FoldHistory(a)
                            /\ opened[a] = (a \in logOpened)
                            /\ \E n \in 0..cursor[a] :
                                /\ IsFoldCursor(a, n)
                                /\ \A i \in (n + 1)..cursor[a] : inbox[i].withdrawn
    BY DEF ReplayAgrees
  <2>1. RoomIsFold /\ \A a \in Agents : LaneIsFold(a) /\ CursorCovered(a)
    BY DEF FoldKept
  <2>2. inbox = FoldInbox /\ speakers = FoldSpeakers /\ closed = logClosed
    BY <2>1, InboxFolds DEF RoomIsFold
  <2>3. ASSUME NEW a \in Agents, pc[a] \notin Busy
        PROVE  /\ history[a] = FoldHistory(a)
               /\ opened[a] = (a \in logOpened)
               /\ \E n \in 0..cursor[a] :
                    IsFoldCursor(a, n) /\ \A i \in (n + 1)..cursor[a] : inbox[i].withdrawn
    <3>1. ~InLog(a) /\ pc[a] # "start"
      BY <2>3 DEF InLog, Busy
    <3>2. opened[a] \in BOOLEAN /\ (a \in logOpened) \in BOOLEAN
      BY DEF TypeOK, LaneType
    <3>3. opened[a] = (a \in logOpened)
      <4>1. opened[a] <=> a \in logOpened
        BY <2>1 DEF LaneIsFold
      <4>. QED
        BY <3>2, <4>1
    <3>. QED
      BY <2>1, <3>1, <3>3, HistoryFolds, CursorFolds DEF OrderKept
  <2>. QED
    BY <2>2, <2>3
<1>. QED
  BY <1>1, FoldAlways, PTL

(* Lane::take, the fold's cursor and withdrawals together: a lane never     *)
(* passes a message it has not read, unless it was withdrawn.               *)
THEOREM NoneSkipped == Spec => []NothingSkipped
<1>1. TypeOK /\ OrderKept /\ FoldKept => NothingSkipped
  <2> SUFFICES ASSUME TypeOK, FoldKept, faults = 0, NEW a \in Agents, NEW i \in 1..cursor[a]
               PROVE  i \in Read(a) \/ inbox[i].withdrawn
    BY DEF NothingSkipped
  <2>1. LaneIsFold(a) /\ CursorCovered(a)
    BY DEF FoldKept
  <2>2. logTurns[a] \in Seq(Turn) /\ history[a] \in Seq(EndedTurn)
    BY DEF TypeOK, LogType, RoomType
  <2>3. ASSUME i \in Given(a) PROVE i \in Read(a)
    <3>1. PICK k \in DOMAIN logTurns[a] : i \in logTurns[a][k].inputs
      BY <2>3, GivenIs
    <3>2. logTurns[a][k] \in Turn
      BY <2>2
    <3>3. CASE k \in DOMAIN history[a]
      <4>1. history[a][k].inputs = logTurns[a][k].inputs
        BY <2>1, <3>2, <3>3, FoldedIs DEF LaneIsFold
      <4>. QED
        BY <3>1, <3>3, <4>1 DEF Read
    <3>4. CASE k \notin DOMAIN history[a]
      <4>1. Len(history[a]) \in Nat /\ k \in 1..Len(logTurns[a]) /\ ~(k \in 1..Len(history[a]))
        BY <2>2, <3>4
      <4>2. InLog(a)
        <5>1. ~InLog(a) => Len(logTurns[a]) = Len(history[a])
          BY <2>1, <4>1 DEF LaneIsFold
        <5>. QED
          BY <4>1, <5>1
      <4>3. Len(logTurns[a]) = Len(history[a]) + 1
        BY <2>1, <4>2 DEF LaneIsFold
      <4>4. k = Len(logTurns[a])
        BY <4>1, <4>3
      <4>5. i \in turn[a].inputs
        BY <2>1, <3>1, <4>2, <4>4 DEF LaneIsFold
      <4>. QED
        BY <4>5 DEF Read
    <3>. QED
      BY <3>3, <3>4
  <2>4. i \in turn[a].inputs => i \in Read(a)
    BY DEF Read
  <2>. QED
    BY <2>1, <2>3, <2>4 DEF CursorCovered
<1>. QED
  BY <1>1, FoldAlways, PTL

(* run_turn records turn.started before the agent is asked: after a crash   *)
(* the fold's cursor is past every message an agent was asked to work on.   *)
THEOREM NoneRunTwice == Spec => []InterruptedNotRerun
<1>1. FoldKept => InterruptedNotRerun
  BY DEF FoldKept, CursorCovered, InterruptedNotRerun, NeverRerun
<1>. QED
  BY <1>1, FoldAlways, PTL

(***************************************************************************)
(* Withdrawing.                                                            *)
(***************************************************************************)

LEMMA ReadIs ==
    ASSUME NEW a \in Agents, NEW x
    PROVE  /\ x \in Read(a) <=> \/ \E k \in DOMAIN history[a] : x \in history[a][k].inputs
                                \/ x \in turn[a].inputs
           /\ x \in Read(a)' <=> \/ \E k \in DOMAIN history'[a] : x \in history'[a][k].inputs
                                 \/ x \in turn'[a].inputs
BY DEF Read

(* A lane between turns holds none, and what the log shows an agent was     *)
(* given, records lost or not, the agent has read.                          *)
GivenIsRead(a) ==
    /\ pc[a] \notin Busy => turn[a] = NoTurn
    /\ \A x \in Given(a) : x \in Read(a)

(* What a step of a lane does to what its agent has read: TakeTurn alone    *)
(* adds to it.                                                              *)
LEMMA ReadLane ==
    ASSUME TypeOK, NEW a \in Agents, pc[a] \notin Busy => turn[a] = NoTurn, LaneStep(a)
    PROVE  /\ pc'[a] \notin Busy => turn'[a] = NoTurn
           /\ \A x : x \in Read(a)' <=> x \in Read(a) \/ (TakeTurn(a) /\ x \in Unread(a))
<1>0. /\ turn[a] \in Turn /\ history[a] \in Seq(EndedTurn)
      /\ history \in [Agents -> Seq(EndedTurn)]
      /\ turn \in [Agents -> Turn] /\ pc \in [Agents -> Resting \cup Busy \cup {"gone"}]
  BY DEF TypeOK, LaneType, RoomType
<1>1. CASE TakeTurn(a)
  <2>1. history' = history /\ turn'[a].inputs = Unread(a) /\ pc[a] = "take" /\ pc'[a] = "start"
    BY <1>0, <1>1 DEF TakeTurn, roomVars
  <2>2. turn[a].inputs = {}
    BY <2>1 DEF Busy, NoTurn
  <2>. QED
    BY <1>1, <2>1, <2>2, ReadIs DEF Busy
<1>2. CASE Keep(a)
  <2>1. /\ history'[a] = Append(history[a], turn[a]) /\ turn'[a] = NoTurn
        /\ turn[a] \in EndedTurn /\ pc[a] = "keep"
    BY <1>0, <1>2 DEF Keep, TypeOK, LaneType
  <2>2. DEFINE n == Len(history[a])
  <2>3. /\ n \in Nat /\ DOMAIN history[a] = 1..n /\ DOMAIN history'[a] = 1..(n + 1)
        /\ \A k \in 1..n : history'[a][k] = history[a][k]
        /\ history'[a][n + 1] = turn[a]
        /\ n + 1 \in 1..(n + 1) /\ \A k \in 1..n : k \in 1..(n + 1)
        /\ \A k \in 1..(n + 1) : k \in 1..n \/ k = n + 1
    BY <1>0, <2>1
  <2>. HIDE DEF n
  <2>4. \A x : (\E k \in DOMAIN history'[a] : x \in history'[a][k].inputs)
                <=> (\E k \in DOMAIN history[a] : x \in history[a][k].inputs) \/ x \in turn[a].inputs
    BY <2>3
  <2>5. turn'[a].inputs = {} /\ ~TakeTurn(a)
    BY <2>1 DEF NoTurn, TakeTurn
  <2>6. \A x : x \in Read(a)' <=> x \in Read(a)
    BY <2>4, <2>5, ReadIs
  <2>. QED
    BY <2>1, <2>5, <2>6
<1>3. CASE ~TakeTurn(a) /\ ~Keep(a)
  <2>1. /\ history' = history /\ turn'[a].inputs = turn[a].inputs
        /\ pc'[a] \notin Busy => pc[a] \notin Busy /\ turn' = turn
    BY <1>0, <1>3
       DEF LaneStep, Recv, AfterRecv, Snapshot, TakeNothing, NoAgent, TurnStarted, Arm, Opened,
           EndTurn, Finish, roomVars, Busy, Turn
  <2>. QED
    BY <1>3, <2>1, ReadIs
<1>. QED
  BY <1>1, <1>2, <1>3

LEMMA GivenReadLane ==
    ASSUME TypeOK, NEW a \in Agents, GivenIsRead(a), LaneStep(a)
    PROVE  GivenIsRead(a)'
<1>0. logTurns[a] \in Seq(Turn) /\ logTurns \in [Agents -> Seq(Turn)]
  BY DEF TypeOK, LogType
<1>1. /\ pc'[a] \notin Busy => turn'[a] = NoTurn
      /\ \A x \in Read(a) : x \in Read(a)'
  BY ReadLane DEF GivenIsRead
<1>2. ASSUME NEW x, x \in Given(a)' PROVE x \in Given(a) \/ x \in turn[a].inputs
  <2>1. CASE logTurns' = logTurns
    BY <1>2, <2>1, GivenIs
  <2>2. CASE TurnStarted(a) /\ logTurns' # logTurns
    <3>1. logTurns'[a] = Append(logTurns[a], turn[a]) /\ turn[a] \in Turn
      BY <1>0, <2>2 DEF TurnStarted, TypeOK, LaneType
    <3>2. PICK k \in DOMAIN logTurns'[a] : x \in logTurns'[a][k].inputs
      BY <1>2, GivenIs
    <3>3. logTurns'[a][k] = turn[a] \/ (k \in DOMAIN logTurns[a] /\ logTurns'[a][k] = logTurns[a][k])
      BY <1>0, <3>1
    <3>. QED
      BY <3>2, <3>3, GivenIs
  <2>3. ASSUME NEW end \in Ends, EndTurn(a, end), logTurns' # logTurns
        PROVE  x \in Given(a)
    <3>1. logTurns'[a] = WithEnd(logTurns[a], turn[a].no, end)
      BY <1>0, <2>3 DEF EndTurn
    <3>2. /\ DOMAIN WithEnd(logTurns[a], turn[a].no, end) = DOMAIN logTurns[a]
          /\ \A k \in DOMAIN logTurns[a] :
                WithEnd(logTurns[a], turn[a].no, end)[k].inputs = logTurns[a][k].inputs
      BY <1>0, WithEndKeeps
    <3>. QED
      BY <1>2, <3>1, <3>2, GivenIs
  <2>. QED
    BY <2>1, <2>2, <2>3
       DEF LaneStep, Recv, Snapshot, TakeTurn, TakeNothing, NoAgent, Arm, Opened, Finish, Keep,
           logVars
<1>3. \A x \in turn[a].inputs : x \in Read(a)
  BY ReadIs
<1>. QED
  BY <1>1, <1>2, <1>3 DEF GivenIsRead

(* Steps of other lanes and of calls. *)
LEMMA LaneUntouched ==
    ASSUME TypeOK, NEW a \in Agents, [Next]_vars, ~LaneStep(a), ~Restart
    PROVE  /\ logTurns'[a] = logTurns[a] /\ history'[a] = history[a] /\ turn'[a] = turn[a]
           /\ pc'[a] = pc[a] /\ seen'[a] = seen[a] /\ cursor'[a] = cursor[a]
<1>0. /\ logTurns \in [Agents -> Seq(Turn)] /\ history \in [Agents -> Seq(EndedTurn)]
      /\ turn \in [Agents -> Turn] /\ pc \in [Agents -> Resting \cup Busy \cup {"gone"}]
      /\ seen \in [Agents -> Seq(Input)] /\ cursor \in [Agents -> Nat]
  BY DEF TypeOK, LaneType, LogType, RoomType
<1>1. ASSUME NEW b \in Agents, b # a, LaneStep(b)
      PROVE  /\ logTurns'[a] = logTurns[a] /\ history'[a] = history[a] /\ turn'[a] = turn[a]
             /\ pc'[a] = pc[a] /\ seen'[a] = seen[a] /\ cursor'[a] = cursor[a]
  BY <1>0, <1>1
     DEF LaneStep, Recv, Snapshot, TakeTurn, TakeNothing, NoAgent, TurnStarted, Arm, Opened,
         EndTurn, Finish, Keep, logVars, roomVars
<1>2. CASE (\E c \in Clients : CallStep(c)) \/ CallBegins \/ UNCHANGED vars
  BY <1>2
     DEF CallStep, CallBegins, SubmitCheck, SubmitAppend, SubmitFails, SubmitNudge, Withdraw,
         CancelCall, CancelCollect, CancelRecord, CancelFails, CancelFire, CloseCommit,
         CloseLane, vars, logVars, roomVars, laneVars
<1>. QED
  BY <1>1, <1>2 DEF Next

(* A restart's history is what the log shows the agent was given. *)
LEMMA ReadAfterRestart ==
    ASSUME TypeOK, NEW a \in Agents, Restart
    PROVE  /\ pc'[a] \notin Busy \cup {"take"} /\ turn'[a] = NoTurn
           /\ \A x : x \in Read(a)' <=> x \in Given(a)
           /\ \A x : x \in Given(a)' <=> x \in Given(a)
<1>1. /\ logTurns' = logTurns /\ history'[a] = FoldHistory(a) /\ turn'[a] = NoTurn
      /\ pc'[a] \notin Busy \cup {"take"}
  BY DEF Restart, logVars, Busy
<1>2. \A k \in DOMAIN logTurns[a] : logTurns[a][k] \in Turn
  BY DEF TypeOK, LogType
<1>3. /\ DOMAIN FoldHistory(a) = DOMAIN logTurns[a]
      /\ \A k \in DOMAIN logTurns[a] : FoldHistory(a)[k] = Folded(logTurns[a][k])
  BY DEF FoldHistory, Folded
<1>4. \A k \in DOMAIN logTurns[a] : FoldHistory(a)[k].inputs = logTurns[a][k].inputs
  BY <1>2, <1>3, FoldedIs
<1>5. turn'[a].inputs = {}
  BY <1>1 DEF NoTurn
<1>. QED
  BY <1>1, <1>3, <1>4, <1>5, ReadIs, GivenIs

(* A withdrawn message that is not read, nor about to be.                   *)
LeftUnread(a, i) ==
    /\ i \in DOMAIN inbox /\ inbox[i].withdrawn
    /\ i \notin Read(a)
    /\ pc[a] = "take" => i \notin Unread(a)

LEMMA StaysUnread ==
    ASSUME TypeOK, RoomIsFold, NEW a \in Agents, NEW i, GivenIsRead(a), LeftUnread(a, i),
           [Next]_vars
    PROVE  LeftUnread(a, i)'
<1>0. /\ inbox \in Seq(Input) /\ DOMAIN inbox = 1..Len(inbox)
      /\ pc \in [Agents -> Resting \cup Busy \cup {"gone"}] /\ seen \in [Agents -> Seq(Input)]
      /\ cursor \in [Agents -> Nat]
  BY DEF TypeOK, RoomType, LaneType
<1>1. i \in DOMAIN inbox' /\ inbox'[i].withdrawn
  <2>1. CASE inbox' = inbox
    BY <2>1 DEF LeftUnread
  <2>2. ASSUME NEW c \in Clients, SubmitAppend(c) PROVE i \in DOMAIN inbox' /\ inbox'[i].withdrawn
    BY <1>0, <2>2 DEF SubmitAppend, LeftUnread
  <2>3. ASSUME NEW j \in DOMAIN inbox, Withdraw(j) PROVE i \in DOMAIN inbox' /\ inbox'[i].withdrawn
    <3>1. inbox' = [inbox EXCEPT ![j].withdrawn = TRUE] /\ i \in DOMAIN inbox /\ inbox[i].withdrawn
      BY <2>3 DEF Withdraw, LeftUnread
    <3>2. inbox[i] \in Input
      BY <1>0, <3>1
    <3>. QED
      BY <1>0, <3>1, <3>2 DEF Input
  <2>4. CASE Restart
    <3>1. inbox' = inbox
      BY <2>4, InboxFolds DEF Restart, RoomIsFold
    <3>. QED
      BY <2>1, <3>1
  <2>5. ASSUME NEW b \in Agents, LaneStep(b) PROVE inbox' = inbox
    BY <2>5
       DEF LaneStep, Recv, Snapshot, TakeTurn, TakeNothing, NoAgent, TurnStarted, Arm, Opened,
           EndTurn, Finish, Keep, roomVars
  <2>6. ASSUME NEW c \in Clients,
               \/ SubmitCheck(c) \/ SubmitFails(c) \/ CancelCall(c) \/ CancelRecord(c)
               \/ CancelFails(c) \/ CancelFire(c) \/ CloseCommit(c)
               \/ \E b \in Agents : SubmitNudge(c, b) \/ CancelCollect(c, b) \/ CloseLane(c, b)
        PROVE  inbox' = inbox
    BY <2>6
       DEF SubmitCheck, SubmitFails, CancelCall, CancelRecord, CancelFails, CancelFire,
           SubmitNudge, CancelCollect, CloseLane, CloseCommit, roomVars
  <2>7. CASE UNCHANGED vars
    BY <2>1, <2>7 DEF vars, roomVars
  <2>. QED
    BY <2>1, <2>2, <2>3, <2>4, <2>5, <2>6, <2>7 DEF Next, CallStep, CallBegins
<1>2. CASE LaneStep(a)
  <2>1. ~(TakeTurn(a) /\ i \in Unread(a))
    BY DEF LeftUnread, TakeTurn
  <2>2. i \notin Read(a)'
    BY <1>2, <2>1, ReadLane DEF LeftUnread, GivenIsRead
  <2>3. pc'[a] = "take" => Snapshot(a)
    BY <1>0, <1>2
       DEF LaneStep, Recv, AfterRecv, TakeTurn, TakeNothing, NoAgent, TurnStarted, Arm, Opened,
           EndTurn, Finish, Keep
  <2>4. ASSUME Snapshot(a) PROVE i \notin Unread(a)'
    <3>1. seen'[a] = inbox /\ inbox' = inbox
      BY <1>0, <2>4 DEF Snapshot, roomVars
    <3>. QED
      BY <3>1 DEF Unread, LeftUnread
  <2>. QED
    BY <1>1, <2>2, <2>3, <2>4 DEF LeftUnread
<1>3. CASE Restart
  <2>1. i \notin Read(a)' /\ pc'[a] # "take"
    BY <1>3, ReadAfterRestart DEF LeftUnread, GivenIsRead
  <2>. QED
    BY <1>1, <2>1 DEF LeftUnread
<1>4. CASE ~LaneStep(a) /\ ~Restart
  <2>1. /\ history'[a] = history[a] /\ turn'[a] = turn[a]
        /\ pc'[a] = pc[a] /\ seen'[a] = seen[a] /\ cursor'[a] = cursor[a]
    BY <1>4, LaneUntouched
  <2>2. i \notin Read(a)'
    BY <2>1, ReadIs DEF LeftUnread
  <2>3. pc'[a] = "take" => i \notin Unread(a)'
    BY <2>1 DEF LeftUnread, Unread
  <2>. QED
    BY <1>1, <2>2, <2>3 DEF LeftUnread
<1>. QED
  BY <1>2, <1>3, <1>4

ReadKept == \A a \in Agents : GivenIsRead(a)

LEMMA ReadAlways == Spec => [](TypeOK /\ RoomIsFold /\ ReadKept)
<1>1. Init => RoomIsFold /\ ReadKept
  <2> SUFFICES ASSUME Init PROVE RoomIsFold /\ ReadKept
    OBVIOUS
  <2>1. Len(<<>>) = 0 /\ DOMAIN <<>> = {} /\ 1..0 = {}
    OBVIOUS
  <2>2. RoomIsFold
    BY <2>1 DEF Init, RoomIsFold, InboxIsFold, FoldSpeakers
  <2>3. ASSUME NEW a \in Agents PROVE GivenIsRead(a)
    BY <2>1 DEF Init, GivenIsRead, Given
  <2>. QED
    BY <2>2, <2>3 DEF ReadKept
<1>2. TypeOK /\ RoomIsFold /\ [Next]_vars => RoomIsFold'
  BY RoomFold
<1>3. TypeOK /\ ReadKept /\ [Next]_vars => ReadKept'
  <2> SUFFICES ASSUME TypeOK, NEW a \in Agents, GivenIsRead(a), [Next]_vars
               PROVE  GivenIsRead(a)'
    BY DEF ReadKept
  <2>1. CASE LaneStep(a)
    BY <2>1, GivenReadLane
  <2>2. CASE Restart
    BY <2>2, ReadAfterRestart DEF GivenIsRead
  <2>3. CASE ~LaneStep(a) /\ ~Restart
    <3>1. /\ logTurns'[a] = logTurns[a] /\ history'[a] = history[a] /\ turn'[a] = turn[a]
          /\ pc'[a] = pc[a]
      BY <2>3, LaneUntouched
    <3>2. \A x : (x \in Read(a)' <=> x \in Read(a)) /\ (x \in Given(a)' <=> x \in Given(a))
      BY <3>1, ReadIs, GivenIs
    <3>. QED
      BY <3>1, <3>2 DEF GivenIsRead
  <2>. QED
    BY <2>1, <2>2, <2>3
<1>. QED
  BY <1>1, <1>2, <1>3, TypeCorrect, PTL DEF Spec

(* SessionManager::withdraw is final: whatever lanes, restarts and lost     *)
(* records do, an agent that has not read a message when it is withdrawn    *)
(* never reads it, but for the lane that had just copied the inbox.         *)
THEOREM WithdrawalsLast == Spec => WithdrawnStaysUnread
<1> SUFFICES ASSUME NEW CONSTANT a \in Agents, NEW CONSTANT i \in 1..MaxInputs
             PROVE  Spec =>
                      []((i \in DOMAIN inbox /\ inbox[i].withdrawn /\ i \notin Read(a)
                            /\ pc[a] # "take")
                         => [](i \notin Read(a)))
  BY DEF WithdrawnStaysUnread
<1>1. TypeOK /\ RoomIsFold /\ ReadKept /\ LeftUnread(a, i) /\ [Next]_vars => LeftUnread(a, i)'
  BY StaysUnread DEF ReadKept
<1>2. (i \in DOMAIN inbox /\ inbox[i].withdrawn /\ i \notin Read(a) /\ pc[a] # "take")
        => LeftUnread(a, i)
  BY DEF LeftUnread
<1>3. LeftUnread(a, i) => i \notin Read(a)
  BY DEF LeftUnread
<1>. QED
  BY <1>1, <1>2, <1>3, ReadAlways, PTL DEF Spec
=============================================================================
