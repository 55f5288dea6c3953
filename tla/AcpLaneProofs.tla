---------------------------- MODULE AcpLaneProofs ----------------------------
(* Theorems about AcpLane, for any number of turns, processes, faults and   *)
(* cancels.                                                                 *)
EXTENDS AcpLane, SequenceTheorems, FiniteSetTheorems, TLAPS

(***************************************************************************)
(* Types, in three parts: the callers and the slots, the processes, and     *)
(* what is left. A slot is locked by a caller that spawns into it, a caller *)
(* at a lock has a slot, and a process has an active turn while it prompts. *)
(***************************************************************************)

(* What UNCHANGED says of the lane's session is seen everywhere.           *)
USE DEF sessionVars

Places == {"idle", "ensure", "lock", "spawn", "opened", "send", "sent", "answered", "forget",
           "forgetting", "remove", "over"}

CallerTypes ==
    /\ entry \in {0} \cup Slots
    /\ holder \in [Slots -> Callers \cup {"nobody"}]
    /\ kept \in [Slots -> 0..MaxProcs]
    /\ at \in [Callers -> Places]
    /\ slot \in [Callers -> {0} \cup Slots]
    /\ client \in [Callers -> 0..MaxProcs]
    /\ \A s \in Slots : holder[s] # "nobody" =>
          slot[holder[s]] = s /\ at[holder[s]] = "spawn" /\ holder[s] # "closer"
    /\ \A c \in Callers :
          /\ at[c] \in {"lock", "spawn", "forgetting"} => slot[c] \in Slots
          /\ at[c] = "spawn" => client[c] \in Procs

Well(q) == q \in Process /\ (q.phase \in {"prompting", "cancelling"} <=> q.active # 0)

ProcTypes == proc \in [Procs -> Process] /\ \A p \in Procs : Well(proc[p])

TurnTypes ==
    /\ turn \in 0..MaxTurns /\ handle \in 0..MaxProcs /\ recorded \in 0..MaxProcs /\ forgot \in BOOLEAN
    /\ at["lane"] # "idle" => turn \in Turns
    /\ cancelled \subseteq Turns /\ overran \subseteq Turns
    /\ told \in [Turns -> 0..MaxProcs]
    /\ mixed \subseteq Turns \X Turns
    /\ late \in BOOLEAN /\ closed \in BOOLEAN
    /\ faults \in Nat /\ cancels \in Nat

LaneTypes == CallerTypes /\ ProcTypes /\ TurnTypes

LEMMA Typed == LaneTypes => TypeOK
BY DEF LaneTypes, CallerTypes, Places, ProcTypes, TurnTypes, TypeOK

LEMMA Bounds ==
    /\ MaxTurns \in Nat /\ MaxProcs \in Nat /\ MaxFaults \in Nat /\ MaxCancels \in Nat
    /\ Turns = 1..MaxTurns /\ Procs = 1..MaxProcs
BY LaneAssumption DEF Turns, Procs

LEMMA LaneInit == Init => LaneTypes
<1>. SUFFICES ASSUME Init PROVE LaneTypes
  OBVIOUS
<1>1. CallerTypes
  BY Bounds DEF Init, CallerTypes, Places, Callers, Slots
<1>2. NoProc \in Process /\ Well(NoProc)
  BY Bounds DEF NoProc, Process, Well
<1>3. ProcTypes
  BY <1>2 DEF Init, ProcTypes
<1>4. at["lane"] = "idle"
  BY DEF Init
<1>5. TurnTypes
  <2>1. told \in [Turns -> 0..MaxProcs]
    BY Bounds DEF Init
  <2>2. turn = 0 /\ handle = 0 /\ recorded = 0 /\ forgot = FALSE /\ cancelled = {} /\ overran = {} /\ mixed = {}
    BY DEF Init
  <2>3. late = FALSE /\ closed = FALSE /\ faults = 0 /\ cancels = 0
    BY DEF Init
  <2>4. 0 \in 0..MaxTurns /\ 0 \in 0..MaxProcs
    BY Bounds
  <2>. QED
    BY <1>4, <2>1, <2>2, <2>3, <2>4 DEF TurnTypes
<1>. QED
  BY <1>1, <1>3, <1>5 DEF LaneTypes

(* What the actions make of a process.                                     *)
LEMMA ProcessSteps ==
    ASSUME NEW q \in Process, Well(q)
    PROVE  /\ Well(Gone(q))
           /\ \A t \in 0..MaxTurns : Well([q EXCEPT !.queue = Append(@, t)])
           /\ \A t \in Turns : Well([q EXCEPT !.phase = "prompting", !.queue = Tail(@), !.active = t,
                                              !.busy = @ \cup {t}]) \/ q.queue = <<>>
           /\ q.phase = "unborn" => \A s \in 0..MaxProcs : Well([q EXCEPT !.phase = "starting", !.asked = s])
           /\ q.phase = "starting" => \A s \in 0..MaxProcs : Well([q EXCEPT !.phase = "idle", !.session = s])
           /\ Well([q EXCEPT !.phase = "idle", !.active = 0])
           /\ Well([q EXCEPT !.phase = "idle", !.active = 0, !.busy = @ \ {q.active}])
           /\ \A t : Well([q EXCEPT !.busy = @ \ {t}])
           /\ q.phase = "prompting" => Well([q EXCEPT !.phase = "cancelling"])
<1>1. q.queue \in Seq(0..MaxTurns) /\ q.busy \subseteq Turns /\ 0 \notin Turns /\ 0 \in 0..MaxTurns
      /\ Turns \subseteq 0..MaxTurns
  BY Bounds DEF Process
<1>2. \A t \in 0..MaxTurns : Append(q.queue, t) \in Seq(0..MaxTurns)
  BY <1>1
<1>3. q.queue # <<>> => Tail(q.queue) \in Seq(0..MaxTurns)
  BY <1>1, HeadTailProperties
<1>4. <<>> \in Seq(0..MaxTurns)
  OBVIOUS
<1>. QED
  BY <1>1, <1>2, <1>3, <1>4 DEF Process, Well, Gone

(* What a caller leaves behind when it is done with the lane, or has it.    *)
LEMMA LetGoKeeps ==
    ASSUME CallerTypes, NEW c \in Callers, LetGo(c),
           entry' \in {0} \cup Slots, kept' \in [Slots -> 0..MaxProcs]
    PROVE  CallerTypes'
<1>1. /\ holder' \in [Slots -> Callers \cup {"nobody"}]
      /\ slot' \in [Callers -> {0} \cup Slots]
      /\ client' \in [Callers -> 0..MaxProcs]
      /\ at' \in [Callers -> Places]
  BY Bounds DEF CallerTypes, Places, LetGo
<1>2. /\ \A d \in Callers : d # c => at'[d] = at[d] /\ slot'[d] = slot[d] /\ client'[d] = client[d]
      /\ at'[c] \in {"idle", "over"}
  BY DEF CallerTypes, Places, LetGo
<1>3. \A s \in Slots : holder'[s] # "nobody" => holder'[s] = holder[s] /\ holder[s] # c /\ holder[s] \in Callers
  BY DEF CallerTypes, LetGo
<1>. QED
  BY <1>1, <1>2, <1>3 DEF CallerTypes

LEMMA ReturnKeeps ==
    ASSUME CallerTypes, NEW c \in Callers, NEW p \in 0..MaxProcs, NEW session,
           Return(c, p, session), entry' = entry, kept' \in [Slots -> 0..MaxProcs],
           holder' \in [Slots -> Callers \cup {"nobody"}],
           \A s \in Slots : holder'[s] # "nobody" => holder'[s] = holder[s] /\ holder[s] # c
    PROVE  CallerTypes'
<1>1. /\ slot' \in [Callers -> {0} \cup Slots]
      /\ client' \in [Callers -> 0..MaxProcs]
      /\ at' \in [Callers -> Places]
  <2>1. CASE c = "lane" /\ handle # 0
    <3>1. slot' = [slot EXCEPT ![c] = 0] /\ client' = [client EXCEPT ![c] = p]
          /\ at' = [at EXCEPT ![c] = "send"]
      BY <2>1 DEF Return
    <3>. QED
      BY <3>1 DEF CallerTypes, Places
  <2>2. CASE ~(c = "lane" /\ handle # 0)
    <3>1. slot' = [slot EXCEPT ![c] = 0] /\ client' = [client EXCEPT ![c] = 0]
          /\ at' = [at EXCEPT ![c] = IF c = "warm" THEN "over" ELSE "opened"]
      BY <2>2 DEF Return
    <3>. QED
      BY <3>1, Bounds DEF CallerTypes, Places
  <2>. QED
    BY <2>1, <2>2
<1>2. /\ \A d \in Callers : d # c => at'[d] = at[d] /\ slot'[d] = slot[d] /\ client'[d] = client[d]
      /\ at'[c] \in {"over", "opened", "send"}
  BY DEF CallerTypes, Return
<1>. QED
  BY <1>1, <1>2 DEF CallerTypes

LEMMA EnsureKeeps ==
    ASSUME LaneTypes, NEW c \in Callers, CallerStep(c)
    PROVE  CallerTypes'
<1>0. CallerTypes /\ ProcTypes /\ TurnTypes
  BY DEF LaneTypes
<1>1. CASE Lookup(c)
  <2>. DEFINE free == CHOOSE f \in Slots : ~Referenced(f)
  <2>1. entry = 0 => \E f \in Slots : ~Referenced(f)
    <3>1. \E f \in Slots : f # slot["warm"] /\ f # slot["lane"] /\ f # slot["closer"]
      BY DEF Slots
    <3>. QED
      BY <3>1 DEF Referenced, Callers, Slots
  <2>2. entry = 0 => free \in Slots
    BY <2>1
  <2>. HIDE DEF free
  <2>3. PICK s \in Slots : /\ entry' = s /\ slot' = [slot EXCEPT ![c] = s]
                           /\ kept' \in {kept, [kept EXCEPT ![s] = 0]}
    <3>1. /\ entry' = IF entry # 0 THEN entry ELSE free
          /\ slot' = [slot EXCEPT ![c] = entry']
          /\ kept' \in {kept, [kept EXCEPT ![entry'] = 0]}
      BY <1>1 DEF Lookup, free
    <3>2. entry' \in Slots
      BY <1>0, <2>2, <3>1 DEF CallerTypes
    <3>. QED
      BY <3>1, <3>2
  <2>4. at' = [at EXCEPT ![c] = "lock"] /\ at[c] = "ensure" /\ UNCHANGED <<holder, client>>
    BY <1>1 DEF Lookup
  <2>. QED
    BY <1>0, <2>3, <2>4, Bounds DEF CallerTypes, Places
<1>2. CASE Reuse(c)
  <2>1. \A s \in Slots : holder[s] # c
    BY <1>0, <1>2 DEF Reuse, CallerTypes, Callers
  <2>2. kept[slot[c]] \in 0..MaxProcs
    BY <1>0, <1>2 DEF Reuse, CallerTypes
  <2>3. /\ Return(c, kept[slot[c]], proc[kept[slot[c]]].session)
        /\ UNCHANGED <<entry, kept, holder>>
    BY <1>2 DEF Reuse, slotVars
  <2>. QED
    BY <1>0, <2>1, <2>2, <2>3, ReturnKeeps DEF CallerTypes
<1>3. CASE Spawn(c)
  <2>1. PICK p \in Procs : client' = [client EXCEPT ![c] = p]
    BY <1>3 DEF Spawn, SpawnInto
  <2>2. /\ holder' = [holder EXCEPT ![slot[c]] = c] /\ at' = [at EXCEPT ![c] = "spawn"]
        /\ UNCHANGED <<entry, kept, slot>> /\ at[c] = "lock" /\ c # "closer"
        /\ holder[slot[c]] = "nobody"
    BY <1>3 DEF Spawn, SpawnInto
  <2>3. Procs \subseteq 0..MaxProcs
    BY Bounds
  <2>4. /\ holder' \in [Slots -> Callers \cup {"nobody"}]
        /\ at' \in [Callers -> Places] /\ client' \in [Callers -> 0..MaxProcs]
    BY <1>0, <2>1, <2>2, <2>3 DEF CallerTypes, Places
  <2>5. ASSUME NEW s \in Slots, holder'[s] # "nobody"
        PROVE  slot[holder'[s]] = s /\ at'[holder'[s]] = "spawn" /\ holder'[s] # "closer"
    BY <1>0, <2>2, <2>5 DEF CallerTypes
  <2>6. \A d \in Callers : at'[d] = "spawn" => client'[d] \in Procs
    BY <1>0, <2>1, <2>2 DEF CallerTypes
  <2>7. \A d \in Callers : at'[d] \in {"lock", "spawn", "forgetting"} => slot[d] \in Slots
    BY <1>0, <2>2 DEF CallerTypes
  <2>. QED
    BY <1>0, <2>2, <2>4, <2>5, <2>6, <2>7 DEF CallerTypes
<1>4. CASE Spawned(c)
  <2>1. /\ kept' = [kept EXCEPT ![slot[c]] = client[c]]
        /\ holder' = [holder EXCEPT ![slot[c]] = "nobody"]
        /\ Return(c, client[c], proc[client[c]].session) /\ entry' = entry
    BY <1>4 DEF Spawned
  <2>2. client[c] \in 0..MaxProcs /\ kept' \in [Slots -> 0..MaxProcs]
    BY <1>0, <2>1 DEF CallerTypes
  <2>3. holder' \in [Slots -> Callers \cup {"nobody"}]
    BY <1>0, <2>1 DEF CallerTypes
  <2>4. \A s \in Slots : holder'[s] # "nobody" => holder'[s] = holder[s] /\ holder[s] # c
    BY <1>0, <2>1 DEF CallerTypes
  <2>. QED
    BY <1>0, <2>1, <2>2, <2>3, <2>4, ReturnKeeps
<1>5. CASE SpawnFailed(c)
  BY <1>0, <1>5, LetGoKeeps DEF SpawnFailed, CallerTypes
<1>. QED
  BY <1>1, <1>2, <1>3, <1>4, <1>5 DEF CallerStep

LEMMA TurnKeeps ==
    ASSUME LaneTypes, StartTurn \/ TurnStep \/ TimesOut \/ Cancel \/ CloseRoom \/ CloseRemoves \/ CloseSends
    PROVE  CallerTypes'
<1>0. CallerTypes /\ {"lane", "closer"} \subseteq Callers
  BY DEF LaneTypes, Callers
<1>1. CASE StartTurn
  BY <1>0, <1>1 DEF StartTurn, slotVars, CallerTypes, Places
<1>7. CASE Send
  <2>1. at["lane"] = "send" /\ UNCHANGED <<entry, holder, kept, slot, client>>
        /\ at' \in {[at EXCEPT !["lane"] = "sent"], [at EXCEPT !["lane"] = "forget"]}
    BY <1>7 DEF Send, slotVars
  <2>. QED
    BY <1>0, <2>1 DEF CallerTypes, Places
<1>10. CASE Record
  <2>1. /\ UNCHANGED <<entry, holder, kept, slot, client>> /\ at["lane"] = "opened"
        /\ at' = [at EXCEPT !["lane"] = "ensure"]
    BY <1>10 DEF Record, slotVars
  <2>. QED
    BY <1>0, <2>1 DEF CallerTypes, Places
<1>8. CASE Cancel
  BY <1>0, <1>8 DEF Cancel, slotVars, CallerTypes, Places
<1>9. CASE CloseRoom
  BY <1>0, <1>9 DEF CloseRoom, slotVars, CallerTypes, Places
<1>2. CASE Forget
  BY <1>0, <1>2, LetGoKeeps DEF Forget, CallerTypes, Places
<1>3. CASE Forgotten
  <2>1. kept' \in [Slots -> 0..MaxProcs]
    BY <1>0, <1>3, Bounds DEF Forgotten, CallerTypes
  <2>. QED
    BY <1>0, <1>3, <2>1, LetGoKeeps DEF Forgotten, CallerTypes
<1>4. CASE TurnEnds \/ TurnDropped \/ TimesOut
  BY <1>0, <1>4, LetGoKeeps DEF TurnEnds, TurnDropped, TimesOut, CallerTypes
<1>5. CASE CloseRemoves
  BY <1>0, <1>5 DEF CloseRemoves, CallerTypes, Places
<1>6. CASE CloseSends
  <2>1. kept' \in [Slots -> 0..MaxProcs]
    BY <1>0, <1>6, Bounds DEF CloseSends, CallerTypes
  <2>. QED
    BY <1>0, <1>6, <2>1, LetGoKeeps DEF CloseSends, CallerTypes
<1>. QED
  BY <1>1, <1>2, <1>3, <1>4, <1>5, <1>6, <1>7, <1>8, <1>9, <1>10 DEF TurnStep

LEMMA AgentKeeps ==
    ASSUME LaneTypes, NEW p \in Procs,
           Ready(p) \/ Die(p) \/ LoopStep(p) \/ Answer(p) \/ AnswerLate(p) \/ Update(p)
    PROVE  CallerTypes'
<1>0. CallerTypes /\ "lane" \in Callers
  BY DEF LaneTypes, Callers
<1>1. /\ UNCHANGED <<entry, holder, kept, slot, client>>
      /\ at' = at \/ (at["lane"] = "sent" /\ at' = [at EXCEPT !["lane"] = "answered"])
  BY DEF Ready, Die, LoopStep, Take, Ends, CancelPrompt, GiveUp, Answer, AnswerLate, Update, Reported,
         slotVars
<1>. QED
  BY <1>0, <1>1 DEF CallerTypes, Places

LEMMA ProcStep ==
    ASSUME ProcTypes, NEW p \in Procs, NEW q, Well(q), proc' = [proc EXCEPT ![p] = q]
    PROVE  ProcTypes'
BY DEF ProcTypes, Well

LEMMA ProcNext == LaneTypes /\ Next => ProcTypes'
<1>. SUFFICES ASSUME LaneTypes, Next PROVE ProcTypes'
  OBVIOUS
<1>0. ProcTypes /\ CallerTypes /\ TurnTypes
  BY DEF LaneTypes
<1>1. ASSUME NEW p \in Procs
      PROVE  Well(proc[p]) /\ proc[p] \in Process /\ proc[p].session \in 0..MaxProcs
             /\ proc[p].queue \in Seq(0..MaxTurns) /\ proc[p].asked \in 0..MaxProcs
  BY <1>0 DEF ProcTypes, Process
<1>2. CASE proc' = proc
  BY <1>0, <1>2 DEF ProcTypes
<1>3. ASSUME NEW c \in Callers, Spawn(c) PROVE ProcTypes'
  <2>1. PICK p \in Procs : /\ proc[p].phase = "unborn"
                           /\ proc' = [proc EXCEPT ![p].phase = "starting", ![p].asked = Wanted(c)]
    BY <1>3 DEF Spawn, SpawnInto
  <2>2. Wanted(c) \in 0..MaxProcs
    BY <1>0, Bounds DEF Wanted, TurnTypes
  <2>3. Well([proc[p] EXCEPT !.phase = "starting", !.asked = Wanted(c)])
    BY <1>1, <2>1, <2>2, ProcessSteps
  <2>4. proc' = [proc EXCEPT ![p] = [proc[p] EXCEPT !.phase = "starting", !.asked = Wanted(c)]]
    BY <2>1
  <2>. QED
    BY <1>0, <2>3, <2>4, ProcStep
<1>4. ASSUME NEW t \in 0..MaxTurns, NEW p \in Procs, proc' = [proc EXCEPT ![p].queue = Append(@, t)]
      PROVE  ProcTypes'
  <2>1. Well([proc[p] EXCEPT !.queue = Append(@, t)])
    BY <1>1, ProcessSteps
  <2>2. proc' = [proc EXCEPT ![p] = [proc[p] EXCEPT !.queue = Append(@, t)]]
    BY <1>4
  <2>. QED
    BY <1>0, <2>1, <2>2, ProcStep
<1>5. CASE Send
  <2>1. turn \in 0..MaxTurns /\ client["lane"] \in 0..MaxProcs
    BY <1>0 DEF TurnTypes, CallerTypes, Callers
  <2>2. CASE Open(client["lane"])
    <3>1. client["lane"] \in Procs
      BY <2>1, <2>2, Bounds DEF Open
    <3>. QED
      BY <1>4, <1>5, <2>1, <2>2, <3>1 DEF Send
  <2>. QED
    BY <1>2, <1>5, <2>2 DEF Send
<1>6. CASE CloseSends
  <2>1. slot["closer"] \in Slots /\ kept[slot["closer"]] \in 0..MaxProcs
    BY <1>0, <1>6 DEF CloseSends, CallerTypes, Callers
  <2>2. CASE Open(kept[slot["closer"]])
    <3>1. kept[slot["closer"]] \in Procs /\ Close \in 0..MaxTurns
      BY <2>1, <2>2, Bounds DEF Open, Close
    <3>. QED
      BY <1>4, <1>6, <2>2, <3>1 DEF CloseSends
  <2>. QED
    BY <1>2, <1>6, <2>2 DEF CloseSends
<1>7. ASSUME NEW p \in Procs, Ready(p) PROVE ProcTypes'
  <2>. DEFINE s == IF proc[p].asked = 0 THEN p ELSE proc[p].asked
  <2>1. s \in 0..MaxProcs
    BY <1>1, Bounds
  <2>. HIDE DEF s
  <2>2. Well([proc[p] EXCEPT !.phase = "idle", !.session = s])
    BY <1>1, <1>7, <2>1, ProcessSteps DEF Ready
  <2>3. proc' = [proc EXCEPT ![p] = [proc[p] EXCEPT !.phase = "idle", !.session = s]]
    BY <1>7 DEF Ready, s
  <2>. QED
    BY <1>0, <2>2, <2>3, ProcStep
<1>8. ASSUME NEW p \in Procs, proc' = [proc EXCEPT ![p] = Gone(@)] PROVE ProcTypes'
  BY <1>0, <1>1, <1>8, ProcessSteps, ProcStep
<1>9. ASSUME NEW p \in Procs, Take(p) PROVE ProcTypes'
  <2>. DEFINE t == Head(proc[p].queue)
              q == [proc[p] EXCEPT !.phase = "prompting", !.queue = Tail(@), !.active = t,
                                   !.busy = @ \cup {t}]
  <2>1. t \in 0..MaxTurns /\ proc[p].queue # <<>>
    BY <1>1, <1>9, HeadTailProperties DEF Take
  <2>2. CASE t = Close
    BY <1>8, <1>9, <2>2 DEF Take
  <2>3. CASE t # Close
    <3>1. t \in Turns
      BY <2>1, <2>3, Bounds DEF Close
    <3>2. Well(q)
      BY <1>1, <2>1, <3>1, ProcessSteps
    <3>3. proc' = [proc EXCEPT ![p] = q]
      BY <1>9, <2>3 DEF Take
    <3>. HIDE DEF q
    <3>. QED
      BY <1>0, <3>2, <3>3, ProcStep
  <2>. QED
    BY <2>2, <2>3
<1>10. ASSUME NEW p \in Procs, Answer(p) PROVE ProcTypes'
  <2>1. Well([proc[p] EXCEPT !.phase = "idle", !.active = 0, !.busy = @ \ {proc[p].active}])
    BY <1>1, ProcessSteps
  <2>2. proc' = [proc EXCEPT ![p] = [proc[p] EXCEPT !.phase = "idle", !.active = 0,
                                                    !.busy = @ \ {proc[p].active}]]
    BY <1>10 DEF Answer
  <2>. QED
    BY <1>0, <2>1, <2>2, ProcStep
<1>11. ASSUME NEW p \in Procs, AnswerLate(p) PROVE ProcTypes'
  <2>1. PICK t \in proc[p].busy : proc' = [proc EXCEPT ![p].busy = @ \ {t}]
    BY <1>11 DEF AnswerLate
  <2>2. Well([proc[p] EXCEPT !.busy = @ \ {t}])
    BY <1>1, ProcessSteps
  <2>3. proc' = [proc EXCEPT ![p] = [proc[p] EXCEPT !.busy = @ \ {t}]]
    BY <2>1
  <2>. QED
    BY <1>0, <2>2, <2>3, ProcStep
<1>12. ASSUME NEW p \in Procs, CancelPrompt(p) PROVE ProcTypes'
  <2>1. Well([proc[p] EXCEPT !.phase = "cancelling"])
    BY <1>1, <1>12, ProcessSteps DEF CancelPrompt
  <2>2. proc' = [proc EXCEPT ![p] = [proc[p] EXCEPT !.phase = "cancelling"]]
    BY <1>12 DEF CancelPrompt
  <2>. QED
    BY <1>0, <2>1, <2>2, ProcStep
<1>13. ASSUME NEW p \in Procs, GiveUp(p) PROVE ProcTypes'
  <2>1. Well([proc[p] EXCEPT !.phase = "idle", !.active = 0])
    BY <1>1, ProcessSteps
  <2>2. proc' = [proc EXCEPT ![p] = [proc[p] EXCEPT !.phase = "idle", !.active = 0]]
    BY <1>13 DEF GiveUp
  <2>. QED
    BY <1>0, <2>1, <2>2, ProcStep
<1>14. CASE Restart
  BY <1>1, <1>14, ProcessSteps DEF Restart, ProcTypes, Well
<1>. QED
  BY <1>2, <1>3, <1>5, <1>6, <1>7, <1>8, <1>9, <1>10, <1>11, <1>12, <1>13, <1>14
     DEF Next, CallerStep, TurnStep, LoopStep, Lookup, Reuse, Spawned, SpawnFailed, StartTurn, Record, Forget,
         Forgotten, TurnEnds, TurnDropped, TimesOut, Cancel, CloseRoom, CloseRemoves, Die, Ends, Update

LEMMA TurnNext == LaneTypes /\ Next => TurnTypes'
<1>. SUFFICES ASSUME LaneTypes, Next PROVE TurnTypes'
  OBVIOUS
<1>0. ProcTypes /\ CallerTypes /\ TurnTypes /\ "lane" \in Callers
  BY DEF LaneTypes, Callers
<1>1. ASSUME NEW p \in Procs
      PROVE  /\ proc[p].session \in 0..MaxProcs /\ proc[p].busy \subseteq Turns
             /\ proc[p].active \in 0..MaxTurns /\ proc[p].queue \in Seq(0..MaxTurns)
  BY <1>0 DEF ProcTypes, Process
<1>2. CASE UNCHANGED <<turn, handle, recorded, forgot, cancelled, overran, told, mixed, closed, faults, cancels>>
           /\ late' \in BOOLEAN /\ (at'["lane"] # "idle" => at["lane"] # "idle")
  BY <1>0, <1>2 DEF TurnTypes
<1>3. ASSUME NEW c \in Callers, CallerStep(c) PROVE TurnTypes'
  <2>1. UNCHANGED <<turn, cancelled, overran, told, mixed, closed, faults, cancels>>
        /\ late' \in BOOLEAN /\ (at'["lane"] # "idle" => at["lane"] # "idle")
    <3>1. UNCHANGED <<turn, cancelled, overran, told, mixed, closed, faults, cancels>>
      BY <1>3 DEF CallerStep, Lookup, Reuse, Spawn, SpawnInto, Spawned, SpawnFailed, turnVars, agentVars
    <3>2. late' \in BOOLEAN
      BY <1>0, <1>3 DEF CallerStep, Lookup, Reuse, Spawn, SpawnInto, Spawned, SpawnFailed, TurnTypes
    <3>3. at[c] # "idle"
      BY <1>3 DEF CallerStep, Lookup, Reuse, Spawn, SpawnInto, Spawned, SpawnFailed
    <3>4. c # "lane" => at'["lane"] = at["lane"]
      BY <1>0, <1>3 DEF CallerStep, Lookup, Reuse, Spawn, SpawnInto, Spawned, SpawnFailed, Return,
                        LetGo, CallerTypes
    <3>. QED
      BY <3>1, <3>2, <3>3, <3>4
  <2>3. UNCHANGED <<recorded, forgot>>
    BY <1>3 DEF CallerStep, Lookup, Reuse, Spawn, SpawnInto, Spawned, SpawnFailed, Return
  <2>2. handle' \in 0..MaxProcs
    <3>1. CASE Reuse(c)
      <4>1. kept[slot[c]] \in Procs
        BY <1>0, <3>1, Bounds DEF Reuse, Open, CallerTypes
      <4>. QED
        BY <1>0, <1>1, <3>1, <4>1 DEF Reuse, Return, TurnTypes
    <3>2. CASE Spawned(c)
      <4>1. client[c] \in Procs
        BY <1>0, <3>2 DEF Spawned, CallerTypes
      <4>. QED
        BY <1>0, <1>1, <3>2, <4>1 DEF Spawned, Return, TurnTypes
    <3>. QED
      BY <1>0, <1>3, <3>1, <3>2 DEF CallerStep, Lookup, Spawn, SpawnInto, SpawnFailed, TurnTypes
  <2>. QED
    BY <1>0, <2>1, <2>2, <2>3 DEF TurnTypes
<1>4. CASE StartTurn
  BY <1>0, <1>4, Bounds DEF StartTurn, TurnTypes, agentVars
<1>15. CASE Record
  <2>1. /\ UNCHANGED <<turn, handle, forgot, cancelled, overran, told, mixed, late, closed, faults, cancels>>
        /\ recorded' \in {handle, recorded} /\ at["lane"] # "idle"
    BY <1>15 DEF Record, turnVars, agentVars
  <2>. QED
    BY <1>0, <2>1 DEF TurnTypes
<1>5. CASE TurnStep /\ ~Record
  <2>1. /\ UNCHANGED <<turn, handle, recorded, forgot, cancelled, overran, told, mixed, late, closed, faults, cancels>>
        /\ at["lane"] # "idle"
    BY <1>5 DEF TurnStep, Send, Forget, Forgotten, TurnEnds, TurnDropped, turnVars, agentVars
  <2>. QED
    BY <1>0, <1>2, <2>1 DEF TurnTypes
<1>6. CASE TimesOut \/ Cancel
  <2>1. /\ UNCHANGED <<turn, handle, recorded, forgot, overran, told, mixed, late, closed, faults>>
        /\ cancels' = cancels + 1 /\ cancelled' = cancelled \cup {turn} /\ at["lane"] # "idle"
    BY <1>6 DEF TimesOut, Cancel, agentVars
  <2>. QED
    BY <1>0, <2>1 DEF TurnTypes
<1>7. CASE CloseRoom
  <2>1. /\ UNCHANGED <<turn, handle, recorded, forgot, overran, told, mixed, late, faults, cancels>>
        /\ closed' = TRUE /\ at'["lane"] = at["lane"]
        /\ cancelled' = IF at["lane"] # "idle" THEN cancelled \cup {turn} ELSE cancelled
    BY <1>0, <1>7 DEF CloseRoom, agentVars, CallerTypes
  <2>. QED
    BY <1>0, <2>1 DEF TurnTypes
<1>8. CASE CloseRemoves \/ CloseSends
  <2>1. /\ UNCHANGED <<turn, handle, recorded, forgot, cancelled, overran, told, mixed, late, closed, faults, cancels>>
        /\ at'["lane"] = at["lane"]
    BY <1>0, <1>8 DEF CloseRemoves, CloseSends, LetGo, turnVars, agentVars, CallerTypes
  <2>. QED
    BY <1>0, <1>2, <2>1 DEF TurnTypes
<1>9. ASSUME NEW p \in Procs, Ready(p) \/ Ends(p) \/ CancelPrompt(p) \/ AnswerLate(p) \/ Answer(p)
      PROVE  TurnTypes'
  <2>1. /\ UNCHANGED <<turn, handle, recorded, forgot, cancelled, overran, told, mixed, late, closed, faults, cancels>>
        /\ at' = at \/ at["lane"] = "sent"
    BY <1>9 DEF Ready, Ends, CancelPrompt, AnswerLate, Answer, Reported, turnVars, agentVars
  <2>. QED
    BY <1>0, <1>2, <2>1 DEF TurnTypes
<1>10. ASSUME NEW p \in Procs, GiveUp(p) PROVE TurnTypes'
  <2>1. /\ UNCHANGED <<turn, handle, recorded, forgot, cancelled, told, mixed, late, closed, faults, cancels>>
        /\ at' = at \/ at["lane"] = "sent"
        /\ overran' = overran \cup {proc[p].active}
    BY <1>10 DEF GiveUp, Reported, turnVars
  <2>2. proc[p].active \in Turns
    BY <1>0, <1>1, <1>10, Bounds DEF GiveUp, ProcTypes, Well
  <2>. QED
    BY <1>0, <2>1, <2>2 DEF TurnTypes
<1>11. ASSUME NEW p \in Procs, Take(p) PROVE TurnTypes'
  <2>1. /\ UNCHANGED <<turn, handle, recorded, forgot, cancelled, overran, mixed, late, closed, faults, cancels, at>>
        /\ told' = told \/ \E t : told' = [told EXCEPT ![t] = proc[p].session]
    BY <1>11 DEF Take, turnVars, agentVars
  <2>2. told' \in [Turns -> 0..MaxProcs]
    BY <1>0, <1>1, <2>1 DEF TurnTypes
  <2>. QED
    BY <1>0, <2>1, <2>2 DEF TurnTypes
<1>12. ASSUME NEW p \in Procs, Update(p) PROVE TurnTypes'
  <2>1. /\ UNCHANGED <<turn, handle, recorded, forgot, cancelled, overran, told, late, closed, faults, cancels, at>>
    BY <1>12 DEF Update, turnVars
  <2>2. PICK t \in proc[p].busy : mixed' = mixed \cup {<<t, proc[p].active>>}
    BY <1>12 DEF Update
  <2>3. proc[p].active \in Turns
    BY <1>1, <1>12, Bounds DEF Update
  <2>. QED
    BY <1>0, <1>1, <2>1, <2>2, <2>3 DEF TurnTypes
<1>13. ASSUME NEW p \in Procs, Die(p) PROVE TurnTypes'
  BY <1>0, <1>13 DEF Die, TurnTypes, turnVars, agentVars
<1>14. CASE Restart
  <2>1. /\ UNCHANGED <<turn, recorded, cancelled, overran, told, mixed, late, closed, cancels>>
        /\ handle' = recorded /\ faults' = faults + 1 /\ forgot' \in BOOLEAN /\ at'["lane"] = "idle"
    BY <1>0, <1>14 DEF Restart, TurnTypes, turnVars, agentVars
  <2>. QED
    BY <1>0, <2>1 DEF TurnTypes
<1>. QED
  BY <1>3, <1>4, <1>5, <1>6, <1>7, <1>8, <1>9, <1>10, <1>11, <1>12, <1>13, <1>14, <1>15 DEF Next, LoopStep

LEMMA LaneNext == LaneTypes /\ [Next]_vars => LaneTypes'
<1>. SUFFICES ASSUME LaneTypes, [Next]_vars PROVE LaneTypes'
  OBVIOUS
<1>1. CASE UNCHANGED vars
  BY <1>1 DEF vars, LaneTypes, CallerTypes, ProcTypes, TurnTypes
<1>2. CASE Restart
  <2>1. CallerTypes'
    BY <1>2, Bounds DEF Restart, CallerTypes, Places, Callers, Slots
  <2>. QED
    BY <1>2, <2>1, ProcNext, TurnNext DEF LaneTypes, Next
<1>3. CASE Next /\ ~Restart
  <2>1. CallerTypes'
    BY <1>3, EnsureKeeps, TurnKeeps, AgentKeeps DEF Next
  <2>. QED
    BY <1>3, <2>1, ProcNext, TurnNext DEF LaneTypes
<1>. QED
  BY <1>1, <1>2, <1>3

(* The slots, the callers, the processes and what they remember keep their  *)
(* types, and a slot's lock is held by a caller that refers to the slot     *)
(* (ensure_lane, forget and close).                                        *)
THEOREM LaneTypeCorrect == Spec => []TypeOK
<1>. QED
  BY LaneInit, LaneNext, Typed, PTL DEF Spec

(***************************************************************************)
(* Parts of the turn.                                                      *)
(***************************************************************************)

(* An agent works on prompts that are over only if they overran their       *)
(* cancellation, and only those mix into other turns.                      *)
LeftOver ==
    /\ \A p \in Procs : proc[p].busy \ {proc[p].active} \subseteq overran
    /\ PartsOfTheTurn

LEMMA PartsStep == LaneTypes /\ LeftOver /\ [Next]_vars => LeftOver'
<1>. SUFFICES ASSUME LaneTypes, LeftOver, [Next]_vars PROVE LeftOver'
  OBVIOUS
<1>0. ProcTypes /\ \A p \in Procs : Well(proc[p]) /\ proc[p] \in Process
  BY DEF LaneTypes, ProcTypes
<1>1. CASE /\ overran \subseteq overran' /\ mixed' = mixed
           /\ \A p \in Procs : \/ proc'[p] = proc[p]
                               \/ proc'[p].busy \ {proc'[p].active} \subseteq proc[p].busy \ {proc[p].active}
  BY <1>1 DEF LeftOver, PartsOfTheTurn
<1>2. CASE UNCHANGED <<proc, overran, mixed>>
  BY <1>1, <1>2
<1>3. ASSUME NEW p \in Procs, NEW q, proc' = [proc EXCEPT ![p] = q], overran \subseteq overran', mixed' = mixed,
             q.busy \ {q.active} \subseteq (proc[p].busy \ {proc[p].active}) \cup overran'
      PROVE  LeftOver'
  BY <1>0, <1>3 DEF LeftOver, PartsOfTheTurn, ProcTypes
<1>4. ASSUME NEW c \in Callers, Spawn(c) PROVE LeftOver'
  <2>1. PICK p \in Procs : proc' = [proc EXCEPT ![p].phase = "starting", ![p].asked = Wanted(c)]
    BY <1>4 DEF Spawn, SpawnInto
  <2>. DEFINE q == [proc[p] EXCEPT !.phase = "starting", !.asked = Wanted(c)]
  <2>2. proc' = [proc EXCEPT ![p] = q] /\ q.busy = proc[p].busy /\ q.active = proc[p].active
    BY <1>0, <2>1 DEF Process
  <2>3. UNCHANGED <<overran, mixed>>
    BY <1>4 DEF Spawn, SpawnInto, agentVars
  <2>. HIDE DEF q
  <2>. QED
    BY <1>3, <2>2, <2>3
<1>5. CASE Send \/ CloseSends
  <2>1. /\ UNCHANGED <<overran, mixed>>
        /\ proc' = proc \/ \E p, t : proc' = [proc EXCEPT ![p].queue = Append(@, t)]
    BY <1>5 DEF Send, CloseSends, agentVars
  <2>2. ASSUME NEW p \in Procs
        PROVE  proc'[p].busy = proc[p].busy /\ proc'[p].active = proc[p].active
    <3>1. proc'[p] = proc[p] \/ \E s : proc'[p] = [proc[p] EXCEPT !.queue = s]
      BY <1>0, <2>1 DEF ProcTypes
    <3>. QED
      BY <1>0, <3>1 DEF Process
  <2>. QED
    BY <1>1, <2>1, <2>2
<1>6. ASSUME NEW p \in Procs, Ready(p) \/ CancelPrompt(p) PROVE LeftOver'
  <2>1. UNCHANGED <<overran, mixed>>
    BY <1>6 DEF Ready, CancelPrompt, agentVars
  <2>2. ASSUME NEW x \in Procs
        PROVE  proc'[x].busy = proc[x].busy /\ proc'[x].active = proc[x].active
    <3>1. \/ proc'[x] = proc[x]
          \/ \E s : proc'[x] = [proc[x] EXCEPT !.phase = "idle", !.session = s]
          \/ proc'[x] = [proc[x] EXCEPT !.phase = "cancelling"]
      <4>1. CASE Ready(p)
        BY <1>0, <4>1 DEF Ready, ProcTypes
      <4>2. CASE CancelPrompt(p)
        BY <1>0, <4>2 DEF CancelPrompt, ProcTypes
      <4>. QED
        BY <1>6, <4>1, <4>2
    <3>. QED
      BY <1>0, <3>1 DEF Process
  <2>. QED
    BY <1>1, <2>1, <2>2
<1>7. ASSUME NEW p \in Procs, proc' = [proc EXCEPT ![p] = Gone(@)], UNCHANGED <<overran, mixed>>
      PROVE  LeftOver'
  <2>1. proc' = [proc EXCEPT ![p] = Gone(proc[p])] /\ Gone(proc[p]).busy = {}
    BY <1>0, <1>7 DEF Gone, Process
  <2>. QED
    BY <1>3, <1>7, <2>1
<1>8. ASSUME NEW p \in Procs, Take(p) PROVE LeftOver'
  <2>1. CASE Head(proc[p].queue) = Close
    BY <1>7, <1>8, <2>1 DEF Take
  <2>2. CASE Head(proc[p].queue) # Close
    <3>. DEFINE t == Head(proc[p].queue)
                q == [proc[p] EXCEPT !.phase = "prompting", !.queue = Tail(@), !.active = t,
                                     !.busy = @ \cup {t}]
    <3>1. proc' = [proc EXCEPT ![p] = q] /\ UNCHANGED <<overran, mixed>>
      BY <1>8, <2>2 DEF Take
    <3>2. q.busy = proc[p].busy \cup {t} /\ q.active = t
      BY <1>0 DEF Process
    <3>3. proc[p].active = 0 /\ 0 \notin proc[p].busy
      BY <1>0, <1>8 DEF Take, Well, Process, Turns
    <3>. HIDE DEF q, t
    <3>. QED
      BY <1>3, <3>1, <3>2, <3>3
  <2>. QED
    BY <2>1, <2>2
<1>9. ASSUME NEW p \in Procs, Answer(p) PROVE LeftOver'
  <2>. DEFINE q == [proc[p] EXCEPT !.phase = "idle", !.active = 0, !.busy = @ \ {proc[p].active}]
  <2>1. proc' = [proc EXCEPT ![p] = q] /\ UNCHANGED <<overran, mixed>>
    BY <1>9 DEF Answer, Reported
  <2>2. q.busy = proc[p].busy \ {proc[p].active}
    BY <1>0 DEF Process
  <2>. HIDE DEF q
  <2>. QED
    BY <1>3, <2>1, <2>2
<1>10. ASSUME NEW p \in Procs, AnswerLate(p) PROVE LeftOver'
  <2>1. PICK t : proc' = [proc EXCEPT ![p] = [proc[p] EXCEPT !.busy = @ \ {t}]]
    BY <1>10 DEF AnswerLate
  <2>. DEFINE q == [proc[p] EXCEPT !.busy = @ \ {t}]
  <2>2. UNCHANGED <<overran, mixed>> /\ proc' = [proc EXCEPT ![p] = q]
    BY <1>10, <2>1 DEF AnswerLate, agentVars
  <2>3. q.busy \subseteq proc[p].busy /\ q.active = proc[p].active
    BY <1>0 DEF Process
  <2>. HIDE DEF q
  <2>. QED
    BY <1>3, <2>2, <2>3
<1>11. ASSUME NEW p \in Procs, GiveUp(p) PROVE LeftOver'
  <2>. DEFINE q == [proc[p] EXCEPT !.phase = "idle", !.active = 0]
  <2>1. /\ proc' = [proc EXCEPT ![p] = q] /\ mixed' = mixed
        /\ overran' = overran \cup {proc[p].active}
    BY <1>11 DEF GiveUp, Reported
  <2>2. q.busy = proc[p].busy
    BY <1>0 DEF Process
  <2>. HIDE DEF q
  <2>. QED
    BY <1>3, <2>1, <2>2
<1>12. ASSUME NEW p \in Procs, Update(p) PROVE LeftOver'
  <2>1. UNCHANGED <<proc, overran>>
    BY <1>12 DEF Update
  <2>2. PICK t \in proc[p].busy \ {proc[p].active} : mixed' = mixed \cup {<<t, proc[p].active>>}
    BY <1>12 DEF Update
  <2>. QED
    BY <2>1, <2>2 DEF LeftOver, PartsOfTheTurn
<1>13. CASE Restart
  <2>1. UNCHANGED <<overran, mixed>>
    BY <1>13 DEF Restart, agentVars
  <2>2. \A p \in Procs : proc'[p] = proc[p] \/ proc'[p].busy = {}
    BY <1>0, <1>13 DEF Restart, Gone, Process
  <2>. QED
    BY <1>1, <2>1, <2>2
<1>14. CASE UNCHANGED vars
  BY <1>2, <1>14 DEF vars
<1>15. CASE (\E c \in Callers : CallerStep(c) /\ ~Spawn(c)) \/ StartTurn \/ (TurnStep /\ ~Send)
            \/ TimesOut \/ Cancel \/ CloseRoom \/ CloseRemoves
  <2>1. UNCHANGED <<proc, overran, mixed>>
    BY <1>15 DEF CallerStep, TurnStep, Record, Lookup, Reuse, Spawned, SpawnFailed, StartTurn, Forget,
                 Forgotten, TurnEnds, TurnDropped, TimesOut, Cancel, CloseRoom, CloseRemoves, agentVars
  <2>. QED
    BY <1>2, <2>1
<1>16. ASSUME NEW p \in Procs, Die(p) \/ Ends(p) PROVE LeftOver'
  BY <1>7, <1>16 DEF Die, Ends, agentVars
<1>. QED
  BY <1>4, <1>5, <1>6, <1>8, <1>9, <1>10, <1>11, <1>12, <1>13, <1>14, <1>15, <1>16 DEF Next, LoopStep

(* What an agent sends is recorded under the turn whose prompt it works on, *)
(* but for a prompt that outlived its cancellation (run_lane's active turn  *)
(* and the wait after session/cancel).                                     *)
THEOREM LateWorkOverran == Spec => []PartsOfTheTurn
<1>1. Init => LeftOver
  BY DEF Init, NoProc, LeftOver, PartsOfTheTurn
<1>2. LeftOver => PartsOfTheTurn
  BY DEF LeftOver
<1>. QED
  BY <1>1, <1>2, LaneInit, LaneNext, PartsStep, PTL DEF Spec

(***************************************************************************)
(* One session.                                                            *)
(***************************************************************************)

(* A prompt waits for the process.                                         *)
Waits(p) == \E i \in DOMAIN proc[p].queue : proc[p].queue[i] # Close

(* Before the lane has a handle there is one slot, and whoever spawns into  *)
(* it keeps the others out; from then on every process in reach, every one  *)
(* that is to be spawned for a turn and every one a prompt was sent to      *)
(* speaks the session of the handle.                                       *)
OneSlot ==
    /\ at["closer"] = "over"
    /\ \A c \in Callers : at[c] = "spawn" =>
          holder[slot[c]] = c /\ proc[client[c]].phase # "unborn"
    /\ handle = 0 =>
          /\ \A c \in Callers : slot[c] \in {0, entry}
          /\ at["lane"] \in {"idle", "ensure", "lock", "spawn"}
    /\ handle # 0 => at["warm"] # "spawn"

Begun(p) == proc[p].phase \in {"unborn", "starting"} => proc[p].session = 0

InReach(s) == Referenced(s) /\ kept[s] # 0 =>
    /\ proc[kept[s]].session # 0
    /\ handle # 0 /\ proc[kept[s]].phase # "gone" => proc[kept[s]].session = handle

SpeaksHandle ==
    /\ \A t \in Turns : told[t] \in {0, handle}
    /\ \A p \in Procs : Begun(p) /\ (Waits(p) => handle # 0 /\ proc[p].session = handle)
    /\ \A s \in Slots : InReach(s)
    /\ at["lane"] = "send" => client["lane"] \in Procs /\ proc[client["lane"]].session = handle
    /\ at["lane"] = "spawn" /\ handle # 0 =>
          proc[client["lane"]].asked = handle /\ proc[client["lane"]].session \in {0, handle}

Same == OneSlot /\ SpeaksHandle

(* What the agents and the loops do to a process leaves its session.       *)
Keeps(p) ==
    /\ proc'[p].session = proc[p].session /\ proc'[p].asked = proc[p].asked
    /\ proc'[p].phase # "unborn" \/ proc'[p].phase = proc[p].phase
    /\ proc'[p].phase = "starting" => proc[p].phase = "starting"
    /\ proc[p].phase = "gone" => proc'[p].phase = "gone"
    /\ Waits(p)' => Waits(p)

LEMMA LoopKeepsSession ==
    ASSUME LaneTypes, Same, \A p \in Procs : Keeps(p),
           UNCHANGED <<entry, holder, kept, slot, client, handle>>,
           \A t \in Turns : told'[t] \in {told[t], handle},
           at' = at \/ (at["lane"] = "sent" /\ at' = [at EXCEPT !["lane"] = "answered"])
    PROVE  Same'
<1>0. /\ CallerTypes /\ at \in [Callers -> Places] /\ "lane" \in Callers /\ "warm" \in Callers
      /\ "closer" \in Callers
  BY DEF LaneTypes, CallerTypes, Callers
<1>1. /\ at'["warm"] = at["warm"] /\ at'["closer"] = at["closer"]
      /\ at'["lane"] = at["lane"] \/ (at["lane"] = "sent" /\ at'["lane"] = "answered")
      /\ \A c \in Callers : at'[c] = "spawn" => at[c] = "spawn"
  BY <1>0 DEF Places, Callers
<1>2. \A s \in Slots : kept[s] # 0 => kept[s] \in Procs
  BY <1>0, Bounds DEF CallerTypes
<1>3. OneSlot'
  BY <1>0, <1>1 DEF Same, OneSlot, Keeps, CallerTypes
<1>4. \A p \in Procs : (Begun(p) /\ (Waits(p) => handle # 0 /\ proc[p].session = handle))'
  BY DEF Same, SpeaksHandle, Keeps, Begun
<1>5. \A s \in Slots : InReach(s)'
  BY <1>2 DEF Same, SpeaksHandle, InReach, Keeps, Referenced
<1>6. \A t \in Turns : told'[t] \in {0, handle}
  BY DEF Same, SpeaksHandle
<1>7. at'["lane"] = "send" => client["lane"] \in Procs /\ proc'[client["lane"]].session = handle
  BY <1>1 DEF Same, SpeaksHandle, Keeps
<1>8. at'["lane"] = "spawn" /\ handle # 0 =>
         proc'[client["lane"]].asked = handle /\ proc'[client["lane"]].session \in {0, handle}
  BY <1>0, <1>1 DEF Same, SpeaksHandle, Keeps, CallerTypes
<1>. QED
  BY <1>3, <1>4, <1>5, <1>6, <1>7, <1>8 DEF Same, SpeaksHandle

(* Leaving the lane, or the map, takes nothing into reach.                 *)
LEMMA LeavingKeepsSession ==
    ASSUME LaneTypes, Same, LetGo("lane") \/ LetGo("warm"), UNCHANGED <<proc, handle, told>>, entry' = entry,
           \A s \in Slots : kept'[s] \in {0, kept[s]}
    PROVE  Same'
<1>0. /\ CallerTypes /\ "lane" \in Callers /\ "warm" \in Callers /\ "closer" \in Callers
  BY DEF LaneTypes, CallerTypes, Callers
<1>1. /\ \A d \in Callers : \/ at'[d] = at[d] /\ slot'[d] = slot[d] /\ client'[d] = client[d]
                            \/ at'[d] \in {"idle", "over"} /\ slot'[d] = 0
      /\ at'["closer"] = at["closer"]
      /\ at'["lane"] \in {at["lane"], "idle"}
      /\ \A d \in Callers, x \in Slots : at'[d] = "spawn" /\ holder[x] = d => holder'[x] = d
  BY <1>0 DEF LetGo, CallerTypes, Callers
<1>2. OneSlot'
  BY <1>0, <1>1 DEF Same, OneSlot, CallerTypes
<1>3. \A s \in Slots : Referenced(s)' => Referenced(s)
  BY <1>1 DEF Referenced, Slots
<1>4. \A s \in Slots : InReach(s)'
  BY <1>3 DEF Same, SpeaksHandle, InReach
<1>5. \A p \in Procs : (Begun(p) /\ (Waits(p) => handle # 0 /\ proc[p].session = handle))'
  BY DEF Same, SpeaksHandle, Begun, Waits
<1>6. /\ at'["lane"] = "send" => client'["lane"] \in Procs /\ proc[client'["lane"]].session = handle
      /\ at'["lane"] = "spawn" /\ handle # 0 =>
            proc[client'["lane"]].asked = handle /\ proc[client'["lane"]].session \in {0, handle}
  BY <1>0, <1>1 DEF Same, SpeaksHandle
<1>. QED
  BY <1>2, <1>4, <1>5, <1>6 DEF Same, SpeaksHandle

LEMMA LookupKeepsSession ==
    ASSUME LaneTypes, Same, NEW c \in Callers, Lookup(c)
    PROVE  Same'
<1>0. /\ CallerTypes /\ CallerTypes' /\ "lane" \in Callers /\ "warm" \in Callers /\ "closer" \in Callers
  BY EnsureKeeps DEF LaneTypes, CallerTypes, CallerStep, Callers
<1>1. /\ slot' = [slot EXCEPT ![c] = entry'] /\ at' = [at EXCEPT ![c] = "lock"] /\ at[c] = "ensure"
      /\ UNCHANGED <<holder, client, handle, proc, told>>
      /\ entry # 0 => entry' = entry /\ kept' = kept
      /\ entry = 0 => kept' = [kept EXCEPT ![entry'] = 0]
  BY <1>0 DEF Lookup, agentVars, CallerTypes
<1>2. /\ \A d \in Callers : d # c => at'[d] = at[d] /\ slot'[d] = slot[d]
      /\ at'[c] = "lock" /\ slot'[c] = entry'
  BY <1>0, <1>1 DEF CallerTypes
<1>3. OneSlot'
  BY <1>0, <1>1, <1>2 DEF Same, OneSlot
<1>4. \A s \in Slots : Referenced(s)' => Referenced(s) \/ s = entry'
  BY <1>2 DEF Referenced
<1>5. ASSUME NEW s \in Slots PROVE InReach(s)'
  <2>1. CASE entry # 0
    BY <1>1, <1>4, <2>1 DEF Same, SpeaksHandle, InReach, Referenced
  <2>2. CASE entry = 0
    BY <1>0, <1>1, <1>4, <2>2 DEF Same, SpeaksHandle, InReach, CallerTypes
  <2>. QED
    BY <2>1, <2>2
<1>6. \A p \in Procs : (Begun(p) /\ (Waits(p) => handle # 0 /\ proc[p].session = handle))'
  BY <1>1 DEF Same, SpeaksHandle, Begun, Waits
<1>7. /\ at'["lane"] = "send" => client'["lane"] \in Procs /\ proc'[client'["lane"]].session = handle'
      /\ at'["lane"] = "spawn" /\ handle' # 0 =>
            proc'[client'["lane"]].asked = handle' /\ proc'[client'["lane"]].session \in {0, handle'}
  BY <1>0, <1>1, <1>2 DEF Same, SpeaksHandle
<1>8. \A t \in Turns : told'[t] \in {0, handle'}
  BY <1>1 DEF Same, SpeaksHandle
<1>. QED
  BY <1>3, <1>5, <1>6, <1>7, <1>8 DEF Same, SpeaksHandle

LEMMA SpawnKeepsSession ==
    ASSUME LaneTypes, Same, NEW c \in Callers, Spawn(c), ~late'
    PROVE  Same'
<1>0. /\ CallerTypes /\ ProcTypes /\ "lane" \in Callers /\ "warm" \in Callers /\ "closer" \in Callers
      /\ handle \in 0..MaxProcs
  BY DEF LaneTypes, CallerTypes, TurnTypes, Callers
<1>1. PICK p \in Procs : /\ proc[p].phase = "unborn" /\ client' = [client EXCEPT ![c] = p]
                         /\ proc' = [proc EXCEPT ![p].phase = "starting", ![p].asked = Wanted(c)]
  BY DEF Spawn, SpawnInto
<1>2. /\ at[c] = "lock" /\ c # "closer" /\ holder[slot[c]] = "nobody" /\ slot[c] \in Slots
      /\ holder' = [holder EXCEPT ![slot[c]] = c] /\ at' = [at EXCEPT ![c] = "spawn"]
      /\ UNCHANGED <<entry, kept, slot, handle, told>>
      /\ c = "warm" => handle = 0
  BY <1>0 DEF Spawn, SpawnInto, agentVars, CallerTypes
<1>3. /\ \A d \in Callers : d # c => at'[d] = at[d] /\ client'[d] = client[d]
      /\ at'[c] = "spawn" /\ client'[c] = p
  BY <1>0, <1>1, <1>2 DEF CallerTypes
<1>4. /\ proc'[p].phase = "starting" /\ proc'[p].asked = Wanted(c) /\ proc'[p].session = 0
      /\ proc[p].session = 0 /\ Waits(p)' = Waits(p)
      /\ \A x \in Procs : x # p => proc'[x] = proc[x]
  <2>1. proc[p] \in Process /\ proc[p].session = 0
    BY <1>0, <1>1 DEF ProcTypes, Same, SpeaksHandle, Begun
  <2>2. proc'[p] = [proc[p] EXCEPT !.phase = "starting", !.asked = Wanted(c)]
        /\ \A x \in Procs : x # p => proc'[x] = proc[x]
    BY <1>0, <1>1 DEF ProcTypes
  <2>. QED
    BY <2>1, <2>2 DEF Process, Waits
<1>5. \A s \in Slots : kept[s] # 0 => kept[s] \in Procs
  BY <1>0, Bounds DEF CallerTypes
<1>6. \A s \in Slots : Referenced(s)' = Referenced(s)
  BY <1>2 DEF Referenced
<1>7. ASSUME NEW s \in Slots PROVE InReach(s)'
  BY <1>2, <1>4, <1>5, <1>6 DEF Same, SpeaksHandle, InReach
<1>8. OneSlot'
  <2>1. ASSUME NEW d \in Callers, at'[d] = "spawn"
        PROVE  holder'[slot[d]] = d /\ proc'[client'[d]].phase # "unborn"
    <3>1. CASE d = c
      BY <1>0, <1>2, <1>3, <1>4, <3>1 DEF CallerTypes
    <3>2. CASE d # c
      <4>1. at[d] = "spawn" /\ holder[slot[d]] = d /\ slot[d] \in Slots /\ client[d] \in Procs
            /\ proc[client[d]].phase # "unborn"
        BY <1>0, <1>3, <2>1, <3>2 DEF Same, OneSlot, CallerTypes
      <4>2. slot[d] # slot[c] /\ client[d] # p
        BY <1>1, <1>2, <4>1, <3>2 DEF Callers
      <4>. QED
        BY <1>0, <1>2, <1>3, <1>4, <3>2, <4>1, <4>2 DEF CallerTypes
    <3>. QED
      BY <3>1, <3>2
  <2>2. handle = 0 => at'["lane"] \in {"idle", "ensure", "lock", "spawn"}
    BY <1>0, <1>2, <1>3 DEF Same, OneSlot
  <2>3. handle # 0 => at'["warm"] # "spawn"
    BY <1>0, <1>2, <1>3 DEF Same, OneSlot
  <2>4. at'["closer"] = "over"
    BY <1>0, <1>2, <1>3 DEF Same, OneSlot
  <2>. QED
    BY <1>2, <2>1, <2>2, <2>3, <2>4 DEF Same, OneSlot
<1>9. \A x \in Procs : (Begun(x) /\ (Waits(x) => handle # 0 /\ proc[x].session = handle))'
  BY <1>2, <1>4 DEF Same, SpeaksHandle, Begun, Waits
<1>10. at'["lane"] = "send" => client'["lane"] \in Procs /\ proc'[client'["lane"]].session = handle
  <2>1. at'["lane"] = "send" => at["lane"] = "send" /\ client'["lane"] = client["lane"]
    BY <1>0, <1>3
  <2>2. handle = 0 => at["lane"] # "send"
    BY DEF Same, OneSlot
  <2>. QED
    BY <1>4, <2>1, <2>2 DEF Same, SpeaksHandle
<1>11. at'["lane"] = "spawn" /\ handle # 0 =>
         proc'[client'["lane"]].asked = handle /\ proc'[client'["lane"]].session \in {0, handle}
  <2>1. CASE c = "lane"
    BY <1>3, <1>4, <2>1 DEF Wanted
  <2>2. CASE c # "lane"
    <3>1. handle = 0
      BY <1>2, <2>2 DEF Callers
    <3>. QED
      BY <3>1
  <2>. QED
    BY <2>1, <2>2
<1>. QED
  BY <1>2, <1>7, <1>8, <1>9, <1>10, <1>11 DEF Same, SpeaksHandle

(* A process that is kept is given to a caller: to warm the lane, to open   *)
(* it, or for a turn.                                                      *)
LEMMA ReturnKeepsSession ==
    ASSUME LaneTypes, Same, NEW c \in Callers, c # "closer", NEW p \in Procs, at[c] \in {"lock", "spawn"},
           Return(c, p, proc[p].session), UNCHANGED <<entry, proc, told>>,
           proc[p].session # 0, proc[p].phase \notin {"unborn", "starting"},
           handle # 0 => proc[p].session = handle,
           kept' = [kept EXCEPT ![slot[c]] = p],
           holder' = [s \in Slots |-> IF holder[s] = c THEN "nobody" ELSE holder[s]],
           holder[slot[c]] \in {"nobody", c}
    PROVE  Same'
<1>0. /\ CallerTypes /\ ProcTypes /\ "lane" \in Callers /\ "warm" \in Callers /\ "closer" \in Callers
      /\ slot[c] \in Slots /\ handle \in 0..MaxProcs
  BY DEF LaneTypes, CallerTypes, TurnTypes, Callers
<1>1. /\ \A d \in Callers : d # c => at'[d] = at[d] /\ slot'[d] = slot[d] /\ client'[d] = client[d]
      /\ slot'[c] = 0
      /\ c = "warm" => at'[c] = "over" /\ handle' = handle
      /\ c = "lane" /\ handle # 0 => at'[c] = "send" /\ client'[c] = p /\ handle' = handle
      /\ c = "lane" /\ handle = 0 => at'[c] = "opened" /\ handle' = proc[p].session
  BY <1>0 DEF Return, CallerTypes
<1>2. c \in {"lane", "warm"}
  BY DEF Callers
<1>3. handle = 0 => slot[c] = entry /\ \A s \in Slots : Referenced(s) => s = entry
  BY <1>0 DEF Same, OneSlot, Referenced, Slots
<1>4. \A s \in Slots : Referenced(s)' => Referenced(s)
  BY <1>1 DEF Referenced, Slots
<1>5. handle # 0 => handle' = handle
  BY <1>1, <1>2
<1>6. ASSUME NEW s \in Slots PROVE InReach(s)'
  <2>1. CASE s = slot[c]
    <3>1. kept'[s] = p /\ proc' = proc
      BY <1>0, <2>1 DEF CallerTypes
    <3>2. CASE c = "lane"
      BY <1>1, <3>1, <3>2 DEF InReach
    <3>3. CASE c = "warm"
      <4>1. CASE handle = 0
        BY <1>1, <3>1, <3>3, <4>1 DEF InReach
      <4>2. CASE handle # 0
        <5>1. at["warm"] # "spawn"
          BY <4>2 DEF Same, OneSlot
        <5>. QED
          BY <1>1, <3>1, <3>3, <4>2, <5>1 DEF InReach
      <4>. QED
        BY <4>1, <4>2
    <3>. QED
      BY <1>2, <3>2, <3>3
  <2>2. CASE s # slot[c]
    <3>1. kept'[s] = kept[s] /\ proc' = proc
      BY <1>0, <2>2 DEF CallerTypes
    <3>2. CASE handle = 0
      BY <1>3, <1>4, <2>2, <3>2 DEF InReach
    <3>3. CASE handle # 0
      BY <1>4, <1>5, <3>1, <3>3 DEF Same, SpeaksHandle, InReach
    <3>. QED
      BY <3>2, <3>3
  <2>. QED
    BY <2>1, <2>2
<1>7. OneSlot'
  <2>1. ASSUME NEW d \in Callers, at'[d] = "spawn"
        PROVE  holder'[slot'[d]] = d /\ proc'[client'[d]].phase # "unborn"
    <3>1. d # c /\ at[d] = "spawn" /\ slot'[d] = slot[d] /\ client'[d] = client[d] /\ slot[d] \in Slots
      BY <1>0, <1>1, <1>2, <2>1 DEF CallerTypes
    <3>. QED
      BY <3>1 DEF Same, OneSlot
  <2>2. handle' = 0 => handle = 0 /\ c = "warm"
    BY <1>1, <1>2
  <2>3. handle' = 0 => \A d \in Callers : slot'[d] \in {0, entry}
    BY <1>1, <2>2 DEF Same, OneSlot
  <2>4. handle' = 0 => at'["lane"] \in {"idle", "ensure", "lock", "spawn"}
    BY <1>0, <1>1, <2>2 DEF Same, OneSlot
  <2>5. handle' # 0 => at'["warm"] # "spawn"
    <3>1. CASE c = "warm"
      BY <1>1, <3>1
    <3>2. CASE c = "lane" /\ handle # 0
      BY <1>0, <1>1, <3>2 DEF Same, OneSlot
    <3>3. CASE c = "lane" /\ handle = 0
      <4>1. at["warm"] = "spawn" => slot["warm"] = slot[c] /\ holder[slot[c]] = "warm"
        BY <1>0, <1>3, <3>3 DEF Same, OneSlot, CallerTypes, Slots
      <4>. QED
        BY <1>0, <1>1, <3>3, <4>1
    <3>. QED
      BY <1>2, <3>1, <3>2, <3>3
  <2>6. at'["closer"] = "over"
    BY <1>0, <1>1 DEF Same, OneSlot
  <2>. QED
    BY <2>1, <2>3, <2>4, <2>5, <2>6 DEF OneSlot
<1>8. \A x \in Procs : (Begun(x) /\ (Waits(x) => handle # 0 /\ proc[x].session = handle))'
  BY <1>5 DEF Same, SpeaksHandle, Begun, Waits
<1>9. /\ at'["lane"] = "send" => client'["lane"] \in Procs /\ proc'[client'["lane"]].session = handle'
      /\ at'["lane"] = "spawn" /\ handle' # 0 =>
            proc'[client'["lane"]].asked = handle' /\ proc'[client'["lane"]].session \in {0, handle'}
  <2>1. CASE c = "lane"
    BY <1>1, <2>1
  <2>2. CASE c = "warm"
    BY <1>0, <1>1, <2>2 DEF Same, SpeaksHandle
  <2>. QED
    BY <1>2, <2>1, <2>2
<1>10. \A t \in Turns : told'[t] \in {0, handle'}
  BY <1>5 DEF Same, SpeaksHandle
<1>. QED
  BY <1>6, <1>7, <1>8, <1>9, <1>10 DEF Same, SpeaksHandle

LEMMA ReachKeepsSession ==
    ASSUME LaneTypes, Same, NEW c \in Callers, Reuse(c) \/ Spawned(c)
    PROVE  Same'
<1>0. /\ CallerTypes /\ ProcTypes /\ "lane" \in Callers /\ "closer" \in Callers
  BY DEF LaneTypes, Callers
<1>1. c # "closer" /\ slot[c] \in Slots /\ at[c] \in {"lock", "spawn"}
  BY <1>0 DEF Reuse, Spawned, Same, OneSlot, CallerTypes
<1>2. CASE Reuse(c)
  <2>. DEFINE p == kept[slot[c]]
  <2>1. p \in Procs /\ p # 0 /\ proc[p].phase # "gone"
    BY <1>0, <1>1, <1>2, Bounds DEF Reuse, Open, CallerTypes
  <2>2. Referenced(slot[c]) /\ InReach(slot[c]) /\ Begun(p)
    BY <1>1, <2>1 DEF Referenced, Same, SpeaksHandle
  <2>3. /\ proc[p].session # 0 /\ (handle # 0 => proc[p].session = handle)
        /\ proc[p].phase \notin {"unborn", "starting"}
    BY <2>1, <2>2 DEF InReach, Begun
  <2>4. \A s \in Slots : holder[s] # c
    <3>1. c # "nobody" /\ at[c] = "lock"
      BY <1>2 DEF Callers, Reuse
    <3>. QED
      BY <1>0, <3>1 DEF CallerTypes
  <2>5. /\ kept' = [kept EXCEPT ![slot[c]] = p]
        /\ holder' = [s \in Slots |-> IF holder[s] = c THEN "nobody" ELSE holder[s]]
    BY <1>0, <1>1, <1>2, <2>4 DEF Reuse, slotVars, CallerTypes
  <2>6. /\ Return(c, p, proc[p].session) /\ UNCHANGED <<entry, proc, told>>
        /\ holder[slot[c]] \in {"nobody", c}
    BY <1>2 DEF Reuse, slotVars, agentVars
  <2>. HIDE DEF p
  <2>. QED
    BY <1>1, <2>1, <2>3, <2>5, <2>6, ReturnKeepsSession
<1>3. CASE Spawned(c)
  <2>1. /\ at[c] = "spawn" /\ client[c] \in Procs /\ proc[client[c]].session # 0
        /\ kept' = [kept EXCEPT ![slot[c]] = client[c]]
        /\ holder' = [holder EXCEPT ![slot[c]] = "nobody"]
        /\ Return(c, client[c], proc[client[c]].session) /\ UNCHANGED <<entry, proc, told>>
    BY <1>0, <1>3 DEF Spawned, agentVars, CallerTypes
  <2>2. /\ holder[slot[c]] = c
        /\ \A s \in Slots : holder[s] = c => s = slot[c]
    <3>1. holder[slot[c]] = c
      BY <2>1 DEF Same, OneSlot
    <3>2. c # "nobody"
      BY DEF Callers
    <3>. QED
      BY <1>0, <3>1, <3>2 DEF CallerTypes
  <2>3. holder' = [s \in Slots |-> IF holder[s] = c THEN "nobody" ELSE holder[s]]
    BY <1>0, <1>1, <2>1, <2>2 DEF CallerTypes
  <2>4. proc[client[c]].phase \notin {"unborn", "starting"}
    BY <2>1 DEF Same, SpeaksHandle, Begun
  <2>5. handle # 0 => proc[client[c]].session = handle
    <3>1. handle # 0 => c = "lane"
      BY <1>1, <2>1 DEF Same, OneSlot, Callers
    <3>. QED
      BY <2>1, <3>1 DEF Same, SpeaksHandle
  <2>. QED
    BY <1>1, <2>1, <2>2, <2>3, <2>4, <2>5, ReturnKeepsSession
<1>. QED
  BY <1>2, <1>3

(* The lane's own steps.                                                   *)
LEMMA TurnKeepsSession ==
    ASSUME LaneTypes, Same, StartTurn \/ TurnStep \/ TimesOut \/ Cancel
    PROVE  Same'
<1>0. /\ CallerTypes /\ ProcTypes /\ TurnTypes
      /\ "lane" \in Callers /\ "warm" \in Callers /\ "closer" \in Callers
  BY DEF LaneTypes, Callers
<1>1. CASE Cancel
  BY <1>1 DEF Cancel, slotVars, agentVars, Same, OneSlot, SpeaksHandle, InReach, Begun, Waits, Referenced
<1>2. ASSUME at["lane"] # "spawn", NEW place \in {"ensure", "sent", "forget", "forgetting"},
             at' = [at EXCEPT !["lane"] = place], handle = 0 => place = "ensure",
             UNCHANGED <<holder, kept, client, handle, told>>, slot' = slot /\ entry' = entry,
             \A p \in Procs : /\ proc'[p].session = proc[p].session /\ proc'[p].phase = proc[p].phase
                              /\ proc'[p].asked = proc[p].asked
                              /\ Waits(p)' => Waits(p) \/ (handle # 0 /\ proc[p].session = handle)
      PROVE  Same'
  <2>1. /\ \A d \in Callers : d # "lane" => at'[d] = at[d]
        /\ at'["lane"] = place /\ place # "spawn" /\ place # "send"
    BY <1>0, <1>2 DEF CallerTypes
  <2>2. OneSlot'
    BY <1>0, <1>2, <2>1 DEF Same, OneSlot, CallerTypes
  <2>3. \A s \in Slots : kept[s] # 0 => kept[s] \in Procs
    BY <1>0, Bounds DEF CallerTypes
  <2>4. \A s \in Slots : InReach(s)'
    BY <1>2, <2>3 DEF Same, SpeaksHandle, InReach, Referenced
  <2>5. \A x \in Procs : (Begun(x) /\ (Waits(x) => handle # 0 /\ proc[x].session = handle))'
    BY <1>2 DEF Same, SpeaksHandle, Begun
  <2>6. \A t \in Turns : told'[t] \in {0, handle'}
    BY <1>2 DEF Same, SpeaksHandle
  <2>. QED
    BY <2>1, <2>2, <2>4, <2>5, <2>6 DEF Same, SpeaksHandle
<1>3. CASE StartTurn
  BY <1>2, <1>3 DEF StartTurn, slotVars, agentVars, Waits
<1>8. CASE Record
  <2>1. /\ at["lane"] = "opened" /\ at' = [at EXCEPT !["lane"] = "ensure"]
        /\ UNCHANGED <<entry, holder, kept, slot, client, handle, proc, told>>
    BY <1>8 DEF Record, slotVars, agentVars
  <2>. QED
    BY <1>2, <2>1 DEF Waits
<1>4. CASE Send
  <2>1. handle # 0 /\ client["lane"] \in Procs /\ proc[client["lane"]].session = handle
    BY <1>0, <1>4 DEF Send, Same, OneSlot, SpeaksHandle
  <2>2. CASE Open(client["lane"])
    <3>1. proc' = [proc EXCEPT ![client["lane"]].queue = Append(@, turn)]
          /\ at' = [at EXCEPT !["lane"] = "sent"]
      BY <1>4, <2>2 DEF Send
    <3>2. ASSUME NEW p \in Procs
          PROVE  /\ proc'[p].session = proc[p].session /\ proc'[p].phase = proc[p].phase
                 /\ proc'[p].asked = proc[p].asked
                 /\ Waits(p)' => Waits(p) \/ (handle # 0 /\ proc[p].session = handle)
      <4>1. CASE p = client["lane"]
        <5>1. proc'[p] = [proc[p] EXCEPT !.queue = Append(proc[p].queue, turn)] /\ proc[p] \in Process
          BY <1>0, <3>1, <4>1 DEF ProcTypes
        <5>. QED
          BY <2>1, <4>1, <5>1 DEF Process
      <4>2. CASE p # client["lane"]
        BY <1>0, <3>1, <4>2 DEF ProcTypes, Waits
      <4>. QED
        BY <4>1, <4>2
    <3>3. UNCHANGED <<holder, kept, client, handle, told, slot, entry>> /\ at["lane"] = "send"
      BY <1>4 DEF Send, slotVars, agentVars
    <3>. QED
      BY <1>2, <2>1, <3>1, <3>2, <3>3
  <2>3. CASE ~Open(client["lane"])
    <3>1. UNCHANGED <<holder, kept, client, handle, told, slot, entry, proc>> /\ at["lane"] = "send"
          /\ at' = [at EXCEPT !["lane"] = "forget"]
      BY <1>4, <2>3 DEF Send, slotVars, agentVars
    <3>. QED
      BY <1>2, <2>1, <3>1 DEF Waits
  <2>. QED
    BY <2>2, <2>3
<1>5. CASE Forget
  <2>1. CASE entry = 0
    BY <1>5, <2>1, LeavingKeepsSession DEF Forget, agentVars
  <2>2. CASE entry # 0
    <3>1. /\ entry' = 0 /\ slot' = [slot EXCEPT !["lane"] = entry] /\ at["lane"] = "forget"
          /\ at' = [at EXCEPT !["lane"] = "forgetting"] /\ UNCHANGED <<holder, client, kept, handle, proc, told>>
      BY <1>5, <2>2 DEF Forget, agentVars
    <3>2. handle # 0
      BY <3>1 DEF Same, OneSlot
    <3>3. /\ \A d \in Callers : d # "lane" => at'[d] = at[d] /\ slot'[d] = slot[d]
          /\ at'["lane"] = "forgetting" /\ slot'["lane"] = entry
      BY <1>0, <3>1 DEF CallerTypes
    <3>4. OneSlot'
      BY <1>0, <3>1, <3>2, <3>3 DEF Same, OneSlot
    <3>5. \A s \in Slots : Referenced(s)' => Referenced(s)
      BY <3>1, <3>3 DEF Referenced, Slots
    <3>6. \A s \in Slots : InReach(s)'
      BY <3>1, <3>5 DEF Same, SpeaksHandle, InReach
    <3>7. \A x \in Procs : (Begun(x) /\ (Waits(x) => handle # 0 /\ proc[x].session = handle))'
      BY <3>1 DEF Same, SpeaksHandle, Begun, Waits
    <3>8. \A t \in Turns : told'[t] \in {0, handle'}
      BY <3>1 DEF Same, SpeaksHandle
    <3>. QED
      BY <3>3, <3>4, <3>6, <3>7, <3>8 DEF Same, SpeaksHandle
  <2>. QED
    BY <2>1, <2>2
<1>6. CASE Forgotten
  <2>1. \A s \in Slots : kept'[s] \in {0, kept[s]}
    BY <1>0, <1>6 DEF Forgotten, CallerTypes
  <2>. QED
    BY <1>6, <2>1, LeavingKeepsSession DEF Forgotten, agentVars
<1>7. CASE TurnEnds \/ TurnDropped \/ TimesOut
  BY <1>7, LeavingKeepsSession DEF TurnEnds, TurnDropped, TimesOut, agentVars
<1>. QED
  BY <1>1, <1>3, <1>4, <1>5, <1>6, <1>7, <1>8 DEF TurnStep

(* What runs in a process, or ends it. Taking a prompt speaks it in the     *)
(* session of the process.                                                 *)
LEMMA AgentKeepsSession ==
    ASSUME LaneTypes, Same, NEW p \in Procs,
           Ready(p) \/ Die(p) \/ LoopStep(p) \/ Answer(p) \/ AnswerLate(p) \/ Update(p)
    PROVE  Same'
<1>0. /\ CallerTypes /\ ProcTypes /\ proc[p] \in Process /\ "lane" \in Callers
  BY DEF LaneTypes, ProcTypes, Callers
<1>1. ASSUME \A x \in Procs : x # p => proc'[x] = proc[x],
             proc'[p].session = proc[p].session /\ proc'[p].asked = proc[p].asked,
             proc'[p].phase # "unborn" /\ proc'[p].phase # "starting",
             proc[p].phase = "gone" => proc'[p].phase = "gone",
             Waits(p)' => Waits(p)
      PROVE  \A x \in Procs : Keeps(x)
  BY <1>1 DEF Keeps, Waits
<1>2. ASSUME \A x \in Procs : x # p => proc'[x] = proc[x], proc'[p] = Gone(proc[p])
      PROVE  \A x \in Procs : Keeps(x)
  <2>1. /\ proc'[p].session = proc[p].session /\ proc'[p].asked = proc[p].asked
        /\ proc'[p].phase = "gone" /\ proc'[p].queue = <<>>
    BY <1>0, <1>2 DEF Gone, Process
  <2>2. ~Waits(p)'
    BY <2>1 DEF Waits
  <2>. QED
    BY <1>1, <1>2, <2>1, <2>2
<1>3. CASE Ready(p)
  <2>1. /\ proc[p].phase = "starting"
        /\ proc' = [proc EXCEPT ![p] = [proc[p] EXCEPT !.phase = "idle", !.session = proc'[p].session]]
        /\ proc'[p].session = IF proc[p].asked = 0 THEN p ELSE proc[p].asked
        /\ UNCHANGED <<entry, holder, kept, at, slot, client, handle, told>>
    <3>. DEFINE session == IF proc[p].asked = 0 THEN p ELSE proc[p].asked
    <3>1. /\ proc[p].phase = "starting"
          /\ proc' = [proc EXCEPT ![p] = [proc[p] EXCEPT !.phase = "idle", !.session = session]]
          /\ UNCHANGED <<entry, holder, kept, at, slot, client, handle, told>>
      BY <1>3 DEF Ready, slotVars, agentVars
    <3>2. proc'[p] = [proc[p] EXCEPT !.phase = "idle", !.session = session]
      BY <1>0, <3>1 DEF ProcTypes
    <3>3. proc'[p].session = session
      BY <1>0, <3>2 DEF Process
    <3>. QED
      BY <3>1, <3>3
  <2>2. /\ proc'[p].phase = "idle" /\ proc'[p].asked = proc[p].asked
        /\ proc'[p].queue = proc[p].queue
        /\ \A x \in Procs : x # p => proc'[x] = proc[x]
    <3>1. proc'[p] = [proc[p] EXCEPT !.phase = "idle", !.session = proc'[p].session]
      BY <1>0, <2>1 DEF ProcTypes
    <3>. QED
      BY <1>0, <2>1, <3>1 DEF Process, ProcTypes
  <2>3. proc[p].session = 0 /\ ~Waits(p)
    BY <2>1 DEF Same, SpeaksHandle, Begun
  <2>4. OneSlot'
    <3>1. ASSUME NEW c \in Callers, at[c] = "spawn"
          PROVE  holder[slot[c]] = c /\ proc'[client[c]].phase # "unborn"
      BY <1>0, <2>2, <3>1 DEF Same, OneSlot, CallerTypes
    <3>. QED
      BY <2>1, <3>1 DEF Same, OneSlot
  <2>5. \A x \in Procs : (Begun(x) /\ (Waits(x) => handle # 0 /\ proc[x].session = handle))'
    BY <2>1, <2>2, <2>3 DEF Same, SpeaksHandle, Begun, Waits
  <2>6. \A s \in Slots : kept[s] # 0 => kept[s] \in Procs
    BY <1>0, Bounds DEF CallerTypes
  <2>7. \A s \in Slots : InReach(s)'
    BY <2>1, <2>2, <2>3, <2>6 DEF Same, SpeaksHandle, InReach, Referenced
  <2>8. at'["lane"] = "send" => client'["lane"] \in Procs /\ proc'[client'["lane"]].session = handle'
    BY <2>1, <2>2, <2>3 DEF Same, OneSlot, SpeaksHandle
  <2>9. at'["lane"] = "spawn" /\ handle' # 0 =>
            proc'[client'["lane"]].asked = handle' /\ proc'[client'["lane"]].session \in {0, handle'}
    <3>1. at["lane"] = "spawn" => client["lane"] \in Procs
      BY <1>0 DEF CallerTypes
    <3>. QED
      BY <2>1, <2>2, <3>1 DEF Same, SpeaksHandle
  <2>10. \A t \in Turns : told'[t] \in {0, handle'}
    BY <2>1 DEF Same, SpeaksHandle
  <2>. QED
    BY <2>4, <2>5, <2>7, <2>8, <2>9, <2>10 DEF Same, SpeaksHandle
<1>4. CASE Take(p)
  <2>. DEFINE t == Head(proc[p].queue)
  <2>1. /\ proc[p].phase = "idle" /\ proc[p].queue \in Seq(0..MaxTurns) /\ proc[p].queue # <<>>
        /\ UNCHANGED <<entry, holder, kept, at, slot, client, handle>>
    BY <1>0, <1>4 DEF Take, Process, slotVars
  <2>2. CASE t = Close
    <3>1. proc' = [proc EXCEPT ![p] = Gone(proc[p])] /\ UNCHANGED told
      BY <1>4, <2>2 DEF Take
    <3>2. /\ \A x \in Procs : x # p => proc'[x] = proc[x]
          /\ proc'[p] = Gone(proc[p])
      BY <1>0, <3>1 DEF ProcTypes
    <3>3. \A x \in Procs : Keeps(x)
      BY <1>2, <3>2
    <3>. QED
      BY <2>1, <3>1, <3>3, LoopKeepsSession
  <2>3. CASE t # Close
    <3>1. /\ proc' = [proc EXCEPT ![p] = [proc[p] EXCEPT !.phase = "prompting", !.queue = Tail(@),
                                                        !.active = t, !.busy = @ \cup {t}]]
          /\ told' = [told EXCEPT ![t] = proc[p].session]
      BY <1>4, <2>3 DEF Take
    <3>2. /\ Head(proc[p].queue) = proc[p].queue[1] /\ 1 \in DOMAIN proc[p].queue
      BY <2>1
    <3>3. Waits(p)
      BY <2>3, <3>2 DEF Waits
    <3>4. handle # 0 /\ proc[p].session = handle
      BY <3>3 DEF Same, SpeaksHandle
    <3>5. \A u \in Turns : told'[u] \in {told[u], handle}
      BY <3>1, <3>4 DEF LaneTypes, TurnTypes
    <3>6. /\ \A x \in Procs : x # p => proc'[x] = proc[x]
          /\ proc'[p] = [proc[p] EXCEPT !.phase = "prompting", !.queue = Tail(@),
                                     !.active = t, !.busy = @ \cup {t}]
      BY <1>0, <3>1 DEF ProcTypes
    <3>7. \A x \in Procs : Keeps(x)
      BY <1>0, <1>1, <2>1, <3>1, <3>3, <3>6 DEF Process
    <3>. QED
      BY <2>1, <3>5, <3>7, LoopKeepsSession
  <2>. QED
    BY <2>2, <2>3
<1>5. CASE Die(p) \/ Ends(p)
  <2>1. /\ proc[p].phase # "unborn"
        /\ proc' = [proc EXCEPT ![p] = Gone(proc[p])]
        /\ UNCHANGED <<entry, holder, kept, at, slot, client, handle, told>>
    BY <1>5 DEF Die, Ends, slotVars, agentVars
  <2>2. /\ \A x \in Procs : x # p => proc'[x] = proc[x]
        /\ proc'[p] = Gone(proc[p])
    BY <1>0, <2>1 DEF ProcTypes
  <2>3. \A x \in Procs : Keeps(x)
    BY <1>2, <2>2
  <2>. QED
    BY <2>1, <2>3, LoopKeepsSession
<1>6. CASE CancelPrompt(p)
  <2>1. /\ proc[p].phase = "prompting"
        /\ proc' = [proc EXCEPT ![p] = [proc[p] EXCEPT !.phase = "cancelling"]]
        /\ UNCHANGED <<entry, holder, kept, at, slot, client, handle, told>>
    BY <1>6 DEF CancelPrompt, slotVars, agentVars
  <2>2. /\ \A x \in Procs : x # p => proc'[x] = proc[x]
        /\ proc'[p] = [proc[p] EXCEPT !.phase = "cancelling"]
    BY <1>0, <2>1 DEF ProcTypes
  <2>3. \A x \in Procs : Keeps(x)
    BY <1>0, <1>1, <2>1, <2>2 DEF Process, Waits
  <2>. QED
    BY <2>1, <2>3, LoopKeepsSession
<1>7. CASE Answer(p) \/ GiveUp(p)
  <2>1. /\ proc[p].phase \in {"prompting", "cancelling"}
        /\ UNCHANGED <<entry, holder, kept, slot, client, handle, told>>
        /\ at' = at \/ (at["lane"] = "sent" /\ at' = [at EXCEPT !["lane"] = "answered"])
    BY <1>7 DEF Answer, GiveUp, Reported, slotVars
  <2>2. PICK b : proc' = [proc EXCEPT ![p] = [proc[p] EXCEPT !.phase = "idle", !.active = 0, !.busy = b]]
    <3>1. CASE Answer(p)
      BY <3>1 DEF Answer
    <3>2. CASE GiveUp(p)
      <4>1. proc' = [proc EXCEPT ![p] = [proc[p] EXCEPT !.phase = "idle", !.active = 0]]
        BY <3>2 DEF GiveUp
      <4>2. [proc[p] EXCEPT !.phase = "idle", !.active = 0]
            = [proc[p] EXCEPT !.phase = "idle", !.active = 0, !.busy = proc[p].busy]
        BY <1>0 DEF Process
      <4>. QED
        BY <4>1, <4>2
    <3>. QED
      BY <1>7, <3>1, <3>2
  <2>3. /\ \A x \in Procs : x # p => proc'[x] = proc[x]
        /\ proc'[p] = [proc[p] EXCEPT !.phase = "idle", !.active = 0, !.busy = b]
    BY <1>0, <2>2 DEF ProcTypes
  <2>4. \A x \in Procs : Keeps(x)
    BY <1>0, <1>1, <2>1, <2>2, <2>3 DEF Process, Waits
  <2>. QED
    BY <2>1, <2>4, LoopKeepsSession
<1>8. CASE AnswerLate(p)
  <2>1. PICK t \in proc[p].busy \ {proc[p].active} : proc' = [proc EXCEPT ![p].busy = @ \ {t}]
    BY <1>8 DEF AnswerLate
  <2>2. UNCHANGED <<entry, holder, kept, at, slot, client, handle, told>>
    BY <1>8 DEF AnswerLate, slotVars, agentVars
  <2>3. /\ \A x \in Procs : x # p => proc'[x] = proc[x]
        /\ proc'[p] = [proc[p] EXCEPT !.busy = @ \ {t}]
    BY <1>0, <2>1 DEF ProcTypes
  <2>4. /\ proc'[p].session = proc[p].session /\ proc'[p].asked = proc[p].asked
        /\ proc'[p].phase = proc[p].phase /\ proc'[p].queue = proc[p].queue
    BY <1>0, <2>3 DEF Process
  <2>5. \A x \in Procs : Keeps(x)
    BY <2>3, <2>4, ZenonT(60) DEF Keeps, Waits
  <2>. QED
    BY <2>2, <2>5, LoopKeepsSession
<1>9. CASE Update(p)
  <2>1. UNCHANGED <<entry, holder, kept, at, slot, client, handle, told, proc>>
    BY <1>9 DEF Update, slotVars
  <2>2. \A x \in Procs : Keeps(x)
    BY <2>1 DEF Keeps, Waits
  <2>. QED
    BY <2>1, <2>2, LoopKeepsSession
<1>. QED
  BY <1>3, <1>4, <1>5, <1>6, <1>7, <1>8, <1>9 DEF LoopStep

(* A session that is not recorded has just been opened, and then nothing is *)
(* spoken or about to be; or else its record has failed.                    *)
JustOpened ==
    /\ recorded \in {0, handle}
    /\ at["lane"] = "opened" => (\A t \in Turns : told[t] = 0) /\ \A p \in Procs : ~Waits(p)

(* Where nothing waits, no process speaks.                                 *)
LEMMA AgentStaysSilent ==
    ASSUME LaneTypes, NEW p \in Procs, \A x \in Procs : ~Waits(x),
           Ready(p) \/ Die(p) \/ LoopStep(p) \/ Answer(p) \/ AnswerLate(p) \/ Update(p)
    PROVE  told' = told /\ \A x \in Procs : ~Waits(x)'
<1>0. ProcTypes /\ proc[p] \in Process /\ Gone(proc[p]).queue = <<>>
  BY DEF LaneTypes, ProcTypes, Process, Gone
<1>1. ASSUME NEW q, proc' = [proc EXCEPT ![p] = q], q.queue \in {<<>>, proc[p].queue}
      PROVE  \A x \in Procs : ~Waits(x)'
  <2>1. \A x \in Procs : proc'[x].queue \in {<<>>, proc[x].queue}
    BY <1>0, <1>1 DEF ProcTypes
  <2>. QED
    BY <2>1 DEF Waits
<1>2. CASE Take(p)
  <2>1. Head(proc[p].queue) = Close
    <3>1. proc[p].queue \in Seq(0..MaxTurns) /\ proc[p].queue # <<>>
      BY <1>0, <1>2 DEF Take, Process
    <3>2. Head(proc[p].queue) = proc[p].queue[1] /\ 1 \in DOMAIN proc[p].queue
      BY <3>1
    <3>. QED
      BY <3>2 DEF Waits
  <2>2. told' = told /\ proc' = [proc EXCEPT ![p] = Gone(proc[p])]
    BY <1>2, <2>1 DEF Take
  <2>. QED
    BY <1>0, <1>1, <2>2
<1>3. CASE Die(p) \/ Ends(p)
  <2>1. told' = told /\ proc' = [proc EXCEPT ![p] = Gone(proc[p])]
    BY <1>3 DEF Die, Ends, agentVars
  <2>. QED
    BY <1>0, <1>1, <2>1
<1>4. ASSUME NEW q, proc' = [proc EXCEPT ![p] = q], q.queue = proc[p].queue, told' = told
      PROVE  told' = told /\ \A x \in Procs : ~Waits(x)'
  BY <1>1, <1>4
<1>5. CASE Ready(p)
  <2>. DEFINE q == [proc[p] EXCEPT !.phase = "idle",
                                   !.session = IF proc[p].asked = 0 THEN p ELSE proc[p].asked]
  <2>1. proc' = [proc EXCEPT ![p] = q] /\ told' = told
    BY <1>5 DEF Ready, agentVars
  <2>2. q.queue = proc[p].queue
    BY <1>0 DEF Process
  <2>. HIDE DEF q
  <2>. QED
    BY <1>4, <2>1, <2>2
<1>6. CASE CancelPrompt(p)
  <2>. DEFINE q == [proc[p] EXCEPT !.phase = "cancelling"]
  <2>1. proc' = [proc EXCEPT ![p] = q] /\ told' = told
    BY <1>6 DEF CancelPrompt, agentVars
  <2>2. q.queue = proc[p].queue
    BY <1>0 DEF Process
  <2>. HIDE DEF q
  <2>. QED
    BY <1>4, <2>1, <2>2
<1>7. CASE GiveUp(p)
  <2>. DEFINE q == [proc[p] EXCEPT !.phase = "idle", !.active = 0]
  <2>1. proc' = [proc EXCEPT ![p] = q] /\ told' = told
    BY <1>7 DEF GiveUp, Reported
  <2>2. q.queue = proc[p].queue
    BY <1>0 DEF Process
  <2>. HIDE DEF q
  <2>. QED
    BY <1>4, <2>1, <2>2
<1>8. CASE Answer(p)
  <2>. DEFINE q == [proc[p] EXCEPT !.phase = "idle", !.active = 0, !.busy = @ \ {proc[p].active}]
  <2>1. proc' = [proc EXCEPT ![p] = q] /\ told' = told
    BY <1>8 DEF Answer, Reported
  <2>2. q.queue = proc[p].queue
    BY <1>0 DEF Process
  <2>. HIDE DEF q
  <2>. QED
    BY <1>4, <2>1, <2>2
<1>9. CASE AnswerLate(p)
  <2>1. PICK t \in proc[p].busy \ {proc[p].active} : proc' = [proc EXCEPT ![p].busy = @ \ {t}]
    BY <1>9 DEF AnswerLate
  <2>. DEFINE q == [proc[p] EXCEPT !.busy = @ \ {t}]
  <2>2. proc' = [proc EXCEPT ![p] = q] /\ told' = told
    BY <1>9, <2>1 DEF AnswerLate, agentVars
  <2>3. q.queue = proc[p].queue
    BY <1>0 DEF Process
  <2>. HIDE DEF q
  <2>. QED
    BY <1>4, <2>2, <2>3
<1>10. CASE Update(p)
  BY <1>10 DEF Update, Waits
<1>. QED
  BY <1>2, <1>3, <1>5, <1>6, <1>7, <1>8, <1>9, <1>10 DEF LoopStep

LEMMA JustOpenedStep ==
    ASSUME LaneTypes, Same, JustOpened, [Next]_vars, ~CloseRoom /\ ~CloseRemoves /\ ~CloseSends
    PROVE  JustOpened'
<1>0. /\ CallerTypes /\ ProcTypes /\ TurnTypes
      /\ "lane" \in Callers /\ "warm" \in Callers /\ "closer" \in Callers
  BY DEF LaneTypes, Callers
<1>1. CASE UNCHANGED vars
  BY <1>1 DEF vars, JustOpened, Waits
<1>2. ASSUME UNCHANGED <<handle, recorded>>, at'["lane"] # "opened"
      PROVE  JustOpened'
  BY <1>2 DEF JustOpened
<1>3. ASSUME UNCHANGED <<handle, recorded, told, proc>>, at'["lane"] = at["lane"]
      PROVE  JustOpened'
  BY <1>3 DEF JustOpened, Waits
<1>4. ASSUME NEW c \in Callers, Reuse(c) \/ Spawned(c) PROVE JustOpened'
  <2>1. PICK p, session : Return(c, p, session)
    BY <1>4 DEF Reuse, Spawned
  <2>2. UNCHANGED <<proc, told, recorded>>
    BY <1>4, <2>1 DEF Reuse, Spawned, Return, agentVars
  <2>3. c \in {"lane", "warm"}
    BY <1>4, <1>0 DEF Reuse, Spawned, Same, OneSlot, Callers
  <2>4. CASE c = "warm"
    <3>1. at'["lane"] = at["lane"] /\ handle' = handle
      BY <1>0, <2>1, <2>4 DEF Return, CallerTypes
    <3>. QED
      BY <1>3, <2>2, <3>1
  <2>5. CASE c = "lane" /\ handle # 0
    <3>1. at'["lane"] = "send" /\ handle' = handle
      BY <1>0, <2>1, <2>5 DEF Return, CallerTypes
    <3>. QED
      BY <1>2, <2>2, <3>1
  <2>6. CASE c = "lane" /\ handle = 0
    <3>1. recorded = 0 /\ (\A t \in Turns : told[t] = 0) /\ \A x \in Procs : ~Waits(x)
      BY <2>6 DEF JustOpened, Same, SpeaksHandle
    <3>. QED
      BY <2>2, <3>1 DEF JustOpened, Waits
  <2>. QED
    BY <2>3, <2>4, <2>5, <2>6
<1>5. ASSUME NEW c \in Callers, Lookup(c) \/ Spawn(c) \/ SpawnFailed(c) PROVE JustOpened'
  <2>1. UNCHANGED <<handle, recorded, told>>
    BY <1>5 DEF Lookup, Spawn, SpawnInto, SpawnFailed, agentVars
  <2>2. CASE c = "lane"
    <3>1. at'["lane"] # "opened"
      BY <1>0, <1>5, <2>2 DEF Lookup, Spawn, SpawnInto, SpawnFailed, LetGo, CallerTypes
    <3>. QED
      BY <1>2, <2>1, <3>1
  <2>3. CASE c # "lane"
    <3>1. at'["lane"] = at["lane"]
      BY <1>0, <1>5, <2>3 DEF Lookup, Spawn, SpawnInto, SpawnFailed, LetGo, CallerTypes
    <3>2. \A x \in Procs : proc'[x].queue = proc[x].queue
      <4>1. CASE Spawn(c)
        <5>1. PICK p \in Procs : proc' = [proc EXCEPT ![p].phase = "starting", ![p].asked = Wanted(c)]
          BY <4>1 DEF Spawn, SpawnInto
        <5>2. \A x \in Procs : x # p => proc'[x] = proc[x]
          BY <1>0, <5>1 DEF ProcTypes
        <5>3. proc'[p] = [proc[p] EXCEPT !.phase = "starting", !.asked = Wanted(c)] /\ proc[p] \in Process
          BY <1>0, <5>1 DEF ProcTypes
        <5>4. proc'[p].queue = proc[p].queue
          BY <5>3 DEF Process
        <5>. QED
          BY <5>2, <5>4
      <4>. QED
        BY <1>5, <4>1 DEF Lookup, SpawnFailed
    <3>. QED
      BY <2>1, <3>1, <3>2 DEF JustOpened, Waits
  <2>. QED
    BY <2>2, <2>3
<1>6. CASE Record
  <2>1. at'["lane"] = "ensure" /\ handle' = handle /\ recorded' \in {handle, recorded}
    BY <1>0, <1>6 DEF Record, CallerTypes
  <2>. QED
    BY <2>1 DEF JustOpened
<1>7. CASE StartTurn \/ (TurnStep /\ ~Record) \/ TimesOut
  <2>1. UNCHANGED <<handle, recorded>> /\ at'["lane"] # "opened"
    BY <1>0, <1>7 DEF StartTurn, TurnStep, Send, Forget, Forgotten, TurnEnds, TurnDropped, TimesOut, LetGo,
                      CallerTypes
  <2>. QED
    BY <1>2, <2>1
<1>8. CASE Cancel
  BY <1>3, <1>8 DEF Cancel, agentVars
<1>9. ASSUME NEW p \in Procs,
             Ready(p) \/ Die(p) \/ LoopStep(p) \/ Answer(p) \/ AnswerLate(p) \/ Update(p)
      PROVE  JustOpened'
  <2>1. /\ UNCHANGED <<handle, recorded>>
        /\ at' = at \/ (at["lane"] = "sent" /\ at' = [at EXCEPT !["lane"] = "answered"])
    BY <1>9 DEF Ready, Die, LoopStep, Take, Ends, CancelPrompt, GiveUp, Answer, AnswerLate, Update, Reported
  <2>2. at'["lane"] = at["lane"] \/ at'["lane"] = "answered"
    BY <1>0, <2>1 DEF CallerTypes
  <2>3. CASE at["lane"] = "opened" /\ at'["lane"] = "opened"
    <3>1. (\A t \in Turns : told[t] = 0) /\ \A x \in Procs : ~Waits(x)
      BY <2>3 DEF JustOpened
    <3>2. told' = told /\ \A x \in Procs : ~Waits(x)'
      BY <1>9, <3>1, AgentStaysSilent
    <3>. QED
      BY <2>1, <3>1, <3>2 DEF JustOpened
  <2>. QED
    BY <1>2, <2>1, <2>2, <2>3
<1>10. CASE Restart
  BY <1>0, <1>10 DEF Restart, JustOpened
<1>. QED
  BY <1>1, <1>4, <1>5, <1>6, <1>7, <1>8, <1>9, <1>10 DEF Next, CallerStep

LEMMA RestartKeepsSession ==
    ASSUME LaneTypes, Same, JustOpened, Restart, ~forgot'
    PROVE  Same'
<1>0. /\ ProcTypes /\ "lane" \in Callers /\ "warm" \in Callers /\ "closer" \in Callers
  BY DEF LaneTypes, Callers
<1>1. /\ at'["lane"] = "idle" /\ at'["warm"] = "over" /\ at'["closer"] = "over"
      /\ \A c \in Callers : at'[c] # "spawn" /\ slot'[c] = 0
      /\ entry' = 0 /\ UNCHANGED told
  BY <1>0 DEF Restart, agentVars
<1>2. \/ handle' = handle
      \/ handle' = 0 /\ (\A t \in Turns : told[t] = 0) /\ \A p \in Procs : ~Waits(p)
  BY DEF Restart, JustOpened
<1>3. OneSlot'
  BY <1>1 DEF OneSlot
<1>4. ASSUME NEW p \in Procs
      PROVE  (Begun(p) /\ (Waits(p) => handle # 0 /\ proc[p].session = handle))'
  <2>1. proc'[p] = IF proc[p].phase = "unborn" THEN proc[p] ELSE Gone(proc[p])
    BY DEF Restart
  <2>2. CASE proc[p].phase = "unborn"
    BY <1>2, <2>1, <2>2 DEF Same, SpeaksHandle, Begun, Waits
  <2>3. CASE proc[p].phase # "unborn"
    <3>1. proc'[p].phase = "gone" /\ proc'[p].queue = <<>>
      BY <1>0, <2>1, <2>3 DEF Gone, ProcTypes, Process
    <3>. QED
      BY <3>1 DEF Begun, Waits
  <2>. QED
    BY <2>2, <2>3
<1>5. \A s \in Slots : ~Referenced(s)'
  BY <1>1 DEF Referenced, Slots
<1>6. \A t \in Turns : told'[t] \in {0, handle'}
  BY <1>1, <1>2 DEF Same, SpeaksHandle
<1>. QED
  BY <1>1, <1>3, <1>4, <1>5, <1>6 DEF Same, SpeaksHandle, InReach

(* While the room is open, its warming was in time and its session's record *)
(* was not missed.                                                         *)
InTime == late \/ closed \/ forgot \/ (Same /\ JustOpened)

LEMMA SameInit == Init => Same /\ JustOpened
<1>. SUFFICES ASSUME Init PROVE Same /\ JustOpened
  OBVIOUS
<1>1. /\ at["lane"] = "idle" /\ at["warm"] = "ensure" /\ at["closer"] = "over"
      /\ entry = 0 /\ handle = 0 /\ \A c \in Callers : slot[c] = 0 /\ at[c] # "spawn"
  BY DEF Init, Callers
<1>2. OneSlot
  BY <1>1 DEF OneSlot
<1>3. \A s \in Slots : ~Referenced(s)
  BY <1>1 DEF Referenced, Slots
<1>4. \A p \in Procs : Begun(p) /\ ~Waits(p)
  <2>1. NoProc.queue = <<>> /\ NoProc.session = 0
    BY DEF NoProc
  <2>. QED
    BY <2>1 DEF Init, Begun, Waits
<1>5. \A t \in Turns : told[t] = 0
  BY DEF Init
<1>. QED
  BY <1>1, <1>2, <1>3, <1>4, <1>5 DEF Same, SpeaksHandle, InReach, JustOpened, Init

LEMMA SameStep == LaneTypes /\ InTime /\ [Next]_vars => InTime'
<1>. SUFFICES ASSUME LaneTypes, InTime, [Next]_vars, ~late', ~closed', ~forgot'
              PROVE  Same' /\ JustOpened'
  BY DEF InTime
<1>1. ~late /\ ~closed /\ ~forgot /\ Same /\ JustOpened
  <2>. SUFFICES ~late /\ ~closed /\ ~forgot
    BY DEF InTime
  <2>1. CASE UNCHANGED vars
    BY <2>1 DEF vars, InTime
  <2>2. CASE Next
    <3>1. ASSUME NEW c \in Callers, CallerStep(c) PROVE ~late /\ ~closed /\ ~forgot
      <4>1. CASE Spawn(c)
        <5>1. closed' = closed /\ forgot' = forgot /\ late' = (late \/ (c = "warm" /\ handle # 0))
          BY <4>1 DEF Spawn, SpawnInto, turnVars
        <5>. QED
          BY <5>1
      <4>2. CASE ~Spawn(c)
        <5>1. closed' = closed /\ late' = late /\ forgot' = forgot
          BY <3>1, <4>2 DEF CallerStep, Lookup, Reuse, Spawned, SpawnFailed, Return, turnVars
        <5>. QED
          BY <5>1
      <4>. QED
        BY <4>1, <4>2
    <3>5. CASE Restart
      <4>1. closed' = closed /\ late' = late /\ (forgot => forgot')
        BY <3>5 DEF Restart, turnVars
      <4>. QED
        BY <4>1
    <3>2. CASE StartTurn \/ TurnStep \/ TimesOut \/ Cancel
      <4>1. closed' = closed /\ late' = late /\ forgot' = forgot
        BY <3>2 DEF StartTurn, TurnStep, Record, Send, Forget, Forgotten, TurnEnds, TurnDropped,
                    TimesOut, Cancel, turnVars
      <4>. QED
        BY <4>1
    <3>3. CASE CloseRoom \/ CloseRemoves \/ CloseSends
      <4>1. ~closed /\ late' = late /\ forgot' = forgot
        <5>1. CASE CloseRoom
          BY <5>1 DEF CloseRoom
        <5>2. CASE CloseRemoves \/ CloseSends
          <6>1. closed' = closed /\ late' = late /\ forgot' = forgot
            BY <5>2 DEF CloseRemoves, CloseSends, turnVars
          <6>. QED
            BY <6>1
        <5>. QED
          BY <3>3, <5>1, <5>2
      <4>. QED
        BY <4>1
    <3>4. ASSUME NEW p \in Procs,
                 Ready(p) \/ Die(p) \/ LoopStep(p) \/ Answer(p) \/ AnswerLate(p) \/ Update(p)
          PROVE  ~late /\ ~closed /\ ~forgot
      <4>1. closed' = closed /\ late' = late /\ forgot' = forgot
        BY <3>4 DEF Ready, Die, LoopStep, Take, Ends, CancelPrompt, GiveUp, Answer, AnswerLate, Update,
                    Reported, turnVars
      <4>. QED
        BY <4>1
    <3>. QED
      BY <2>2, <3>1, <3>2, <3>3, <3>4, <3>5 DEF Next, InTime
  <2>. QED
    BY <2>1, <2>2
<1>2. ASSUME UNCHANGED vars PROVE Same'
  BY <1>1, <1>2 DEF vars, Same, OneSlot, SpeaksHandle, Begun, Waits, InReach, Referenced
<1>3. ASSUME NEW c \in Callers, CallerStep(c) PROVE Same'
  <2>1. CASE Lookup(c)
    BY <1>1, <2>1, LookupKeepsSession
  <2>2. CASE Reuse(c) \/ Spawned(c)
    BY <1>1, <2>2, ReachKeepsSession
  <2>3. CASE Spawn(c)
    BY <1>1, <2>3, SpawnKeepsSession
  <2>4. CASE SpawnFailed(c)
    <3>1. c # "closer"
      BY <1>1, <2>4 DEF SpawnFailed, Same, OneSlot
    <3>. QED
      BY <1>1, <2>4, <3>1, LeavingKeepsSession DEF SpawnFailed, Callers, agentVars
  <2>. QED
    BY <1>3, <2>1, <2>2, <2>3, <2>4 DEF CallerStep
<1>4. ASSUME StartTurn \/ TurnStep \/ TimesOut \/ Cancel PROVE Same'
  BY <1>1, <1>4, TurnKeepsSession
<1>5. ~CloseRoom /\ ~CloseRemoves /\ ~CloseSends
  BY <1>1 DEF CloseRoom, CloseRemoves, CloseSends, Same, OneSlot
<1>6. ASSUME NEW p \in Procs,
             Ready(p) \/ Die(p) \/ LoopStep(p) \/ Answer(p) \/ AnswerLate(p) \/ Update(p)
      PROVE  Same'
  BY <1>1, <1>6, AgentKeepsSession
<1>7. ASSUME Restart PROVE Same'
  BY <1>1, <1>7, RestartKeepsSession
<1>8. JustOpened'
  BY <1>1, <1>5, JustOpenedStep
<1>. QED
  BY <1>2, <1>3, <1>4, <1>5, <1>6, <1>7, <1>8 DEF Next

(* As long as the room is open every prompt is spoken in the lane's session,*)
(* through deaths, restarts, cancels and timeouts, but for a warming task   *)
(* that comes after the lane had opened, and a restart that misses the      *)
(* record of the session because its append had failed (ensure_lane and     *)
(* run_lane, acp.rs; run_turn, manager.rs).                                 *)
THEOREM OneSessionSpoken == Spec => []SameSession
<1>1. Init => InTime
  BY SameInit DEF InTime
<1>2. InTime => SameSession
  BY DEF InTime, Same, SpeaksHandle, SameSession
<1>. QED
  BY <1>1, <1>2, LaneInit, LaneNext, SameStep, PTL DEF Spec

(***************************************************************************)
(* One process.                                                            *)
(***************************************************************************)

(* Until something dies or the room is closed there is one slot. It holds   *)
(* no process while a caller that has its lock spawns one; once it does,    *)
(* that process listens, for nobody told it to close and it is in reach,    *)
(* and it is the only one a caller has hold of.                            *)
Alone ==
    /\ at["closer"] = "over" /\ at["lane"] \notin {"forget", "forgetting"}
    /\ \A c \in Callers :
          /\ slot[c] \in {0, entry}
          /\ at[c] = "spawn" =>
                kept[entry] = 0 /\ holder[entry] = c /\ proc[client[c]].phase # "gone"
          /\ at[c] # "spawn" /\ client[c] # 0 => entry # 0 /\ client[c] = kept[entry]
    /\ at["lane"] = "send" => client["lane"] # 0
    /\ entry # 0 /\ kept[entry] # 0 => proc[kept[entry]].phase # "gone"
    /\ \A p \in Procs : proc[p].queue \in Seq(Turns)

Undisturbed == faults # 0 \/ closed \/ Alone

LEMMA AloneIsOne == LaneTypes /\ Undisturbed => OneProcess
<1>. SUFFICES ASSUME LaneTypes, Alone
              PROVE  Cardinality({p \in Procs : Open(p) /\ proc[p].phase # "unborn" /\ Held(p)}) <= 1
  BY DEF Undisturbed, OneProcess
<1>. DEFINE inReach == {p \in Procs : Open(p) /\ proc[p].phase # "unborn" /\ Held(p)}
            x == IF entry # 0 /\ kept[entry] # 0 THEN kept[entry] ELSE client[holder[entry]]
<1>0. CallerTypes
  BY DEF LaneTypes
<1>1. ASSUME NEW p \in Procs, Held(p) PROVE p = x
  <2>1. p # 0
    BY Bounds
  <2>2. ASSUME NEW s \in Slots, Referenced(s), kept[s] = p PROVE p = x
    <3>1. s = entry /\ entry # 0
      BY <2>2 DEF Referenced, Alone, Slots
    <3>. QED
      BY <2>1, <2>2, <3>1
  <2>3. ASSUME NEW c \in Callers, client[c] = p PROVE p = x
    <3>1. CASE at[c] = "spawn"
      BY <2>3, <3>1 DEF Alone
    <3>2. CASE at[c] # "spawn"
      BY <2>1, <2>3, <3>2 DEF Alone
    <3>. QED
      BY <3>1, <3>2
  <2>. QED
    BY <1>1, <2>2, <2>3 DEF Held
<1>. HIDE DEF x
<1>2. inReach = {} \/ inReach = {x}
  BY <1>1
<1>3. Cardinality(inReach) = 0 \/ Cardinality(inReach) = 1
  BY <1>2, FS_EmptySet, FS_Singleton
<1>. QED
  BY <1>3

LEMMA AloneInit == Init => Alone
<1>. SUFFICES ASSUME Init PROVE Alone
  OBVIOUS
<1>1. /\ at["lane"] = "idle" /\ at["warm"] = "ensure" /\ at["closer"] = "over"
      /\ entry = 0 /\ \A c \in Callers : slot[c] = 0 /\ client[c] = 0 /\ at[c] # "spawn"
  BY DEF Init, Callers
<1>2. \A p \in Procs : proc[p].queue \in Seq(Turns)
  <2>1. NoProc.queue = <<>>
    BY DEF NoProc
  <2>2. <<>> \in Seq(Turns)
    OBVIOUS
  <2>. QED
    BY <2>1, <2>2 DEF Init
<1>. QED
  BY <1>1, <1>2 DEF Alone

(* A process in reach goes on while nothing dies and nobody closes it.      *)
LEMMA AgentLeavesOne ==
    ASSUME LaneTypes, Alone, UNCHANGED <<entry, holder, kept, slot, client>>,
           at' = at \/ (at["lane"] = "sent" /\ at' = [at EXCEPT !["lane"] = "answered"]),
           \A p \in Procs : Held(p) /\ proc'[p].phase = "gone" => proc[p].phase = "gone",
           \A p \in Procs : proc'[p].queue \in Seq(Turns)
    PROVE  Alone'
<1>0. /\ CallerTypes /\ "lane" \in Callers /\ "closer" \in Callers
  BY DEF LaneTypes, Callers
<1>1. /\ at'["closer"] = at["closer"]
      /\ at'["lane"] = at["lane"] \/ (at["lane"] = "sent" /\ at'["lane"] = "answered")
      /\ \A c \in Callers : at'[c] = "spawn" <=> at[c] = "spawn"
  BY <1>0 DEF CallerTypes, Places, Callers
<1>2. ASSUME entry # 0, kept[entry] # 0 PROVE proc'[kept[entry]].phase # "gone"
  <2>1. entry \in Slots /\ kept[entry] \in Procs
    BY <1>0, <1>2, Bounds DEF CallerTypes
  <2>2. Held(kept[entry])
    BY <2>1 DEF Held, Referenced
  <2>. QED
    BY <1>2, <2>1, <2>2 DEF Alone
<1>3. ASSUME NEW c \in Callers, at[c] = "spawn" PROVE proc'[client[c]].phase # "gone"
  <2>1. client[c] \in Procs /\ Held(client[c])
    BY <1>0, <1>3 DEF CallerTypes, Held
  <2>. QED
    BY <1>3, <2>1 DEF Alone
<1>. QED
  BY <1>1, <1>2, <1>3 DEF Alone

(* Whoever lets go of the lane leaves the process in its slot.              *)
LEMMA LeavingLeavesOne ==
    ASSUME LaneTypes, Alone, NEW c \in Callers, c # "closer", LetGo(c),
           UNCHANGED <<entry, kept, proc>>
    PROVE  Alone'
<1>0. /\ CallerTypes /\ "lane" \in Callers /\ "closer" \in Callers
  BY DEF LaneTypes, Callers
<1>1. /\ \A d \in Callers : d # c => at'[d] = at[d] /\ slot'[d] = slot[d] /\ client'[d] = client[d]
      /\ at'[c] \in {"idle", "over"} /\ slot'[c] = 0 /\ client'[c] = 0
      /\ \A s \in Slots : holder[s] # c => holder'[s] = holder[s]
  BY <1>0 DEF LetGo, CallerTypes
<1>2. ASSUME NEW d \in Callers, at'[d] = "spawn"
      PROVE  kept'[entry'] = 0 /\ holder'[entry'] = d /\ proc'[client'[d]].phase # "gone"
  <2>1. d # c /\ at[d] = "spawn"
    BY <1>1, <1>2
  <2>2. slot[d] \in Slots /\ slot[d] = entry
    BY <1>0, <2>1 DEF CallerTypes, Alone, Slots
  <2>. QED
    BY <1>1, <2>1, <2>2 DEF Alone
<1>3. /\ at'["closer"] = "over" /\ at'["lane"] \notin {"forget", "forgetting"}
      /\ at'["lane"] = "send" => client'["lane"] # 0
  BY <1>0, <1>1 DEF Alone
<1>4. \A d \in Callers : /\ slot'[d] \in {0, entry'}
                         /\ at'[d] # "spawn" /\ client'[d] # 0 => entry' # 0 /\ client'[d] = kept'[entry']
  BY <1>1 DEF Alone
<1>. QED
  BY <1>2, <1>3, <1>4 DEF Alone

LEMMA CallerLeavesOne ==
    ASSUME LaneTypes, Alone, NEW c \in Callers, CallerStep(c)
    PROVE  Alone'
<1>0. /\ CallerTypes /\ CallerTypes' /\ ProcTypes /\ "lane" \in Callers /\ "closer" \in Callers
  BY EnsureKeeps DEF LaneTypes, Callers
<1>1. CASE Lookup(c)
  <2>1. /\ slot' = [slot EXCEPT ![c] = entry'] /\ at' = [at EXCEPT ![c] = "lock"] /\ at[c] = "ensure"
        /\ UNCHANGED <<holder, client, proc>>
        /\ entry # 0 => entry' = entry /\ kept' = kept
        /\ entry = 0 => kept' = [kept EXCEPT ![entry'] = 0]
    BY <1>0, <1>1 DEF Lookup, CallerTypes
  <2>2. /\ \A d \in Callers : d # c => at'[d] = at[d] /\ slot'[d] = slot[d]
        /\ at'[c] = "lock" /\ slot'[c] = entry' /\ entry' \in Slots
    BY <1>0, <2>1 DEF CallerTypes
  <2>3. CASE entry # 0
    BY <1>0, <2>1, <2>2, <2>3 DEF Alone
  <2>4. CASE entry = 0
    <3>1. \A d \in Callers : slot[d] = 0 /\ at[d] # "spawn" /\ client[d] = 0
      <4>1. \A d \in Callers : slot[d] = 0
        BY <2>4 DEF Alone
      <4>2. \A d \in Callers : at[d] # "spawn"
        BY <1>0, <4>1 DEF CallerTypes, Slots
      <4>. QED
        BY <2>4, <4>1, <4>2 DEF Alone
    <3>2. kept'[entry'] = 0
      BY <1>0, <2>1, <2>2, <2>4 DEF CallerTypes
    <3>. QED
      BY <1>0, <2>1, <2>2, <2>4, <3>1, <3>2 DEF Alone
  <2>. QED
    BY <2>3, <2>4
<1>2. ASSUME NEW p \in Procs, Return(c, p, proc[p].session), at[c] \in {"lock", "spawn"}, c # "closer",
             UNCHANGED <<entry, proc>>, entry # 0, kept'[entry] = p, proc[p].phase # "gone",
             \A d \in Callers : d # c => at[d] # "spawn" /\ client[d] \in {0, p}
      PROVE  Alone'
  <2>1. /\ \A d \in Callers : d # c => at'[d] = at[d] /\ slot'[d] = slot[d] /\ client'[d] = client[d]
        /\ at'[c] \in {"over", "opened", "send"} /\ slot'[c] = 0 /\ client'[c] \in {0, p}
        /\ at'[c] = "send" => client'[c] = p
    BY <1>0, <1>2 DEF CallerTypes, Return
  <2>2. p # 0
    BY Bounds
  <2>3. /\ at'["closer"] = "over" /\ at'["lane"] \notin {"forget", "forgetting"}
    BY <1>0, <1>2, <2>1 DEF Alone
  <2>4. at'["lane"] = "send" => client'["lane"] # 0
    BY <1>0, <2>1, <2>2 DEF Alone
  <2>5. ASSUME NEW d \in Callers
        PROVE  /\ slot'[d] \in {0, entry'} /\ at'[d] # "spawn"
               /\ client'[d] # 0 => entry' # 0 /\ client'[d] = kept'[entry']
    BY <1>2, <2>1 DEF Alone
  <2>. QED
    BY <1>2, <2>3, <2>4, <2>5 DEF Alone
<1>3. CASE Reuse(c)
  <2>1. /\ at[c] = "lock" /\ c # "closer" /\ holder[slot[c]] = "nobody" /\ Open(kept[slot[c]])
        /\ Return(c, kept[slot[c]], proc[kept[slot[c]]].session)
        /\ UNCHANGED <<entry, kept, proc>>
    BY <1>3 DEF Reuse, slotVars
  <2>2. slot[c] = entry /\ entry \in Slots /\ entry # 0
    BY <1>0, <2>1, SMTT(30) DEF CallerTypes, Alone, Slots
  <2>3. kept[entry] \in Procs /\ proc[kept[entry]].phase # "gone"
    BY <1>0, <2>1, <2>2, Bounds DEF CallerTypes, Open
  <2>4. \A d \in Callers : at[d] # "spawn" /\ client[d] \in {0, kept[entry]}
    BY <2>1, <2>2 DEF Alone, Callers
  <2>. QED
    BY <1>2, <2>1, <2>2, <2>3, <2>4
<1>4. CASE Spawn(c)
  <2>1. PICK p \in Procs : /\ proc[p].phase = "unborn" /\ client' = [client EXCEPT ![c] = p]
                           /\ proc' = [proc EXCEPT ![p].phase = "starting", ![p].asked = Wanted(c)]
    BY <1>4 DEF Spawn, SpawnInto
  <2>2. /\ at[c] = "lock" /\ c # "closer" /\ holder[slot[c]] = "nobody" /\ ~Open(kept[slot[c]])
        /\ holder' = [holder EXCEPT ![slot[c]] = c] /\ at' = [at EXCEPT ![c] = "spawn"]
        /\ UNCHANGED <<entry, kept, slot>>
    BY <1>4 DEF Spawn, SpawnInto
  <2>3. slot[c] = entry /\ entry \in Slots /\ entry # 0
    BY <1>0, <2>2, SMTT(30) DEF CallerTypes, Alone, Slots
  <2>4. kept[entry] = 0
    BY <2>2, <2>3 DEF Alone, Open
  <2>5. \A d \in Callers : at[d] # "spawn" /\ client[d] = 0
    BY <2>2, <2>3, <2>4 DEF Alone, Callers
  <2>6. /\ proc'[p].phase # "gone" /\ proc'[p].queue = proc[p].queue
        /\ \A x \in Procs : x # p => proc'[x] = proc[x]
    <3>1. proc[p] \in Process
      BY <1>0 DEF ProcTypes
    <3>2. proc'[p] = [proc[p] EXCEPT !.phase = "starting", !.asked = Wanted(c)]
          /\ \A x \in Procs : x # p => proc'[x] = proc[x]
      BY <1>0, <2>1 DEF ProcTypes
    <3>. QED
      BY <3>1, <3>2 DEF Process
  <2>7. /\ \A d \in Callers : d # c => at'[d] = at[d] /\ client'[d] = client[d]
        /\ at'[c] = "spawn" /\ client'[c] = p /\ holder'[entry] = c
    BY <1>0, <2>1, <2>2, <2>3 DEF CallerTypes
  <2>8. \A x \in Procs : proc'[x].queue \in Seq(Turns)
    BY <2>6 DEF Alone
  <2>9. at'["closer"] = "over" /\ at'["lane"] \notin {"forget", "forgetting"} /\ at'["lane"] # "send"
    BY <1>0, <2>2, <2>5, <2>7 DEF Alone
  <2>. QED
    BY <2>2, <2>4, <2>5, <2>6, <2>7, <2>8, <2>9 DEF Alone
<1>5. CASE Spawned(c)
  <2>1. /\ at[c] = "spawn" /\ kept' = [kept EXCEPT ![slot[c]] = client[c]]
        /\ Return(c, client[c], proc[client[c]].session)
        /\ UNCHANGED <<entry, proc>>
    BY <1>5 DEF Spawned
  <2>2. slot[c] = entry /\ entry \in Slots /\ entry # 0 /\ client[c] \in Procs
    BY SMTT(30), <1>0, <2>1 DEF CallerTypes, Alone, Slots
  <2>3. kept[entry] = 0 /\ holder[entry] = c /\ proc[client[c]].phase # "gone"
    BY <2>1 DEF Alone
  <2>4. \A d \in Callers : d # c => at[d] # "spawn" /\ client[d] \in {0, client[c]}
    BY <2>3 DEF Alone
  <2>5. c # "closer" /\ kept'[entry] = client[c]
    BY <1>0, <2>1, <2>2 DEF Alone, CallerTypes
  <2>. QED
    BY <1>2, <2>1, <2>2, <2>3, <2>4, <2>5
<1>6. CASE SpawnFailed(c)
  <2>1. at[c] = "spawn" /\ LetGo(c) /\ UNCHANGED <<entry, kept, proc>> /\ c # "closer"
    BY <1>6 DEF SpawnFailed, Alone
  <2>. QED
    BY <2>1, LeavingLeavesOne
<1>. QED
  BY <1>1, <1>3, <1>4, <1>5, <1>6 DEF CallerStep

LEMMA TurnLeavesOne ==
    ASSUME LaneTypes, Alone, StartTurn \/ TurnStep \/ TimesOut \/ Cancel
    PROVE  Alone'
<1>0. /\ CallerTypes /\ ProcTypes /\ TurnTypes /\ "lane" \in Callers /\ "closer" \in Callers
      /\ "lane" # "closer"
  BY DEF LaneTypes, Callers
<1>1. CASE StartTurn \/ Cancel \/ Record
  <2>1. /\ UNCHANGED <<entry, holder, kept, slot, client, proc>>
        /\ at' = at \/ (at["lane"] \in {"idle", "opened"} /\ at' = [at EXCEPT !["lane"] = "ensure"])
    BY <1>1 DEF StartTurn, Cancel, Record, slotVars
  <2>2. /\ at'["closer"] = at["closer"]
        /\ at'["lane"] = at["lane"] \/ at'["lane"] = "ensure"
        /\ \A c \in Callers : at'[c] = "spawn" <=> at[c] = "spawn"
    BY <1>0, <2>1 DEF CallerTypes, Callers
  <2>. QED
    BY <2>1, <2>2 DEF Alone
<1>2. CASE Send
  <2>1. client["lane"] # 0 /\ client["lane"] = kept[entry] /\ entry # 0
        /\ Open(client["lane"]) /\ client["lane"] \in Procs
    BY <1>0, <1>2, Bounds DEF Send, Alone, Open, CallerTypes
  <2>2. /\ proc' = [proc EXCEPT ![client["lane"]].queue = Append(@, turn)]
        /\ at' = [at EXCEPT !["lane"] = "sent"]
        /\ UNCHANGED <<entry, holder, kept, slot, client>> /\ at["lane"] = "send"
    BY <1>2, <2>1 DEF Send, slotVars
  <2>. DEFINE p == client["lane"]
  <2>3. /\ proc'[p].phase = proc[p].phase /\ proc'[p].queue = Append(proc[p].queue, turn)
        /\ \A x \in Procs : x # p => proc'[x] = proc[x]
    <3>1. proc[p] \in Process
      BY <1>0, <2>1 DEF ProcTypes
    <3>2. proc'[p] = [proc[p] EXCEPT !.queue = Append(@, turn)]
          /\ \A x \in Procs : x # p => proc'[x] = proc[x]
      BY <1>0, <2>1, <2>2 DEF ProcTypes
    <3>. QED
      BY <3>1, <3>2 DEF Process
  <2>4. turn \in Turns
    BY <1>0, <2>2 DEF TurnTypes
  <2>5. \A x \in Procs : proc'[x].queue \in Seq(Turns)
    <3>1. proc[p].queue \in Seq(Turns)
      BY <2>1 DEF Alone
    <3>2. Append(proc[p].queue, turn) \in Seq(Turns)
      BY <2>4, <3>1
    <3>3. \A x \in Procs : x # p => proc'[x].queue \in Seq(Turns)
      BY <2>3 DEF Alone
    <3>. HIDE DEF p
    <3>. QED
      BY <2>3, <3>2, <3>3
  <2>6. \A x \in Procs : proc'[x].phase = proc[x].phase
    BY <2>3
  <2>7. /\ at'["closer"] = at["closer"] /\ at'["lane"] = "sent"
        /\ \A c \in Callers : at'[c] = "spawn" <=> at[c] = "spawn"
    BY <1>0, <2>2 DEF CallerTypes, Callers
  <2>8. \A c \in Callers : at[c] = "spawn" => client[c] \in Procs
    BY <1>0 DEF CallerTypes
  <2>. HIDE DEF p
  <2>. QED
    BY <2>1, <2>2, <2>5, <2>6, <2>7, <2>8 DEF Alone
<1>3. ~Forget /\ ~Forgotten
  BY DEF Alone, Forget, Forgotten
<1>4. CASE TurnEnds \/ TurnDropped \/ TimesOut
  <2>1. LetGo("lane") /\ UNCHANGED <<entry, kept, proc>>
    BY <1>4 DEF TurnEnds, TurnDropped, TimesOut
  <2>. QED
    BY <1>0, <2>1, LeavingLeavesOne
<1>. QED
  BY <1>1, <1>2, <1>3, <1>4 DEF TurnStep

LEMMA LoopLeavesOne ==
    ASSUME LaneTypes, Alone, NEW p \in Procs,
           Ready(p) \/ LoopStep(p) \/ Answer(p) \/ AnswerLate(p) \/ Update(p)
    PROVE  Alone'
<1>0. ProcTypes /\ proc[p] \in Process /\ proc[p].queue \in Seq(Turns)
  BY DEF LaneTypes, ProcTypes, Alone
<1>1. /\ UNCHANGED <<entry, holder, kept, slot, client>>
      /\ at' = at \/ (at["lane"] = "sent" /\ at' = [at EXCEPT !["lane"] = "answered"])
  BY DEF Ready, LoopStep, Take, Ends, CancelPrompt, GiveUp, Answer, AnswerLate, Update, Reported,
         slotVars
<1>2. ASSUME NEW q, proc' = [proc EXCEPT ![p] = q], q.queue \in Seq(Turns),
             Held(p) => q.phase # "gone"
      PROVE  Alone'
  <2>1. proc'[p] = q /\ \A x \in Procs : x # p => proc'[x] = proc[x]
    BY <1>0, <1>2 DEF ProcTypes
  <2>2. \A x \in Procs : proc'[x].queue \in Seq(Turns)
    BY <1>2, <2>1 DEF Alone
  <2>3. \A x \in Procs : Held(x) /\ proc'[x].phase = "gone" => proc[x].phase = "gone"
    BY <1>2, <2>1
  <2>. QED
    BY <1>1, <2>2, <2>3, AgentLeavesOne
<1>3. CASE Ready(p)
  <2>. DEFINE session == IF proc[p].asked = 0 THEN p ELSE proc[p].asked
              q == [proc[p] EXCEPT !.phase = "idle", !.session = session]
  <2>1. proc' = [proc EXCEPT ![p] = q]
    BY <1>3 DEF Ready
  <2>2. q.queue \in Seq(Turns) /\ q.phase = "idle"
    BY <1>0 DEF Process
  <2>. HIDE DEF q
  <2>. QED
    BY <1>2, <2>1, <2>2
<1>4. CASE Take(p)
  <2>. DEFINE t == Head(proc[p].queue)
              q == [proc[p] EXCEPT !.phase = "prompting", !.queue = Tail(@), !.active = t,
                                   !.busy = @ \cup {t}]
  <2>1. proc[p].queue # <<>>
    BY <1>4 DEF Take
  <2>2. t \in Turns /\ Tail(proc[p].queue) \in Seq(Turns)
    BY <1>0, <2>1, HeadTailProperties
  <2>3. t # Close
    BY <2>2, Bounds DEF Close
  <2>4. proc' = [proc EXCEPT ![p] = q]
    BY <1>4, <2>3 DEF Take
  <2>5. q.queue \in Seq(Turns) /\ q.phase = "prompting"
    BY <1>0, <2>2 DEF Process
  <2>. HIDE DEF q
  <2>. QED
    BY <1>2, <2>4, <2>5
<1>5. CASE Ends(p)
  <2>1. ~Held(p) /\ proc' = [proc EXCEPT ![p] = Gone(proc[p])]
    BY <1>5 DEF Ends
  <2>2. Gone(proc[p]).queue \in Seq(Turns)
    BY <1>0 DEF Gone, Process
  <2>. QED
    BY <1>2, <2>1, <2>2
<1>6. CASE CancelPrompt(p)
  <2>. DEFINE q == [proc[p] EXCEPT !.phase = "cancelling"]
  <2>1. proc' = [proc EXCEPT ![p] = q]
    BY <1>6 DEF CancelPrompt
  <2>2. q.queue \in Seq(Turns) /\ q.phase = "cancelling"
    BY <1>0 DEF Process
  <2>. HIDE DEF q
  <2>. QED
    BY <1>2, <2>1, <2>2
<1>7. CASE GiveUp(p)
  <2>. DEFINE q == [proc[p] EXCEPT !.phase = "idle", !.active = 0]
  <2>1. proc' = [proc EXCEPT ![p] = q]
    BY <1>7 DEF GiveUp
  <2>2. q.queue \in Seq(Turns) /\ q.phase = "idle"
    BY <1>0 DEF Process
  <2>. HIDE DEF q
  <2>. QED
    BY <1>2, <2>1, <2>2
<1>8. CASE Answer(p)
  <2>. DEFINE q == [proc[p] EXCEPT !.phase = "idle", !.active = 0, !.busy = @ \ {proc[p].active}]
  <2>1. proc' = [proc EXCEPT ![p] = q]
    BY <1>8 DEF Answer
  <2>2. q.queue \in Seq(Turns) /\ q.phase = "idle"
    BY <1>0 DEF Process
  <2>. HIDE DEF q
  <2>. QED
    BY <1>2, <2>1, <2>2
<1>9. CASE AnswerLate(p)
  <2>1. PICK t : proc' = [proc EXCEPT ![p] = [proc[p] EXCEPT !.busy = @ \ {t}]]
    BY <1>9 DEF AnswerLate
  <2>2. \A x \in Procs : proc'[x].queue = proc[x].queue /\ proc'[x].phase = proc[x].phase
    <3>1. /\ proc'[p] = [proc[p] EXCEPT !.busy = @ \ {t}]
          /\ \A x \in Procs : x # p => proc'[x] = proc[x]
      BY <1>0, <2>1 DEF ProcTypes
    <3>2. proc'[p].queue = proc[p].queue /\ proc'[p].phase = proc[p].phase
      BY <1>0, <3>1 DEF Process
    <3>. QED
      BY <3>1, <3>2
  <2>3. \A x \in Procs : proc'[x].queue \in Seq(Turns)
    BY <2>2 DEF Alone
  <2>. QED
    BY <1>1, <2>2, <2>3, AgentLeavesOne
<1>10. CASE Update(p)
  <2>1. proc' = proc
    BY <1>10 DEF Update
  <2>2. \A x \in Procs : proc'[x].queue \in Seq(Turns)
    BY <2>1 DEF Alone
  <2>. QED
    BY <1>1, <2>1, <2>2, AgentLeavesOne
<1>. QED
  BY <1>3, <1>4, <1>5, <1>6, <1>7, <1>8, <1>9, <1>10 DEF LoopStep

LEMMA UndisturbedStep == LaneTypes /\ Undisturbed /\ [Next]_vars => Undisturbed'
<1>. SUFFICES ASSUME LaneTypes, Undisturbed, [Next]_vars, faults' = 0, ~closed'
              PROVE  Alone'
  BY DEF Undisturbed
<1>0. faults \in Nat
  BY DEF LaneTypes, TurnTypes
<1>1. CASE UNCHANGED vars
  <2>1. Alone
    BY <1>1 DEF vars, Undisturbed
  <2>. QED
    BY <1>1, <2>1 DEF vars, Alone
<1>2. ASSUME NEW c \in Callers, CallerStep(c) PROVE Alone'
  <2>1. closed' = closed /\ faults' = faults
    BY <1>2 DEF CallerStep, Lookup, Reuse, Spawn, SpawnInto, Spawned, SpawnFailed, turnVars
  <2>2. Alone
    BY <2>1 DEF Undisturbed
  <2>. QED
    BY <1>2, <2>2, CallerLeavesOne
<1>3. CASE StartTurn \/ TurnStep \/ TimesOut \/ Cancel
  <2>1. closed' = closed /\ faults' = faults
    BY <1>3 DEF StartTurn, TurnStep, Record, Send, Forget, Forgotten, TurnEnds, TurnDropped, TimesOut,
                Cancel, turnVars
  <2>2. Alone
    BY <2>1 DEF Undisturbed
  <2>. QED
    BY <1>3, <2>2, TurnLeavesOne
<1>4. ~CloseRoom /\ ~CloseRemoves /\ ~CloseSends
  <2>1. ~CloseRoom
    BY DEF CloseRoom
  <2>2. CloseRemoves \/ CloseSends => closed' = closed /\ faults' = faults
    BY DEF CloseRemoves, CloseSends, turnVars
  <2>. QED
    BY <2>1, <2>2 DEF Undisturbed, Alone, CloseRemoves, CloseSends
<1>5. ~Restart /\ \A p \in Procs : ~Die(p)
  BY <1>0 DEF Restart, Die
<1>6. ASSUME NEW p \in Procs, Ready(p) \/ LoopStep(p) \/ Answer(p) \/ AnswerLate(p) \/ Update(p)
      PROVE  Alone'
  <2>1. closed' = closed /\ faults' = faults
    BY <1>6 DEF Ready, LoopStep, Take, Ends, CancelPrompt, GiveUp, Answer, AnswerLate, Update,
                Reported, turnVars
  <2>2. Alone
    BY <2>1 DEF Undisturbed
  <2>. QED
    BY <1>6, <2>2, LoopLeavesOne
<1>. QED
  BY <1>1, <1>2, <1>3, <1>4, <1>5, <1>6 DEF Next

(* Until a process dies, the server restarts or the room closes, the warming *)
(* task and the turns of the lane are never given two processes, whoever     *)
(* opens, gives up or retries (ensure_lane's lock, held across spawn_lane).  *)
THEOREM LaneHasOneProcess == Spec => []OneProcess
<1>1. Init => Undisturbed
  BY AloneInit DEF Undisturbed
<1>. QED
  BY <1>1, LaneInit, LaneNext, UndisturbedStep, AloneIsOne, PTL DEF Spec

=============================================================================
