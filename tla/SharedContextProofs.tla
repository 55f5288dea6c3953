------------------------ MODULE SharedContextProofs ------------------------
(* Theorems about SharedContext, for every set of keys and callers.         *)
EXTENDS SharedContext, TLAPS

Entries == [Keys -> Entry]

(***************************************************************************)
(* What the operations of the store do to the kinds and versions of        *)
(* entries.                                                                *)
(***************************************************************************)

LEMMA AppendedFacts ==
    ASSUME NEW es \in Entries, NEW k \in Keys, NEW n \in Nat
    PROVE  /\ Appended(es, k, n) \in Entries
           /\ \A j \in Keys : j # k => Appended(es, k, n)[j] = es[j]
           /\ \/ es[k].kind = "value" /\ Appended(es, k, n) = es
              \/ Appended(es, k, n)[k].kind = "append"
<1>1. es[k] \in Entry /\ es[k].items \in Seq(Nat)
  BY DEF Entries, Entry
<1>2. CASE es[k].kind = "value"
  BY <1>2 DEF Appended
<1>3. CASE es[k].kind # "value"
  <2>. DEFINE e == [es[k] EXCEPT !.kind = "append", !.version = n, !.items = Append(@, n)]
  <2>1. Append(es[k].items, n) \in Seq(Nat)
    BY <1>1
  <2>2. e \in Entry /\ e.kind = "append"
    BY <1>1, <2>1 DEF Entry
  <2>3. Appended(es, k, n) = [es EXCEPT ![k] = e]
    BY <1>3 DEF Appended, Entries
  <2>. HIDE DEF e
  <2>. QED
    BY <2>2, <2>3 DEF Entries
<1>. QED
  BY <1>2, <1>3

LEMMA SetToFacts ==
    ASSUME NEW es \in Entries, NEW k \in Keys, NEW n \in Nat
    PROVE  /\ SetTo(es, k, n) \in Entries
           /\ \A j \in Keys : j # k => SetTo(es, k, n)[j] = es[j]
           /\ \/ es[k].kind = "append" /\ SetTo(es, k, n) = es
              \/ SetTo(es, k, n)[k].kind = "value" /\ SetTo(es, k, n)[k].version = n
<1>1. es[k] \in Entry
  BY DEF Entries
<1>2. CASE es[k].kind = "append"
  BY <1>2 DEF SetTo
<1>3. CASE es[k].kind # "append"
  <2>. DEFINE e == [es[k] EXCEPT !.kind = "value", !.version = n]
  <2>1. e \in Entry /\ e.kind = "value" /\ e.version = n
    BY <1>1 DEF Entry
  <2>2. SetTo(es, k, n) = [es EXCEPT ![k] = e]
    BY <1>3 DEF SetTo, Entries
  <2>. HIDE DEF e
  <2>. QED
    BY <2>1, <2>2 DEF Entries
<1>. QED
  BY <1>2, <1>3

(* Pins and summaries leave kinds and versions alone. *)
SameKinds(es, fs) ==
    \A j \in Keys : fs[j].kind = es[j].kind /\ fs[j].version = es[j].version

LEMMA PinnedFacts ==
    ASSUME NEW es \in Entries, NEW k \in Keys, NEW on \in BOOLEAN
    PROVE  Pinned(es, k, on) \in Entries /\ SameKinds(es, Pinned(es, k, on))
<1>1. es[k] \in Entry
  BY DEF Entries
<1>. DEFINE e == [es[k] EXCEPT !.pinned = on]
<1>2. e \in Entry /\ e.kind = es[k].kind /\ e.version = es[k].version
  BY <1>1 DEF Entry
<1>3. Pinned(es, k, on) = es \/ Pinned(es, k, on) = [es EXCEPT ![k] = e]
  BY DEF Pinned, Entries
<1>. HIDE DEF e
<1>. QED
  BY <1>2, <1>3 DEF Entries, SameKinds

LEMMA RolledUpFacts ==
    ASSUME NEW es \in Entries, NEW k \in Keys, NEW sum \in Rollup
    PROVE  RolledUp(es, k, sum) \in Entries /\ SameKinds(es, RolledUp(es, k, sum))
<1>1. es[k] \in Entry
  BY DEF Entries
<1>. DEFINE e == [es[k] EXCEPT !.rollup = sum]
<1>2. e \in Entry /\ e.kind = es[k].kind /\ e.version = es[k].version
  BY <1>1 DEF Entry
<1>3. RolledUp(es, k, sum) = es \/ RolledUp(es, k, sum) = [es EXCEPT ![k] = e]
  BY DEF RolledUp, Entries
<1>. HIDE DEF e
<1>. QED
  BY <1>2, <1>3 DEF Entries, SameKinds

(***************************************************************************)
(* Types.                                                                  *)
(***************************************************************************)

LEMMA ContextInitType == Init => TypeOK
<1>1. NoEntry \in Entry
  <2>1. <<>> \in Seq(Nat)
    OBVIOUS
  <2>. QED
    BY <2>1 DEF NoEntry, Entry, NoRollup, Rollup
<1>2. NoCall \in Call /\ NoCall.op = "idle" /\ NoTask \in Task
  BY DEF NoCall, NoTask, Call, Task
<1>. SUFFICES ASSUME Init PROVE TypeOK
  OBVIOUS
<1>3. /\ folded \in [Keys -> Entry] /\ entries \in [Keys -> Entry]
      /\ task \in [Keys -> Task]
  BY <1>1, <1>2 DEF Init
<1>4. call \in [Callers -> Call] /\ \A c \in Callers : call[c].op = "idle"
  BY <1>2 DEF Init
<1>5. /\ lock \in Callers \cup {None}
      /\ \A c \in Callers : call[c].op = "set" <=> lock = c
  BY <1>4, ContextAssumption DEF Init
<1>6. /\ seq \in Nat /\ crashes \in Nat /\ overtaken \in [Keys -> SUBSET Nat]
      /\ sets \subseteq [key : Keys, seq : Nat]
      /\ won \subseteq [key : Keys, base : Int, seq : Nat]
  BY DEF Init
<1>. QED
  BY <1>3, <1>4, <1>5, <1>6 DEF TypeOK

(* What the call of c becomes, as far as types go. *)
LEMMA CallType ==
    ASSUME TypeOK, NEW c \in Callers, NEW new \in Call, call' = [call EXCEPT ![c] = new],
           new.op # "idle" => new.key \in Keys,
           \/ lock' = lock /\ (new.op = "set" <=> call[c].op = "set")
           \/ lock = None /\ lock' = c /\ new.op = "set"
           \/ call[c].op = "set" /\ lock' = None /\ new.op # "set"
    PROVE  /\ call' \in [Callers -> Call]
           /\ lock' \in Callers \cup {None}
           /\ \A d \in Callers : call'[d].op = "set" <=> lock' = d
           /\ \A d \in Callers : call'[d].op # "idle" => call'[d].key \in Keys
<1>1. /\ call \in [Callers -> Call] /\ lock \in Callers \cup {None}
      /\ \A d \in Callers : call[d].op = "set" <=> lock = d
      /\ \A d \in Callers : call[d].op # "idle" => call[d].key \in Keys
  BY DEF TypeOK
<1>2. /\ call' \in [Callers -> Call] /\ call'[c] = new
      /\ \A d \in Callers : d # c => call'[d] = call[d]
  BY <1>1
<1>3. lock' \in Callers \cup {None}
  BY <1>1
<1>4. \A d \in Callers : call'[d].op # "idle" => call'[d].key \in Keys
  BY <1>1, <1>2
<1>5. \A d \in Callers : call'[d].op = "set" <=> lock' = d
  BY <1>1, <1>2, ContextAssumption
<1>. QED
  BY <1>2, <1>3, <1>4, <1>5

LEMMA LogsType ==
    ASSUME TypeOK, NEW k \in Keys, NEW op \in {"append", "set", "pin", "unpin", "rollup"},
           NEW read \in SUBSET Nat, NEW through \in Nat, Logs(Event(op, k, read, through))
    PROVE  seq' \in Nat /\ seq' = seq + 1 /\ folded' \in Entries
<1>1. seq \in Nat /\ folded \in Entries
  BY DEF TypeOK, Entries
<1>2. seq' = seq + 1 /\ seq + 1 \in Nat /\ folded' = Folded(folded, Event(op, k, read, through))
  BY <1>1 DEF Logs
<1>3. [read |-> read, through |-> through] \in Rollup
  BY DEF Rollup
<1>. QED
  BY <1>1, <1>2, <1>3, AppendedFacts, SetToFacts, PinnedFacts, RolledUpFacts DEF Folded, Event

(* The fields of what a call or a task holds. *)
LEMMA Fields ==
    ASSUME TypeOK
    PROVE  /\ \A c \in Callers :
                 /\ call[c] \in Call /\ call[c].seq \in Nat /\ call[c].match \in Int
                 /\ call[c].read \in SUBSET Nat /\ call[c].through \in Nat
           /\ \A k \in Keys :
                 /\ task[k] \in Task /\ task[k].seq \in Nat
                 /\ task[k].read \in SUBSET Nat /\ task[k].through \in Nat
                 /\ entries[k] \in Entry /\ entries[k].version \in Nat
                 /\ folded[k] \in Entry /\ folded[k].version \in Nat
  BY DEF TypeOK, Call, Task, Entry

(* A call or a task that is over holds nothing. *)
LEMMA NoCallType ==
    NoCall \in Call /\ NoCall.op = "idle" /\ NoCall.seq = 0 /\ NoTask \in Task
  BY DEF NoCall, Call, NoTask, Task

(* What a call that begins or goes on holds. *)
Ops == {"idle", "append", "look", "claim", "set", "pin", "unpin"}

Logged(op, k, n) == [NoCall EXCEPT !.op = op, !.key = k, !.seq = n]

LEMMA LoggedCall ==
    ASSUME NEW k \in Keys, NEW n \in Nat, NEW op \in Ops
    PROVE  /\ Logged(op, k, n) \in Call /\ Logged(op, k, n).op = op
           /\ Logged(op, k, n).key = k /\ Logged(op, k, n).seq = n
<1>1. -1 \in Int /\ {} \in SUBSET Nat
  OBVIOUS
<1>. QED
  BY <1>1 DEF NoCall, Call, Ops, Logged

LEMMA LookingCall ==
    ASSUME NEW k \in Keys
    PROVE  LET new == [NoCall EXCEPT !.op = "look", !.key = k]
           IN  new \in Call /\ new.op = "look" /\ new.key = k /\ new.seq = 0
<1>1. -1 \in Int /\ {} \in SUBSET Nat
  OBVIOUS
<1>. QED
  BY <1>1 DEF NoCall, Call

Setting(k, mt) == [NoCall EXCEPT !.op = "set", !.key = k, !.match = mt]

LEMMA SettingCall ==
    ASSUME NEW k \in Keys, NEW mt \in Int
    PROVE  /\ Setting(k, mt) \in Call /\ Setting(k, mt).op = "set"
           /\ Setting(k, mt).key = k /\ Setting(k, mt).seq = 0
           /\ Setting(k, mt).match = mt
  BY DEF NoCall, Call, Setting

(* A summary is made from items, and dated by one of them. *)
LEMMA SummaryType ==
    ASSUME NEW e \in Entry, NeedsRollup(e)
    PROVE  {e.items[i] : i \in Dropped(e)} \in SUBSET Nat /\ Through(e) \in Nat
<1>1. e.items \in Seq(Nat) /\ Len(e.items) \in Nat
  BY DEF Entry
<1>2. Shown \in Nat \ {0}
  BY ContextAssumption
<1>3. Len(e.items) > Shown /\ Dropped(e) = 1..(Len(e.items) - Shown)
  BY <1>1, <1>2 DEF NeedsRollup, Dropped
<1>4. \A i \in Dropped(e) : e.items[i] \in Nat
  <2>. SUFFICES ASSUME NEW i \in Dropped(e) PROVE e.items[i] \in Nat
    OBVIOUS
  <2>1. i \in 1..Len(e.items)
    BY <1>1, <1>2, <1>3
  <2>. QED
    BY <1>1, <2>1
<1>5. Len(e.items) - Shown \in Dropped(e)
  BY <1>1, <1>2, <1>3
<1>. QED
  BY <1>4, <1>5 DEF Through

LEMMA UnappliedType ==
    ASSUME TypeOK, NEW k \in Keys
    PROVE  Unapplied(k) \in SUBSET Nat
<1>1. {call[c].seq : c \in {d \in Callers : call[d].key = k /\ call[d].seq > 0}} \in SUBSET Nat
  BY Fields
<1>2. task[k].seq \in Nat
  BY Fields
<1>. QED
  BY <1>1, <1>2 DEF Unapplied

LEMMA ContextStepType == TypeOK /\ [Next]_vars => TypeOK'
<1>. SUFFICES ASSUME TypeOK, [Next]_vars PROVE TypeOK'
  OBVIOUS
<1>0. /\ seq \in Nat /\ seq + 1 \in Nat /\ crashes \in Nat /\ overtaken \in [Keys -> SUBSET Nat]
      /\ folded \in Entries /\ entries \in Entries /\ lock \in Callers \cup {None}
      /\ call \in [Callers -> Call] /\ task \in [Keys -> Task]
      /\ \A c \in Callers : call[c].op = "set" <=> lock = c
      /\ \A c \in Callers : call[c].op # "idle" => call[c].key \in Keys
      /\ sets \subseteq [key : Keys, seq : Nat]
      /\ won \subseteq [key : Keys, base : Int, seq : Nat]
  BY DEF TypeOK, Entries
<1>1. ASSUME NEW c \in Callers, NEW k \in Keys, AppendLog(c, k)
      PROVE  TypeOK'
  <2>. DEFINE new == Logged("append", k, seq + 1)
  <2>1. new \in Call /\ new.op = "append" /\ new.key = k
    <3>1. "append" \in Ops
      BY DEF Ops
    <3>2. seq + 1 \in Nat
      BY <1>0
    <3>. QED
      BY <3>1, <3>2, LoggedCall
  <2>2. call' = [call EXCEPT ![c] = new] /\ call[c].op = "idle"
    BY <1>1 DEF AppendLog, Logged
  <2>3. seq' \in Nat /\ folded' \in Entries
    BY <1>1, LogsType DEF AppendLog
  <2>4. UNCHANGED <<entries, lock, task, sets, won, overtaken, crashes>>
    BY <1>1 DEF AppendLog
  <2>. HIDE DEF new
  <2>5. /\ call' \in [Callers -> Call]
        /\ \A d \in Callers : call'[d].op = "set" <=> lock' = d
        /\ \A d \in Callers : call'[d].op # "idle" => call'[d].key \in Keys
    BY <2>1, <2>2, <2>4, CallType
  <2>. QED
    BY <1>0, <2>3, <2>4, <2>5 DEF TypeOK, Entries
<1>2. ASSUME NEW c \in Callers, AppendApply(c)
      PROVE  TypeOK'
  <2>. DEFINE k == call[c].key
              new == IF entries[k].kind = "value" THEN NoCall
                     ELSE [NoCall EXCEPT !.op = "look", !.key = k]
  <2>1. k \in Keys /\ call[c].op = "append"
    BY <1>0, <1>2 DEF AppendApply
  <2>2. new \in Call /\ new.op \in {"idle", "look"} /\ (new.op = "look" => new.key = k)
    BY <2>1, NoCallType, LookingCall
  <2>3. call' = [call EXCEPT ![c] = new]
    BY <1>2 DEF AppendApply
  <2>4. UNCHANGED <<seq, folded, lock, task, sets, won, crashes>>
    BY <1>2 DEF AppendApply
  <2>5. entries' \in Entries
    BY <1>0, <1>2, <2>1, Fields, AppendedFacts DEF AppendApply
  <2>6. overtaken' \in [Keys -> SUBSET Nat]
    BY <1>0, <1>2, <2>1, UnappliedType DEF AppendApply, Overtakes
  <2>. HIDE DEF new, k
  <2>7. /\ call' \in [Callers -> Call]
        /\ \A d \in Callers : call'[d].op = "set" <=> lock' = d
        /\ \A d \in Callers : call'[d].op # "idle" => call'[d].key \in Keys
    BY <2>1, <2>2, <2>3, <2>4, CallType
  <2>. QED
    BY <1>0, <2>4, <2>5, <2>6, <2>7 DEF TypeOK, Entries
<1>3. ASSUME NEW c \in Callers, Look(c)
      PROVE  TypeOK'
  <2>. DEFINE e == entries[call[c].key]
              new == IF ~NeedsRollup(e) THEN NoCall
                     ELSE [call[c] EXCEPT !.op = "claim", !.read = {e.items[i] : i \in Dropped(e)},
                                          !.through = Through(e)]
  <2>1. call[c].key \in Keys /\ call[c].op = "look"
    BY <1>0, <1>3 DEF Look
  <2>2. e \in Entry
    BY <1>0, <2>1 DEF Entries
  <2>. HIDE DEF e
  <2>3. /\ new \in Call /\ new.op \in {"idle", "claim"}
        /\ new.op = "claim" => new.key = call[c].key
    <3>1. CASE NeedsRollup(e)
      <4>1. {e.items[i] : i \in Dropped(e)} \in SUBSET Nat /\ Through(e) \in Nat
        BY <2>2, <3>1, SummaryType
      <4>. QED
        BY <2>1, <3>1, <4>1, Fields DEF Call
    <3>2. CASE ~NeedsRollup(e)
      BY <3>2, NoCallType
    <3>. QED
      BY <3>1, <3>2
  <2>4. call' = [call EXCEPT ![c] = new]
    BY <1>3 DEF Look, e
  <2>5. UNCHANGED <<seq, folded, entries, lock, task, sets, won, overtaken, crashes>>
    BY <1>3 DEF Look
  <2>. HIDE DEF new
  <2>6. /\ call' \in [Callers -> Call]
        /\ \A d \in Callers : call'[d].op = "set" <=> lock' = d
        /\ \A d \in Callers : call'[d].op # "idle" => call'[d].key \in Keys
    BY <2>1, <2>3, <2>4, <2>5, CallType
  <2>. QED
    BY <1>0, <2>5, <2>6 DEF TypeOK, Entries
<1>4. ASSUME NEW c \in Callers, Claim(c)
      PROVE  TypeOK'
  <2>. DEFINE k == call[c].key
              started == [NoTask EXCEPT !.op = "ask", !.read = call[c].read,
                                        !.through = call[c].through]
  <2>1. k \in Keys /\ call[c].op = "claim"
    BY <1>0, <1>4 DEF Claim
  <2>2. call' = [call EXCEPT ![c] = NoCall]
    BY <1>4 DEF Claim
  <2>3. UNCHANGED <<seq, folded, entries, lock, sets, won, overtaken, crashes>>
    BY <1>4 DEF Claim
  <2>4. started \in Task
    BY Fields DEF NoTask, Task
  <2>5. task' = task \/ task' = [task EXCEPT ![k] = started]
    BY <1>4 DEF Claim
  <2>. HIDE DEF started, k
  <2>6. task' \in [Keys -> Task]
    BY <1>0, <2>4, <2>5
  <2>7. /\ call' \in [Callers -> Call] /\ lock' \in Callers \cup {None}
        /\ \A d \in Callers : call'[d].op = "set" <=> lock' = d
        /\ \A d \in Callers : call'[d].op # "idle" => call'[d].key \in Keys
    BY <2>1, <2>2, <2>3, NoCallType, CallType
  <2>. QED
    BY <1>0, <2>3, <2>6, <2>7 DEF TypeOK, Entries
<1>5. ASSUME NEW k \in Keys, RollupLog(k)
      PROVE  TypeOK'
  <2>. DEFINE logged == [task[k] EXCEPT !.op = "logged", !.seq = seq + 1]
  <2>1. UNCHANGED <<entries, lock, call, sets, won, overtaken, crashes>>
    BY <1>5 DEF RollupLog
  <2>2. logged \in Task
    BY ZenonT(30), <1>0, Fields DEF Task
  <2>3. task' = [task EXCEPT ![k] = logged]
    BY <1>0, <1>5 DEF RollupLog
  <2>. HIDE DEF logged
  <2>4. task' \in [Keys -> Task]
    BY <1>0, <2>2, <2>3
  <2>5. seq' \in Nat /\ folded' \in Entries
    BY <1>5, Fields, LogsType DEF RollupLog
  <2>. QED
    BY <1>0, <2>1, <2>4, <2>5 DEF TypeOK, Entries
<1>6. ASSUME NEW k \in Keys, RollupApply(k)
      PROVE  TypeOK'
  <2>1. UNCHANGED <<seq, folded, lock, call, sets, won, crashes>>
    BY <1>6 DEF RollupApply
  <2>2. [read |-> task[k].read, through |-> task[k].through] \in Rollup
    BY Fields DEF Rollup
  <2>3. entries' \in Entries
    BY <1>0, <1>6, <2>2, RolledUpFacts DEF RollupApply
  <2>4. overtaken' \in [Keys -> SUBSET Nat]
    BY <1>0, <1>6, UnappliedType DEF RollupApply, Overtakes
  <2>5. task' \in [Keys -> Task]
    BY <1>0, <1>6, NoCallType DEF RollupApply
  <2>. QED
    BY <1>0, <2>1, <2>3, <2>4, <2>5 DEF TypeOK, Entries
<1>7. ASSUME NEW k \in Keys, RollupFails(k)
      PROVE  TypeOK'
  <2>1. UNCHANGED <<seq, folded, entries, lock, call, sets, won, overtaken, crashes>>
    BY <1>7 DEF RollupFails
  <2>2. task' \in [Keys -> Task]
    BY <1>0, <1>7, NoCallType DEF RollupFails
  <2>. QED
    BY <1>0, <2>1, <2>2 DEF TypeOK, Entries
<1>8. ASSUME NEW c \in Callers, NEW k \in Keys, NEW match \in Int, SetCheck(c, k, match)
      PROVE  TypeOK'
  <2>. DEFINE new == Setting(k, match)
  <2>1. new \in Call /\ new.op = "set" /\ new.key \in Keys
    BY SettingCall
  <2>2. call' = [call EXCEPT ![c] = new]
    BY <1>8 DEF SetCheck, Setting
  <2>3. lock = None /\ lock' = c
    BY <1>8 DEF SetCheck, Guarded
  <2>4. UNCHANGED <<seq, folded, entries, task, sets, won, overtaken, crashes>>
    BY <1>8 DEF SetCheck
  <2>. HIDE DEF new
  <2>5. /\ call' \in [Callers -> Call] /\ lock' \in Callers \cup {None}
        /\ \A d \in Callers : call'[d].op = "set" <=> lock' = d
        /\ \A d \in Callers : call'[d].op # "idle" => call'[d].key \in Keys
    BY <2>1, <2>2, <2>3, CallType
  <2>. QED
    BY <1>0, <2>4, <2>5 DEF TypeOK, Entries
<1>9. ASSUME NEW c \in Callers, SetLog(c)
      PROVE  TypeOK'
  <2>. DEFINE new == [call[c] EXCEPT !.seq = seq + 1]
  <2>1. call[c].key \in Keys /\ call[c].op = "set"
    BY <1>0, <1>9 DEF SetLog
  <2>2. new \in Call /\ new.op = "set" /\ new.key = call[c].key
    BY <1>0, <2>1, Fields DEF Call
  <2>3. call' = [call EXCEPT ![c] = new]
    BY <1>0, <1>9 DEF SetLog
  <2>4. UNCHANGED <<entries, lock, task, overtaken, crashes>>
    BY <1>9 DEF SetLog
  <2>5. seq' \in Nat /\ folded' \in Entries
    BY <1>9, <2>1, LogsType DEF SetLog
  <2>6. sets' \subseteq [key : Keys, seq : Nat]
    BY <1>0, <1>9, <2>1 DEF SetLog
  <2>7. won' \subseteq [key : Keys, base : Int, seq : Nat]
    BY <1>0, <1>9, <2>1, Fields DEF SetLog
  <2>. HIDE DEF new
  <2>8. /\ call' \in [Callers -> Call] /\ lock' \in Callers \cup {None}
        /\ \A d \in Callers : call'[d].op = "set" <=> lock' = d
        /\ \A d \in Callers : call'[d].op # "idle" => call'[d].key \in Keys
    BY <2>1, <2>2, <2>3, <2>4, CallType
  <2>. QED
    BY <1>0, <2>4, <2>5, <2>6, <2>7, <2>8 DEF TypeOK, Entries
<1>10. ASSUME NEW c \in Callers, SetApply(c)
       PROVE  TypeOK'
  <2>1. call[c].key \in Keys /\ call[c].op = "set"
    BY <1>0, <1>10 DEF SetApply
  <2>2. call' = [call EXCEPT ![c] = NoCall] /\ lock' = None
    BY <1>10 DEF SetApply
  <2>3. UNCHANGED <<seq, folded, task, sets, won, crashes>>
    BY <1>10 DEF SetApply
  <2>4. entries' \in Entries
    BY <1>0, <1>10, <2>1, Fields, SetToFacts DEF SetApply
  <2>5. overtaken' \in [Keys -> SUBSET Nat]
    BY <1>0, <1>10, <2>1, UnappliedType DEF SetApply, Overtakes
  <2>6. /\ call' \in [Callers -> Call] /\ lock' \in Callers \cup {None}
        /\ \A d \in Callers : call'[d].op = "set" <=> lock' = d
        /\ \A d \in Callers : call'[d].op # "idle" => call'[d].key \in Keys
    BY <2>1, <2>2, NoCallType, CallType
  <2>. QED
    BY <1>0, <2>3, <2>4, <2>5, <2>6 DEF TypeOK, Entries
<1>11. ASSUME NEW c \in Callers, NEW k \in Keys, NEW op \in {"pin", "unpin"}, PinLog(c, k, op)
       PROVE  TypeOK'
  <2>. DEFINE new == Logged(op, k, seq + 1)
  <2>1. new \in Call /\ new.op = op /\ new.key = k
    <3>1. op \in Ops
      BY DEF Ops
    <3>2. seq + 1 \in Nat
      BY <1>0
    <3>. QED
      BY <3>1, <3>2, LoggedCall
  <2>2. call' = [call EXCEPT ![c] = new] /\ call[c].op = "idle"
    BY <1>11 DEF PinLog, Logged
  <2>3. seq' \in Nat /\ folded' \in Entries
    BY <1>11, LogsType DEF PinLog
  <2>4. UNCHANGED <<entries, lock, task, sets, won, overtaken, crashes>>
    BY <1>11 DEF PinLog
  <2>. HIDE DEF new
  <2>5. /\ call' \in [Callers -> Call] /\ lock' \in Callers \cup {None}
        /\ \A d \in Callers : call'[d].op = "set" <=> lock' = d
        /\ \A d \in Callers : call'[d].op # "idle" => call'[d].key \in Keys
    BY <2>1, <2>2, <2>4, CallType
  <2>. QED
    BY <1>0, <2>3, <2>4, <2>5 DEF TypeOK, Entries
<1>12. ASSUME NEW c \in Callers, PinApply(c)
       PROVE  TypeOK'
  <2>1. call[c].key \in Keys /\ call[c].op \in {"pin", "unpin"}
    BY <1>0, <1>12 DEF PinApply
  <2>2. call' = [call EXCEPT ![c] = NoCall]
    BY <1>12 DEF PinApply
  <2>3. UNCHANGED <<seq, folded, lock, task, sets, won, crashes>>
    BY <1>12 DEF PinApply
  <2>4. entries' \in Entries
    BY <1>0, <1>12, <2>1, PinnedFacts DEF PinApply
  <2>5. overtaken' \in [Keys -> SUBSET Nat]
    BY <1>0, <1>12, <2>1, UnappliedType DEF PinApply, Overtakes
  <2>6. /\ call' \in [Callers -> Call] /\ lock' \in Callers \cup {None}
        /\ \A d \in Callers : call'[d].op = "set" <=> lock' = d
        /\ \A d \in Callers : call'[d].op # "idle" => call'[d].key \in Keys
    BY <2>1, <2>2, <2>3, NoCallType, CallType
  <2>. QED
    BY <1>0, <2>3, <2>4, <2>5, <2>6 DEF TypeOK, Entries
<1>13. ASSUME Restart
       PROVE  TypeOK'
  <2>1. /\ crashes' \in Nat /\ entries' \in Entries /\ lock' = None
        /\ UNCHANGED <<seq, folded, sets, won, overtaken>>
    BY <1>0, <1>13 DEF Restart
  <2>2. call' \in [Callers -> Call] /\ \A c \in Callers : call'[c].op = "idle"
    BY <1>13, NoCallType DEF Restart
  <2>3. task' \in [Keys -> Task]
    BY <1>13, NoCallType DEF Restart
  <2>4. \A c \in Callers : call'[c].op = "set" <=> lock' = c
    BY <2>1, <2>2, ContextAssumption
  <2>. QED
    BY <1>0, <2>1, <2>2, <2>3, <2>4 DEF TypeOK, Entries
<1>14. ASSUME NEW c \in Callers, SetFails(c)
       PROVE  TypeOK'
  <2>1. call[c].key \in Keys /\ call[c].op = "set"
    BY <1>0, <1>14 DEF SetFails
  <2>2. call' = [call EXCEPT ![c] = NoCall] /\ lock' = None
    BY <1>14 DEF SetFails
  <2>3. UNCHANGED <<seq, folded, entries, task, sets, won, overtaken, crashes>>
    BY <1>14 DEF SetFails
  <2>4. /\ call' \in [Callers -> Call] /\ lock' \in Callers \cup {None}
        /\ \A d \in Callers : call'[d].op = "set" <=> lock' = d
        /\ \A d \in Callers : call'[d].op # "idle" => call'[d].key \in Keys
    BY <2>1, <2>2, NoCallType, CallType
  <2>. QED
    BY <1>0, <2>3, <2>4 DEF TypeOK, Entries
<1>15. ASSUME UNCHANGED vars
       PROVE  TypeOK'
  BY <1>15 DEF vars, TypeOK
<1>16. \A m \in -1..MaxEvents : m \in Int
  BY ContextAssumption
<1>. QED
  BY <1>1, <1>2, <1>3, <1>4, <1>5, <1>6, <1>7, <1>8, <1>9, <1>10, <1>11, <1>12, <1>13,
     <1>14, <1>15, <1>16 DEF Next, CallStep, TaskStep

(* Every state the room's context can reach is of its types, and            *)
(* context_write is held by one value write at a time, released when that   *)
(* write ends or the server restarts.                                       *)
THEOREM ContextTypeCorrect == Spec => []TypeOK
<1>. QED
  BY ContextInitType, ContextStepType, PTL DEF Spec

(***************************************************************************)
(* No update is lost. A value's version is the number of the newest write  *)
(* of its key in the log, but while that write is still to be applied; the *)
(* writer that compared versions holds context_write until then, so the    *)
(* version it compared with is the newest until it logs its own.           *)
(***************************************************************************)

NewestSet(k, n) == \A s \in sets : s.key = k => s.seq <= n

(* A value write of k is logged and not applied. *)
Pending(k) == \E c \in Callers : call[c].op = "set" /\ call[c].key = k /\ call[c].seq > 0

LoggedBefore == (\A s \in sets : s.seq <= seq) /\ (\A w \in won : w.seq <= seq)

FoldIsNewest ==
    \A k \in Keys : folded[k].kind # "append" => NewestSet(k, folded[k].version)

EntryIsNewest ==
    \A k \in Keys :
        entries[k].kind # "append" /\ ~Pending(k) => NewestSet(k, entries[k].version)

WriteIsNewest ==
    \A c \in Callers :
        call[c].op = "set" /\ call[c].seq > 0 => NewestSet(call[c].key, call[c].seq)

(* What a writer compared still holds when it logs. *)
ComparedHolds ==
    \A c \in Callers :
        call[c].op = "set" /\ call[c].seq = 0 /\ call[c].match # -1
            /\ entries[call[c].key].kind # "append"
        => entries[call[c].key].version = call[c].match

NothingIsZero ==
    \A k \in Keys :
        /\ folded[k].kind = "none" => folded[k].version = 0
        /\ entries[k].kind = "none" => entries[k].version = 0

VersionsInv ==
    /\ TypeOK /\ LoggedBefore /\ FoldIsNewest /\ EntryIsNewest /\ WriteIsNewest
    /\ ComparedHolds /\ NothingIsZero /\ NoLostUpdate

LEMMA VersionsInit == Init => VersionsInv
<1>. SUFFICES ASSUME Init PROVE VersionsInv
  OBVIOUS
<1>1. /\ sets = {} /\ won = {}
      /\ \A c \in Callers : call[c].op = "idle"
      /\ \A k \in Keys : folded[k].version = 0 /\ entries[k].version = 0
  BY DEF Init, NoCall, NoEntry
<1>. QED
  BY <1>1, ContextInitType
  DEF VersionsInv, LoggedBefore, FoldIsNewest, EntryIsNewest, WriteIsNewest, ComparedHolds,
      NothingIsZero, NoLostUpdate, NewestSet

(* All a step that is no value write does to kinds and versions: an entry   *)
(* may become a list, or a list grow.                                       *)
Kept(es, fs) ==
    \A k \in Keys :
        fs[k].kind = "append" \/ (fs[k].kind = es[k].kind /\ fs[k].version = es[k].version)

LEMMA LogsKept ==
    ASSUME TypeOK, NEW k \in Keys, NEW op \in {"append", "pin", "unpin", "rollup"},
           NEW read \in SUBSET Nat, NEW through \in Nat, Logs(Event(op, k, read, through))
    PROVE  Kept(folded, folded') /\ seq' = seq + 1
<1>1. seq \in Nat /\ seq + 1 \in Nat /\ folded \in Entries
  BY DEF TypeOK, Entries
<1>2. seq' = seq + 1 /\ folded' = Folded(folded, Event(op, k, read, through))
  BY DEF Logs
<1>3. [read |-> read, through |-> through] \in Rollup
  BY DEF Rollup
<1>4. Kept(folded, Appended(folded, k, seq + 1))
  BY <1>1, AppendedFacts, SMTT(30) DEF Kept
<1>5. /\ Kept(folded, Pinned(folded, k, TRUE)) /\ Kept(folded, Pinned(folded, k, FALSE))
      /\ Kept(folded, RolledUp(folded, k, [read |-> read, through |-> through]))
  BY ZenonT(30), <1>1, <1>3, PinnedFacts, RolledUpFacts DEF Kept, SameKinds
<1>. QED
  BY <1>2, <1>4, <1>5 DEF Folded, Event

LEMMA QuietStep ==
    ASSUME VersionsInv, TypeOK', Kept(folded, folded'), Kept(entries, entries'),
           seq' \in {seq, seq + 1}, sets' = sets, won' = won,
           \A c \in Callers : call[c].op = "set" \/ call'[c].op = "set" => call'[c] = call[c]
    PROVE  VersionsInv'
<1>1. seq \in Nat /\ seq' >= seq
  BY DEF VersionsInv, TypeOK
<1>2. /\ \A s \in sets : s.seq \in Nat
      /\ \A w \in won : w.seq \in Nat
  BY DEF VersionsInv, TypeOK
<1>3. LoggedBefore' /\ NoLostUpdate'
  BY <1>1, <1>2 DEF VersionsInv, LoggedBefore, NoLostUpdate
<1>4. \A k \in Keys : Pending(k)' <=> Pending(k)
  BY DEF Pending
<1>6. FoldIsNewest' /\ NothingIsZero'
  BY DEF VersionsInv, FoldIsNewest, NothingIsZero, Kept, NewestSet
<1>7. EntryIsNewest'
  BY <1>4 DEF VersionsInv, EntryIsNewest, Kept, NewestSet
<1>8. WriteIsNewest'
  BY DEF VersionsInv, WriteIsNewest, NewestSet
<1>9. ComparedHolds'
  <2>. SUFFICES ASSUME NEW c \in Callers, call'[c].op = "set", call'[c].seq = 0,
                       call'[c].match # -1, entries'[call'[c].key].kind # "append"
                PROVE  entries'[call'[c].key].version = call'[c].match
    BY DEF ComparedHolds
  <2>1. call'[c] = call[c] /\ call[c].key \in Keys
    BY DEF VersionsInv, TypeOK
  <2>. QED
    BY <2>1 DEF VersionsInv, ComparedHolds, Kept
<1>. QED
  BY <1>3, <1>6, <1>7, <1>8, <1>9 DEF VersionsInv

(* A writer logs its value: nothing was logged since the version it         *)
(* compared with.                                                           *)
LEMMA SetLogStep ==
    ASSUME VersionsInv, TypeOK', NEW c \in Callers, SetLog(c)
    PROVE  VersionsInv'
<1>. DEFINE k == call[c].key
<1>0. TypeOK /\ LoggedBefore /\ FoldIsNewest /\ EntryIsNewest /\ WriteIsNewest
      /\ ComparedHolds /\ NothingIsZero /\ NoLostUpdate
  BY DEF VersionsInv
<1>1. /\ call[c].op = "set" /\ call[c].seq = 0 /\ k \in Keys
      /\ seq \in Nat /\ seq' = seq + 1
      /\ folded \in Entries /\ entries' = entries
      /\ sets' = sets \cup {[key |-> k, seq |-> seq + 1]}
      /\ folded' = SetTo(folded, k, seq + 1)
  BY <1>0 DEF SetLog, Logs, Event, Folded, TypeOK, Entries
<1>2. /\ call'[c].op = "set" /\ call'[c].key = k /\ call'[c].seq = seq + 1
      /\ \A d \in Callers : d # c => call'[d] = call[d]
  BY <1>0 DEF SetLog, TypeOK, Call
<1>3. \A d \in Callers : d # c => call[d].op # "set"
  BY <1>0, <1>1 DEF TypeOK
<1>4. /\ \A s \in sets : s.seq \in Nat /\ s.seq <= seq
      /\ \A w \in won : w.seq \in Nat /\ w.seq <= seq
  BY <1>0 DEF TypeOK, LoggedBefore
<1>5. won' = won \/
      /\ call[c].match # -1 /\ entries[k].kind # "append"
      /\ won' = won \cup {[key |-> k, base |-> call[c].match, seq |-> seq + 1]}
  BY DEF SetLog
<1>6. ~Pending(k) /\ \A j \in Keys : j # k => (Pending(j)' <=> Pending(j))
  BY <1>1, <1>2, <1>3 DEF Pending
<1>7. \A j \in Keys : Pending(j)' \/ j # k
  BY <1>1, <1>2 DEF Pending
<1>8. LoggedBefore'
  BY <1>1, <1>4, <1>5 DEF LoggedBefore
<1>9. FoldIsNewest'
  <2>. SUFFICES ASSUME NEW j \in Keys, folded'[j].kind # "append",
                       NEW s \in sets', s.key = j
                PROVE  s.seq <= folded'[j].version
    BY DEF FoldIsNewest, NewestSet
  <2>1. CASE j = k
    <3>1. folded'[k].version = seq + 1
      BY <1>1, <2>1, SetToFacts
    <3>. QED
      BY <1>1, <1>4, <2>1, <3>1
  <2>2. CASE j # k
    <3>1. folded'[j] = folded[j] /\ s \in sets
      BY <1>1, <2>2, SetToFacts
    <3>. QED
      BY <1>0, <3>1 DEF FoldIsNewest, NewestSet
  <2>. QED
    BY <2>1, <2>2
<1>10. EntryIsNewest'
  <2>. SUFFICES ASSUME NEW j \in Keys, entries'[j].kind # "append", ~Pending(j)',
                       NEW s \in sets', s.key = j
                PROVE  s.seq <= entries'[j].version
    BY DEF EntryIsNewest, NewestSet
  <2>1. j # k
    BY <1>7
  <2>2. ~Pending(j)
    BY <1>6, <2>1
  <2>3. s \in sets
    BY <1>1, <2>1
  <2>. QED
    BY <1>0, <1>1, <2>2, <2>3 DEF EntryIsNewest, NewestSet
<1>11. WriteIsNewest' /\ ComparedHolds'
  <2>1. \A d \in Callers : call'[d].op = "set" => d = c
    BY <1>2, <1>3
  <2>2. \A s \in sets' : s.seq <= seq + 1
    BY <1>1, <1>4
  <2>. QED
    BY <1>1, <1>2, <2>1, <2>2 DEF WriteIsNewest, ComparedHolds, NewestSet
<1>12. NothingIsZero'
  <2>1. \A j \in Keys : folded'[j].kind = "none" => folded'[j] = folded[j]
    BY <1>1, SetToFacts
  <2>. QED
    BY <1>0, <1>1, <2>1 DEF NothingIsZero
<1>13. NoLostUpdate'
  <2>. SUFFICES ASSUME NEW w \in won', NEW s \in sets', s.key = w.key
                PROVE  ~(w.base < s.seq /\ s.seq < w.seq)
    BY DEF NoLostUpdate
  <2>1. CASE w \in won /\ s \in sets
    BY <1>0, <2>1 DEF NoLostUpdate
  <2>2. CASE w \in won /\ s \notin sets
    <3>1. s.seq = seq + 1 /\ w.seq <= seq /\ w.seq \in Nat
      BY <1>1, <1>4, <2>2
    <3>. QED
      BY <1>1, <3>1
  <2>3. CASE w \notin won
    <3>1. /\ w.key = k /\ w.base = call[c].match /\ w.seq = seq + 1
          /\ call[c].match # -1 /\ entries[k].kind # "append"
      BY <1>5, <2>3
    <3>2. entries[k].version = call[c].match
      BY <1>0, <1>1, <3>1 DEF ComparedHolds
    <3>3. NewestSet(k, call[c].match)
      BY <1>0, <1>1, <1>6, <3>1, <3>2 DEF EntryIsNewest
    <3>4. CASE s \in sets
      <4>1. s.seq <= call[c].match
        BY <3>1, <3>3, <3>4 DEF NewestSet
      <4>2. s.seq \in Nat /\ call[c].match \in Int
        BY <1>0, <1>4, <3>4, Fields
      <4>. QED
        BY <3>1, <4>1, <4>2
    <3>5. CASE s \notin sets
      <4>1. s.seq = seq + 1
        BY <1>1, <3>5
      <4>. QED
        BY <1>1, <3>1, <4>1
    <3>. QED
      BY <3>4, <3>5
  <2>. QED
    BY <2>1, <2>2, <2>3
<1>. QED
  BY <1>8, <1>9, <1>10, <1>11, <1>12, <1>13 DEF VersionsInv

(* The value reaches the entry: its version is the newest again.            *)
LEMMA SetApplyStep ==
    ASSUME VersionsInv, TypeOK', NEW c \in Callers, SetApply(c)
    PROVE  VersionsInv'
<1>. DEFINE k == call[c].key
<1>0. TypeOK /\ LoggedBefore /\ FoldIsNewest /\ EntryIsNewest /\ WriteIsNewest
      /\ ComparedHolds /\ NothingIsZero /\ NoLostUpdate
  BY DEF VersionsInv
<1>1. /\ call[c].op = "set" /\ call[c].seq > 0 /\ call[c].seq \in Nat /\ k \in Keys
      /\ entries \in Entries /\ entries' = SetTo(entries, k, call[c].seq)
      /\ UNCHANGED <<seq, folded, task, sets, won, crashes>>
  BY <1>0, Fields DEF SetApply, TypeOK, Entries
<1>2. \A d \in Callers : call[d].op = "set" => d = c
  BY <1>0, <1>1 DEF TypeOK
<1>3. \A d \in Callers : call'[d].op # "set"
  BY <1>0, <1>2, NoCallType DEF SetApply, TypeOK
<1>4. LoggedBefore' /\ FoldIsNewest' /\ WriteIsNewest' /\ ComparedHolds' /\ NoLostUpdate'
  BY <1>0, <1>1, <1>3
  DEF LoggedBefore, FoldIsNewest, WriteIsNewest, ComparedHolds, NoLostUpdate, NewestSet
<1>5. EntryIsNewest'
  <2>. SUFFICES ASSUME NEW j \in Keys, entries'[j].kind # "append"
                PROVE  NewestSet(j, entries'[j].version)
    BY <1>1 DEF EntryIsNewest, NewestSet
  <2>1. CASE j = k
    <3>1. entries'[k].version = call[c].seq
      BY <1>1, <2>1, SetToFacts
    <3>. QED
      BY <1>0, <1>1, <2>1, <3>1 DEF WriteIsNewest
  <2>2. CASE j # k
    <3>1. entries'[j] = entries[j] /\ ~Pending(j)
      BY SMTT(30), <1>1, <1>2, <2>2, SetToFacts DEF Pending
    <3>. QED
      BY <1>0, <3>1 DEF EntryIsNewest
  <2>. QED
    BY <2>1, <2>2
<1>6. NothingIsZero'
  <2>1. \A j \in Keys : entries'[j].kind = "none" => entries'[j] = entries[j]
    BY <1>1, SetToFacts
  <2>. QED
    BY <1>0, <1>1, <2>1 DEF NothingIsZero
<1>. QED
  BY <1>4, <1>5, <1>6 DEF VersionsInv

LEMMA SetCheckStep ==
    ASSUME VersionsInv, TypeOK', NEW c \in Callers, NEW k \in Keys, NEW match \in -1..MaxEvents,
           SetCheck(c, k, match)
    PROVE  VersionsInv'
<1>0. TypeOK /\ LoggedBefore /\ FoldIsNewest /\ EntryIsNewest /\ WriteIsNewest
      /\ ComparedHolds /\ NothingIsZero /\ NoLostUpdate
  BY DEF VersionsInv
<1>1. /\ match \in Int /\ match >= -1
      /\ UNCHANGED <<seq, folded, entries, task, sets, won, overtaken, crashes>>
  BY ContextAssumption DEF SetCheck
<1>2. /\ call[c].op = "idle" /\ ~Stale(entries[k], match)
      /\ call' = [call EXCEPT ![c] = Setting(k, match)]
  BY DEF SetCheck, Setting
<1>3. /\ call'[c] = Setting(k, match)
      /\ \A d \in Callers : d # c => call'[d] = call[d]
  BY <1>0, <1>2 DEF TypeOK
<1>4. /\ Setting(k, match).op = "set" /\ Setting(k, match).key = k
      /\ Setting(k, match).seq = 0 /\ Setting(k, match).match = match
  BY <1>1, SettingCall
<1>5. \A j \in Keys : Pending(j)' <=> Pending(j)
  <2>1. ~(call[c].op = "set" /\ call[c].seq > 0) /\ ~(call'[c].op = "set" /\ call'[c].seq > 0)
    BY <1>2, <1>3, <1>4
  <2>. QED
    BY <1>3, <2>1 DEF Pending
<1>6. LoggedBefore' /\ FoldIsNewest' /\ NothingIsZero' /\ NoLostUpdate'
  BY <1>0, <1>1 DEF LoggedBefore, FoldIsNewest, NothingIsZero, NoLostUpdate, NewestSet
<1>7. EntryIsNewest'
  BY <1>0, <1>1, <1>5 DEF EntryIsNewest, NewestSet
<1>8. WriteIsNewest'
  BY <1>0, <1>1, <1>3, <1>4 DEF WriteIsNewest, NewestSet
<1>9. ComparedHolds'
  <2>. SUFFICES ASSUME NEW d \in Callers, call'[d].op = "set", call'[d].seq = 0,
                       call'[d].match # -1, entries'[call'[d].key].kind # "append"
                PROVE  entries'[call'[d].key].version = call'[d].match
    BY DEF ComparedHolds
  <2>1. CASE d # c
    BY <1>0, <1>1, <1>3, <2>1 DEF ComparedHolds
  <2>2. CASE d = c
    <3>1. call'[d].key = k /\ call'[d].match = match
      BY <1>3, <1>4, <2>2
    <3>2. entries[k].kind = "none" => match = 0 /\ entries[k].version = 0
      BY <1>0, <1>1, <1>2, <3>1 DEF Stale, NothingIsZero
    <3>3. entries[k].kind # "none" => entries[k].version = match
      BY <1>2, <3>1 DEF Stale
    <3>. QED
      BY <1>1, <3>1, <3>2, <3>3
  <2>. QED
    BY <2>1, <2>2
<1>. QED
  BY <1>6, <1>7, <1>8, <1>9 DEF VersionsInv

LEMMA SetFailsStep ==
    ASSUME VersionsInv, TypeOK', NEW c \in Callers, SetFails(c)
    PROVE  VersionsInv'
<1>0. TypeOK /\ LoggedBefore /\ FoldIsNewest /\ EntryIsNewest /\ WriteIsNewest
      /\ ComparedHolds /\ NothingIsZero /\ NoLostUpdate
  BY DEF VersionsInv
<1>1. /\ call[c].seq = 0 /\ call'[c].op = "idle"
      /\ \A d \in Callers : d # c => call'[d] = call[d]
      /\ UNCHANGED <<seq, folded, entries, task, sets, won, overtaken, crashes>>
  BY <1>0, NoCallType DEF SetFails, TypeOK
<1>2. \A j \in Keys : Pending(j)' <=> Pending(j)
  BY <1>1 DEF Pending
<1>3. LoggedBefore' /\ FoldIsNewest' /\ NothingIsZero' /\ NoLostUpdate'
  BY <1>0, <1>1 DEF LoggedBefore, FoldIsNewest, NothingIsZero, NoLostUpdate, NewestSet
<1>4. EntryIsNewest'
  BY <1>0, <1>1, <1>2 DEF EntryIsNewest, NewestSet
<1>5. WriteIsNewest' /\ ComparedHolds'
  BY <1>0, <1>1 DEF WriteIsNewest, ComparedHolds, NewestSet
<1>. QED
  BY <1>3, <1>4, <1>5 DEF VersionsInv

LEMMA RestartStep ==
    ASSUME VersionsInv, TypeOK', Restart
    PROVE  VersionsInv'
<1>1. /\ entries' = folded /\ UNCHANGED <<seq, folded, sets, won, overtaken>>
      /\ \A c \in Callers : call'[c].op = "idle"
  BY NoCallType DEF Restart
<1>2. LoggedBefore' /\ FoldIsNewest' /\ EntryIsNewest' /\ NothingIsZero' /\ NoLostUpdate'
  BY <1>1 DEF VersionsInv, LoggedBefore, FoldIsNewest, EntryIsNewest, NothingIsZero,
              NoLostUpdate, NewestSet
<1>3. WriteIsNewest' /\ ComparedHolds'
  BY <1>1 DEF WriteIsNewest, ComparedHolds
<1>. QED
  BY <1>2, <1>3 DEF VersionsInv

LEMMA VersionsStep == VersionsInv /\ [Next]_vars => VersionsInv'
<1>. SUFFICES ASSUME VersionsInv, [Next]_vars PROVE VersionsInv'
  OBVIOUS
<1>0. TypeOK /\ TypeOK'
  BY ContextStepType DEF VersionsInv
<1>1. /\ call \in [Callers -> Call] /\ entries \in Entries /\ folded \in Entries
      /\ \A c \in Callers : call[c].op # "idle" => call[c].key \in Keys
  BY <1>0 DEF TypeOK, Entries
<1>2. Kept(entries, entries) /\ Kept(folded, folded)
  BY DEF Kept
<1>3. ASSUME NEW c \in Callers, NEW k \in Keys, AppendLog(c, k)
      PROVE  VersionsInv'
  <2>1. Kept(folded, folded') /\ seq' = seq + 1
    BY <1>0, <1>3, LogsKept DEF AppendLog
  <2>2. call[c].op # "set" /\ call' = [call EXCEPT ![c] = Logged("append", k, seq + 1)]
    BY <1>3 DEF AppendLog, Logged
  <2>3. Logged("append", k, seq + 1).op = "append"
    BY DEF Logged, NoCall
  <2>. QED
    BY <1>0, <1>1, <1>2, <1>3, <2>1, <2>2, <2>3, QuietStep DEF AppendLog
<1>4. ASSUME NEW c \in Callers, AppendApply(c)
      PROVE  VersionsInv'
  <2>. DEFINE k == call[c].key
              new == IF entries[k].kind = "value" THEN NoCall
                     ELSE [NoCall EXCEPT !.op = "look", !.key = k]
  <2>1. k \in Keys /\ call[c].op = "append" /\ call[c].seq \in Nat
    BY <1>0, <1>1, <1>4, Fields DEF AppendApply
  <2>2. Kept(entries, entries')
    BY <1>1, <1>4, <2>1, AppendedFacts DEF AppendApply, Kept
  <2>3. new.op # "set"
    BY <2>1, NoCallType, LookingCall
  <2>4. call' = [call EXCEPT ![c] = new]
    BY <1>4 DEF AppendApply
  <2>. HIDE DEF new
  <2>. QED
    BY <1>0, <1>1, <1>2, <1>4, <2>1, <2>2, <2>3, <2>4, QuietStep DEF AppendApply
<1>5. ASSUME NEW c \in Callers, Look(c)
      PROVE  VersionsInv'
  <2>1. call[c].op = "look" /\ call'[c].op \in {"idle", "claim"}
        /\ \A d \in Callers : d # c => call'[d] = call[d]
    BY <1>1, <1>5, NoCallType DEF Look, Call
  <2>. QED
    BY <1>0, <1>2, <1>5, <2>1, QuietStep DEF Look
<1>6. ASSUME NEW c \in Callers, Claim(c)
      PROVE  VersionsInv'
  <2>1. call[c].op = "claim" /\ call' = [call EXCEPT ![c] = NoCall]
    BY <1>6 DEF Claim
  <2>. QED
    BY <1>0, <1>1, <1>2, <1>6, <2>1, NoCallType, QuietStep DEF Claim
<1>7. ASSUME NEW k \in Keys, RollupLog(k)
      PROVE  VersionsInv'
  <2>1. Kept(folded, folded') /\ seq' = seq + 1
    BY <1>0, <1>7, Fields, LogsKept DEF RollupLog
  <2>. QED
    BY <1>0, <1>2, <1>7, <2>1, QuietStep DEF RollupLog
<1>8. ASSUME NEW k \in Keys, RollupApply(k)
      PROVE  VersionsInv'
  <2>1. [read |-> task[k].read, through |-> task[k].through] \in Rollup
    BY <1>0, Fields DEF Rollup
  <2>2. Kept(entries, entries')
    BY <1>1, <1>8, <2>1, RolledUpFacts DEF RollupApply, Kept, SameKinds
  <2>. QED
    BY <1>0, <1>2, <1>8, <2>2, QuietStep DEF RollupApply
<1>9. ASSUME NEW k \in Keys, RollupFails(k)
      PROVE  VersionsInv'
  BY <1>0, <1>2, <1>9, QuietStep DEF RollupFails
<1>10. ASSUME NEW c \in Callers, NEW k \in Keys, NEW op \in {"pin", "unpin"}, PinLog(c, k, op)
       PROVE  VersionsInv'
  <2>1. Kept(folded, folded') /\ seq' = seq + 1
    BY <1>0, <1>10, LogsKept DEF PinLog
  <2>2. call[c].op # "set" /\ call' = [call EXCEPT ![c] = Logged(op, k, seq + 1)]
    BY <1>10 DEF PinLog, Logged
  <2>3. Logged(op, k, seq + 1).op # "set"
    BY DEF Logged, NoCall
  <2>. QED
    BY <1>0, <1>1, <1>2, <1>10, <2>1, <2>2, <2>3, QuietStep DEF PinLog
<1>11. ASSUME NEW c \in Callers, PinApply(c)
       PROVE  VersionsInv'
  <2>1. call[c].op # "set" /\ call[c].key \in Keys
    BY <1>1, <1>11 DEF PinApply
  <2>2. call' = [call EXCEPT ![c] = NoCall]
    BY <1>11 DEF PinApply
  <2>3. Kept(entries, entries')
    BY ZenonT(30), <1>1, <1>11, <2>1, PinnedFacts DEF PinApply, Kept, SameKinds
  <2>. QED
    BY <1>0, <1>1, <1>2, <1>11, <2>1, <2>2, <2>3, NoCallType, QuietStep DEF PinApply
<1>12. CASE UNCHANGED vars
  BY <1>0, <1>2, <1>12, QuietStep DEF vars
<1>. QED
  BY <1>0, <1>3, <1>4, <1>5, <1>6, <1>7, <1>8, <1>9, <1>10, <1>11, <1>12,
     SetCheckStep, SetLogStep, SetFailsStep, SetApplyStep, RestartStep
  DEF Next, CallStep, TaskStep

(* Whoever writes a value that names a version is the next to write after   *)
(* that version, whatever restarts and other calls there were: set_context  *)
(* compares, logs and applies under context_write.                          *)
THEOREM NoUpdateLost == Spec => []NoLostUpdate
<1>1. VersionsInv => NoLostUpdate
  BY DEF VersionsInv
<1>. QED
  BY <1>1, VersionsInit, VersionsStep, PTL DEF Spec

(***************************************************************************)
(* What is in memory, what the log says, and what lies between them: the    *)
(* events that are logged and not yet applied.                              *)
(***************************************************************************)

Events == [op : {"append", "set", "pin", "unpin", "rollup"}, key : Keys, seq : Nat \ {0},
           read : SUBSET Nat, through : Nat]

(* What an event does to its entry.                                        *)
Touched(e, ev) ==
    CASE ev.op = "append" /\ e.kind # "value" ->
            [e EXCEPT !.kind = "append", !.version = ev.seq, !.items = Append(@, ev.seq)]
      [] ev.op = "set" /\ e.kind # "append" -> [e EXCEPT !.kind = "value", !.version = ev.seq]
      [] ev.op \in {"pin", "unpin"} /\ e.kind # "none" -> [e EXCEPT !.pinned = (ev.op = "pin")]
      [] ev.op = "rollup" /\ e.kind = "append" ->
            [e EXCEPT !.rollup = [read |-> ev.read, through |-> ev.through]]
      [] OTHER -> e

(* An entry keeps the kind it got, and only a list has items.               *)
Grows(e, g) == e.kind # "none" => g.kind = e.kind
Bare(e) == e.kind # "append" => e.items = <<>>

LEMMA TouchedFacts ==
    ASSUME NEW e \in Entry, NEW ev \in Events
    PROVE  /\ Touched(e, ev) \in Entry
           /\ Grows(e, Touched(e, ev))
           /\ Bare(e) => Bare(Touched(e, ev))
           /\ \/ Touched(e, ev).items = e.items /\ (ev.op = "append" => e.kind = "value")
              \/ Touched(e, ev).items = Append(e.items, ev.seq) /\ ev.op = "append"
           /\ \/ Touched(e, ev).rollup = e.rollup
              \/ ev.op = "rollup" /\ Touched(e, ev).rollup = [read |-> ev.read, through |-> ev.through]
<1>1. /\ e.items \in Seq(Nat) /\ ev.seq \in Nat /\ ev.read \in SUBSET Nat /\ ev.through \in Nat
      /\ ev.op \in {"append", "set", "pin", "unpin", "rollup"}
  BY DEF Entry, Events
<1>2. Append(e.items, ev.seq) \in Seq(Nat)
  BY <1>1
<1>3. CASE ev.op = "append" /\ e.kind # "value"
  <2>1. Touched(e, ev) = [e EXCEPT !.kind = "append", !.version = ev.seq, !.items = Append(@, ev.seq)]
    BY <1>3 DEF Touched
  <2>. QED
    BY <1>1, <1>2, <1>3, <2>1 DEF Entry, Grows, Bare
<1>4. CASE ev.op = "set" /\ e.kind # "append"
  <2>1. Touched(e, ev) = [e EXCEPT !.kind = "value", !.version = ev.seq]
    BY <1>4 DEF Touched
  <2>. QED
    BY <1>1, <1>4, <2>1 DEF Entry, Grows, Bare
<1>5. CASE ev.op \in {"pin", "unpin"} /\ e.kind # "none"
  <2>1. PICK on \in BOOLEAN : Touched(e, ev) = [e EXCEPT !.pinned = on]
    BY <1>5 DEF Touched
  <2>. QED
    BY <1>1, <1>5, <2>1 DEF Entry, Grows, Bare
<1>6. CASE ev.op = "rollup" /\ e.kind = "append"
  <2>1. Touched(e, ev) = [e EXCEPT !.rollup = [read |-> ev.read, through |-> ev.through]]
    BY <1>6 DEF Touched
  <2>2. [read |-> ev.read, through |-> ev.through] \in Rollup
    BY <1>1 DEF Rollup
  <2>. QED
    BY <1>1, <1>6, <2>1, <2>2 DEF Entry, Grows, Bare
<1>7. CASE ~\/ ev.op = "append" /\ e.kind # "value"
            \/ ev.op = "set" /\ e.kind # "append"
            \/ ev.op \in {"pin", "unpin"} /\ e.kind # "none"
            \/ ev.op = "rollup" /\ e.kind = "append"
  <2>1. Touched(e, ev) = e
    BY <1>7 DEF Touched
  <2>. QED
    BY <1>7, <2>1 DEF Grows
<1>. QED
  BY <1>3, <1>4, <1>5, <1>6, <1>7

LEMMA FoldedIs ==
    ASSUME NEW es \in Entries, NEW ev \in Events
    PROVE  /\ Folded(es, ev)[ev.key] = Touched(es[ev.key], ev)
           /\ \A j \in Keys : j # ev.key => Folded(es, ev)[j] = es[j]
<1>1. ev.op \in {"append", "set", "pin", "unpin", "rollup"} /\ ev.key \in Keys
      /\ es[ev.key].kind \in {"none", "append", "value"}
  BY DEF Events, Entries, Entry
<1>2. CASE ev.op = "append"
  BY <1>1, <1>2 DEF Folded, Appended, Touched, Entries
<1>3. CASE ev.op = "set"
  BY <1>1, <1>3 DEF Folded, SetTo, Touched, Entries
<1>4. CASE ev.op = "pin"
  BY <1>1, <1>4 DEF Folded, Pinned, Touched, Entries
<1>5. CASE ev.op = "unpin"
  BY <1>1, <1>5 DEF Folded, Pinned, Touched, Entries
<1>6. CASE ev.op = "rollup"
  BY <1>1, <1>6 DEF Folded, RolledUp, Touched, Entries
<1>. QED
  BY <1>1, <1>2, <1>3, <1>4, <1>5, <1>6

(* Through the events W that wait, applied in the order of the log, the     *)
(* entry e becomes g. What it is along the way is a sequence f, one entry   *)
(* per number of the log.                                                  *)
Along(f, e, g, W, n) ==
    /\ f \in [0..n -> Entry]
    /\ f[0] = e /\ f[n] = g
    /\ \A ev \in W : f[ev.seq] = Touched(f[ev.seq - 1], ev)
    /\ \A i, j \in 0..n : i <= j =>
          /\ Grows(f[i], f[j])
          /\ (\A ev \in W : ~(i < ev.seq /\ ev.seq <= j)) => f[i] = f[j]
    /\ \A i \in 0..n : Bare(f[i])

Leads(e, g, W, n) == \E f : Along(f, e, g, W, n)

LEMMA LeadsItself ==
    ASSUME NEW e \in Entry, NEW n \in Nat, Bare(e)
    PROVE  Leads(e, e, {}, n)
<1>. DEFINE f == [i \in 0..n |-> e]
<1>1. Along(f, e, e, {}, n)
  BY DEF Along, Grows
<1>. QED
  BY <1>1 DEF Leads

LEMMA LeadsNowhere ==
    ASSUME NEW e, NEW g, NEW n \in Nat, Leads(e, g, {}, n)
    PROVE  e = g
BY DEF Leads, Along

LEMMA LeadsOn ==
    ASSUME NEW e, NEW g, NEW W \in SUBSET Events, NEW n \in Nat, Leads(e, g, W, n)
    PROVE  g \in Entry /\ e \in Entry /\ Grows(e, g) /\ Bare(e) /\ Bare(g)
<1>1. PICK f : Along(f, e, g, W, n)
  BY DEF Leads
<1>2. 0 \in 0..n /\ n \in 0..n /\ 0 <= n
  OBVIOUS
<1>. QED
  BY <1>1, <1>2 DEF Along

(* An event is logged: of this entry, or of another.                       *)
LEMMA LeadsToLogged ==
    ASSUME NEW e, NEW g, NEW W \in SUBSET Events, NEW n \in Nat, Leads(e, g, W, n),
           \A w \in W : w.seq <= n,
           NEW V \in SUBSET Events, NEW h \in Entry, Grows(g, h), Bare(h),
           \/ V = W /\ h = g
           \/ \E ev \in Events : V = W \cup {ev} /\ ev.seq = n + 1 /\ h = Touched(g, ev)
    PROVE  Leads(e, h, V, n + 1)
<1>1. PICK f : Along(f, e, g, W, n)
  BY DEF Leads
<1>. DEFINE k == [i \in 0..(n + 1) |-> IF i = n + 1 THEN h ELSE f[i]]
<1>2. /\ k \in [0..(n + 1) -> Entry] /\ k[n + 1] = h /\ \A i \in 0..n : k[i] = f[i]
  BY <1>1 DEF Along
<1>3. /\ n \in 0..n /\ 0 \in 0..n /\ f[0] = e /\ f[n] = g
      /\ \A i \in 0..(n + 1) : i = n + 1 \/ i \in 0..n
      /\ \A w \in W : w.seq \in 0..n /\ w.seq - 1 \in 0..n
  BY <1>1 DEF Along, Events
<1>. HIDE DEF k
<1>4. ASSUME NEW ev \in V PROVE k[ev.seq] = Touched(k[ev.seq - 1], ev)
  <2>1. CASE ev \in W
    BY <1>1, <1>2, <1>3, <2>1 DEF Along
  <2>2. CASE ev \notin W
    <3>1. ev.seq = n + 1 /\ h = Touched(g, ev)
      BY <2>2
    <3>2. ev.seq - 1 = n
      BY <3>1
    <3>. QED
      BY <1>2, <1>3, <3>1, <3>2
  <2>. QED
    BY <2>1, <2>2
<1>5. ASSUME NEW i \in 0..(n + 1), NEW j \in 0..(n + 1), i <= j
      PROVE  Grows(k[i], k[j])
  <2>1. CASE j \in 0..n
    <3>1. i \in 0..n
      BY <1>5, <2>1
    <3>. QED
      BY <1>1, <1>2, <1>5, <2>1, <3>1 DEF Along
  <2>2. CASE i \in 0..n /\ j = n + 1
    <3>1. Grows(f[i], g)
      BY <1>1, <1>3, <2>2 DEF Along
    <3>. QED
      BY <1>2, <2>2, <3>1 DEF Grows
  <2>3. CASE i = n + 1 /\ j = n + 1
    BY <2>3 DEF Grows
  <2>. QED
    BY <1>3, <1>5, <2>1, <2>2, <2>3
<1>6. ASSUME NEW i \in 0..(n + 1), NEW j \in 0..(n + 1), i <= j,
             \A ev \in V : ~(i < ev.seq /\ ev.seq <= j)
      PROVE  k[i] = k[j]
  <2>0. \A ev \in W : ~(i < ev.seq /\ ev.seq <= j)
    BY <1>6
  <2>1. CASE j \in 0..n
    <3>1. i \in 0..n
      BY <1>6, <2>1
    <3>. QED
      BY <1>1, <1>2, <1>6, <2>0, <2>1, <3>1 DEF Along
  <2>2. CASE i \in 0..n /\ j = n + 1
    <3>1. h = g
      BY <1>6, <2>2
    <3>2. \A ev \in W : ~(i < ev.seq /\ ev.seq <= n)
      BY <2>0, <2>2, <1>3
    <3>3. f[i] = f[n]
      BY <1>1, <1>3, <2>2, <3>2 DEF Along
    <3>. QED
      BY <1>2, <1>3, <2>2, <3>1, <3>3
  <2>3. CASE i = n + 1 /\ j = n + 1
    BY <2>3
  <2>. QED
    BY <1>3, <1>6, <2>1, <2>2, <2>3
<1>7. \A i \in 0..(n + 1) : Bare(k[i])
  BY <1>1, <1>2, <1>3 DEF Along
<1>8. Along(k, e, h, V, n + 1)
  BY <1>2, <1>3, <1>4, <1>5, <1>6, <1>7 DEF Along
<1>. QED
  BY <1>8 DEF Leads

(* The oldest of the events that wait is applied.                          *)
LEMMA LeadsFromApplied ==
    ASSUME NEW e, NEW g, NEW W \in SUBSET Events, NEW n \in Nat, Leads(e, g, W, n),
           \A w \in W : w.seq <= n, NEW ev \in W,
           \A w \in W : ev.seq <= w.seq /\ (w.seq = ev.seq => w = ev)
    PROVE  Leads(Touched(e, ev), g, W \ {ev}, n)
<1>1. PICK f : Along(f, e, g, W, n)
  BY DEF Leads
<1>. DEFINE m == ev.seq
            k == [i \in 0..n |-> IF i < m THEN f[m] ELSE f[i]]
<1>2. m \in 0..n /\ m - 1 \in 0..n /\ 0 < m /\ 0 \in 0..n /\ n \in 0..n
  BY DEF Events
<1>3. f[m - 1] = e
  <2>1. \A w \in W : ~(0 < w.seq /\ w.seq <= m - 1)
    BY <1>2 DEF Events
  <2>2. 0 <= m - 1
    BY <1>2
  <2>. HIDE DEF m
  <2>3. f[0] = f[m - 1]
    BY <1>1, <1>2, <2>1, <2>2 DEF Along
  <2>. QED
    BY <1>1, <2>3 DEF Along
<1>4. f[m] = Touched(e, ev)
  BY <1>1, <1>3 DEF Along
<1>5. /\ k \in [0..n -> Entry] /\ \A i \in 0..n : k[i] = f[IF i < m THEN m ELSE i]
      /\ k[0] = f[m] /\ k[n] = g
  BY <1>1, <1>2 DEF Along
<1>. HIDE DEF k
<1>6. ASSUME NEW w \in W \ {ev} PROVE k[w.seq] = Touched(k[w.seq - 1], w)
  <2>1. w.seq # m /\ m <= w.seq /\ w.seq \in 0..n
    BY DEF Events
  <2>2. ~(w.seq < m) /\ ~(w.seq - 1 < m) /\ w.seq - 1 \in 0..n
    BY <1>2, <2>1
  <2>3. k[w.seq] = f[w.seq] /\ k[w.seq - 1] = f[w.seq - 1]
    BY <1>5, <2>1, <2>2
  <2>. QED
    BY <1>1, <2>3 DEF Along
<1>7. ASSUME NEW i \in 0..n, NEW j \in 0..n, i <= j
      PROVE  /\ Grows(k[i], k[j])
             /\ (\A w \in W \ {ev} : ~(i < w.seq /\ w.seq <= j)) => k[i] = k[j]
  <2>. DEFINE a == IF i < m THEN m ELSE i
              b == IF j < m THEN m ELSE j
  <2>1. a \in 0..n /\ b \in 0..n /\ a <= b /\ k[i] = f[a] /\ k[j] = f[b] /\ i <= a
        /\ (b = j \/ b = a) /\ m <= a
    BY <1>2, <1>5, <1>7
  <2>. HIDE DEF a, b
  <2>2. Grows(f[a], f[b])
    BY <1>1, <2>1 DEF Along
  <2>3. ASSUME \A w \in W \ {ev} : ~(i < w.seq /\ w.seq <= j) PROVE f[a] = f[b]
    <3>1. ASSUME NEW w \in W, a < w.seq, w.seq <= b PROVE FALSE
      <4>1. w.seq \in 0..n
        BY DEF Events
      <4>2. w # ev
        BY <1>2, <2>1, <3>1
      <4>3. b = j
        BY <2>1, <3>1, <4>1
      <4>4. i < w.seq /\ w.seq <= j
        BY <2>1, <3>1, <4>1, <4>3
      <4>. QED
        BY <2>3, <4>2, <4>4
    <3>. QED
      BY <1>1, <2>1, <3>1 DEF Along
  <2>. QED
    BY <2>1, <2>2, <2>3
<1>8. \A i \in 0..n : Bare(k[i])
  BY <1>1, <1>2, <1>5 DEF Along
<1>9. Along(k, Touched(e, ev), g, W \ {ev}, n)
  BY <1>4, <1>5, <1>6, <1>7, <1>8 DEF Along
<1>. QED
  BY <1>9 DEF Leads

(***************************************************************************)
(* The events of a key that wait to be applied.                            *)
(***************************************************************************)

OfCall(r) == [op |-> r.op, key |-> r.key, seq |-> r.seq, read |-> {}, through |-> 0]
OfTask(k, t) == [op |-> "rollup", key |-> k, seq |-> t.seq, read |-> t.read, through |-> t.through]

Waits(cs, t, k) ==
    {OfCall(cs[c]) : c \in {d \in Callers : cs[d].key = k /\ cs[d].seq # 0}}
        \cup {w \in {OfTask(k, t)} : t.seq # 0}

Waiting(k) == Waits(call, task[k], k)

(* Every event waits with one call or one task, which holds nothing else.   *)
NoTwo ==
    /\ \A c \in Callers :
          /\ call[c].seq <= seq
          /\ call[c].seq > 0 => call[c].op \in {"append", "set", "pin", "unpin"}
          /\ call[c].op \in {"append", "pin", "unpin"} => call[c].seq > 0
    /\ \A k \in Keys : task[k].seq <= seq /\ (task[k].seq > 0 <=> task[k].op = "logged")
    /\ \A c, d \in Callers : c # d /\ call[c].seq > 0 => call[c].seq # call[d].seq
    /\ \A c \in Callers, k \in Keys : call[c].seq > 0 => call[c].seq # task[k].seq

(* A call goes on without an event, logs one, or has applied its own.       *)
LEMMA WaitsAsBefore ==
    ASSUME NEW cs, NEW ds, NEW t, NEW k, NEW c \in Callers,
           \A d \in Callers : d # c => ds[d] = cs[d], cs[c].seq = 0, ds[c].seq = 0
    PROVE  Waits(ds, t, k) = Waits(cs, t, k)
<1>1. \A d \in Callers : (cs[d].key = k /\ cs[d].seq # 0) => d # c
  OBVIOUS
<1>2. \A d \in Callers : (ds[d].key = k /\ ds[d].seq # 0) => d # c
  OBVIOUS
<1>. QED
  BY <1>1, <1>2 DEF Waits

LEMMA WaitsForLogged ==
    ASSUME NEW cs, NEW ds, NEW t, NEW k, NEW c \in Callers,
           \A d \in Callers : d # c => ds[d] = cs[d], cs[c].seq = 0, ds[c].seq # 0
    PROVE  /\ ds[c].key = k => Waits(ds, t, k) = Waits(cs, t, k) \cup {OfCall(ds[c])}
           /\ ds[c].key # k => Waits(ds, t, k) = Waits(cs, t, k)
<1>1. \A d \in Callers : (cs[d].key = k /\ cs[d].seq # 0) => d # c
  OBVIOUS
<1>2. CASE ds[c].key = k
  BY <1>1, <1>2 DEF Waits
<1>3. CASE ds[c].key # k
  <2>1. \A d \in Callers : (ds[d].key = k /\ ds[d].seq # 0) => d # c
    BY <1>3
  <2>. QED
    BY <1>1, <1>3, <2>1 DEF Waits
<1>. QED
  BY <1>2, <1>3

(* The event of c waits nowhere else.                                      *)
WaitsOnce(cs, t, c) ==
    /\ cs[c].seq # 0 /\ cs[c].seq # t.seq
    /\ \A d \in Callers : d # c => cs[c].seq # cs[d].seq

(* It is applied, and no other call goes on.                               *)
Applies(cs, ds, c) ==
    ds[c].seq = 0 /\ \A d \in Callers : d # c => ds[d] = cs[d]

LEMMA WaitsForApplied ==
    ASSUME NEW cs, NEW ds, NEW t, NEW k, NEW c \in Callers, Applies(cs, ds, c), WaitsOnce(cs, t, c)
    PROVE  Waits(ds, t, k) = IF cs[c].key = k THEN Waits(cs, t, k) \ {OfCall(cs[c])} ELSE Waits(cs, t, k)
<1>. USE DEF WaitsOnce, Applies
<1>. DEFINE busy(rs) == {d \in Callers : rs[d].key = k /\ rs[d].seq # 0}
            ofCalls(rs) == {OfCall(rs[d]) : d \in busy(rs)}
            ofTask == {w \in {OfTask(k, t)} : t.seq # 0}
<1>1. Waits(cs, t, k) = ofCalls(cs) \cup ofTask /\ Waits(ds, t, k) = ofCalls(ds) \cup ofTask
  BY DEF Waits
<1>2. c \notin busy(ds) /\ (c \in busy(cs) <=> cs[c].key = k)
  OBVIOUS
<1>3. \A d \in Callers : d # c => OfCall(cs[d]) # OfCall(cs[c])
  BY DEF OfCall
<1>4. \A d \in busy(ds) : d # c /\ d \in busy(cs) /\ ds[d] = cs[d]
  BY <1>2
<1>5. \A d \in busy(cs) : d # c => d \in busy(ds) /\ ds[d] = cs[d]
  OBVIOUS
<1>6. ofCalls(ds) = IF cs[c].key = k THEN ofCalls(cs) \ {OfCall(cs[c])} ELSE ofCalls(cs)
  <2>1. CASE cs[c].key = k
    BY <1>2, <1>3, <1>4, <1>5, <2>1
  <2>2. CASE cs[c].key # k
    BY <1>2, <1>4, <1>5, <2>2
  <2>. QED
    BY <2>1, <2>2
<1>7. OfCall(cs[c]) \notin ofTask
  BY DEF OfCall, OfTask
<1>. HIDE DEF ofCalls, ofTask
<1>. QED
  BY <1>1, <1>6, <1>7

LEMMA WaitsForTask ==
    ASSUME NEW cs, NEW t \in Task, NEW u \in Task, NEW k,
           \A c \in Callers : cs[c].seq # 0 => cs[c].seq # t.seq
    PROVE  /\ t.seq = 0 /\ u.seq = 0 => Waits(cs, u, k) = Waits(cs, t, k)
           /\ t.seq = 0 /\ u.seq # 0 => Waits(cs, u, k) = Waits(cs, t, k) \cup {OfTask(k, u)}
           /\ t.seq # 0 /\ u.seq = 0 => Waits(cs, u, k) = Waits(cs, t, k) \ {OfTask(k, t)}
<1>1. \A c \in Callers : cs[c].seq # 0 => OfCall(cs[c]) # OfTask(k, t)
  BY DEF OfCall, OfTask
<1>. QED
  BY <1>1 DEF Waits

LEMMA WaitingIs ==
    ASSUME TypeOK, NoTwo, NEW k \in Keys
    PROVE  /\ Waiting(k) \in SUBSET Events
           /\ Unapplied(k) = {w.seq : w \in Waiting(k)}
           /\ \A w \in Waiting(k) : w.seq <= seq
           /\ \A v, w \in Waiting(k) : v.seq = w.seq => v = w
           /\ \A c \in Callers : call[c].key = k /\ call[c].seq > 0 => OfCall(call[c]) \in Waiting(k)
           /\ task[k].seq > 0 => OfTask(k, task[k]) \in Waiting(k)
<1>. DEFINE busy == {d \in Callers : call[d].key = k /\ call[d].seq > 0}
<1>1. \A c \in busy : OfCall(call[c]).seq = call[c].seq /\ OfCall(call[c]) \in Events
  BY Fields DEF OfCall, Events, NoTwo
<1>2. OfTask(k, task[k]).seq = task[k].seq /\ (task[k].seq > 0 => OfTask(k, task[k]) \in Events)
  BY Fields DEF OfTask, Events
<1>3. /\ \A w \in Waiting(k) : (\E c \in busy : w = OfCall(call[c])) \/ (task[k].seq > 0 /\ w = OfTask(k, task[k]))
      /\ \A c \in busy : OfCall(call[c]) \in Waiting(k)
      /\ task[k].seq > 0 => OfTask(k, task[k]) \in Waiting(k)
  <2>1. (\A c \in Callers : call[c].seq # 0 <=> call[c].seq > 0) /\ (task[k].seq # 0 <=> task[k].seq > 0)
    BY Fields
  <2>. QED
    BY <2>1 DEF Waiting, Waits
<1>4. Unapplied(k) = {w.seq : w \in Waiting(k)}
  <2>1. Unapplied(k) = {call[c].seq : c \in busy} \cup (IF task[k].seq > 0 THEN {task[k].seq} ELSE {})
    BY DEF Unapplied
  <2>. QED
    BY <1>1, <1>2, <1>3, <2>1
<1>5. ASSUME NEW v \in Waiting(k), NEW w \in Waiting(k), v.seq = w.seq PROVE v = w
  <2>1. CASE (\E c \in busy : v = OfCall(call[c])) /\ (\E d \in busy : w = OfCall(call[d]))
    BY <1>1, <1>5, <2>1 DEF NoTwo
  <2>2. CASE ~((\E c \in busy : v = OfCall(call[c])) /\ (\E d \in busy : w = OfCall(call[d])))
    BY <1>1, <1>2, <1>3, <1>5, <2>2 DEF NoTwo
  <2>. QED
    BY <2>1, <2>2
<1>6. \A w \in Waiting(k) : w \in Events /\ w.seq <= seq
  BY <1>1, <1>2, <1>3 DEF NoTwo
<1>. QED
  BY <1>3, <1>4, <1>5, <1>6

(***************************************************************************)
(* What is in memory becomes what the log says.                            *)
(***************************************************************************)

(* Keys all of whose events were applied in the order of the log, so far.   *)
InTurn == {k \in Keys : overtaken[k] = {}}

Between(k) == Leads(entries[k], folded[k], Waiting(k), seq)

MemoryInv == TypeOK /\ NoTwo /\ \A k \in Keys : k \in InTurn => Between(k)

LEMMA BetweenLogged ==
    ASSUME TypeOK, NoTwo, NEW k \in Keys, Between(k), seq' = seq + 1, entries' = entries,
           Waiting(k)' \in SUBSET Events,
           \/ Waiting(k)' = Waiting(k) /\ folded'[k] = folded[k]
           \/ \E ev \in Events : /\ Waiting(k)' = Waiting(k) \cup {ev} /\ ev.seq = seq + 1
                                 /\ folded'[k] = Touched(folded[k], ev)
    PROVE  Between(k)'
<1>. DEFINE e == entries[k]
            g == folded[k]
            W == Waiting(k)
            V == Waiting(k)'
            h == folded'[k]
<1>0. /\ e \in Entry /\ g \in Entry /\ seq \in Nat /\ W \in SUBSET Events /\ V \in SUBSET Events
      /\ entries'[k] = e /\ \A w \in W : w.seq <= seq
  BY WaitingIs, Fields DEF TypeOK
<1>1. Leads(e, g, W, seq)
  BY DEF Between
<1>2. Bare(g)
  BY <1>0, <1>1, LeadsOn
<1>3. /\ h \in Entry /\ Grows(g, h) /\ Bare(h)
      /\ \/ V = W /\ h = g
         \/ \E ev \in Events : V = W \cup {ev} /\ ev.seq = seq + 1 /\ h = Touched(g, ev)
  <2>1. CASE V = W /\ h = g
    BY <1>0, <1>2, <2>1 DEF Grows
  <2>2. CASE \E ev \in Events : V = W \cup {ev} /\ ev.seq = seq + 1 /\ h = Touched(g, ev)
    BY <1>0, <1>2, <2>2, TouchedFacts
  <2>. QED
    BY <2>1, <2>2
<1>. HIDE DEF e, g, W, V, h
<1>4. Leads(e, h, V, seq + 1)
  BY <1>0, <1>1, <1>3, LeadsToLogged
<1>. QED
  BY <1>0, <1>4 DEF Between, h, V

LEMMA BetweenApplied ==
    ASSUME TypeOK, NoTwo, NEW k \in Keys, Between(k), seq' = seq, folded' = folded,
           NEW ev \in Waiting(k), Waiting(k)' = Waiting(k) \ {ev},
           entries'[k] = Touched(entries[k], ev), \A m \in Unapplied(k) : ~(m < ev.seq)
    PROVE  Between(k)'
<1>. DEFINE W == Waiting(k)
<1>1. /\ seq \in Nat /\ W \in SUBSET Events /\ \A w \in W : w.seq <= seq
      /\ \A w \in W : ev.seq <= w.seq /\ (w.seq = ev.seq => w = ev)
  <2>1. \A w \in W : w.seq \in Nat /\ ~(w.seq < ev.seq)
    BY WaitingIs DEF Events
  <2>2. ev.seq \in Nat
    BY <2>1
  <2>. QED
    BY <2>1, <2>2, WaitingIs DEF TypeOK
<1>2. Leads(entries[k], folded[k], W, seq)
  BY DEF Between
<1>. HIDE DEF W
<1>3. Leads(Touched(entries[k], ev), folded[k], W \ {ev}, seq)
  BY <1>1, <1>2, LeadsFromApplied DEF W
<1>. QED
  BY <1>3 DEF Between, W

LEMMA BetweenRebuilt ==
    ASSUME TypeOK, NoTwo, NEW k \in Keys, Between(k), Restart
    PROVE  Between(k)'
<1>1. /\ entries'[k] = folded[k] /\ folded' = folded /\ seq' = seq
      /\ \A c \in Callers : call'[c] = NoCall
      /\ task'[k] = NoTask
  BY DEF Restart
<1>2. Waiting(k)' = {}
  BY <1>1 DEF Waiting, Waits, NoCall, NoTask
<1>3. folded[k] \in Entry /\ seq \in Nat /\ Waiting(k) \in SUBSET Events
  BY WaitingIs, Fields DEF TypeOK
<1>4. Bare(folded[k])
  BY <1>3, LeadsOn DEF Between
<1>5. Leads(folded[k], folded[k], {}, seq)
  BY <1>3, <1>4, LeadsItself
<1>. QED
  BY <1>1, <1>2, <1>5 DEF Between

LEMMA NoTwoStep ==
    ASSUME TypeOK, TypeOK', NoTwo, NEW c \in Callers, \A d \in Callers : d # c => call'[d] = call[d],
           \/ seq' = seq /\ call'[c].seq = 0
           \/ seq' = seq + 1 /\ call'[c].seq = seq + 1,
           call'[c].seq > 0 => call'[c].op \in {"append", "set", "pin", "unpin"},
           call'[c].op \in {"append", "pin", "unpin"} => call'[c].seq > 0,
           \A k \in Keys : task'[k].seq = task[k].seq /\ (task'[k].op = "logged" <=> task[k].op = "logged")
    PROVE  NoTwo'
<1>. DEFINE new == call'[c]
<1>1. seq \in Nat /\ call'[c] = new /\ \A d \in Callers : d # c => call'[d] = call[d]
  BY DEF TypeOK
<1>2. /\ \A d \in Callers : call[d].seq \in Nat /\ call[d].seq <= seq
      /\ \A k \in Keys : task[k].seq \in Nat /\ task[k].seq <= seq
      /\ new.seq \in Nat
  <2>1. new.seq \in Nat
    BY DEF TypeOK, Call
  <2>. QED
    BY <2>1, Fields DEF NoTwo
<1>. HIDE DEF new
<1>3. \A d \in Callers : /\ call'[d].seq <= seq'
                         /\ call'[d].seq > 0 => call'[d].op \in {"append", "set", "pin", "unpin"}
                         /\ call'[d].op \in {"append", "pin", "unpin"} => call'[d].seq > 0
  BY <1>1, <1>2 DEF NoTwo
<1>4. \A k \in Keys : task'[k].seq <= seq' /\ (task'[k].seq > 0 <=> task'[k].op = "logged")
  BY <1>1, <1>2 DEF NoTwo
<1>5. \A b, d \in Callers : b # d /\ call'[b].seq > 0 => call'[b].seq # call'[d].seq
  BY <1>1, <1>2 DEF NoTwo
<1>6. \A d \in Callers, k \in Keys : call'[d].seq > 0 => call'[d].seq # task'[k].seq
  BY <1>1, <1>2 DEF NoTwo
<1>. QED
  BY <1>3, <1>4, <1>5, <1>6 DEF NoTwo

(* A call logs its event.                                                  *)
LEMMA CallLogs ==
    ASSUME MemoryInv, TypeOK', NEW c \in Callers, NEW new \in Call, call' = [call EXCEPT ![c] = new],
           call[c].seq = 0, new.seq = seq + 1, new.key \in Keys,
           new.op \in {"append", "set", "pin", "unpin"},
           Logs(Event(new.op, new.key, {}, 0)), UNCHANGED <<entries, task, overtaken>>
    PROVE  MemoryInv'
<1>9. call'[c] = new /\ \A d \in Callers : d # c => call'[d] = call[d]
  BY DEF MemoryInv, TypeOK
<1>0. TypeOK /\ NoTwo /\ seq \in Nat /\ folded \in Entries
  BY DEF MemoryInv, TypeOK, Entries
<1>1. seq' = seq + 1 /\ folded' = Folded(folded, OfCall(new)) /\ OfCall(new) \in Events
      /\ OfCall(new).seq = seq + 1 /\ OfCall(new).key = new.key
  <2>1. Event(new.op, new.key, {}, 0) = OfCall(new)
    BY DEF Event, OfCall
  <2>2. seq + 1 \in Nat \ {0}
    BY <1>0
  <2>. QED
    BY <2>1, <2>2 DEF Logs, OfCall, Events
<1>2. NoTwo'
  BY <1>0, <1>1, <1>9, NoTwoStep
<1>3. ASSUME NEW k \in Keys, k \in InTurn' PROVE Between(k)'
  <2>1. Between(k)
    BY <1>3 DEF MemoryInv, InTurn
  <2>2. Waiting(k)' = IF new.key = k THEN Waiting(k) \cup {OfCall(new)} ELSE Waiting(k)
    <3>1. call \in [Callers -> Call] /\ call' \in [Callers -> Call] /\ task[k] \in Task /\ new.seq > 0
      BY <1>0, Fields DEF TypeOK
    <3>2. \A d \in Callers : d # c => call'[d] = call[d]
      BY <1>9
    <3>3. call[c].seq = 0 /\ call'[c].seq # 0 /\ call'[c] = new
      BY <1>9, <3>1
    <3>4. Waits(call', task[k], k) = IF call'[c].key = k THEN Waits(call, task[k], k) \cup {OfCall(call'[c])}
                                     ELSE Waits(call, task[k], k)
      <4>1. ASSUME NEW ds, \A d \in Callers : d # c => ds[d] = call[d], ds[c].seq # 0
            PROVE  /\ ds[c].key = k => Waits(ds, task[k], k) = Waits(call, task[k], k) \cup {OfCall(ds[c])}
                   /\ ds[c].key # k => Waits(ds, task[k], k) = Waits(call, task[k], k)
        BY <3>3, <4>1, WaitsForLogged
      <4>. QED
        BY <3>2, <3>3, <4>1
    <3>. QED
      BY <3>3, <3>4 DEF Waiting
  <2>3. folded'[k] = IF new.key = k THEN Touched(folded[k], OfCall(new)) ELSE folded[k]
    BY <1>0, <1>1, FoldedIs
  <2>4. Waiting(k)' \in SUBSET Events
    BY <1>0, <1>1, <2>1, <2>2, WaitingIs
  <2>. QED
    BY <1>0, <1>1, <2>1, <2>2, <2>3, <2>4, BetweenLogged
<1>. QED
  BY <1>2, <1>3 DEF MemoryInv

(* A key whose events are in turn after one of it was applied, or of another, *)
(* had them in turn before.                                                *)
LEMMA StillInTurn ==
    ASSUME TypeOK, NEW k \in Keys, NEW n, Overtakes(k, n), NEW j \in Keys, j \in InTurn'
    PROVE  j \in InTurn /\ (j = k => \A m \in Unapplied(j) : ~(m < n))
<1>1. j \in Keys /\ overtaken'[j] = {} /\ overtaken \in [Keys -> SUBSET Nat]
  BY DEF InTurn, TypeOK
<1>2. overtaken'[j] = IF j = k THEN overtaken[j] \cup {m \in Unapplied(j) : m < n} ELSE overtaken[j]
  BY <1>1 DEF Overtakes
<1>. QED
  BY <1>1, <1>2 DEF InTurn

(* A call applies its event.                                               *)
LEMMA CallApplies ==
    ASSUME MemoryInv, TypeOK', NEW c \in Callers, NEW new \in Call, call' = [call EXCEPT ![c] = new],
           call[c].seq > 0, call[c].key \in Keys, new.seq = 0,
           new.op \notin {"append", "pin", "unpin"},
           entries' = Folded(entries, OfCall(call[c])), Overtakes(call[c].key, call[c].seq),
           UNCHANGED <<seq, folded, task>>
    PROVE  MemoryInv'
<1>. DEFINE ev == OfCall(call[c])
<1>9. call'[c] = new /\ \A d \in Callers : d # c => call'[d] = call[d]
  BY DEF MemoryInv, TypeOK
<1>0. TypeOK /\ NoTwo /\ seq \in Nat /\ entries \in Entries
  BY DEF MemoryInv, TypeOK, Entries
<1>1. ev \in Events /\ ev.key = call[c].key /\ ev.seq = call[c].seq /\ ev \in Waiting(call[c].key)
  BY <1>0, WaitingIs DEF OfCall
<1>2. NoTwo'
  BY <1>0, <1>9, NoTwoStep
<1>3. ASSUME NEW k \in Keys, k \in InTurn' PROVE Between(k)'
  <2>1. k \in InTurn /\ (k = ev.key => \A m \in Unapplied(k) : ~(m < ev.seq))
    BY <1>0, <1>1, <1>3, StillInTurn
  <2>2. Between(k)
    BY <2>1 DEF MemoryInv, InTurn
  <2>3. Waiting(k)' = IF ev.key = k THEN Waiting(k) \ {ev} ELSE Waiting(k)
    <3>1. call \in [Callers -> Call] /\ call' \in [Callers -> Call] /\ task[k] \in Task
      BY <1>0, Fields DEF TypeOK
    <3>2. WaitsOnce(call, task[k], c)
      BY <1>0, <3>1 DEF NoTwo, WaitsOnce
    <3>3. Applies(call, call', c)
      BY <1>9 DEF Applies
    <3>4. Waits(call', task[k], k) = IF call[c].key = k THEN Waits(call, task[k], k) \ {OfCall(call[c])}
                                     ELSE Waits(call, task[k], k)
      BY <3>2, <3>3, WaitsForApplied
    <3>. QED
      BY <3>4 DEF Waiting, OfCall
  <2>4. entries'[k] = IF ev.key = k THEN Touched(entries[k], ev) ELSE entries[k]
    BY <1>0, <1>1, FoldedIs
  <2>. HIDE DEF ev
  <2>5. CASE ev.key = k
    BY <1>0, <1>1, <2>1, <2>2, <2>3, <2>4, <2>5, BetweenApplied
  <2>6. CASE ev.key # k
    BY <2>2, <2>3, <2>4, <2>6 DEF Between
  <2>. QED
    BY <2>5, <2>6
<1>. QED
  BY <1>2, <1>3 DEF MemoryInv

(* A call, and perhaps a task it starts, goes on without an event.          *)
LEMMA CallGoesOn ==
    ASSUME MemoryInv, TypeOK', NEW c \in Callers, NEW new \in Call, call' = [call EXCEPT ![c] = new],
           call[c].seq = 0, new.seq = 0, new.op \notin {"append", "pin", "unpin"},
           \A k \in Keys : \/ task'[k] = task[k]
                           \/ /\ task[k].seq = 0 /\ task'[k].seq = 0
                              /\ task[k].op = "none" /\ task'[k].op = "ask",
           UNCHANGED <<seq, folded, entries, overtaken>>
    PROVE  MemoryInv'
<1>9. call'[c] = new /\ \A d \in Callers : d # c => call'[d] = call[d]
  BY DEF MemoryInv, TypeOK
<1>0. TypeOK /\ NoTwo /\ \A k \in Keys : task[k] \in Task /\ task'[k] \in Task
  BY DEF MemoryInv, TypeOK
<1>2. NoTwo'
  BY <1>0, <1>9, NoTwoStep
<1>3. ASSUME NEW k \in Keys, k \in InTurn PROVE Between(k)'
  <2>1. Between(k)
    BY <1>3 DEF MemoryInv, InTurn
  <2>2. Waiting(k)' = Waiting(k)
    <3>1. call \in [Callers -> Call] /\ call' \in [Callers -> Call]
      BY <1>0 DEF TypeOK
    <3>2. Waits(call', task[k], k) = Waits(call, task[k], k)
      <4>1. call[c].seq = 0 /\ call'[c].seq = 0 /\ task[k] \in Task
        BY <1>0, <1>9
      <4>2. \A d \in Callers : d # c => call'[d] = call[d]
        BY <1>9
      <4>3. ASSUME NEW ds, \A d \in Callers : d # c => ds[d] = call[d], ds[c].seq = 0
            PROVE  Waits(ds, task[k], k) = Waits(call, task[k], k)
        BY <4>1, <4>3, WaitsAsBefore
      <4>. QED
        BY <4>1, <4>2, <4>3
    <3>3. Waits(call', task'[k], k) = Waits(call', task[k], k)
      <4>1. CASE task'[k] = task[k]
        BY <4>1
      <4>2. CASE task[k].seq = 0 /\ task'[k].seq = 0
        BY <4>2 DEF Waits
      <4>. QED
        BY <4>1, <4>2
    <3>. QED
      BY <3>2, <3>3 DEF Waiting
  <2>. QED
    BY <2>1, <2>2 DEF Between
<1>. QED
  BY <1>2, <1>3 DEF MemoryInv, InTurn

LEMMA TaskSteps ==
    ASSUME MemoryInv, TypeOK', NEW k \in Keys, TaskStep(k)
    PROVE  MemoryInv'
<1>0. /\ TypeOK /\ NoTwo /\ seq \in Nat /\ folded \in Entries /\ entries \in Entries
      /\ task \in [Keys -> Task] /\ task' \in [Keys -> Task] /\ call' = call
  BY DEF MemoryInv, TypeOK, Entries, TaskStep, RollupLog, RollupApply, RollupFails
<1>1. /\ task[k].seq \in Nat /\ task[k].read \in SUBSET Nat /\ task[k].through \in Nat
      /\ NoTask \in Task /\ NoTask.seq = 0 /\ NoTask.op = "none"
  BY <1>0, Fields, NoCallType DEF NoTask
<1>2. \A c \in Callers : call[c].seq \in Nat /\ call[c].seq <= seq
  BY <1>0, Fields DEF NoTwo
<1>3. CASE RollupLog(k)
  <2>. DEFINE t == [task[k] EXCEPT !.op = "logged", !.seq = seq + 1]
              ev == OfTask(k, t)
  <2>1. /\ task' = [task EXCEPT ![k] = t] /\ task[k].op = "ask" /\ task[k].seq = 0
        /\ Logs(Event("rollup", k, task[k].read, task[k].through))
        /\ UNCHANGED <<entries, overtaken>>
    <3>1. /\ task' = [task EXCEPT ![k].op = "logged", ![k].seq = seq + 1] /\ task[k].op = "ask"
          /\ Logs(Event("rollup", k, task[k].read, task[k].through))
          /\ UNCHANGED <<entries, overtaken>>
      BY <1>3 DEF RollupLog
    <3>2. task[k].seq = 0
      BY <1>0, <1>1, <3>1 DEF NoTwo
    <3>. QED
      BY <1>0, <3>1, <3>2
  <2>2. t \in Task /\ t.seq = seq + 1 /\ t.op = "logged" /\ t.read = task[k].read /\ t.through = task[k].through
    <3>1. task[k] \in Task /\ seq + 1 \in Nat
      BY <1>0
    <3>. QED
      BY <3>1 DEF Task
  <2>3. /\ ev = Event("rollup", k, task[k].read, task[k].through) /\ ev \in Events
        /\ ev.key = k /\ ev.seq = seq + 1 /\ ev.read = task[k].read /\ ev.through = task[k].through
    BY <1>0, <1>1, <2>2 DEF Event, OfTask, Events
  <2>4. seq' = seq + 1 /\ folded' = Folded(folded, ev)
    BY <2>1, <2>3 DEF Logs
  <2>5. task'[k] = t /\ \A j \in Keys : j # k => task'[j] = task[j]
    BY <1>0, <2>1
  <2>. HIDE DEF t, ev
  <2>6. NoTwo'
    BY <1>0, <1>2, <2>2, <2>4, <2>5, Fields DEF NoTwo
  <2>7. ASSUME NEW j \in Keys, j \in InTurn PROVE Between(j)'
    <3>1. Between(j)
      BY <2>7 DEF MemoryInv, InTurn
    <3>2. Waiting(j)' = IF j = k THEN Waiting(j) \cup {ev} ELSE Waiting(j)
      <4>1. \A c \in Callers : call[c].seq # 0 => call[c].seq # task[k].seq
        BY <1>0, <1>2 DEF NoTwo
      <4>2. task[k] \in Task /\ task[k].seq = 0 /\ t \in Task /\ t.seq # 0
        BY <1>0, <2>1, <2>2
      <4>3. Waits(call, t, k) = Waits(call, task[k], k) \cup {OfTask(k, t)}
        BY <4>2 DEF Waits
      <4>. QED
        BY <1>0, <2>5, <4>3 DEF Waiting, ev
    <3>3. folded'[j] = IF j = k THEN Touched(folded[j], ev) ELSE folded[j]
      BY <1>0, <2>3, <2>4, FoldedIs
    <3>4. Waiting(j)' \in SUBSET Events
      BY <1>0, <2>3, <3>1, <3>2, WaitingIs
    <3>. QED
      BY <1>0, <2>1, <2>3, <2>4, <3>1, <3>2, <3>3, <3>4, BetweenLogged
  <2>. QED
    BY <2>1, <2>6, <2>7 DEF MemoryInv, InTurn
<1>4. CASE RollupApply(k)
  <2>. DEFINE ev == OfTask(k, task[k])
  <2>1. /\ task' = [task EXCEPT ![k] = NoTask] /\ task[k].op = "logged" /\ task[k].seq > 0
        /\ entries' = RolledUp(entries, k, [read |-> task[k].read, through |-> task[k].through])
        /\ Overtakes(k, task[k].seq) /\ UNCHANGED <<seq, folded>>
    BY <1>0, <1>4 DEF RollupApply, NoTwo
  <2>2. ev \in Waiting(k) /\ ev \in Events /\ ev.key = k /\ ev.seq = task[k].seq
        /\ entries' = Folded(entries, ev)
    <3>1. ev \in Waiting(k) /\ ev \in Events
      BY <1>0, <2>1, WaitingIs
    <3>2. ev.op = "rollup" /\ ev.key = k /\ ev.seq = task[k].seq /\ ev.read = task[k].read
          /\ ev.through = task[k].through
      BY DEF OfTask
    <3>. QED
      BY <2>1, <3>1, <3>2 DEF Folded
  <2>3. task'[k] = NoTask /\ \A j \in Keys : j # k => task'[j] = task[j]
    BY <1>0, <2>1
  <2>. HIDE DEF ev
  <2>4. NoTwo'
    BY <1>0, <1>1, <2>1, <2>3 DEF NoTwo, TypeOK
  <2>5. ASSUME NEW j \in Keys, j \in InTurn' PROVE Between(j)'
    <3>1. j \in InTurn /\ (j = k => \A m \in Unapplied(j) : ~(m < ev.seq))
      BY <1>0, <2>1, <2>2, <2>5, StillInTurn
    <3>2. Between(j)
      BY <3>1 DEF MemoryInv, InTurn
    <3>3. Waiting(j)' = IF j = k THEN Waiting(j) \ {ev} ELSE Waiting(j)
      <4>1. \A c \in Callers : call[c].seq # 0 => call[c].seq # task[k].seq
        BY <1>0, <1>2 DEF NoTwo
      <4>2. task[k] \in Task /\ task[k].seq # 0 /\ NoTask \in Task /\ NoTask.seq = 0
        BY <1>0, <1>1, <2>1
      <4>3. Waits(call, NoTask, k) = Waits(call, task[k], k) \ {OfTask(k, task[k])}
        BY <4>1, <4>2, WaitsForTask
      <4>. QED
        BY <1>0, <2>3, <4>3 DEF Waiting, ev
    <3>4. entries'[j] = IF j = k THEN Touched(entries[j], ev) ELSE entries[j]
      BY <1>0, <2>2, FoldedIs
    <3>5. CASE j = k
      BY <1>0, <2>1, <2>2, <3>1, <3>2, <3>3, <3>4, <3>5, BetweenApplied
    <3>6. CASE j # k
      BY <2>1, <3>2, <3>3, <3>4, <3>6 DEF Between
    <3>. QED
      BY <3>5, <3>6
  <2>. QED
    BY <2>4, <2>5 DEF MemoryInv
<1>5. CASE RollupFails(k)
  <2>1. /\ task' = [task EXCEPT ![k] = NoTask] /\ task[k].op = "ask" /\ task[k].seq = 0
        /\ UNCHANGED <<seq, folded, entries, overtaken>>
    BY <1>0, <1>1, <1>5 DEF RollupFails, NoTwo
  <2>3. task'[k] = NoTask /\ \A j \in Keys : j # k => task'[j] = task[j]
    BY <1>0, <2>1
  <2>4. NoTwo'
    BY <1>0, <1>1, <2>1, <2>3 DEF NoTwo, TypeOK
  <2>5. ASSUME NEW j \in Keys, j \in InTurn PROVE Between(j)'
    <3>1. Between(j)
      BY <2>5 DEF MemoryInv, InTurn
    <3>2. Waiting(j)' = Waiting(j)
      BY <1>0, <1>1, <2>1, <2>3, <3>1 DEF Waiting, Waits
    <3>. QED
      BY <1>0, <2>1, <3>1, <3>2 DEF Between
  <2>. QED
    BY <2>1, <2>4, <2>5 DEF MemoryInv, InTurn
<1>. QED
  BY <1>3, <1>4, <1>5 DEF TaskStep

LEMMA CallSteps ==
    ASSUME MemoryInv, TypeOK', NEW c \in Callers, CallStep(c)
    PROVE  MemoryInv'
<1>0. /\ TypeOK /\ NoTwo /\ seq \in Nat /\ seq + 1 \in Nat /\ entries \in Entries
      /\ call \in [Callers -> Call] /\ call[c] \in Call /\ call[c].seq \in Nat
      /\ call[c].op # "idle" => call[c].key \in Keys
      /\ \A k \in Keys : task[k] \in Task
  BY Fields DEF MemoryInv, TypeOK, Entries
<1>1. /\ NoCall \in Call /\ NoCall.op = "idle" /\ NoCall.seq = 0
      /\ \A n \in Nat, k \in Keys : n + 1 > 0
  BY NoCallType
<1>2. /\ call[c].op \in {"append", "pin", "unpin"} => call[c].seq > 0
      /\ call[c].op \in {"idle", "look", "claim"} => call[c].seq = 0
  BY <1>0 DEF NoTwo
<1>3. ASSUME NEW k \in Keys, AppendLog(c, k) PROVE MemoryInv'
  <2>1. /\ call' = [call EXCEPT ![c] = Logged("append", k, seq + 1)] /\ call[c].seq = 0
        /\ Logs(Event("append", k, {}, 0)) /\ UNCHANGED <<entries, task, overtaken>>
    BY <1>2, <1>3 DEF AppendLog, Logged
  <2>2. /\ Logged("append", k, seq + 1) \in Call /\ Logged("append", k, seq + 1).op = "append"
        /\ Logged("append", k, seq + 1).key = k /\ Logged("append", k, seq + 1).seq = seq + 1
    BY <1>0, LoggedCall DEF Ops
  <2>. QED
    BY <2>1, <2>2, CallLogs
<1>4. ASSUME NEW k \in Keys, NEW op \in {"pin", "unpin"}, PinLog(c, k, op) PROVE MemoryInv'
  <2>1. /\ call' = [call EXCEPT ![c] = Logged(op, k, seq + 1)] /\ call[c].seq = 0
        /\ Logs(Event(op, k, {}, 0)) /\ UNCHANGED <<entries, task, overtaken>>
    BY <1>2, <1>4 DEF PinLog, Logged
  <2>2. /\ Logged(op, k, seq + 1) \in Call /\ Logged(op, k, seq + 1).op = op
        /\ Logged(op, k, seq + 1).key = k /\ Logged(op, k, seq + 1).seq = seq + 1
    BY <1>0, LoggedCall DEF Ops
  <2>. QED
    BY <2>1, <2>2, CallLogs
<1>5. ASSUME SetLog(c) PROVE MemoryInv'
  <2>. DEFINE new == [call[c] EXCEPT !.seq = seq + 1]
  <2>1. /\ call' = [call EXCEPT ![c] = new] /\ call[c].seq = 0 /\ call[c].op = "set"
        /\ Logs(Event("set", call[c].key, {}, 0)) /\ UNCHANGED <<entries, task, overtaken>>
    BY <1>5 DEF SetLog
  <2>2. new \in Call /\ new.op = "set" /\ new.key = call[c].key /\ new.seq = seq + 1
    BY <1>0, <2>1 DEF Call
  <2>3. call[c].key \in Keys
    BY <1>0, <2>1
  <2>. HIDE DEF new
  <2>. QED
    BY <2>1, <2>2, <2>3, CallLogs
<1>6. CASE AppendApply(c)
  <2>. DEFINE k == call[c].key
              new == IF entries[k].kind = "value" THEN NoCall ELSE [NoCall EXCEPT !.op = "look", !.key = k]
  <2>1. /\ call[c].op = "append" /\ call' = [call EXCEPT ![c] = new] /\ call[c].seq > 0 /\ k \in Keys
        /\ entries' = Appended(entries, k, call[c].seq) /\ Overtakes(k, call[c].seq)
        /\ UNCHANGED <<seq, folded, task>>
    BY <1>0, <1>2, <1>6 DEF AppendApply
  <2>2. new \in Call /\ new.op \in {"idle", "look"} /\ new.seq = 0
    BY <1>1, <2>1, LookingCall
  <2>3. entries' = Folded(entries, OfCall(call[c]))
    BY <2>1 DEF Folded, OfCall
  <2>. HIDE DEF new
  <2>. QED
    BY <2>1, <2>2, <2>3, CallApplies
<1>7. CASE SetApply(c)
  <2>1. /\ call[c].op = "set" /\ call' = [call EXCEPT ![c] = NoCall] /\ call[c].seq > 0
        /\ call[c].key \in Keys
        /\ entries' = SetTo(entries, call[c].key, call[c].seq) /\ Overtakes(call[c].key, call[c].seq)
        /\ UNCHANGED <<seq, folded, task>>
    BY <1>0, <1>7 DEF SetApply
  <2>2. entries' = Folded(entries, OfCall(call[c]))
    BY <2>1 DEF Folded, OfCall
  <2>. QED
    BY <1>1, <2>1, <2>2, CallApplies
<1>8. CASE PinApply(c)
  <2>1. /\ call[c].op \in {"pin", "unpin"} /\ call' = [call EXCEPT ![c] = NoCall] /\ call[c].seq > 0
        /\ call[c].key \in Keys
        /\ entries' = Pinned(entries, call[c].key, call[c].op = "pin")
        /\ Overtakes(call[c].key, call[c].seq)
        /\ UNCHANGED <<seq, folded, task>>
    BY <1>0, <1>2, <1>8 DEF PinApply
  <2>2. entries' = Folded(entries, OfCall(call[c]))
    <3>1. CASE call[c].op = "pin"
      BY <2>1, <3>1 DEF Folded, OfCall
    <3>2. CASE call[c].op = "unpin"
      <4>1. (call[c].op = "pin") = FALSE
        BY <3>2
      <4>. QED
        BY <2>1, <3>2, <4>1 DEF Folded, OfCall
    <3>. QED
      BY <2>1, <3>1, <3>2
  <2>. QED
    BY <1>1, <2>1, <2>2, CallApplies
<1>9. CASE Look(c)
  <2>. DEFINE k == call[c].key
              e == entries[k]
              sum == [call[c] EXCEPT !.op = "claim", !.read = {e.items[i] : i \in Dropped(e)},
                                     !.through = Through(e)]
              new == IF ~NeedsRollup(e) THEN NoCall ELSE sum
  <2>1. /\ call[c].op = "look" /\ call' = [call EXCEPT ![c] = new] /\ call[c].seq = 0 /\ k \in Keys
        /\ UNCHANGED <<seq, folded, entries, overtaken, task>>
    BY <1>0, <1>2, <1>9 DEF Look
  <2>2. e \in Entry
    BY <1>0, <2>1 DEF Entries
  <2>3. NeedsRollup(e) =>
           /\ sum \in Call /\ sum.seq = 0 /\ sum.op = "claim" /\ sum.key = k
           /\ sum.read = {e.items[i] : i \in Dropped(e)} /\ sum.through = Through(e)
    <3>. SUFFICES ASSUME NeedsRollup(e)
                  PROVE  /\ sum \in Call /\ sum.seq = 0 /\ sum.op = "claim" /\ sum.key = k
                         /\ sum.read = {e.items[i] : i \in Dropped(e)} /\ sum.through = Through(e)
      OBVIOUS
    <3>1. {e.items[i] : i \in Dropped(e)} \in SUBSET Nat /\ Through(e) \in Nat
      BY <2>2, SummaryType
    <3>. HIDE DEF e
    <3>. QED
      BY <1>0, <2>1, <3>1 DEF Call
  <2>. HIDE DEF sum
  <2>4. new \in Call /\ new.seq = 0 /\ new.op \in {"idle", "claim"}
        /\ (new.op = "claim" => NeedsRollup(e) /\ new = sum)
    BY <1>1, <2>3
  <2>. HIDE DEF new
  <2>. QED
    BY <2>1, <2>4, CallGoesOn
<1>10. CASE Claim(c)
  <2>. DEFINE k == call[c].key
              t == [NoTask EXCEPT !.op = "ask", !.read = call[c].read, !.through = call[c].through]
  <2>1. /\ call[c].op = "claim" /\ call' = [call EXCEPT ![c] = NoCall] /\ call[c].seq = 0 /\ k \in Keys
        /\ UNCHANGED <<seq, folded, entries, overtaken>>
        /\ task' = task \/ (task[k].op = "none" /\ task' = [task EXCEPT ![k] = t])
    BY <1>0, <1>2, <1>10 DEF Claim
  <2>2. t.op = "ask" /\ t.seq = 0
    BY DEF NoTask
  <2>. HIDE DEF t
  <2>3. ASSUME NEW j \in Keys
        PROVE  \/ task'[j] = task[j]
               \/ /\ task[j].seq = 0 /\ task'[j].seq = 0
                  /\ task[j].op = "none" /\ task'[j].op = "ask"
    <3>1. CASE task'[j] = task[j]
      BY <3>1
    <3>2. CASE task'[j] # task[j]
      <4>1. j = k /\ task[j].op = "none" /\ task'[j] = t
        BY <1>0, <2>1, <3>2 DEF TypeOK
      <4>2. task[j].seq = 0
        BY <1>0, <4>1, Fields DEF NoTwo
      <4>. QED
        BY <2>2, <4>1, <4>2
    <3>. QED
      BY <3>1, <3>2
  <2>. QED
    BY <1>1, <2>1, <2>3, CallGoesOn
<1>11. ASSUME NEW k \in Keys, NEW match \in -1..MaxEvents, SetCheck(c, k, match) PROVE MemoryInv'
  <2>1. /\ call' = [call EXCEPT ![c] = Setting(k, match)] /\ call[c].seq = 0
        /\ UNCHANGED <<seq, folded, entries, task, overtaken>>
    BY <1>2, <1>11 DEF SetCheck, Setting
  <2>2. Setting(k, match) \in Call /\ Setting(k, match).op = "set" /\ Setting(k, match).seq = 0
    BY ContextAssumption, SettingCall
  <2>. QED
    BY <2>1, <2>2, CallGoesOn
<1>12. CASE SetFails(c)
  <2>1. /\ call' = [call EXCEPT ![c] = NoCall] /\ call[c].seq = 0
        /\ UNCHANGED <<seq, folded, entries, task, overtaken>>
    BY <1>12 DEF SetFails
  <2>. QED
    BY <1>1, <2>1, CallGoesOn
<1>. QED
  BY <1>3, <1>4, <1>5, <1>6, <1>7, <1>8, <1>9, <1>10, <1>11, <1>12 DEF CallStep

LEMMA MemoryInit == Init => MemoryInv
<1>. SUFFICES ASSUME Init PROVE MemoryInv
  OBVIOUS
<1>1. TypeOK
  BY ContextInitType
<1>2. /\ NoCall.seq = 0 /\ NoCall.op = "idle" /\ NoTask.seq = 0 /\ NoTask.op = "none"
      /\ NoEntry.items = <<>> /\ NoEntry.rollup = [read |-> {}, through |-> 0]
  BY DEF NoCall, NoTask, NoEntry, NoRollup
<1>3. seq = 0 /\ \A c \in Callers : call[c] = NoCall
  BY DEF Init
<1>4. \A k \in Keys : task[k] = NoTask /\ entries[k] = NoEntry /\ folded[k] = NoEntry
  BY DEF Init
<1>5. NoTwo
  BY <1>2, <1>3, <1>4 DEF NoTwo
<1>6. ASSUME NEW k \in Keys PROVE Between(k)
  <2>1. Waiting(k) = {}
    BY <1>2, <1>3, <1>4 DEF Waiting, Waits
  <2>2. NoEntry \in Entry /\ Bare(NoEntry)
    BY <1>1, <1>2, <1>4, Fields DEF Bare
  <2>3. Leads(NoEntry, NoEntry, {}, 0)
    BY <2>2, LeadsItself
  <2>. QED
    BY <1>3, <1>4, <2>1, <2>3 DEF Between
<1>. QED
  BY <1>1, <1>5, <1>6 DEF MemoryInv, InTurn

LEMMA MemoryStep == MemoryInv /\ [Next]_vars => MemoryInv'
<1>. SUFFICES ASSUME MemoryInv, [Next]_vars PROVE MemoryInv'
  OBVIOUS
<1>0. TypeOK /\ TypeOK' /\ NoTwo
  BY ContextStepType DEF MemoryInv
<1>1. CASE Restart
  <2>1. /\ \A c \in Callers : call'[c] = NoCall
        /\ \A k \in Keys : task'[k] = NoTask
        /\ seq' = seq /\ overtaken' = overtaken
    BY <1>1 DEF Restart
  <2>2. NoCall.seq = 0 /\ NoCall.op = "idle" /\ NoTask.seq = 0 /\ NoTask.op = "none" /\ seq \in Nat
    BY <1>0 DEF NoCall, NoTask, TypeOK
  <2>3. NoTwo'
    BY <2>1, <2>2 DEF NoTwo
  <2>. QED
    BY <1>0, <1>1, <2>1, <2>3, BetweenRebuilt DEF MemoryInv, InTurn
<1>2. CASE UNCHANGED vars
  BY <1>0, <1>2 DEF vars, MemoryInv, InTurn, NoTwo, Between, Waiting
<1>. QED
  BY <1>0, <1>1, <1>2, CallSteps, TaskSteps DEF Next

(* An entry none of whose writes is half done is what a restart would        *)
(* rebuild from the log, whatever writes there were and however they failed, *)
(* unless two of them were applied in another order than logged              *)
(* (append_context, set_context, pin_context and rebuild_session).           *)
THEOREM EntriesSurvive == Spec => []EntrySurvives
<1>1. MemoryInv => EntrySurvives
  <2>. SUFFICES ASSUME MemoryInv, NEW k \in Keys, overtaken[k] = {}, Unapplied(k) = {}
                PROVE  entries[k] = folded[k]
    BY DEF EntrySurvives
  <2>1. TypeOK /\ NoTwo /\ Between(k)
    BY DEF MemoryInv, InTurn
  <2>2. Waiting(k) = {}
    BY <2>1, WaitingIs
  <2>3. seq \in Nat
    BY <2>1 DEF TypeOK
  <2>. QED
    BY <2>1, <2>2, <2>3, LeadsNowhere DEF Between
<1>. QED
  BY <1>1, MemoryInit, MemoryStep, PTL DEF Spec

(***************************************************************************)
(* What summaries are made from.                                           *)
(***************************************************************************)

Items(e) == {e.items[i] : i \in DOMAIN e.items}

(* Items in the log that are not in their entry yet.                        *)
Joining(k) == {call[c].seq : c \in {d \in Callers : call[d].op = "append" /\ call[d].key = k}}

(* What is, or may become, an item of k.                                    *)
Numbers(k) == Items(entries[k]) \cup Items(folded[k]) \cup Joining(k)

(* A summary was made from everything it is dated past, what came late       *)
(* excepted.                                                               *)
Speaks(sum, numbers, late, n) ==
    sum.through <= n /\ \A i \in numbers : i <= sum.through => i \in sum.read \cup late

(* An item with a newer one before it came late.                            *)
InOrder(e, late) ==
    \A x, y \in DOMAIN e.items : x < y /\ e.items[y] < e.items[x] => e.items[y] \in late

Sound(k) ==
    /\ \A i \in Numbers(k) : i \in 1..seq
    /\ \A c \in Callers : call[c].op = "append" /\ call[c].key = k =>
          call[c].seq > 0 /\ \A i \in Items(entries[k]) : call[c].seq < i => call[c].seq \in overtaken[k]
    /\ entries[k].kind # "value" => Items(folded[k]) \subseteq Items(entries[k]) \cup Joining(k)
    /\ InOrder(entries[k], overtaken[k]) /\ InOrder(folded[k], overtaken[k])
    /\ Speaks(entries[k].rollup, Numbers(k), overtaken[k], seq)
    /\ Speaks(folded[k].rollup, Numbers(k), overtaken[k], seq)
    /\ task[k].op # "none" => Speaks(task[k], Numbers(k), overtaken[k], seq)
    /\ \A c \in Callers : call[c].op = "claim" /\ call[c].key = k =>
          Speaks(call[c], Numbers(k), overtaken[k], seq)

SummaryInv == TypeOK /\ \A k \in Keys : Sound(k)

(* What the operations of the store do to items and summaries.              *)
LEMMA StoreFacts ==
    ASSUME NEW es \in Entries, NEW k \in Keys, NEW j \in Keys
    PROVE  /\ \A n \in Nat :
                 /\ SetTo(es, k, n)[j].items = es[j].items /\ SetTo(es, k, n)[j].rollup = es[j].rollup
                 /\ SetTo(es, k, n)[j].kind # "value" => es[j].kind # "value"
                 /\ Appended(es, k, n)[j].rollup = es[j].rollup
                 /\ j # k \/ es[k].kind = "value" => Appended(es, k, n)[j] = es[j]
                 /\ es[k].kind # "value" => /\ Appended(es, k, n)[k].kind = "append"
                                            /\ Appended(es, k, n)[k].items = Append(es[k].items, n)
           /\ \A on \in BOOLEAN :
                 /\ Pinned(es, k, on)[j].items = es[j].items /\ Pinned(es, k, on)[j].rollup = es[j].rollup
                 /\ Pinned(es, k, on)[j].kind = es[j].kind
           /\ \A sum \in Rollup :
                 /\ RolledUp(es, k, sum)[j].items = es[j].items
                 /\ RolledUp(es, k, sum)[j].kind = es[j].kind
                 /\ \/ RolledUp(es, k, sum)[j].rollup = es[j].rollup
                    \/ j = k /\ RolledUp(es, k, sum)[j].rollup = sum
<1>1. es[k] \in Entry /\ es[j] \in Entry
  BY DEF Entries
<1>2. ASSUME NEW n \in Nat
      PROVE  /\ SetTo(es, k, n)[j].items = es[j].items /\ SetTo(es, k, n)[j].rollup = es[j].rollup
             /\ SetTo(es, k, n)[j].kind # "value" => es[j].kind # "value"
  <2>. DEFINE e == [es[k] EXCEPT !.kind = "value", !.version = n]
  <2>1. e.items = es[k].items /\ e.rollup = es[k].rollup /\ e.kind = "value"
    BY <1>1 DEF Entry
  <2>2. SetTo(es, k, n) = es \/ SetTo(es, k, n) = [es EXCEPT ![k] = e]
    BY DEF SetTo, Entries
  <2>. HIDE DEF e
  <2>. QED
    BY <2>1, <2>2 DEF Entries
<1>3. ASSUME NEW n \in Nat
      PROVE  /\ Appended(es, k, n)[j].rollup = es[j].rollup
             /\ j # k \/ es[k].kind = "value" => Appended(es, k, n)[j] = es[j]
             /\ es[k].kind # "value" => /\ Appended(es, k, n)[k].kind = "append"
                                        /\ Appended(es, k, n)[k].items = Append(es[k].items, n)
  <2>. DEFINE e == [es[k] EXCEPT !.kind = "append", !.version = n, !.items = Append(@, n)]
  <2>1. e.items = Append(es[k].items, n) /\ e.rollup = es[k].rollup /\ e.kind = "append"
    BY <1>1 DEF Entry
  <2>2. Appended(es, k, n) = IF es[k].kind = "value" THEN es ELSE [es EXCEPT ![k] = e]
    BY DEF Appended, Entries
  <2>. HIDE DEF e
  <2>. QED
    BY <2>1, <2>2 DEF Entries
<1>4. ASSUME NEW on \in BOOLEAN
      PROVE  /\ Pinned(es, k, on)[j].items = es[j].items /\ Pinned(es, k, on)[j].rollup = es[j].rollup
             /\ Pinned(es, k, on)[j].kind = es[j].kind
  <2>. DEFINE e == [es[k] EXCEPT !.pinned = on]
  <2>1. e.items = es[k].items /\ e.rollup = es[k].rollup /\ e.kind = es[k].kind
    BY <1>1 DEF Entry
  <2>2. Pinned(es, k, on) = es \/ Pinned(es, k, on) = [es EXCEPT ![k] = e]
    BY DEF Pinned, Entries
  <2>. HIDE DEF e
  <2>. QED
    BY <2>1, <2>2 DEF Entries
<1>5. ASSUME NEW sum \in Rollup
      PROVE  /\ RolledUp(es, k, sum)[j].items = es[j].items
             /\ RolledUp(es, k, sum)[j].kind = es[j].kind
             /\ \/ RolledUp(es, k, sum)[j].rollup = es[j].rollup
                \/ j = k /\ RolledUp(es, k, sum)[j].rollup = sum
  <2>. DEFINE e == [es[k] EXCEPT !.rollup = sum]
  <2>1. e.items = es[k].items /\ e.rollup = sum /\ e.kind = es[k].kind
    BY <1>1 DEF Entry
  <2>2. RolledUp(es, k, sum) = es \/ RolledUp(es, k, sum) = [es EXCEPT ![k] = e]
    BY DEF RolledUp, Entries
  <2>. HIDE DEF e
  <2>. QED
    BY <2>1, <2>2 DEF Entries
<1>. QED
  BY <1>2, <1>3, <1>4, <1>5

(* An item joins an entry.                                                 *)
LEMMA ItemJoins ==
    ASSUME NEW e \in Entry, NEW d \in Entry, NEW n \in Nat, d.items = Append(e.items, n)
    PROVE  /\ Items(d) = Items(e) \cup {n}
           /\ \A late : InOrder(e, late) /\ (\A i \in Items(e) : n < i => n \in late) => InOrder(d, late)
<1>. DEFINE l == Len(e.items)
<1>1. e.items \in Seq(Nat) /\ d.items \in Seq(Nat)
  BY DEF Entry
<1>2. /\ l \in Nat /\ DOMAIN e.items = 1..l /\ DOMAIN d.items = 1..(l + 1)
      /\ d.items[l + 1] = n /\ \A i \in 1..l : d.items[i] = e.items[i]
  BY <1>1
<1>. HIDE DEF l
<1>3. Items(d) = Items(e) \cup {n}
  BY <1>2 DEF Items
<1>4. ASSUME NEW late, InOrder(e, late), \A i \in Items(e) : n < i => n \in late,
             NEW x \in DOMAIN d.items, NEW y \in DOMAIN d.items, x < y, d.items[y] < d.items[x]
      PROVE  d.items[y] \in late
  <2>1. x \in 1..l
    BY <1>2, <1>4
  <2>2. CASE y = l + 1
    BY <1>2, <1>4, <2>1, <2>2 DEF Items
  <2>3. CASE y # l + 1
    BY <1>2, <1>4, <2>1, <2>3 DEF InOrder
  <2>. QED
    BY <2>2, <2>3
<1>. QED
  BY <1>3, <1>4 DEF InOrder

(* The summary that is due is made from what it is dated past, but for what  *)
(* came late.                                                              *)
LEMMA DroppedSpeaks ==
    ASSUME TypeOK, NEW k \in Keys, Sound(k), NeedsRollup(entries[k]), NEW sum,
           sum.read = {entries[k].items[i] : i \in Dropped(entries[k])},
           sum.through = Through(entries[k])
    PROVE  Speaks(sum, Numbers(k), overtaken[k], seq)
<1>. DEFINE e == entries[k]
            l == Len(e.items)
<1>1. e.items \in Seq(Nat) /\ l \in Nat /\ DOMAIN e.items = 1..l /\ Shown \in Nat \ {0}
  BY ContextAssumption, Fields DEF Entry
<1>2. l > Shown /\ Dropped(e) = 1..(l - Shown)
  BY <1>1 DEF NeedsRollup, Dropped
<1>3. l - Shown \in Dropped(e) /\ l - Shown \in 1..l /\ sum.through = e.items[l - Shown]
  BY <1>1, <1>2 DEF Through
<1>. HIDE DEF l
<1>4. \A i \in Dropped(e) : e.items[i] \in sum.read
  OBVIOUS
<1>5. \A i \in 1..l : e.items[i] \in Nat
  BY <1>1
<1>. HIDE DEF e
<1>6. sum.through \in Items(e) /\ sum.through \in sum.read /\ sum.through \in Nat
  BY <1>1, <1>3, <1>4, <1>5 DEF Items
<1>7. sum.through <= seq
  BY <1>6 DEF Sound, Numbers, TypeOK, e
<1>8. ASSUME NEW i \in Numbers(k), i <= sum.through PROVE i \in sum.read \cup overtaken[k]
  <2>1. CASE i \in Items(e)
    <3>1. PICK y \in 1..l : i = e.items[y]
      BY <1>1, <2>1 DEF Items
    <3>2. CASE y <= l - Shown
      BY <1>1, <1>2, <1>4, <3>1, <3>2
    <3>3. CASE ~(y <= l - Shown)
      <4>1. l - Shown < y /\ (e.items[y] < e.items[l - Shown] \/ e.items[y] = e.items[l - Shown])
        BY <1>1, <1>3, <1>8, <1>5, <3>1, <3>3
      <4>2. InOrder(e, overtaken[k])
        BY DEF Sound, e
      <4>. QED
        BY <1>1, <1>3, <1>6, <3>1, <4>1, <4>2 DEF InOrder
    <3>. QED
      BY <3>2, <3>3
  <2>2. CASE i \in Joining(k)
    <3>1. PICK c \in Callers : call[c].op = "append" /\ call[c].key = k /\ i = call[c].seq
      BY <2>2 DEF Joining
    <3>2. i < sum.through => i \in overtaken[k]
      BY <1>6, <3>1 DEF Sound, e
    <3>3. i < sum.through \/ i = sum.through
      BY <1>6, <1>8, <3>1, Fields
    <3>. QED
      BY <1>6, <3>2, <3>3
  <2>3. e.kind # "value"
    BY DEF NeedsRollup, e
  <2>4. Items(folded[k]) \subseteq Items(e) \cup Joining(k)
    BY <2>3 DEF Sound, e
  <2>. QED
    BY <1>8, <2>1, <2>2, <2>4 DEF Numbers, e
<1>. QED
  BY <1>7, <1>8 DEF Speaks

(* A step that neither logs nor applies an item of k, and leaves no summary   *)
(* of it that says more than it was made from.                              *)
LEMMA SoundAsBefore ==
    ASSUME TypeOK, TypeOK', NEW k \in Keys, Sound(k),
           seq' \in {seq, seq + 1}, overtaken[k] \subseteq overtaken'[k],
           entries'[k].items = entries[k].items, entries'[k].kind # "value" => entries[k].kind # "value",
           folded'[k].items = folded[k].items,
           \A c \in Callers : /\ call'[c].op = "append" /\ call'[c].key = k => call'[c] = call[c]
                              /\ call[c].op = "append" /\ call[c].key = k => call'[c] = call[c],
           Speaks(entries'[k].rollup, Numbers(k), overtaken[k], seq),
           Speaks(folded'[k].rollup, Numbers(k), overtaken[k], seq),
           task'[k].op # "none" => Speaks(task'[k], Numbers(k), overtaken[k], seq),
           \A c \in Callers : call'[c].op = "claim" /\ call'[c].key = k =>
               Speaks(call'[c], Numbers(k), overtaken[k], seq)
    PROVE  Sound(k)'
<1>1. Items(entries'[k]) = Items(entries[k]) /\ Items(folded'[k]) = Items(folded[k])
  BY DEF Items
<1>2. Joining(k)' = Joining(k)
  BY DEF Joining
<1>3. Numbers(k)' = Numbers(k)
  BY <1>1, <1>2 DEF Numbers
<1>4. seq \in Nat /\ \A i \in Numbers(k) : i \in 1..seq
  BY DEF Sound, TypeOK
<1>5. \A i \in Numbers(k)' : i \in 1..seq'
  BY <1>3, <1>4
<1>6. \A c \in Callers : call'[c].op = "append" /\ call'[c].key = k =>
         call'[c].seq > 0 /\ \A i \in Items(entries'[k]) : call'[c].seq < i => call'[c].seq \in overtaken'[k]
  BY <1>1 DEF Sound
<1>7. entries'[k].kind # "value" => Items(folded'[k]) \subseteq Items(entries'[k]) \cup Joining(k)'
  BY <1>1, <1>2 DEF Sound
<1>8. InOrder(entries'[k], overtaken'[k]) /\ InOrder(folded'[k], overtaken'[k])
  BY DEF Sound, InOrder
<1>9. ASSUME NEW sum, Speaks(sum, Numbers(k), overtaken[k], seq), sum.through \in Nat
      PROVE  Speaks(sum, Numbers(k)', overtaken'[k], seq')
  <2>1. sum.through <= seq /\ sum.through <= seq' /\ \A i \in Numbers(k)' : i \in Numbers(k)
    BY <1>3, <1>4, <1>9 DEF Speaks
  <2>. QED
    BY <1>9, <2>1 DEF Speaks
<1>10. /\ entries'[k].rollup.through \in Nat /\ folded'[k].rollup.through \in Nat
       /\ task'[k].through \in Nat /\ \A c \in Callers : call'[c].through \in Nat
  BY DEF TypeOK, Entry, Rollup, Task, Call
<1>11. /\ Speaks(entries'[k].rollup, Numbers(k)', overtaken'[k], seq')
       /\ Speaks(folded'[k].rollup, Numbers(k)', overtaken'[k], seq')
       /\ task'[k].op # "none" => Speaks(task'[k], Numbers(k)', overtaken'[k], seq')
       /\ \A c \in Callers : call'[c].op = "claim" /\ call'[c].key = k =>
             Speaks(call'[c], Numbers(k)', overtaken'[k], seq')
  BY <1>9, <1>10
<1>. QED
  BY <1>5, <1>6, <1>7, <1>8, <1>11 DEF Sound

(* append_context logs an item of k, or of another key.                     *)
LEMMA ItemLogged ==
    ASSUME TypeOK, TypeOK', NEW k \in Keys, Sound(k), NEW c \in Callers, AppendLog(c, k)
    PROVE  Sound(k)'
<1>. DEFINE n == seq + 1
            new == Logged("append", k, n)
<1>1. /\ call' = [call EXCEPT ![c] = new] /\ call[c].op = "idle"
      /\ seq' = n /\ folded' = Appended(folded, k, n)
      /\ UNCHANGED <<entries, task, overtaken>>
  BY DEF AppendLog, Logs, Event, Folded, Logged
<1>2. /\ seq \in Nat /\ n \in Nat /\ call \in [Callers -> Call]
      /\ folded \in Entries /\ folded[k] \in Entry /\ folded'[k] \in Entry /\ overtaken[k] \in SUBSET Nat
  BY DEF TypeOK, Entries
<1>3. new \in Call /\ new.op = "append" /\ new.key = k /\ new.seq = n
  BY <1>2, LoggedCall DEF Ops
<1>4. call'[c] = new /\ \A d \in Callers : d # c => call'[d] = call[d]
  BY <1>1, <1>2
<1>. HIDE DEF new
<1>5. Joining(k)' = Joining(k) \cup {n}
  BY <1>1, <1>3, <1>4 DEF Joining
<1>6. \A i \in Numbers(k) : i \in 1..seq
  BY DEF Sound
<1>7. /\ folded'[k].rollup = folded[k].rollup
      /\ \/ folded'[k] = folded[k]
         \/ folded'[k].items = Append(folded[k].items, n)
  BY <1>1, <1>2, StoreFacts
<1>8. /\ Items(folded'[k]) \subseteq Items(folded[k]) \cup {n}
      /\ InOrder(folded'[k], overtaken[k])
  <2>1. InOrder(folded[k], overtaken[k]) /\ \A i \in Items(folded[k]) : ~(n < i)
    BY <1>2, <1>6 DEF Sound, Numbers
  <2>2. CASE folded'[k] = folded[k]
    BY <2>1, <2>2
  <2>3. CASE folded'[k].items = Append(folded[k].items, n)
    BY <1>2, <2>1, <2>3, ItemJoins
  <2>. QED
    BY <1>7, <2>2, <2>3
<1>9. \A i \in Numbers(k)' : i \in Numbers(k) \/ i = n
  BY <1>1, <1>5, <1>8 DEF Numbers
<1>10. \A i \in Numbers(k)' : i \in 1..seq'
  BY <1>1, <1>2, <1>6, <1>9
<1>11. \A d \in Callers : call'[d].op = "append" /\ call'[d].key = k =>
          call'[d].seq > 0 /\ \A i \in Items(entries'[k]) : call'[d].seq < i => call'[d].seq \in overtaken'[k]
  <2>1. \A i \in Items(entries[k]) : ~(n < i)
    BY <1>2, <1>6 DEF Numbers
  <2>. QED
    BY <1>1, <1>2, <1>3, <1>4, <2>1 DEF Sound
<1>12. entries'[k].kind # "value" => Items(folded'[k]) \subseteq Items(entries'[k]) \cup Joining(k)'
  BY <1>1, <1>5, <1>8 DEF Sound
<1>13. ASSUME NEW sum, Speaks(sum, Numbers(k), overtaken[k], seq), sum.through \in Nat
       PROVE  Speaks(sum, Numbers(k)', overtaken'[k], seq')
  <2>1. sum.through <= seq /\ sum.through <= n /\ ~(n <= sum.through)
    BY <1>2, <1>13 DEF Speaks
  <2>. HIDE DEF n
  <2>2. \A i \in Numbers(k)' : i <= sum.through => i \in Numbers(k)
    BY <1>9, <2>1
  <2>. QED
    BY <1>1, <1>13, <2>1, <2>2 DEF Speaks
<1>14. /\ entries'[k].rollup = entries[k].rollup /\ entries[k].rollup.through \in Nat
       /\ folded[k].rollup.through \in Nat
       /\ task[k].through \in Nat /\ \A d \in Callers : call[d].through \in Nat
  BY <1>1 DEF TypeOK, Entry, Rollup, Task, Call
<1>15. /\ Speaks(entries'[k].rollup, Numbers(k)', overtaken'[k], seq')
       /\ Speaks(folded'[k].rollup, Numbers(k)', overtaken'[k], seq')
       /\ task'[k].op # "none" => Speaks(task'[k], Numbers(k)', overtaken'[k], seq')
  BY <1>1, <1>7, <1>13, <1>14 DEF Sound
<1>16. ASSUME NEW d \in Callers, call'[d].op = "claim", call'[d].key = k
       PROVE  Speaks(call'[d], Numbers(k)', overtaken'[k], seq')
  <2>1. call'[d] = call[d]
    BY <1>3, <1>4, <1>16
  <2>. QED
    BY <1>13, <1>14, <1>16, <2>1 DEF Sound
<1>17. InOrder(entries'[k], overtaken'[k]) /\ InOrder(folded'[k], overtaken'[k])
  BY <1>1, <1>8 DEF Sound
<1>. QED
  BY <1>10, <1>11, <1>12, <1>15, <1>16, <1>17 DEF Sound

(* append_context applies an item of k.                                     *)
LEMMA ItemApplied ==
    ASSUME TypeOK, TypeOK', NEW c \in Callers, AppendApply(c), NEW k \in Keys, k = call[c].key, Sound(k)
    PROVE  Sound(k)'
<1>. DEFINE n == call[c].seq
<1>1. /\ call[c].op = "append" /\ entries' = Appended(entries, k, n) /\ Overtakes(k, n)
      /\ UNCHANGED <<seq, folded, task>>
      /\ \E new \in {NoCall, [NoCall EXCEPT !.op = "look", !.key = k]} : call' = [call EXCEPT ![c] = new]
  BY DEF AppendApply
<1>2. /\ seq \in Nat /\ n \in Nat /\ n > 0 /\ call \in [Callers -> Call]
      /\ entries \in Entries /\ entries[k] \in Entry /\ entries'[k] \in Entry
      /\ overtaken \in [Keys -> SUBSET Nat]
  BY <1>1, Fields DEF TypeOK, Entries, Sound
<1>3. call'[c].op \in {"idle", "look"} /\ \A d \in Callers : d # c => call'[d] = call[d]
  <2>1. PICK new \in {NoCall, [NoCall EXCEPT !.op = "look", !.key = k]} : call' = [call EXCEPT ![c] = new]
    BY <1>1
  <2>2. new.op \in {"idle", "look"}
    <3>1. NoCall.op = "idle" /\ [NoCall EXCEPT !.op = "look", !.key = k].op = "look"
      BY DEF NoCall
    <3>. QED
      BY <3>1
  <2>. QED
    BY <1>2, <2>1, <2>2
<1>4. overtaken'[k] = overtaken[k] \cup {m \in Unapplied(k) : m < n}
  BY <1>1, <1>2 DEF Overtakes
<1>5. Joining(k)' \subseteq Joining(k) /\ n \in Joining(k) /\ Joining(k) \subseteq Joining(k)' \cup {n}
  BY <1>1, <1>3 DEF Joining
<1>6. \A i \in Numbers(k) : i \in 1..seq
  BY DEF Sound
<1>7. /\ entries'[k].rollup = entries[k].rollup
      /\ \/ entries[k].kind = "value" /\ entries'[k] = entries[k]
         \/ entries[k].kind # "value" /\ entries'[k].items = Append(entries[k].items, n)
  BY <1>1, <1>2, StoreFacts
<1>8. /\ Items(entries[k]) \subseteq Items(entries'[k]) /\ Items(entries'[k]) \subseteq Items(entries[k]) \cup {n}
      /\ entries[k].kind # "value" => n \in Items(entries'[k])
      /\ InOrder(entries'[k], overtaken'[k])
  <2>1. InOrder(entries[k], overtaken'[k])
    BY <1>4 DEF Sound, InOrder
  <2>2. \A i \in Items(entries[k]) : n < i => n \in overtaken'[k]
    BY <1>1, <1>4 DEF Sound
  <2>3. CASE entries[k].kind = "value" /\ entries'[k] = entries[k]
    BY <2>1, <2>3
  <2>4. CASE entries[k].kind # "value" /\ entries'[k].items = Append(entries[k].items, n)
    <3>. DEFINE e == entries[k]
                d == entries'[k]
                late == overtaken'[k]
    <3>1. e \in Entry /\ d \in Entry /\ d.items = Append(e.items, n) /\ InOrder(e, late)
          /\ \A i \in Items(e) : n < i => n \in late
      BY <1>2, <2>1, <2>2, <2>4
    <3>. HIDE DEF e, d, late, n
    <3>2. Items(d) = Items(e) \cup {n} /\ InOrder(d, late)
      BY <1>2, <3>1, ItemJoins
    <3>. QED
      BY <3>2 DEF e, d, late
  <2>. QED
    BY <1>7, <2>3, <2>4
<1>9. \A i \in Numbers(k)' : i \in Numbers(k)
  BY <1>1, <1>5, <1>8 DEF Numbers
<1>10. \A i \in Numbers(k)' : i \in 1..seq'
  BY <1>1, <1>6, <1>9
<1>11. ASSUME NEW d \in Callers, call'[d].op = "append", call'[d].key = k
       PROVE  call'[d].seq > 0 /\ \A i \in Items(entries'[k]) : call'[d].seq < i => call'[d].seq \in overtaken'[k]
  <2>1. call'[d] = call[d] /\ call[d].seq \in Unapplied(k) /\ call[d].seq > 0
    BY <1>3, <1>11 DEF Sound, Unapplied
  <2>2. \A i \in Items(entries[k]) : call[d].seq < i => call[d].seq \in overtaken[k]
    BY <1>11, <2>1 DEF Sound
  <2>. QED
    BY <1>4, <1>8, <2>1, <2>2
<1>12. entries'[k].kind # "value" => Items(folded'[k]) \subseteq Items(entries'[k]) \cup Joining(k)'
  BY <1>1, <1>5, <1>7, <1>8 DEF Sound
<1>13. ASSUME NEW sum, Speaks(sum, Numbers(k), overtaken[k], seq)
       PROVE  Speaks(sum, Numbers(k)', overtaken'[k], seq')
  BY <1>1, <1>4, <1>9, <1>13 DEF Speaks
<1>14. /\ Speaks(entries'[k].rollup, Numbers(k)', overtaken'[k], seq')
       /\ Speaks(folded'[k].rollup, Numbers(k)', overtaken'[k], seq')
       /\ task'[k].op # "none" => Speaks(task'[k], Numbers(k)', overtaken'[k], seq')
  BY <1>1, <1>7, <1>13 DEF Sound
<1>15. ASSUME NEW d \in Callers, call'[d].op = "claim", call'[d].key = k
       PROVE  Speaks(call'[d], Numbers(k)', overtaken'[k], seq')
  <2>1. call'[d] = call[d]
    BY <1>3, <1>15
  <2>. QED
    BY <1>13, <1>15, <2>1 DEF Sound
<1>16. InOrder(folded'[k], overtaken'[k])
  BY <1>1, <1>4 DEF Sound, InOrder
<1>. QED
  BY <1>8, <1>10, <1>11, <1>12, <1>14, <1>15, <1>16 DEF Sound

(* What a step of c leaves of the calls that matter to k.                   *)
LEMMA CallsAsBefore ==
    ASSUME TypeOK, NEW c \in Callers, NEW new, call' = [call EXCEPT ![c] = new],
           NEW k \in Keys, call[c].op = "append" => call[c].key # k,
           new.op = "append" => new.key # k
    PROVE  /\ \A d \in Callers : /\ call'[d].op = "append" /\ call'[d].key = k => call'[d] = call[d]
                                 /\ call[d].op = "append" /\ call[d].key = k => call'[d] = call[d]
           /\ \A d \in Callers : call'[d].op = "claim" /\ call'[d].key = k =>
                 call'[d] = call[d] \/ (d = c /\ call'[d] = new)
<1>1. call'[c] = new /\ \A d \in Callers : d # c => call'[d] = call[d]
  BY DEF TypeOK
<1>. QED
  BY <1>1

(* The events a call logs and applies, items aside.                         *)
LEMMA NoItemLogged ==
    ASSUME TypeOK, NEW k \in Keys, NEW op \in {"set", "pin", "unpin", "rollup"},
           NEW read \in SUBSET Nat, NEW through \in Nat, Logs(Event(op, k, read, through)), NEW j \in Keys
    PROVE  /\ seq' \in {seq, seq + 1} /\ folded'[j].items = folded[j].items
           /\ \/ folded'[j].rollup = folded[j].rollup
              \/ j = k /\ op = "rollup" /\ folded'[j].rollup = [read |-> read, through |-> through]
<1>1. folded \in Entries /\ seq + 1 \in Nat
  BY DEF TypeOK, Entries
<1>2. [read |-> read, through |-> through] \in Rollup
  BY DEF Rollup
<1>3. seq' = seq + 1 /\ folded' = Folded(folded, Event(op, k, read, through))
  BY DEF Logs
<1>4. /\ op = "set" => folded' = SetTo(folded, k, seq + 1)
      /\ op = "pin" => folded' = Pinned(folded, k, TRUE)
      /\ op = "unpin" => folded' = Pinned(folded, k, FALSE)
      /\ op = "rollup" => folded' = RolledUp(folded, k, [read |-> read, through |-> through])
  BY <1>3 DEF Folded, Event
<1>. DEFINE n == seq + 1
            sum == [read |-> read, through |-> through]
<1>. HIDE DEF n, sum
<1>5. /\ n \in Nat /\ sum \in Rollup /\ seq' \in {seq, seq + 1}
      /\ op = "set" => folded' = SetTo(folded, k, n)
  BY <1>1, <1>2, <1>3, <1>4 DEF n, sum
<1>6. CASE op = "set"
  BY <1>1, <1>5, <1>6, StoreFacts
<1>7. CASE op \in {"pin", "unpin"}
  <2>1. \A on \in BOOLEAN : /\ Pinned(folded, k, on)[j].items = folded[j].items
                            /\ Pinned(folded, k, on)[j].rollup = folded[j].rollup
    BY <1>1, StoreFacts
  <2>2. \E on \in BOOLEAN : folded' = Pinned(folded, k, on)
    BY <1>4, <1>7
  <2>. QED
    BY <1>5, <2>1, <2>2
<1>8. CASE op = "rollup"
  BY <1>1, <1>3, <1>4, <1>5, <1>8, StoreFacts DEF sum
<1>. QED
  BY <1>6, <1>7, <1>8

LEMMA OvertakenGrows ==
    ASSUME TypeOK, NEW k \in Keys, NEW n, Overtakes(k, n), NEW j \in Keys
    PROVE  overtaken[j] \subseteq overtaken'[j]
<1>1. overtaken'[j] = IF j = k THEN overtaken[j] \cup {m \in Unapplied(j) : m < n} ELSE overtaken[j]
  BY DEF Overtakes, TypeOK
<1>. QED
  BY <1>1

LEMMA SummaryCalls ==
    ASSUME SummaryInv, TypeOK', NEW c \in Callers, CallStep(c), NEW j \in Keys
    PROVE  Sound(j)'
<1>0. /\ TypeOK /\ Sound(j) /\ entries \in Entries /\ folded \in Entries /\ seq \in Nat /\ seq + 1 \in Nat
      /\ call[c] \in Call /\ (call[c].op # "idle" => call[c].key \in Keys)
  BY DEF SummaryInv, TypeOK, Entries
<1>1. /\ Speaks(entries[j].rollup, Numbers(j), overtaken[j], seq)
      /\ Speaks(folded[j].rollup, Numbers(j), overtaken[j], seq)
      /\ task[j].op # "none" => Speaks(task[j], Numbers(j), overtaken[j], seq)
      /\ \A d \in Callers : call[d].op = "claim" /\ call[d].key = j =>
            Speaks(call[d], Numbers(j), overtaken[j], seq)
  BY <1>0 DEF Sound
<1>2. NoCall.op = "idle"
  BY NoCallType
<1>3. ASSUME NEW k \in Keys, AppendLog(c, k) PROVE Sound(j)'
  <2>1. CASE j = k
    BY <1>0, <1>3, <2>1, ItemLogged
  <2>2. CASE j # k
    <3>. DEFINE new == Logged("append", k, seq + 1)
    <3>1. /\ call' = [call EXCEPT ![c] = new] /\ call[c].op = "idle"
          /\ seq' = seq + 1 /\ folded' = Appended(folded, k, seq + 1)
          /\ UNCHANGED <<entries, task, overtaken>>
      BY <1>3 DEF AppendLog, Logs, Event, Folded, Logged
    <3>2. new.op = "append" /\ new.key = k
      BY <1>0, LoggedCall DEF Ops
    <3>3. folded'[j] = folded[j]
      BY <1>0, <2>2, <3>1, StoreFacts
    <3>. HIDE DEF new
    <3>4. \A d \in Callers : /\ call'[d].op = "append" /\ call'[d].key = j => call'[d] = call[d]
                             /\ call[d].op = "append" /\ call[d].key = j => call'[d] = call[d]
                             /\ call'[d].op = "claim" /\ call'[d].key = j => call'[d] = call[d]
      BY <1>0, <2>2, <3>1, <3>2 DEF TypeOK
    <3>. QED
      BY <1>0, <1>1, <3>1, <3>3, <3>4, SoundAsBefore
  <2>. QED
    BY <2>1, <2>2
<1>4. CASE AppendApply(c)
  <2>. DEFINE k == call[c].key
              n == call[c].seq
  <2>1. /\ call[c].op = "append" /\ k \in Keys /\ n \in Nat
        /\ entries' = Appended(entries, k, n) /\ Overtakes(k, n)
        /\ UNCHANGED <<seq, folded, task>>
        /\ \E new \in {NoCall, [NoCall EXCEPT !.op = "look", !.key = k]} : call' = [call EXCEPT ![c] = new]
    BY <1>0, <1>4, Fields DEF AppendApply
  <2>2. CASE j = k
    BY <1>0, <1>4, <2>2, ItemApplied
  <2>3. CASE j # k
    <3>1. PICK new \in {NoCall, [NoCall EXCEPT !.op = "look", !.key = k]} : call' = [call EXCEPT ![c] = new]
      BY <2>1
    <3>2. new.op \in {"idle", "look"}
      <4>1. NoCall.op = "idle" /\ [NoCall EXCEPT !.op = "look", !.key = k].op = "look"
        BY DEF NoCall
      <4>. QED
        BY <4>1
    <3>3. entries'[j] = entries[j] /\ overtaken[j] \subseteq overtaken'[j]
      BY <1>0, <2>1, <2>3, StoreFacts, OvertakenGrows
    <3>4. \A d \in Callers : /\ call'[d].op = "append" /\ call'[d].key = j => call'[d] = call[d]
                             /\ call[d].op = "append" /\ call[d].key = j => call'[d] = call[d]
                             /\ call'[d].op = "claim" /\ call'[d].key = j => call'[d] = call[d]
      BY <1>0, <2>1, <2>3, <3>1, <3>2 DEF TypeOK
    <3>. QED
      BY <1>0, <1>1, <2>1, <3>3, <3>4, SoundAsBefore
  <2>. QED
    BY <2>2, <2>3
<1>5. CASE Look(c)
  <2>. DEFINE k == call[c].key
              e == entries[k]
              sum == [call[c] EXCEPT !.op = "claim", !.read = {e.items[i] : i \in Dropped(e)},
                                     !.through = Through(e)]
              new == IF ~NeedsRollup(e) THEN NoCall ELSE sum
  <2>1. /\ call[c].op = "look" /\ call' = [call EXCEPT ![c] = new] /\ k \in Keys
        /\ UNCHANGED <<seq, folded, entries, task, overtaken>>
    BY <1>0, <1>5 DEF Look
  <2>2. /\ sum.op = "claim" /\ sum.key = k
        /\ sum.read = {e.items[i] : i \in Dropped(e)} /\ sum.through = Through(e)
    BY <1>0 DEF Call
  <2>. HIDE DEF sum
  <2>3. new.op \in {"idle", "claim"} /\ (new.op = "claim" => NeedsRollup(e) /\ new = sum)
    BY <1>2, <2>2
  <2>4. new.op = "claim" /\ new.key = j => Speaks(new, Numbers(j), overtaken[j], seq)
    <3>. SUFFICES ASSUME new.op = "claim", new.key = j PROVE Speaks(sum, Numbers(j), overtaken[j], seq)
      BY <2>3
    <3>1. k = j /\ NeedsRollup(e)
      BY <2>2, <2>3
    <3>. QED
      BY <1>0, <2>2, <3>1, DroppedSpeaks
  <2>. HIDE DEF new
  <2>5. /\ \A d \in Callers : /\ call'[d].op = "append" /\ call'[d].key = j => call'[d] = call[d]
                              /\ call[d].op = "append" /\ call[d].key = j => call'[d] = call[d]
        /\ \A d \in Callers : call'[d].op = "claim" /\ call'[d].key = j =>
              Speaks(call'[d], Numbers(j), overtaken[j], seq)
    BY <1>0, <1>1, <2>1, <2>3, <2>4, CallsAsBefore
  <2>. QED
    BY <1>0, <1>1, <2>1, <2>5, SoundAsBefore
<1>6. CASE Claim(c)
  <2>. DEFINE k == call[c].key
              t == [NoTask EXCEPT !.op = "ask", !.read = call[c].read, !.through = call[c].through]
  <2>1. /\ call[c].op = "claim" /\ call' = [call EXCEPT ![c] = NoCall]
        /\ UNCHANGED <<seq, folded, entries, overtaken>>
        /\ task' = task \/ task' = [task EXCEPT ![k] = t]
    BY <1>6 DEF Claim
  <2>2. t.read = call[c].read /\ t.through = call[c].through
    BY DEF NoTask
  <2>. HIDE DEF t
  <2>3. task'[j].op # "none" => Speaks(task'[j], Numbers(j), overtaken[j], seq)
    <3>1. task'[j] = task[j] \/ (k = j /\ task'[j] = t)
      BY <1>0, <2>1 DEF TypeOK
    <3>2. k = j => Speaks(t, Numbers(j), overtaken[j], seq)
      BY <1>1, <2>1, <2>2 DEF Speaks
    <3>. QED
      BY <1>1, <3>1, <3>2
  <2>4. /\ \A d \in Callers : /\ call'[d].op = "append" /\ call'[d].key = j => call'[d] = call[d]
                              /\ call[d].op = "append" /\ call[d].key = j => call'[d] = call[d]
        /\ \A d \in Callers : call'[d].op = "claim" /\ call'[d].key = j =>
              Speaks(call'[d], Numbers(j), overtaken[j], seq)
    BY <1>0, <1>1, <1>2, <2>1, CallsAsBefore
  <2>. QED
    BY <1>0, <1>1, <2>1, <2>3, <2>4, SoundAsBefore
<1>7. ASSUME NEW k \in Keys, NEW match \in -1..MaxEvents, SetCheck(c, k, match) PROVE Sound(j)'
  <2>1. /\ call' = [call EXCEPT ![c] = Setting(k, match)] /\ call[c].op = "idle"
        /\ UNCHANGED <<seq, folded, entries, task, overtaken>>
    BY <1>7 DEF SetCheck, Setting
  <2>2. Setting(k, match).op = "set"
    BY ContextAssumption, SettingCall
  <2>. QED
    BY <1>0, <1>1, <2>1, <2>2, CallsAsBefore, SoundAsBefore
<1>8. CASE SetFails(c)
  <2>1. /\ call' = [call EXCEPT ![c] = NoCall] /\ call[c].op = "set"
        /\ UNCHANGED <<seq, folded, entries, task, overtaken>>
    BY <1>8 DEF SetFails
  <2>. QED
    BY <1>0, <1>1, <1>2, <2>1, CallsAsBefore, SoundAsBefore
<1>9. CASE SetLog(c)
  <2>. DEFINE new == [call[c] EXCEPT !.seq = seq + 1]
  <2>1. /\ call' = [call EXCEPT ![c] = new] /\ call[c].op = "set" /\ call[c].key \in Keys
        /\ Logs(Event("set", call[c].key, {}, 0)) /\ UNCHANGED <<entries, task, overtaken>>
    BY <1>0, <1>9 DEF SetLog
  <2>2. new.op = "set"
    BY <1>0, <2>1 DEF Call
  <2>. HIDE DEF new
  <2>3. /\ seq' \in {seq, seq + 1} /\ folded'[j].items = folded[j].items
        /\ folded'[j].rollup = folded[j].rollup
    BY <1>0, <2>1, NoItemLogged
  <2>. QED
    BY <1>0, <1>1, <2>1, <2>2, <2>3, CallsAsBefore, SoundAsBefore
<1>10. ASSUME NEW k \in Keys, NEW op \in {"pin", "unpin"}, PinLog(c, k, op) PROVE Sound(j)'
  <2>1. /\ call' = [call EXCEPT ![c] = Logged(op, k, seq + 1)] /\ call[c].op = "idle"
        /\ Logs(Event(op, k, {}, 0)) /\ UNCHANGED <<entries, task, overtaken>>
    BY <1>10 DEF PinLog, Logged
  <2>2. Logged(op, k, seq + 1).op = op
    BY <1>0, LoggedCall DEF Ops
  <2>3. /\ seq' \in {seq, seq + 1} /\ folded'[j].items = folded[j].items
        /\ folded'[j].rollup = folded[j].rollup
    BY <1>0, <2>1, NoItemLogged
  <2>. QED
    BY <1>0, <1>1, <2>1, <2>2, <2>3, CallsAsBefore, SoundAsBefore
<1>11. CASE SetApply(c) \/ PinApply(c)
  <2>. DEFINE k == call[c].key
  <2>1. /\ call' = [call EXCEPT ![c] = NoCall] /\ call[c].op \in {"set", "pin", "unpin"} /\ k \in Keys
        /\ Overtakes(k, call[c].seq) /\ UNCHANGED <<seq, folded, task>>
        /\ \/ entries' = SetTo(entries, k, call[c].seq)
           \/ entries' = Pinned(entries, k, call[c].op = "pin")
    BY <1>0, <1>11 DEF SetApply, PinApply
  <2>2. call[c].seq \in Nat /\ (call[c].op = "pin") \in BOOLEAN
    BY <1>0, Fields
  <2>. HIDE DEF k
  <2>3. /\ entries'[j].items = entries[j].items /\ entries'[j].rollup = entries[j].rollup
        /\ entries'[j].kind # "value" => entries[j].kind # "value"
    <3>1. CASE entries' = SetTo(entries, k, call[c].seq)
      BY <1>0, <2>1, <2>2, <3>1, StoreFacts
    <3>2. CASE entries' = Pinned(entries, k, call[c].op = "pin")
      <4>. DEFINE on == call[c].op = "pin"
      <4>1. on \in BOOLEAN /\ entries' = Pinned(entries, k, on)
        BY <3>2
      <4>. HIDE DEF on
      <4>. QED
        BY <1>0, <2>1, <4>1, StoreFacts
    <3>. QED
      BY <2>1, <3>1, <3>2
  <2>4. overtaken[j] \subseteq overtaken'[j]
    BY <1>0, <2>1, OvertakenGrows
  <2>. QED
    BY <1>0, <1>1, <1>2, <2>1, <2>3, <2>4, CallsAsBefore, SoundAsBefore
<1>. QED
  BY <1>3, <1>4, <1>5, <1>6, <1>7, <1>8, <1>9, <1>10, <1>11 DEF CallStep

LEMMA SummaryTasks ==
    ASSUME SummaryInv, TypeOK', NEW k \in Keys, TaskStep(k), NEW j \in Keys
    PROVE  Sound(j)'
<1>0. /\ TypeOK /\ Sound(j) /\ entries \in Entries /\ task \in [Keys -> Task] /\ call' = call
      /\ task[k].read \in SUBSET Nat /\ task[k].through \in Nat
  BY Fields DEF SummaryInv, TypeOK, Entries, TaskStep, RollupLog, RollupApply, RollupFails
<1>1. /\ Speaks(entries[j].rollup, Numbers(j), overtaken[j], seq)
      /\ Speaks(folded[j].rollup, Numbers(j), overtaken[j], seq)
      /\ task[j].op # "none" => Speaks(task[j], Numbers(j), overtaken[j], seq)
      /\ \A d \in Callers : call[d].op = "claim" /\ call[d].key = j =>
            Speaks(call[d], Numbers(j), overtaken[j], seq)
  BY <1>0 DEF Sound
<1>. DEFINE sum == [read |-> task[k].read, through |-> task[k].through]
<1>2. sum.read = task[k].read /\ sum.through = task[k].through /\ sum \in Rollup
  BY <1>0 DEF Rollup
<1>3. j = k /\ task[k].op # "none" => Speaks(sum, Numbers(j), overtaken[j], seq)
  BY <1>1, <1>2 DEF Speaks
<1>4. CASE RollupLog(k)
  <2>. DEFINE t == [task[k] EXCEPT !.op = "logged", !.seq = seq + 1]
  <2>1. /\ task[k].op = "ask" /\ Logs(Event("rollup", k, task[k].read, task[k].through))
        /\ task' = [task EXCEPT ![k] = t] /\ UNCHANGED <<entries, overtaken>>
    BY <1>0, <1>4 DEF RollupLog
  <2>2. t.read = task[k].read /\ t.through = task[k].through
    BY <1>0 DEF Task
  <2>. HIDE DEF t
  <2>3. /\ seq' \in {seq, seq + 1} /\ folded'[j].items = folded[j].items
        /\ folded'[j].rollup = folded[j].rollup \/ (j = k /\ folded'[j].rollup = sum)
    BY <1>0, <2>1, NoItemLogged
  <2>. HIDE DEF sum
  <2>4. Speaks(folded'[j].rollup, Numbers(j), overtaken[j], seq)
    BY <1>1, <1>3, <2>1, <2>3
  <2>5. task'[j].op # "none" => Speaks(task'[j], Numbers(j), overtaken[j], seq)
    <3>1. CASE j = k
      BY <1>0, <1>1, <2>1, <2>2, <3>1 DEF Speaks
    <3>2. CASE j # k
      BY <1>0, <1>1, <2>1, <3>2
    <3>. QED
      BY <3>1, <3>2
  <2>. QED
    BY <1>0, <1>1, <2>1, <2>3, <2>4, <2>5, SoundAsBefore
<1>5. CASE RollupApply(k)
  <2>1. /\ task[k].op = "logged" /\ entries' = RolledUp(entries, k, sum)
        /\ Overtakes(k, task[k].seq) /\ task' = [task EXCEPT ![k] = NoTask] /\ UNCHANGED <<seq, folded>>
    BY <1>5 DEF RollupApply
  <2>. HIDE DEF sum
  <2>2. /\ entries'[j].items = entries[j].items /\ entries'[j].kind = entries[j].kind
        /\ entries'[j].rollup = entries[j].rollup \/ (j = k /\ entries'[j].rollup = sum)
    BY <1>0, <1>2, <2>1, StoreFacts
  <2>3. Speaks(entries'[j].rollup, Numbers(j), overtaken[j], seq)
    BY <1>1, <1>3, <2>1, <2>2
  <2>4. task'[j].op # "none" => Speaks(task'[j], Numbers(j), overtaken[j], seq)
    <3>1. NoTask.op = "none"
      BY DEF NoTask
    <3>. QED
      BY <1>0, <1>1, <2>1, <3>1
  <2>5. overtaken[j] \subseteq overtaken'[j]
    BY <1>0, <2>1, OvertakenGrows
  <2>. QED
    BY <1>0, <1>1, <2>1, <2>2, <2>3, <2>4, <2>5, SoundAsBefore
<1>6. CASE RollupFails(k)
  <2>1. task' = [task EXCEPT ![k] = NoTask] /\ UNCHANGED <<seq, folded, entries, overtaken>>
    BY <1>6 DEF RollupFails
  <2>2. task'[j].op # "none" => Speaks(task'[j], Numbers(j), overtaken[j], seq)
    <3>1. NoTask.op = "none"
      BY DEF NoTask
    <3>. QED
      BY <1>0, <1>1, <2>1, <3>1
  <2>. QED
    BY <1>0, <1>1, <2>1, <2>2, SoundAsBefore
<1>. QED
  BY <1>4, <1>5, <1>6 DEF TaskStep

LEMMA SummaryInit == Init => SummaryInv
<1>. SUFFICES ASSUME Init PROVE SummaryInv
  OBVIOUS
<1>1. TypeOK
  BY ContextInitType
<1>2. /\ NoCall.op = "idle" /\ NoTask.op = "none" /\ NoEntry.items = <<>>
      /\ NoEntry.rollup = [read |-> {}, through |-> 0]
  BY DEF NoCall, NoTask, NoEntry, NoRollup
<1>3. ASSUME NEW k \in Keys PROVE Sound(k)
  <2>1. /\ entries[k] = NoEntry /\ folded[k] = NoEntry /\ task[k] = NoTask /\ seq = 0
        /\ \A c \in Callers : call[c] = NoCall
    BY DEF Init
  <2>2. Items(NoEntry) = {} /\ InOrder(NoEntry, overtaken[k])
    BY <1>2 DEF Items, InOrder
  <2>3. Joining(k) = {}
    BY <1>2, <2>1 DEF Joining
  <2>4. Numbers(k) = {}
    BY <2>1, <2>2, <2>3 DEF Numbers
  <2>5. Speaks(NoEntry.rollup, Numbers(k), overtaken[k], seq)
    BY <1>2, <2>1, <2>4 DEF Speaks
  <2>. QED
    BY <1>2, <2>1, <2>2, <2>3, <2>4, <2>5 DEF Sound
<1>. QED
  BY <1>1, <1>3 DEF SummaryInv

LEMMA SummaryRebuilt ==
    ASSUME TypeOK, NEW k \in Keys, Sound(k), Restart
    PROVE  Sound(k)'
<1>1. /\ entries'[k] = folded[k] /\ task'[k] = NoTask /\ \A c \in Callers : call'[c] = NoCall
      /\ UNCHANGED <<seq, folded, overtaken>>
  BY DEF Restart
<1>2. NoCall.op = "idle" /\ NoTask.op = "none"
  BY DEF NoCall, NoTask
<1>3. Joining(k)' = {}
  BY <1>1, <1>2 DEF Joining
<1>4. Numbers(k)' = Items(folded[k])
  BY <1>1, <1>3 DEF Numbers
<1>5. \A i \in Numbers(k)' : i \in Numbers(k)
  BY <1>4 DEF Numbers
<1>6. Speaks(folded[k].rollup, Numbers(k)', overtaken[k], seq)
  BY <1>5 DEF Sound, Speaks
<1>7. (\A i \in Numbers(k)' : i \in 1..seq) /\ InOrder(folded[k], overtaken[k])
  BY <1>5 DEF Sound
<1>. QED
  BY <1>1, <1>2, <1>6, <1>7 DEF Sound

LEMMA SummaryStep == SummaryInv /\ [Next]_vars => SummaryInv'
<1>. SUFFICES ASSUME SummaryInv, [Next]_vars PROVE SummaryInv'
  OBVIOUS
<1>0. TypeOK /\ TypeOK'
  BY ContextStepType DEF SummaryInv
<1>1. CASE Restart
  BY <1>0, <1>1, SummaryRebuilt DEF SummaryInv
<1>2. CASE UNCHANGED vars
  <2>1. UNCHANGED <<seq, folded, entries, call, task, overtaken>>
    BY <1>2 DEF vars
  <2>2. ASSUME NEW k \in Keys PROVE Sound(k)'
    <3>1. Sound(k) /\ Joining(k)' = Joining(k) /\ Numbers(k)' = Numbers(k)
      BY <2>1 DEF SummaryInv, Joining, Numbers
    <3>. QED
      BY <2>1, <3>1 DEF Sound
  <2>. QED
    BY <1>0, <2>2 DEF SummaryInv
<1>. QED
  BY <1>0, <1>1, <1>2, SummaryCalls, SummaryTasks DEF Next, SummaryInv

(* An item passes for summarised only if the summary was made from it, or if *)
(* it was applied after a later event of its entry, however many items       *)
(* joined and were summarised, and whatever a restart brought back, in the   *)
(* meantime (maybe_rollup, rollup_pending and Entry::rollup).               *)
THEOREM SummariesReadWhatTheyCover == Spec => []CoveredWasRead
<1>1. SummaryInv => CoveredWasRead
  <2>. SUFFICES ASSUME SummaryInv, NEW k \in Keys
                PROVE  Covered(entries[k]) \subseteq entries[k].rollup.read \cup overtaken[k]
    BY DEF CoveredWasRead
  <2>. DEFINE e == entries[k]
  <2>1. TypeOK /\ Speaks(e.rollup, Numbers(k), overtaken[k], seq)
    BY DEF SummaryInv, Sound
  <2>2. DOMAIN e.items = 1..Len(e.items) /\ Len(e.items) \in Nat /\ Shown \in Nat
    BY <2>1, ContextAssumption, Fields DEF Entry
  <2>3. Dropped(e) \subseteq DOMAIN e.items /\ \A i \in DOMAIN e.items : e.items[i] \in Numbers(k)
    BY <2>2 DEF Dropped, Numbers, Items
  <2>. HIDE DEF e
  <2>. QED
    BY <2>1, <2>3 DEF Covered, Speaks, e
<1>. QED
  BY <1>1, SummaryInit, SummaryStep, PTL DEF Spec

=============================================================================
