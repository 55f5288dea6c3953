--------------------------- MODULE EventLogProofs ---------------------------
(* Theorems about the event log: its durable store (EventFile), for every   *)
(* set of callers and every bound, and the stream that clients follow it by *)
(* (EventStream), for every set of writers, rooms and clients, every        *)
(* capacity of the channel and every bound.                                 *)
EXTENDS EventFile, EventStream, SequenceTheorems, TLAPS

(***************************************************************************)
(* The durable store: types.                                               *)
(***************************************************************************)

(* Sequences, element by element. *)
LEMMA Elements ==
    ASSUME NEW S, NEW s \in Seq(S)
    PROVE  /\ Len(s) \in Nat /\ DOMAIN s = 1..Len(s)
           /\ \A k \in 1..Len(s) : s[k] \in S
OBVIOUS

LEMMA Appending ==
    ASSUME NEW S, NEW s \in Seq(S), NEW e \in S
    PROVE  /\ Append(s, e) \in Seq(S) /\ Len(Append(s, e)) = Len(s) + 1
           /\ \A k \in 1..Len(s) : Append(s, e)[k] = s[k]
           /\ Append(s, e)[Len(s) + 1] = e
OBVIOUS

LEMMA WrittenType ==
    ASSUME NEW l \in Line, NEW end \in Endings
    PROVE  Written(l, end) \in OnDisk
BY DEF Line, OnDisk, Written

(* What a crash leaves: a prefix at least as long as what was synced, the   *)
(* synced part of it as it was, and the numbers of all of it.               *)
LEMMA CrashKeepsSynced ==
    ASSUME FileTypeOK, Crash
    PROVE  /\ disk' \in Seq(OnDisk) /\ synced' = Len(disk') /\ synced <= Len(disk')
           /\ \A k \in 1..synced : disk'[k] = disk[k]
           /\ \A k \in 1..Len(disk') : k \in 1..Len(disk) /\ disk'[k].seq = disk[k].seq
<1>0. /\ disk \in Seq(OnDisk) /\ synced \in Nat /\ synced <= Len(disk) /\ Len(disk) \in Nat
      /\ \A k \in 1..Len(disk) : disk[k] \in OnDisk
  BY Elements DEF FileTypeOK
<1>1. PICK n \in synced..Len(disk) :
        \/ disk' = SubSeq(disk, 1, n)
        \/ /\ n > synced /\ disk[n].end = "line"
           /\ \E end \in {"bare", "cut"} : disk' = [SubSeq(disk, 1, n) EXCEPT ![n].end = end]
  BY DEF Crash
<1>2. /\ n \in Nat /\ synced <= n /\ n <= Len(disk)
      /\ SubSeq(disk, 1, n) \in Seq(OnDisk) /\ Len(SubSeq(disk, 1, n)) = n
      /\ \A k \in 1..n : SubSeq(disk, 1, n)[k] = disk[k]
  BY <1>0, <1>1
<1>3. CASE disk' = SubSeq(disk, 1, n)
  BY <1>0, <1>2, <1>3 DEF Crash
<1>4. ASSUME NEW end \in {"bare", "cut"}, n > synced,
             disk' = [SubSeq(disk, 1, n) EXCEPT ![n].end = end]
      PROVE  /\ disk' \in Seq(OnDisk) /\ synced' = Len(disk') /\ synced <= Len(disk')
             /\ \A k \in 1..synced : disk'[k] = disk[k]
             /\ \A k \in 1..Len(disk') : k \in 1..Len(disk) /\ disk'[k].seq = disk[k].seq
  <2>1. n \in 1..n /\ disk[n] \in OnDisk
    BY <1>0, <1>2, <1>4
  <2>2. [disk[n] EXCEPT !.end = end] \in OnDisk
    BY <2>1 DEF OnDisk, Endings
  <2>3. disk' = [SubSeq(disk, 1, n) EXCEPT ![n] = [disk[n] EXCEPT !.end = end]]
    BY <1>2, <1>4, <2>1
  <2>. DEFINE kept == SubSeq(disk, 1, n)
              lastLine == [disk[n] EXCEPT !.end = end]
  <2>4. /\ disk' \in Seq(OnDisk) /\ Len(disk') = n
        /\ \A k \in 1..n : disk'[k] = IF k = n THEN lastLine ELSE kept[k]
    <3>1. kept \in Seq(OnDisk) /\ Len(kept) = n /\ lastLine \in OnDisk /\ disk' = [kept EXCEPT ![n] = lastLine]
      BY <1>2, <2>2, <2>3
    <3>. HIDE DEF kept, lastLine
    <3>2. /\ [kept EXCEPT ![n] = lastLine] \in Seq(OnDisk) /\ Len([kept EXCEPT ![n] = lastLine]) = Len(kept)
          /\ \A k \in 1..Len(kept) : [kept EXCEPT ![n] = lastLine][k] = IF k = n THEN lastLine ELSE kept[k]
      BY <2>1, <3>1, ExceptSeq
    <3>. QED
      BY <3>1, <3>2
  <2>5. \A k \in 1..synced : disk'[k] = disk[k]
    BY <1>0, <1>2, <1>4, <2>4
  <2>6. \A k \in 1..Len(disk') : k \in 1..Len(disk) /\ disk'[k].seq = disk[k].seq
    <3>1. lastLine.seq = disk[n].seq
      BY <2>1 DEF OnDisk
    <3>2. \A k \in 1..n : kept[k] = disk[k]
      BY <1>2
    <3>. HIDE DEF kept, lastLine
    <3>. QED
      BY <1>0, <1>2, <2>4, <3>1, <3>2
  <2>. QED
    BY <1>2, <2>4, <2>5, <2>6 DEF Crash
<1>. QED
  BY <1>1, <1>3, <1>4

LEMMA FileInitType == FileInit => FileTypeOK
BY FileAssumption DEF FileInit, FileTypeOK, NoLine, Line

LEMMA LeavesType ==
    ASSUME FileTypeOK, NEW c \in Callers, pc[c] # "idle", Leaves(c)
    PROVE  /\ lock' \in Callers \cup {None}
           /\ pc' \in [Callers -> {"idle", "write", "sync"}]
           /\ line' \in [Callers -> Line]
           /\ \A d \in Callers : pc'[d] # "idle" <=> lock' = d
<1>1. lock = c /\ \A d \in Callers : d # c => pc[d] = "idle"
  BY DEF FileTypeOK
<1>2. lock' = None /\ \A d \in Callers : pc'[d] = "idle"
  BY <1>1 DEF Leaves, FileTypeOK
<1>3. NoLine \in Line
  BY DEF NoLine, Line
<1>. QED
  BY <1>2, <1>3, FileAssumption DEF Leaves, FileTypeOK

LEMMA AppendKeepsType ==
    ASSUME FileTypeOK, NEW c \in Callers,
           Begin(c) \/ Write(c) \/ Publish(c) \/ WriteFails(c) \/ SyncFails(c) \/ Drop(c)
    PROVE  FileTypeOK'
<1>0. /\ line[c] \in Line /\ line[c].id \in Nat /\ Len(mem) \in Nat /\ Len(disk) \in Nat
      /\ synced \in 0..Len(disk) /\ disk \in Seq(OnDisk)
  BY DEF FileTypeOK, Line
<1>1. CASE Begin(c)
  <2>1. [id |-> minted + 1, seq |-> Len(mem) + 1] \in Line
    BY <1>0 DEF FileTypeOK, Line
  <2>2. \A d \in Callers : pc[d] = "idle"
    BY <1>1, FileAssumption DEF Begin, FileTypeOK
  <2>. QED
    BY <1>1, <2>1, <2>2 DEF Begin, Takes, FileTypeOK, diskVars, fileBounds
<1>2. CASE Write(c)
  <2>1. Written(line[c], "line") \in OnDisk
    BY <1>0, WrittenType DEF Endings
  <2>2. disk' \in Seq(OnDisk) /\ synced' \in 0..Len(disk')
    BY <1>0, <1>2, <2>1, Appending DEF Write
  <2>. QED
    BY <1>2, <2>2 DEF Write, FileTypeOK, fileBounds
<1>3. CASE Publish(c)
  <2>1. pc[c] # "idle" /\ Leaves(c)
    BY <1>3 DEF Publish
  <2>2. Append(mem, line[c].id) \in Seq(Nat)
    BY <1>0 DEF FileTypeOK
  <2>3. accepted' \subseteq Line /\ synced' \in 0..Len(disk')
    BY <1>0, <1>3 DEF Publish, FileTypeOK
  <2>. QED
    BY <1>3, <2>1, <2>2, <2>3, LeavesType DEF Publish, FileTypeOK, fileBounds
<1>4. CASE WriteFails(c)
  <2>1. pc[c] # "idle" /\ Leaves(c) /\ failures' \in Nat
    BY <1>4 DEF WriteFails, Fault, FileTypeOK
  <2>2. disk' \in Seq(OnDisk) /\ synced' \in 0..Len(disk')
    <3>1. \A end \in {"bare", "cut"} : Written(line[c], end) \in OnDisk
      BY <1>0, WrittenType DEF Endings
    <3>2. CASE disk' = disk
      BY <1>0, <1>4, <3>2 DEF WriteFails
    <3>3. ASSUME NEW end \in {"bare", "cut"}, disk' = Append(disk, Written(line[c], end))
          PROVE  disk' \in Seq(OnDisk) /\ synced' \in 0..Len(disk')
      BY <1>0, <1>4, <3>1, <3>3, Appending DEF WriteFails
    <3>. QED
      BY <1>4, <3>2, <3>3 DEF WriteFails
  <2>. QED
    BY <1>4, <2>1, <2>2, LeavesType DEF WriteFails, FileTypeOK
<1>5. CASE SyncFails(c)
  <2>1. pc[c] # "idle" /\ Leaves(c) /\ failures' \in Nat
    BY <1>5 DEF SyncFails, Fault, FileTypeOK
  <2>. QED
    BY <1>5, <2>1, LeavesType DEF SyncFails, FileTypeOK, diskVars
<1>6. CASE Drop(c)
  <2>1. pc[c] # "idle" /\ Leaves(c) /\ drops' \in Nat
    BY <1>6 DEF Drop, FileTypeOK
  <2>2. inFlight' \subseteq Line
    BY <1>0, <1>6 DEF Drop, FileTypeOK
  <2>. QED
    BY <1>6, <2>1, <2>2, LeavesType DEF Drop, FileTypeOK
<1>. QED
  BY <1>1, <1>2, <1>3, <1>4, <1>5, <1>6

LEMMA FileStepType == FileTypeOK /\ [FileNext]_fileVars => FileTypeOK'
<1> SUFFICES ASSUME FileTypeOK, [FileNext]_fileVars PROVE FileTypeOK'
  OBVIOUS
<1>1. ASSUME NEW l \in inFlight, Lands(l) PROVE FileTypeOK'
  <2>1. disk' \in Seq(OnDisk) /\ synced' \in 0..Len(disk')
    <3>1. Written(l, "line") \in OnDisk
      BY WrittenType DEF FileTypeOK, Endings
    <3>2. disk \in Seq(OnDisk) /\ Len(disk) \in Nat /\ synced \in 0..Len(disk)
      BY Elements DEF FileTypeOK
    <3>. QED
      BY <1>1, <3>1, <3>2, Appending DEF Lands
  <2>. QED
    BY <1>1, <2>1 DEF Lands, FileTypeOK, memVars, fileBounds
<1>2. CASE Crash
  <2>1. disk' \in Seq(OnDisk) /\ synced' \in 0..Len(disk')
    BY <1>2, CrashKeepsSynced, Elements DEF FileTypeOK
  <2>2. NoLine \in Line
    BY DEF NoLine, Line
  <2>. QED
    BY SMTT(30), <1>2, <2>1, <2>2, FileAssumption DEF Crash, FileTypeOK
<1>3. CASE Open
  <2>1. [k \in DOMAIN disk |-> disk[k].id] \in Seq(Nat)
    <3>0. disk \in Seq(OnDisk)
      BY DEF FileTypeOK
    <3>1. Len(disk) \in Nat /\ DOMAIN disk = 1..Len(disk) /\ \A k \in 1..Len(disk) : disk[k].id \in Nat
      <4>1. \A d \in OnDisk : d.id \in Nat
        BY DEF OnDisk
      <4>. QED
        BY <3>0, <4>1, Elements
    <3>2. [k \in DOMAIN disk |-> disk[k].id] \in [1..Len(disk) -> Nat]
      BY <3>1
    <3>. QED
      BY <3>1, <3>2, SeqDef
  <2>. QED
    BY <1>3, <2>1 DEF Open, FileTypeOK, diskVars, fileBounds
<1>4. CASE UNCHANGED fileVars
  BY <1>4 DEF fileVars, diskVars, memVars, fileBounds, FileTypeOK
<1>. QED
  BY <1>1, <1>2, <1>3, <1>4, AppendKeepsType DEF FileNext

(* Every variable keeps its type, and whatever fails, hangs up or crashes,  *)
(* the write lock is held by the append in progress and by nothing else.    *)
THEOREM FileTypeCorrect == FileSpec => []FileTypeOK
BY FileInitType, FileStepType, PTL DEF FileSpec

(***************************************************************************)
(* Durability.                                                             *)
(***************************************************************************)

(* The file holds l, in full, among its first n events. *)
Holds(l, n) ==
    \E k \in 1..n : disk[k].id = l.id /\ disk[k].seq = l.seq /\ disk[k].end # "cut"

(* Beside what was accepted, the event of an append about to sync is in the *)
(* file: that sync is the one that makes it durable.                        *)
Durable ==
    /\ \A l \in accepted : Holds(l, synced)
    /\ \A c \in Callers : pc[c] = "sync" => Holds(line[c], Len(disk))

(* The file only grows, and what is synced stays. *)
LEMMA DurableStable ==
    ASSUME FileTypeOK, Durable,
           Len(disk') \in Nat, Len(disk) <= Len(disk'), synced' = synced,
           \A k \in 1..Len(disk) : disk'[k] = disk[k],
           accepted' = accepted,
           \A c \in Callers : pc'[c] = "sync" =>
               (pc[c] = "sync" /\ line'[c] = line[c]) \/ Holds(line[c], Len(disk))'
    PROVE  Durable'
<1>1. Len(disk) \in Nat /\ synced \in Nat /\ synced <= Len(disk)
  BY Elements DEF FileTypeOK
<1>2. \A l : Holds(l, synced) => \E k \in 1..synced :
                disk'[k].id = l.id /\ disk'[k].seq = l.seq /\ disk'[k].end # "cut"
  BY <1>1 DEF Holds
<1>3. \A l : Holds(l, Len(disk)) => \E k \in 1..Len(disk') :
                disk'[k].id = l.id /\ disk'[k].seq = l.seq /\ disk'[k].end # "cut"
  BY <1>1 DEF Holds
<1>4. ASSUME NEW l \in accepted PROVE Holds(l, synced)'
  <2>1. Holds(l, synced)
    BY DEF Durable
  <2>2. PICK k \in 1..synced : disk'[k].id = l.id /\ disk'[k].seq = l.seq /\ disk'[k].end # "cut"
    BY <1>2, <2>1
  <2>. QED
    BY <2>2 DEF Holds
<1>5. ASSUME NEW c \in Callers, pc'[c] = "sync" PROVE Holds(line[c], Len(disk))'
  <2>1. CASE pc[c] = "sync" /\ line'[c] = line[c]
    <3>1. Holds(line[c], Len(disk))
      BY <2>1 DEF Durable
    <3>2. PICK k \in 1..Len(disk') : disk'[k].id = line[c].id /\ disk'[k].seq = line[c].seq
                                      /\ disk'[k].end # "cut"
      BY <1>3, <3>1
    <3>. QED
      BY <2>1, <3>2 DEF Holds
  <2>. QED
    BY <1>5, <2>1
<1>6. \A l \in accepted' : Holds(l, synced)'
  BY <1>4
<1>. QED
  BY <1>5, <1>6 DEF Durable

LEMMA DurableStep == FileTypeOK /\ Durable /\ [FileNext]_fileVars => Durable'
<1> SUFFICES ASSUME FileTypeOK, Durable, [FileNext]_fileVars PROVE Durable'
  OBVIOUS
<1>0. /\ Len(disk) \in Nat /\ synced \in Nat /\ synced <= Len(disk) /\ disk \in Seq(OnDisk)
      /\ pc \in [Callers -> {"idle", "write", "sync"}] /\ line \in [Callers -> Line]
  BY Elements DEF FileTypeOK
<1>1. ASSUME NEW c \in Callers, Begin(c) \/ SyncFails(c) \/ Drop(c) PROVE Durable'
  <2>1. /\ disk' = disk /\ synced' = synced /\ accepted' = accepted
        /\ \A d \in Callers : pc'[d] = "sync" => pc[d] = "sync" /\ line'[d] = line[d]
    BY <1>0, <1>1 DEF Begin, Takes, SyncFails, Drop, Leaves, diskVars
  <2>. QED
    BY <1>0, <2>1, DurableStable
<1>2. ASSUME NEW c \in Callers, Write(c) PROVE Durable'
  <2>1. /\ disk' = Append(disk, Written(line[c], "line"))
        /\ Written(line[c], "line") \in OnDisk
    BY <1>0, <1>2, WrittenType DEF Write, Endings
  <2>2. /\ Len(disk') = Len(disk) + 1 /\ \A k \in 1..Len(disk) : disk'[k] = disk[k]
        /\ disk'[Len(disk) + 1] = Written(line[c], "line")
    BY <1>0, <2>1, Appending
  <2>3. line' = line /\ accepted' = accepted /\ synced' = synced
        /\ \A d \in Callers : d # c => pc'[d] = pc[d]
    BY <1>0, <1>2 DEF Write
  <2>4. Holds(line[c], Len(disk))'
    <3>1. /\ Len(disk') \in 1..Len(disk')
          /\ disk'[Len(disk')].id = line'[c].id /\ disk'[Len(disk')].seq = line'[c].seq
          /\ disk'[Len(disk')].end # "cut"
      BY <1>0, <2>2, <2>3 DEF Written
    <3>. QED
      BY <3>1 DEF Holds
  <2>. QED
    BY <1>0, <2>2, <2>3, <2>4, DurableStable
<1>3. ASSUME NEW c \in Callers, WriteFails(c) PROVE Durable'
  <2>1. /\ synced' = synced /\ accepted' = accepted
        /\ \A d \in Callers : pc'[d] = "sync" => pc[d] = "sync" /\ line'[d] = line[d]
    BY <1>0, <1>3 DEF WriteFails, Leaves
  <2>2. CASE disk' = disk
    BY <1>0, <2>1, <2>2, DurableStable
  <2>3. ASSUME NEW end \in {"bare", "cut"}, disk' = Append(disk, Written(line[c], end))
        PROVE  Durable'
    <3>1. Written(line[c], end) \in OnDisk
      BY <1>0, WrittenType DEF Endings
    <3>2. Len(disk') = Len(disk) + 1 /\ \A k \in 1..Len(disk) : disk'[k] = disk[k]
      BY <1>0, <2>3, <3>1, Appending
    <3>. QED
      BY <1>0, <2>1, <3>2, DurableStable
  <2>. QED
    BY <1>3, <2>2, <2>3 DEF WriteFails
<1>4. ASSUME NEW c \in Callers, Publish(c) PROVE Durable'
  <2>1. /\ disk' = disk /\ synced' = Len(disk) /\ accepted' = accepted \cup {line[c]}
        /\ pc[c] = "sync" /\ \A d \in Callers : pc'[d] = "sync" => pc[d] = "sync" /\ line'[d] = line[d]
    BY <1>0, <1>4 DEF Publish, Leaves
  <2>2. \A l \in accepted' : Holds(l, Len(disk))
    BY <1>0, <2>1 DEF Durable, Holds
  <2>. QED
    BY <2>1, <2>2 DEF Durable, Holds
<1>5. ASSUME NEW l \in inFlight, Lands(l) PROVE Durable'
  <2>1. /\ disk' = Append(disk, Written(l, "line")) /\ Written(l, "line") \in OnDisk
        /\ synced' = synced /\ accepted' = accepted /\ pc' = pc /\ line' = line
    BY <1>5, WrittenType DEF Lands, memVars, FileTypeOK, Endings
  <2>2. Len(disk') = Len(disk) + 1 /\ \A k \in 1..Len(disk) : disk'[k] = disk[k]
    BY <1>0, <2>1, Appending
  <2>. QED
    BY <1>0, <2>1, <2>2, DurableStable
<1>6. CASE Crash
  <2>1. /\ accepted' = accepted /\ \A c \in Callers : pc'[c] # "sync"
    BY <1>6 DEF Crash
  <2>2. synced <= synced' /\ synced' \in Nat /\ \A k \in 1..synced : disk'[k] = disk[k]
    BY <1>6, CrashKeepsSynced, Elements
  <2>3. \A l \in accepted : \E k \in 1..synced' :
            disk'[k].id = l.id /\ disk'[k].seq = l.seq /\ disk'[k].end # "cut"
    BY <1>0, <2>2 DEF Durable, Holds
  <2>. QED
    BY <2>1, <2>3 DEF Durable, Holds
<1>7. CASE Open \/ UNCHANGED fileVars
  <2>1. disk' = disk /\ synced' = synced /\ accepted' = accepted /\ pc' = pc /\ line' = line
    BY <1>7 DEF Open, fileVars, diskVars, memVars
  <2>. QED
    BY <1>0, <2>1, DurableStable
<1>. QED
  BY <1>1, <1>2, <1>3, <1>4, <1>5, <1>6, <1>7 DEF FileNext

(* FileStore::append syncs before it publishes: no crash, failed write or   *)
(* dropped caller, now or later, takes an accepted event from the file.     *)
THEOREM AcceptedStays == FileSpec => []AcceptedIsDurable
<1>1. FileInit => Durable
  BY DEF FileInit, Durable
<1>2. FileTypeOK /\ Durable /\ [FileNext]_fileVars => Durable'
  BY DurableStep
<1>3. Durable => AcceptedIsDurable
  BY DEF Durable, Holds, AcceptedIsDurable
<1>. QED
  BY <1>1, <1>2, <1>3, FileTypeCorrect, PTL DEF FileSpec

(***************************************************************************)
(* Numbers.                                                                *)
(***************************************************************************)

(* An append is in progress only while the server is up, and writes the     *)
(* next number of the projection.                                          *)
NextNumber == \A c \in Callers : pc[c] # "idle" => server = "up" /\ line[c].seq = Len(mem) + 1

LEMMA NextNumberStep == FileTypeOK /\ NextNumber /\ [FileNext]_fileVars => NextNumber'
<1> SUFFICES ASSUME FileTypeOK, NextNumber, [FileNext]_fileVars PROVE NextNumber'
  OBVIOUS
<1>0. pc \in [Callers -> {"idle", "write", "sync"}] /\ line \in [Callers -> Line]
      /\ \A c, d \in Callers : pc[c] # "idle" /\ pc[d] # "idle" => c = d
  BY DEF FileTypeOK
<1>1. ASSUME NEW c \in Callers, Begin(c) PROVE NextNumber'
  <2>1. \A d \in Callers : pc[d] = "idle"
    BY <1>1, FileAssumption DEF Begin, FileTypeOK
  <2>. QED
    BY <1>0, <1>1, <2>1 DEF Begin, Takes, NextNumber
<1>2. ASSUME NEW c \in Callers, Write(c) PROVE NextNumber'
  BY <1>0, <1>2 DEF Write, NextNumber
<1>3. ASSUME NEW c \in Callers, Publish(c) \/ WriteFails(c) \/ SyncFails(c) \/ Drop(c) PROVE NextNumber'
  <2>1. \A d \in Callers : pc'[d] = "idle"
    BY <1>0, <1>3 DEF Publish, WriteFails, SyncFails, Drop, Leaves
  <2>. QED
    BY <2>1 DEF NextNumber
<1>4. ASSUME NEW l \in inFlight, Lands(l) PROVE NextNumber'
  BY <1>4 DEF Lands, memVars, NextNumber
<1>5. CASE Crash
  BY <1>5 DEF Crash, NextNumber
<1>6. CASE Open
  BY <1>6 DEF Open, NextNumber
<1>7. CASE UNCHANGED fileVars
  BY <1>7 DEF fileVars, memVars, NextNumber
<1>. QED
  BY <1>1, <1>2, <1>3, <1>4, <1>5, <1>6, <1>7 DEF FileNext

LEMMA NumbersStep ==
    FileTypeOK /\ Durable /\ NextNumber /\ NumbersAreStable /\ [FileNext]_fileVars => NumbersAreStable'
<1> SUFFICES ASSUME FileTypeOK, Durable, NextNumber, NumbersAreStable, [FileNext]_fileVars PROVE NumbersAreStable'
  OBVIOUS
<1>1. ASSUME UNCHANGED <<server, mem, accepted>> PROVE NumbersAreStable'
  BY <1>1 DEF NumbersAreStable
<1>2. ASSUME NEW c \in Callers, Begin(c) \/ Write(c) \/ WriteFails(c) \/ SyncFails(c) \/ Drop(c)
      PROVE  NumbersAreStable'
  BY <1>1, <1>2 DEF Begin, Takes, Write, WriteFails, SyncFails, Drop
<1>3. ASSUME NEW c \in Callers, Publish(c) PROVE NumbersAreStable'
  <2>1. /\ server = "up" /\ line[c].seq = Len(mem) + 1 /\ line[c].id \in Nat /\ mem \in Seq(Nat)
        /\ mem' = Append(mem, line[c].id) /\ accepted' = accepted \cup {line[c]}
    BY <1>3 DEF Publish, NextNumber, FileTypeOK, Line
  <2>2. /\ Len(mem) \in Nat /\ DOMAIN mem = 1..Len(mem) /\ DOMAIN mem' = 1..(Len(mem) + 1)
        /\ mem'[Len(mem) + 1] = line[c].id /\ \A k \in 1..Len(mem) : mem'[k] = mem[k]
    BY <2>1, Elements, Appending
  <2>. QED
    BY <2>1, <2>2 DEF NumbersAreStable
<1>4. ASSUME NEW l \in inFlight, Lands(l) PROVE NumbersAreStable'
  BY <1>1, <1>4 DEF Lands, memVars
<1>5. CASE Crash
  BY <1>5 DEF Crash, NumbersAreStable
<1>6. CASE Open
  <2>1. CASE IsValid
    <3>1. /\ DOMAIN disk = 1..Len(disk) /\ synced \in 0..Len(disk) /\ Len(disk) \in Nat
          /\ mem' = [k \in 1..Len(disk) |-> disk[k].id] /\ accepted' = accepted
          /\ \A k \in 1..Len(disk) : disk[k].seq = k
      BY <1>6, <2>1, Elements DEF Open, IsValid, Contiguous, FileTypeOK
    <3>2. ASSUME NEW l \in accepted PROVE l.seq \in DOMAIN mem' /\ mem'[l.seq] = l.id
      BY <3>1, <3>2 DEF Durable, Holds
    <3>. QED
      BY <3>1, <3>2 DEF NumbersAreStable
  <2>2. CASE ~IsValid
    BY <1>6, <2>2 DEF Open, NumbersAreStable
  <2>. QED
    BY <2>1, <2>2
<1>7. CASE UNCHANGED fileVars
  BY <1>1, <1>7 DEF fileVars, memVars
<1>. QED
  BY <1>2, <1>3, <1>4, <1>5, <1>6, <1>7 DEF FileNext

(* An accepted event keeps its number as long as the store is open and      *)
(* through every restart (FileStore::append and open).                     *)
THEOREM NumbersKept == FileSpec => []NumbersAreStable
<1>1. FileInit => Durable /\ NextNumber /\ NumbersAreStable
  BY DEF FileInit, Durable, NextNumber, NumbersAreStable
<1>. QED
  BY <1>1, NumbersStep, NextNumberStep, DurableStep, FileTypeCorrect, PTL DEF FileSpec

(***************************************************************************)
(* A stop.                                                                 *)
(***************************************************************************)

Writing == \E c \in Callers : pc[c] = "sync"

(* As long as nothing failed and nobody hung up, the file is numbered as    *)
(* the projection is, with the event of the append in progress behind it,   *)
(* and only an incomplete line keeps it from being opened.                  *)
Whole ==
    drops = 0 /\ failures = 0 =>
        /\ inFlight = {}
        /\ \A k \in 1..Len(disk) : disk[k].seq = k
        /\ server = "up" => Len(disk) = IF Writing THEN Len(mem) + 1 ELSE Len(mem)
        /\ server = "refused" => \E k \in 1..Len(disk) : disk[k].end # "line"

LEMMA WholeStep == FileTypeOK /\ NextNumber /\ Whole /\ [FileNext]_fileVars => Whole'
<1> SUFFICES ASSUME FileTypeOK, NextNumber, Whole, [FileNext]_fileVars, drops' = 0, failures' = 0
             PROVE  /\ inFlight' = {}
                    /\ \A k \in 1..Len(disk') : disk'[k].seq = k
                    /\ server' = "up" => Len(disk') = IF Writing' THEN Len(mem') + 1 ELSE Len(mem')
                    /\ server' = "refused" => \E k \in 1..Len(disk') : disk'[k].end # "line"
  BY DEF Whole
<1>0. /\ pc \in [Callers -> {"idle", "write", "sync"}] /\ disk \in Seq(OnDisk) /\ mem \in Seq(Nat)
      /\ Len(disk) \in Nat /\ Len(mem) \in Nat /\ DOMAIN disk = 1..Len(disk)
      /\ \A c, d \in Callers : pc[c] # "idle" /\ pc[d] # "idle" => c = d
  BY Elements DEF FileTypeOK
<1>1. drops = 0 /\ failures = 0
  <2>1. drops \in Nat /\ failures \in Nat
    BY DEF FileTypeOK
  <2>2. \/ drops' = drops + 1 \/ drops' = drops
    BY DEF FileNext, Begin, Takes, Write, Publish, WriteFails, SyncFails, Drop, Lands, Crash, Open, fileVars, fileBounds
  <2>3. \/ failures' = failures + 1 \/ failures' = failures
    BY DEF FileNext, Begin, Takes, Write, Publish, WriteFails, SyncFails, Drop, Lands, Crash, Open, fileVars, fileBounds,
           Fault
  <2>. QED
    BY <2>1, <2>2, <2>3
<1>2. /\ inFlight = {} /\ \A k \in 1..Len(disk) : disk[k].seq = k
      /\ server = "up" => Len(disk) = IF Writing THEN Len(mem) + 1 ELSE Len(mem)
      /\ server = "refused" => \E k \in 1..Len(disk) : disk[k].end # "line"
  BY <1>1 DEF Whole
<1>3. ASSUME NEW c \in Callers, Begin(c) PROVE UNCHANGED <<inFlight, disk, server, mem>> /\ Writing' = Writing
  <2>1. \A d \in Callers : pc[d] = "idle"
    BY <1>3, FileAssumption DEF Begin, FileTypeOK
  <2>2. \A d \in Callers : pc'[d] # "sync"
    BY <1>0, <1>3, <2>1 DEF Begin, Takes
  <2>. QED
    BY <1>3, <2>1, <2>2 DEF Begin, Takes, diskVars, Writing
<1>4. CASE \E c \in Callers : Begin(c)
  BY <1>2, <1>3, <1>4
<1>5. ASSUME NEW c \in Callers, Write(c)
      PROVE  /\ inFlight' = {} /\ server' = "up" /\ mem' = mem /\ Writing' /\ Len(disk') = Len(mem) + 1
             /\ \A k \in 1..Len(disk') : disk'[k].seq = k
  <2>1. /\ server = "up" /\ line[c].seq = Len(mem) + 1 /\ line[c] \in Line /\ ~Writing
        /\ UNCHANGED <<inFlight, server, mem>> /\ pc'[c] = "sync"
        /\ disk' = Append(disk, Written(line[c], "line"))
    BY <1>0, <1>5 DEF Write, NextNumber, FileTypeOK, Writing
  <2>2. Written(line[c], "line") \in OnDisk /\ Written(line[c], "line").seq = line[c].seq
    BY <2>1, WrittenType DEF Endings, Written
  <2>3. /\ Len(disk') = Len(disk) + 1 /\ disk'[Len(disk) + 1] = Written(line[c], "line")
        /\ \A k \in 1..Len(disk) : disk'[k] = disk[k]
    BY <1>0, <2>1, <2>2, Appending
  <2>. QED
    BY <1>0, <1>2, <2>1, <2>2, <2>3 DEF Writing
<1>6. ASSUME NEW c \in Callers, Publish(c)
      PROVE  UNCHANGED <<inFlight, disk, server>> /\ ~Writing' /\ Len(disk) = Len(mem')
  <2>1. server = "up" /\ Writing /\ Len(mem') = Len(mem) + 1 /\ UNCHANGED <<inFlight, disk, server>>
    BY <1>0, <1>6 DEF Publish, NextNumber, Writing, FileTypeOK, Line
  <2>2. \A d \in Callers : pc'[d] = "idle"
    BY <1>0, <1>6 DEF Publish, Leaves
  <2>. QED
    BY <1>2, <2>1, <2>2 DEF Writing
<1>7. ASSUME NEW c \in Callers, WriteFails(c) \/ SyncFails(c) \/ Drop(c) PROVE FALSE
  BY <1>1, <1>7 DEF WriteFails, SyncFails, Drop, Fault
<1>8. ASSUME NEW l \in inFlight, Lands(l) PROVE FALSE
  BY <1>2, <1>8
<1>9. CASE Crash
  BY <1>2, <1>9, CrashKeepsSynced DEF Crash
<1>10. CASE Open
  <2>1. /\ server = "down" /\ UNCHANGED <<inFlight, disk, pc>>
        /\ \A c \in Callers : pc[c] = "idle"
    BY <1>10 DEF Open, diskVars, NextNumber
  <2>2. ~Writing'
    BY <2>1 DEF Writing
  <2>3. CASE IsValid
    <3>1. server' = "up" /\ mem' = [k \in 1..Len(disk) |-> disk[k].id]
      BY <1>0, <1>10, <2>3 DEF Open
    <3>. QED
      BY <1>0, <1>2, <2>1, <2>2, <3>1
  <2>4. CASE ~IsValid
    <3>1. server' = "refused" /\ ~Parses
      BY <1>0, <1>2, <1>10, <2>4 DEF Open, IsValid, Contiguous
    <3>. QED
      BY <1>0, <1>2, <2>1, <3>1 DEF Parses
  <2>. QED
    BY <2>3, <2>4
<1>11. CASE UNCHANGED fileVars
  BY <1>2, <1>11 DEF fileVars, diskVars, memVars, Writing
<1>. QED
  BY <1>2, <1>4, <1>5, <1>6, <1>7, <1>8, <1>9, <1>10, <1>11 DEF FileNext

(* Appends that overlap never write one number twice: a stop alone leaves a *)
(* file that FileStore::open takes, if it leaves whole lines.               *)
THEOREM StopIsSafe == FileSpec => []StopLeavesValidFile
<1>1. FileInit => NextNumber /\ Whole
  BY DEF FileInit, NextNumber, Whole, Writing
<1>2. FileTypeOK /\ Whole => StopLeavesValidFile
  BY Elements DEF Whole, StopLeavesValidFile, FileTypeOK
<1>. QED
  BY <1>1, <1>2, WholeStep, NextNumberStep, FileTypeCorrect, PTL DEF FileSpec
-----------------------------------------------------------------------------

(***************************************************************************)
(* The stream: types.                                                      *)
(***************************************************************************)

(* Sequences, element by element. *)
LEMMA SeqElements ==
    ASSUME NEW S, NEW s \in Seq(S)
    PROVE  /\ Len(s) \in Nat /\ DOMAIN s = 1..Len(s)
           /\ \A k \in 1..Len(s) : s[k] \in S
           /\ s # <<>> => Len(s) \in 1..Len(s)
OBVIOUS

LEMMA SeqAppend ==
    ASSUME NEW S, NEW s \in Seq(S), NEW e \in S
    PROVE  /\ Append(s, e) \in Seq(S)
           /\ DOMAIN Append(s, e) = 1..(Len(s) + 1)
           /\ \A k \in 1..Len(s) : Append(s, e)[k] = s[k]
           /\ Append(s, e)[Len(s) + 1] = e
OBVIOUS

LEMMA NoEventType == NoEvent \in Event
BY StreamAssumption DEF NoEvent, Event

LEMMA StreamInitType == Init => TypeOK
BY NoEventType, StreamAssumption DEF Init, TypeOK

(* The log is numbered, and the channel carries, within the bounds. *)
LEMMA WriterKeepsType ==
    ASSUME TypeOK, NEW w \in Writers,
           Send(w) \/ \E r \in Rooms : Store(w, r)
    PROVE  TypeOK'
<1>1. CASE Send(w)
  <2>1. sent' \in Seq(Event) /\ Len(sent') = Len(sent) + 1 /\ Len(sent) \in Nat
    BY <1>1 DEF Send, TypeOK
  <2>2. \A c \in Clients : at'[c] # "off" => next'[c] <= Len(sent') + 1
    BY <1>1, <2>1 DEF Send, TypeOK, clientVars
  <2>3. held' \in [Writers -> Event]
    BY <1>1, NoEventType DEF Send, TypeOK
  <2>. QED
    BY <1>1, <2>1, <2>2, <2>3 DEF Send, TypeOK, clientVars, boundVars
<1>2. ASSUME NEW r \in Rooms, Store(w, r) PROVE TypeOK'
  <2>1. stored[r] + 1 \in 0..MaxEvents
    BY <1>2, StreamAssumption DEF Store, TypeOK
  <2>2. [room |-> r, seq |-> stored[r] + 1] \in Event
    BY <2>1 DEF Event
  <2>3. stored' \in [Rooms -> 0..MaxEvents] /\ held' \in [Writers -> Event]
    BY <1>2, <2>1, <2>2 DEF Store, TypeOK
  <2>. QED
    BY <1>2, <2>3 DEF Store, TypeOK, clientVars, boundVars
<1>. QED
  BY <1>1, <1>2

LEMMA SinceType ==
    ASSUME TypeOK, NEW c \in Clients
    PROVE  Since(c) \in 0..MaxEvents
<1>1. got[c] \in Seq(1..MaxEvents)
  BY DEF TypeOK
<1>2. CASE got[c] = <<>>
  BY <1>2, StreamAssumption DEF Since
<1>3. CASE got[c] # <<>>
  <2>1. got[c][Len(got[c])] \in 1..MaxEvents
    BY <1>1, <1>3, SeqElements
  <2>. QED
    BY <1>3, <2>1, StreamAssumption DEF Since
<1>. QED
  BY <1>2, <1>3

LEMMA DeliverType ==
    ASSUME TypeOK, NEW c \in Clients, NEW seq \in 1..MaxEvents, Deliver(c, seq)
    PROVE  last' \in [Clients -> 0..MaxEvents] /\ got' \in [Clients -> Seq(1..MaxEvents)]
<1>1. got[c] \in Seq(1..MaxEvents)
  BY DEF TypeOK
<1>2. Append(got[c], seq) \in Seq(1..MaxEvents)
  BY <1>1
<1>3. seq \in 0..MaxEvents
  BY StreamAssumption
<1>. QED
  BY <1>2, <1>3 DEF Deliver, TypeOK

LEMMA ClientKeepsType ==
    ASSUME TypeOK, NEW c \in Clients, Subscribe(c) \/ ConnectionStep(c) \/ Disconnect(c)
    PROVE  TypeOK'
<1>0. /\ next[c] \in Nat \ {0} /\ Len(sent) \in Nat /\ last[c] \in 0..MaxEvents
      /\ upto[c] \in 0..MaxEvents /\ stored[Room] \in 0..MaxEvents
      /\ at[c] # "off" => next[c] <= Len(sent) + 1
  BY StreamAssumption DEF TypeOK
<1>1. CASE Subscribe(c)
  BY SMTT(30), <1>0, <1>1, SinceType DEF Subscribe, TypeOK, storeVars, boundVars
<1>2. CASE Backfill(c)
  <2>1. faults' \in Nat /\ upto' \in [Clients -> 0..MaxEvents]
    BY <1>0, <1>2 DEF Backfill, TypeOK
  <2>. QED
    BY <1>2, <2>1 DEF Backfill, TypeOK, storeVars
<1>3. CASE Replay(c)
  <2>1. last[c] + 1 \in 1..MaxEvents
    BY <1>0, <1>3, StreamAssumption DEF Replay
  <2>2. last' \in [Clients -> 0..MaxEvents] /\ got' \in [Clients -> Seq(1..MaxEvents)]
    BY <1>3, <2>1, DeliverType DEF Replay
  <2>. QED
    BY <1>3, <2>2 DEF Replay, TypeOK, storeVars, boundVars
<1>4. CASE Replayed(c)
  BY <1>4 DEF Replayed, TypeOK, storeVars, boundVars
<1>5. CASE Receive(c)
  <2>1. next[c] \in 1..Len(sent)
    BY <1>0, <1>5 DEF Receive
  <2>2. sent[next[c]] \in Event
    BY <2>1 DEF TypeOK
  <2>3. last' \in [Clients -> 0..MaxEvents] /\ got' \in [Clients -> Seq(1..MaxEvents)]
    <3>1. CASE IsNew(c, sent[next[c]])
      <4>1. sent[next[c]].seq \in 1..MaxEvents
        BY <1>0, <2>2, <3>1, StreamAssumption DEF IsNew, Event
      <4>. QED
        BY <1>5, <3>1, <4>1, DeliverType DEF Receive
    <3>2. CASE ~IsNew(c, sent[next[c]])
      BY <1>5, <3>2 DEF Receive, TypeOK
    <3>. QED
      BY <3>1, <3>2
  <2>4. next' \in [Clients -> Nat \ {0}]
    BY <1>0, <1>5 DEF Receive, TypeOK
  <2>5. \A d \in Clients : at'[d] # "off" => next'[d] <= Len(sent') + 1
    BY <1>0, <1>5, <2>1 DEF Receive, TypeOK, storeVars
  <2>. QED
    BY <1>5, <2>3, <2>4, <2>5 DEF Receive, TypeOK, storeVars, boundVars
<1>6. CASE Lagged(c)
  <2>1. Oldest \in Nat \ {0} /\ Oldest <= Len(sent) + 1
    BY <1>0, StreamAssumption DEF Oldest
  <2>. QED
    BY <1>6, <2>1 DEF Lagged, TypeOK, storeVars, boundVars
<1>7. CASE Refill(c)
  <2>1. faults' \in Nat /\ upto' \in [Clients -> 0..MaxEvents]
    BY SMTT(30), <1>0, <1>7 DEF Refill, TypeOK
  <2>2. /\ at' \in [Clients -> {"off", "subscribed", "replay", "live", "lagged"}]
        /\ \A d \in Clients : at'[d] # "off" => at[d] # "off"
    BY <1>7 DEF Refill, TypeOK
  <2>. QED
    BY <1>7, <2>1, <2>2 DEF Refill, TypeOK, storeVars
<1>8. CASE Disconnect(c)
  BY <1>8 DEF Disconnect, TypeOK, storeVars
<1>. QED
  BY <1>1, <1>2, <1>3, <1>4, <1>5, <1>6, <1>7, <1>8 DEF ConnectionStep

LEMMA StreamStepType == TypeOK /\ [Next]_vars => TypeOK'
<1> SUFFICES ASSUME TypeOK, [Next]_vars PROVE TypeOK'
  OBVIOUS
<1>1. CASE Restart
  <2>1. sent' \in Seq(Event) /\ held' \in [Writers -> Event]
    BY <1>1, NoEventType DEF Restart
  <2>. QED
    BY <1>1, <2>1 DEF Restart, TypeOK
<1>2. CASE UNCHANGED vars
  BY <1>2 DEF vars, storeVars, clientVars, boundVars, TypeOK
<1>. QED
  BY <1>1, <1>2, WriterKeepsType, ClientKeepsType DEF Next

(* A store and a channel of any size, and any number of connections, keep   *)
(* their types; a receiver never stands beyond the end of the channel.      *)
THEOREM StreamTypeCorrect == Spec => []TypeOK
BY StreamInitType, StreamStepType, PTL DEF Spec

(***************************************************************************)
(* Order.                                                                  *)
(***************************************************************************)

(* What a client has is ordered, and nothing of it is newer than what the   *)
(* connection it follows believes to have sent.                             *)
ShownUpToLast ==
    \A c \in Clients :
        /\ \A j, k \in DOMAIN got[c] : j < k => got[c][j] < got[c][k]
        /\ at[c] # "off" => \A k \in DOMAIN got[c] : got[c][k] <= last[c]

LEMMA DeliverInOrder ==
    ASSUME TypeOK, ShownUpToLast, NEW c \in Clients, NEW seq \in 1..MaxEvents,
           last[c] < seq, at[c] # "off", at' = at, Deliver(c, seq)
    PROVE  ShownUpToLast'
<1>1. /\ got[c] \in Seq(1..MaxEvents) /\ last[c] \in 0..MaxEvents
      /\ \A d \in Clients : d # c => got'[d] = got[d] /\ last'[d] = last[d]
      /\ got'[c] = Append(got[c], seq) /\ last'[c] = seq
  BY DEF TypeOK, Deliver
<1>2. DEFINE n == Len(got[c])
<1>3. /\ n \in Nat /\ DOMAIN got[c] = 1..n /\ DOMAIN got'[c] = 1..(n + 1)
      /\ \A k \in 1..n : got'[c][k] = got[c][k] /\ got[c][k] \in 1..MaxEvents
      /\ got'[c][n + 1] = seq
  <2>1. /\ n \in Nat /\ DOMAIN got[c] = 1..n
        /\ \A k \in 1..n : got[c][k] \in 1..MaxEvents
    BY <1>1, SeqElements
  <2>2. /\ DOMAIN Append(got[c], seq) = 1..(n + 1)
        /\ \A k \in 1..n : Append(got[c], seq)[k] = got[c][k]
        /\ Append(got[c], seq)[n + 1] = seq
    BY <1>1, SeqAppend
  <2>. QED
    BY <1>1, <2>1, <2>2
<1>4. \A k \in 1..n : got[c][k] < seq
  BY <1>1, <1>3 DEF ShownUpToLast
<1>5. \A j, k \in DOMAIN got'[c] : j < k => got'[c][j] < got'[c][k]
  <2>1. SUFFICES ASSUME NEW j \in 1..(n + 1), NEW k \in 1..(n + 1), j < k
                 PROVE  got'[c][j] < got'[c][k]
    BY <1>3
  <2>2. CASE k \in 1..n
    <3>1. j \in 1..n
      BY <1>3, <2>1, <2>2
    <3>. QED
      BY <1>3, <2>1, <2>2, <3>1 DEF ShownUpToLast
  <2>3. CASE k = n + 1
    <3>1. j \in 1..n
      BY <1>3, <2>1, <2>3
    <3>. QED
      BY <1>3, <1>4, <2>3, <3>1
  <2>. QED
    BY <1>3, <2>1, <2>2, <2>3
<1>6. \A k \in DOMAIN got'[c] : got'[c][k] <= last'[c]
  BY <1>1, <1>3, <1>4
<1>. QED
  BY <1>1, <1>5, <1>6 DEF ShownUpToLast

LEMMA OrderStep == TypeOK /\ ShownUpToLast /\ [Next]_vars => ShownUpToLast'
<1> SUFFICES ASSUME TypeOK, ShownUpToLast, [Next]_vars PROVE ShownUpToLast'
  OBVIOUS
<1>1. ASSUME NEW w \in Writers, Send(w) \/ \E r \in Rooms : Store(w, r)
      PROVE  ShownUpToLast'
  BY <1>1 DEF Send, Store, clientVars, ShownUpToLast
<1>2. ASSUME NEW c \in Clients, Subscribe(c) PROVE ShownUpToLast'
  <2>1. /\ got' = got /\ got[c] \in Seq(1..MaxEvents)
        /\ \A d \in Clients : d # c => at'[d] = at[d] /\ last'[d] = last[d]
        /\ last'[c] = Since(c)
    BY <1>2 DEF Subscribe, TypeOK
  <2>2. \A k \in DOMAIN got[c] : got[c][k] <= Since(c)
    <3>1. SUFFICES ASSUME NEW k \in DOMAIN got[c] PROVE got[c][k] <= got[c][Len(got[c])]
      BY <2>1 DEF Since
    <3>2. /\ Len(got[c]) \in Nat /\ k \in 1..Len(got[c]) /\ Len(got[c]) \in DOMAIN got[c]
          /\ got[c][k] \in 1..MaxEvents /\ got[c][Len(got[c])] \in 1..MaxEvents
      <4>1. /\ DOMAIN got[c] = 1..Len(got[c]) /\ Len(got[c]) \in Nat
            /\ \A m \in 1..Len(got[c]) : got[c][m] \in 1..MaxEvents
        BY <2>1, SeqElements
      <4>. QED
        BY <4>1
    <3>3. k = Len(got[c]) \/ k < Len(got[c])
      BY <3>2
    <3>4. CASE k = Len(got[c])
      BY <3>2, <3>4
    <3>5. CASE k < Len(got[c])
      <4>1. \A i, j \in DOMAIN got[c] : i < j => got[c][i] < got[c][j]
        BY DEF ShownUpToLast
      <4>2. got[c][k] < got[c][Len(got[c])]
        BY <3>2, <3>5, <4>1
      <4>. QED
        BY <3>2, <4>2
    <3>. QED
      BY <3>3, <3>4, <3>5
  <2>. QED
    BY <2>1, <2>2 DEF ShownUpToLast
<1>3. ASSUME NEW c \in Clients, Replay(c) PROVE ShownUpToLast'
  <2>1. last[c] + 1 \in 1..MaxEvents /\ last[c] < last[c] + 1
    BY <1>3, StreamAssumption DEF Replay, TypeOK
  <2>. QED
    BY <1>3, <2>1, DeliverInOrder DEF Replay
<1>4. ASSUME NEW c \in Clients, Receive(c) PROVE ShownUpToLast'
  <2>1. CASE IsNew(c, sent[next[c]])
    <3>1. next[c] \in 1..Len(sent)
      BY <1>4 DEF Receive, TypeOK
    <3>2. sent[next[c]] \in Event
      BY <3>1 DEF TypeOK
    <3>3. sent[next[c]].seq \in 1..MaxEvents /\ last[c] < sent[next[c]].seq
      BY <2>1, <3>2, StreamAssumption DEF IsNew, Event, TypeOK
    <3>. QED
      BY <1>4, <2>1, <3>3, DeliverInOrder DEF Receive
  <2>2. CASE ~IsNew(c, sent[next[c]])
    BY <1>4, <2>2 DEF Receive, ShownUpToLast
  <2>. QED
    BY <2>1, <2>2
<1>5. ASSUME NEW c \in Clients,
             Backfill(c) \/ Replayed(c) \/ Lagged(c) \/ Refill(c) \/ Disconnect(c)
      PROVE  ShownUpToLast'
  <2>1. got' = got /\ last' = last /\ \A d \in Clients : at'[d] # "off" => at[d] # "off"
    BY <1>5 DEF Backfill, Replayed, Lagged, Refill, Disconnect, TypeOK
  <2>. QED
    BY <2>1 DEF ShownUpToLast
<1>6. CASE Restart
  BY <1>6 DEF Restart, ShownUpToLast
<1>7. CASE UNCHANGED vars
  BY <1>7 DEF vars, clientVars, ShownUpToLast
<1>. QED
  BY <1>1, <1>2, <1>3, <1>4, <1>5, <1>6, <1>7 DEF Next, ConnectionStep

(* Store::append, event_stream and follow_room together: whatever overlaps, *)
(* no client is shown an event twice or out of order.                       *)
THEOREM ShownInOrder == Spec => []ShownOnceInOrder
<1>1. Init => ShownUpToLast
  BY DEF Init, ShownUpToLast
<1>2. TypeOK /\ ShownUpToLast /\ [Next]_vars => ShownUpToLast'
  BY OrderStep
<1>3. ShownUpToLast => ShownOnceInOrder
  BY DEF ShownUpToLast, ShownOnceInOrder
<1>. QED
  BY <1>1, <1>2, <1>3, StreamTypeCorrect, PTL DEF Spec

(***************************************************************************)
(* No gap: with one writer and a log that can be read, EventStream          *)
(* implements LogFollower.                                                  *)
(***************************************************************************)

(* The last event a connection has sent or is about to replay.             *)
Beyond(c) == IF at[c] = "replay" /\ upto[c] > last[c] THEN upto[c] ELSE last[c]

(* The event before n is one of those, or comes before position k.         *)
Coming(c, n, k) ==
    n <= Beyond(c) + 1 \/ \E j \in next[c]..k : sent[j].room = Room /\ sent[j].seq = n - 1

(* The same of the next state.                                             *)
ComingNext(c, n, k) ==
    n <= Beyond(c)' + 1 \/ \E j \in next'[c]..k : sent'[j].room = Room /\ sent'[j].seq = n - 1

(* A connection meets the events of the room one after the other: in the    *)
(* channel, the one that is stored and not sent, and the next one.          *)
Follows(c) ==
    /\ \A k \in next[c]..Len(sent) : sent[k].room = Room => Coming(c, sent[k].seq, k - 1)
    /\ \A w \in Writers : held[w].room = Room => Coming(c, held[w].seq, Len(sent))
    /\ (\A w \in Writers : held[w] = NoEvent \/ held[w].room # Room)
          => Coming(c, stored[Room] + 1, Len(sent))

(* A client has the events 1, 2, 3 and so on to the last one sent to it.   *)
Counts(c) ==
    /\ \A k \in DOMAIN got[c] : got[c][k] = k
    /\ at[c] # "off" => last[c] = Len(got[c])
    /\ at[c] = "replay" => upto[c] <= stored[Room]

Numbered ==
    /\ \A k \in 1..Len(sent) : sent[k].room = Room => sent[k].seq <= stored[Room]
    /\ \A w \in Writers : held[w] # NoEvent /\ held[w].room = Room => held[w].seq = stored[Room]

NoGap ==
    /\ Numbered
    /\ \A c \in Clients : Counts(c) /\ (at[c] \in {"replay", "live"} => Follows(c))

LoneWriter == \A v, w \in Writers : v = w

LEMMA NoGapInit == Init => NoGap
BY DEF Init, NoGap, Numbered, Counts

LEMMA ChannelElements ==
    ASSUME TypeOK
    PROVE  /\ Len(sent) \in Nat
           /\ \A k \in 1..Len(sent) : sent[k] \in Event /\ sent[k].seq \in Nat
<1>1. sent \in Seq(Event) /\ \A e \in Event : e.seq \in Nat
  BY StreamAssumption DEF TypeOK, Event
<1>2. \A k \in 1..Len(sent) : sent[k] \in Event
  BY <1>1
<1>. QED
  BY <1>1, <1>2

LEMMA FollowsNext ==
    ASSUME NEW c \in Clients,
           \A k \in next'[c]..Len(sent') : sent'[k].room = Room => ComingNext(c, sent'[k].seq, k - 1),
           \A w \in Writers : held'[w].room = Room => ComingNext(c, held'[w].seq, Len(sent')),
           \/ \E w \in Writers : held'[w] # NoEvent /\ held'[w].room = Room
           \/ ComingNext(c, stored'[Room] + 1, Len(sent'))
    PROVE  Follows(c)'
BY DEF Follows, Coming, ComingNext

LEMMA StoreLeavesNoGap ==
    ASSUME TypeOK, NoGap, LoneWriter, NEW w \in Writers, NEW r \in Rooms, Store(w, r)
    PROVE  NoGap'
<1>1. /\ held[w] = NoEvent /\ \A v \in Writers : v = w
      /\ UNCHANGED <<sent, at, next, last, upto, got>>
      /\ stored' = [stored EXCEPT ![r] = @ + 1]
      /\ held' = [held EXCEPT ![w] = [room |-> r, seq |-> stored[r] + 1]]
  BY DEF Store, LoneWriter, clientVars
<1>2. /\ stored[Room] \in 0..MaxEvents /\ Room \in Rooms
      /\ held'[w] = [room |-> r, seq |-> stored[r] + 1]
      /\ stored'[Room] = IF r = Room THEN stored[Room] + 1 ELSE stored[Room]
  BY <1>1, StreamAssumption DEF TypeOK
<1>3. Numbered'
  BY <1>1, <1>2, ChannelElements DEF NoGap, Numbered
<1>4. \A c \in Clients : Counts(c)'
  BY <1>1, <1>2 DEF NoGap, Counts, TypeOK
<1>5. ASSUME NEW c \in Clients, at[c] \in {"replay", "live"} PROVE Follows(c)'
  <2>1. \A n, k : ComingNext(c, n, k) <=> Coming(c, n, k)
    BY <1>1 DEF Coming, ComingNext, Beyond
  <2>2. Follows(c) /\ Coming(c, stored[Room] + 1, Len(sent))
    BY <1>1, <1>5 DEF NoGap, Follows
  <2>3. held'[w] # NoEvent
    BY <1>2 DEF NoEvent, TypeOK
  <2>. QED
    BY <1>1, <1>2, <2>1, <2>2, <2>3, FollowsNext DEF Follows
<1>. QED
  BY <1>1, <1>3, <1>4, <1>5 DEF NoGap

LEMMA SendLeavesNoGap ==
    ASSUME TypeOK, NoGap, LoneWriter, NEW w \in Writers, Send(w)
    PROVE  NoGap'
<1>. DEFINE end == Len(sent) + 1
<1>1. /\ held[w] # NoEvent /\ \A v \in Writers : v = w
      /\ UNCHANGED <<stored, at, next, last, upto, got>>
      /\ held'[w] = NoEvent /\ sent' = Append(sent, held[w])
      /\ held[w] \in Event
  BY DEF Send, LoneWriter, clientVars, TypeOK
<1>2. /\ Len(sent) \in Nat /\ Len(sent') = end /\ sent'[end] = held[w]
      /\ \A k \in 1..Len(sent) : sent'[k] = sent[k]
  BY <1>1 DEF TypeOK
<1>3. Numbered'
  <2>1. \A v \in Writers : held'[v] = NoEvent
    BY <1>1
  <2>2. ASSUME NEW k \in 1..Len(sent'), sent'[k].room = Room PROVE sent'[k].seq <= stored'[Room]
    <3>1. stored[Room] \in Nat
      BY StreamAssumption DEF TypeOK
    <3>2. k \in 1..Len(sent) \/ k = end
      BY <1>2, <2>2
    <3>. QED
      BY <1>1, <1>2, <2>2, <3>1, <3>2 DEF NoGap, Numbered
  <2>. QED
    BY <2>1, <2>2 DEF Numbered
<1>4. \A c \in Clients : Counts(c)'
  BY <1>1 DEF NoGap, Counts
<1>5. ASSUME NEW c \in Clients, at[c] \in {"replay", "live"} PROVE Follows(c)'
  <2>1. Follows(c) /\ next[c] \in 1..end /\ next'[c] = next[c] /\ Beyond(c)' = Beyond(c) /\ Beyond(c) \in Nat
    BY <1>1, <1>2, <1>5 DEF NoGap, TypeOK, Beyond
  <2>2. ASSUME NEW n, NEW k \in Int, k <= Len(sent), Coming(c, n, k)
        PROVE  ComingNext(c, n, k) /\ ComingNext(c, n, end)
    BY <1>2, <2>1, <2>2 DEF Coming, ComingNext
  <2>3. ASSUME NEW k \in next'[c]..Len(sent'), sent'[k].room = Room
        PROVE  ComingNext(c, sent'[k].seq, k - 1)
    <3>1. CASE k \in 1..Len(sent)
      <4>1. Coming(c, sent[k].seq, k - 1) /\ sent'[k] = sent[k]
        BY <1>2, <2>1, <2>3, <3>1 DEF Follows
      <4>. QED
        BY <1>2, <2>2, <3>1, <4>1
    <3>2. CASE k = end
      <4>1. Coming(c, held[w].seq, Len(sent))
        BY <1>1, <1>2, <2>1, <2>3, <3>2 DEF Follows
      <4>. QED
        BY <1>2, <2>2, <3>2, <4>1
    <3>. QED
      BY <1>2, <2>1, <2>3, <3>1, <3>2
  <2>4. \A v \in Writers : ComingNext(c, held'[v].seq, end)
    <3>1. NoEvent.seq = 0 /\ 0 <= Beyond(c) + 1
      BY <2>1 DEF NoEvent
    <3>. QED
      BY <1>1, <2>1, <3>1 DEF ComingNext
  <2>5. ComingNext(c, stored'[Room] + 1, end)
    <3>1. stored[Room] \in Nat
      BY StreamAssumption DEF TypeOK
    <3>2. CASE held[w].room = Room
      <4>1. sent'[end].room = Room /\ sent'[end].seq = (stored'[Room] + 1) - 1
        BY <1>1, <1>2, <3>1, <3>2 DEF NoGap, Numbered
      <4>2. end \in next'[c]..end
        BY <1>1, <1>2, <2>1
      <4>. QED
        BY <4>1, <4>2 DEF ComingNext
    <3>3. CASE held[w].room # Room
      <4>1. Coming(c, stored[Room] + 1, Len(sent))
        BY <1>1, <2>1, <3>3 DEF Follows
      <4>. QED
        BY <1>1, <1>2, <2>2, <4>1
    <3>. QED
      BY <3>2, <3>3
  <2>. QED
    BY <1>2, <2>3, <2>4, <2>5, FollowsNext
<1>. QED
  BY <1>1, <1>3, <1>4, <1>5 DEF NoGap

(* A step of one connection leaves the others and the channel alone.       *)
LEMMA ConnectionLeavesNoGap ==
    ASSUME TypeOK, NoGap, NEW c \in Clients, UNCHANGED <<stored, held, sent>>,
           \A d \in Clients \ {c} : /\ at'[d] = at[d] /\ next'[d] = next[d] /\ last'[d] = last[d]
                                   /\ upto'[d] = upto[d] /\ got'[d] = got[d],
           Counts(c)', at'[c] \in {"replay", "live"} => Follows(c)'
    PROVE  NoGap'
<1>1. Numbered'
  BY DEF NoGap, Numbered
<1>2. ASSUME NEW d \in Clients \ {c}
      PROVE  Counts(d)' /\ (at'[d] \in {"replay", "live"} => Follows(d)')
  BY <1>2 DEF NoGap, Counts, Follows, Coming, Beyond
<1>. QED
  BY <1>1, <1>2 DEF NoGap

(* A read of the log reaches to what the room has stored.                  *)
LEMMA ReadLeavesNoGap ==
    ASSUME TypeOK, NoGap, NEW c \in Clients, at[c] # "off",
           at' = [at EXCEPT ![c] = "replay"], upto' = [upto EXCEPT ![c] = stored[Room]],
           UNCHANGED <<stored, held, sent, next, last, got>>
    PROVE  NoGap'
<1>1. /\ at'[c] = "replay" /\ upto'[c] = stored[Room] /\ stored[Room] \in Nat /\ last[c] \in Nat
      /\ \A d \in Clients \ {c} : at'[d] = at[d] /\ upto'[d] = upto[d]
  BY StreamAssumption DEF TypeOK
<1>2. Counts(c)'
  BY <1>1 DEF NoGap, Counts
<1>3. Beyond(c)' \in Nat /\ Beyond(c)' >= stored[Room]
  BY <1>1 DEF Beyond
<1>4. ASSUME NEW n \in Int, NEW k, n <= stored[Room] + 1 PROVE ComingNext(c, n, k)
  BY <1>1, <1>3, <1>4 DEF ComingNext
<1>5. \A k \in next[c]..Len(sent) : sent[k].room = Room => sent[k].seq <= stored[Room] /\ sent[k].seq \in Int
  <2>1. next[c] \in Nat \ {0}
    BY DEF TypeOK
  <2>. QED
    BY <2>1, ChannelElements DEF NoGap, Numbered
<1>6. \A w \in Writers : held[w].room = Room => held[w].seq <= stored[Room] /\ held[w].seq \in Int
  <2>1. NoEvent.seq = 0
    BY DEF NoEvent
  <2>. QED
    BY <1>1, <2>1 DEF NoGap, Numbered
<1>7. Follows(c)'
  <2>1. \A k \in next'[c]..Len(sent') : sent'[k].room = Room => ComingNext(c, sent'[k].seq, k - 1)
    <3>1. ASSUME NEW k \in next[c]..Len(sent), sent[k].room = Room
          PROVE  ComingNext(c, sent[k].seq, k - 1)
      <4>1. sent[k].seq <= stored[Room] + 1 /\ sent[k].seq \in Int
        BY <1>1, <1>5, <3>1
      <4>. QED
        BY <1>4, <4>1
    <3>. QED
      BY <3>1
  <2>2. \A w \in Writers : held'[w].room = Room => ComingNext(c, held'[w].seq, Len(sent'))
    <3>1. ASSUME NEW w \in Writers, held[w].room = Room
          PROVE  ComingNext(c, held[w].seq, Len(sent))
      <4>1. held[w].seq <= stored[Room] + 1 /\ held[w].seq \in Int
        BY <1>1, <1>6, <3>1
      <4>. QED
        BY <1>4, <4>1
    <3>. QED
      BY <3>1
  <2>3. ComingNext(c, stored'[Room] + 1, Len(sent'))
    <3>1. stored[Room] + 1 \in Int /\ stored[Room] + 1 <= stored[Room] + 1
      BY <1>1
    <3>2. ComingNext(c, stored[Room] + 1, Len(sent))
      BY <1>4, <3>1
    <3>. QED
      BY <3>2
  <2>. QED
    BY <2>1, <2>2, <2>3, FollowsNext
<1>. QED
  BY <1>1, <1>2, <1>7, ConnectionLeavesNoGap

(* What a client has is one longer, and still without a gap.               *)
LEMMA DeliverCounts ==
    ASSUME TypeOK, NoGap, NEW c \in Clients, NEW seq \in 1..MaxEvents, seq = last[c] + 1,
           at[c] # "off", UNCHANGED <<at, upto, stored>>, Deliver(c, seq)
    PROVE  /\ Counts(c)' /\ last'[c] = seq
           /\ got' = [got EXCEPT ![c] = Append(@, Len(@) + 1)] /\ Len(got[c]) + 1 = seq
           /\ \A d \in Clients \ {c} : last'[d] = last[d] /\ got'[d] = got[d]
<1>1. /\ got[c] \in Seq(1..MaxEvents) /\ last[c] = Len(got[c]) /\ Len(got[c]) \in Nat
      /\ DOMAIN got[c] = 1..Len(got[c]) /\ \A k \in 1..Len(got[c]) : got[c][k] = k
  <2>1. got[c] \in Seq(1..MaxEvents) /\ last[c] = Len(got[c])
    BY DEF TypeOK, NoGap, Counts
  <2>. QED
    BY <2>1, SeqElements DEF NoGap, Counts
<1>2. /\ got'[c] = Append(got[c], seq) /\ last'[c] = seq
      /\ \A d \in Clients \ {c} : last'[d] = last[d] /\ got'[d] = got[d]
  BY DEF Deliver, TypeOK
<1>3. /\ Len(got'[c]) = seq /\ DOMAIN got'[c] = 1..seq
      /\ \A k \in 1..Len(got[c]) : got'[c][k] = got[c][k]
      /\ got'[c][seq] = seq
  BY <1>1, <1>2, SeqAppend
<1>4. Counts(c)'
  <2>1. \A k \in 1..seq : got'[c][k] = k
    BY <1>1, <1>3
  <2>. QED
    BY <1>2, <1>3, <2>1 DEF NoGap, Counts
<1>. QED
  BY <1>1, <1>2, <1>4 DEF Deliver

LEMMA ReplayLeavesNoGap ==
    ASSUME TypeOK, NoGap, NEW c \in Clients, Replay(c)
    PROVE  /\ NoGap' /\ stored' = stored /\ Len(got[c]) < stored[Room]
           /\ got' = [got EXCEPT ![c] = Append(@, Len(@) + 1)]
<1>1. /\ at[c] = "replay" /\ last[c] < upto[c] /\ upto[c] <= stored[Room]
      /\ last[c] \in Nat /\ upto[c] \in 0..MaxEvents /\ stored[Room] \in Nat
      /\ UNCHANGED <<stored, held, sent, at, next, upto>> /\ Deliver(c, last[c] + 1)
  BY StreamAssumption DEF Replay, TypeOK, NoGap, Counts, storeVars
<1>2. last[c] + 1 \in 1..MaxEvents
  BY <1>1, StreamAssumption
<1>3. /\ Counts(c)' /\ last'[c] = last[c] + 1
      /\ got' = [got EXCEPT ![c] = Append(@, Len(@) + 1)] /\ Len(got[c]) + 1 = last[c] + 1
      /\ \A d \in Clients \ {c} : last'[d] = last[d] /\ got'[d] = got[d]
  BY <1>1, <1>2, DeliverCounts
<1>4. Beyond(c)' = Beyond(c)
  BY <1>1, <1>3 DEF Beyond
<1>5. Follows(c)'
  <2>1. Follows(c)
    BY <1>1 DEF NoGap
  <2>. QED
    BY <1>1, <1>4, <2>1 DEF Follows, Coming
<1>6. NoGap'
  BY <1>1, <1>3, <1>5, ConnectionLeavesNoGap
<1>7. Len(got[c]) < stored[Room]
  <2>1. Len(got[c]) \in Nat
    BY DEF TypeOK
  <2>. QED
    BY <1>1, <1>3, <2>1
<1>. QED
  BY <1>1, <1>3, <1>6, <1>7

(* The next event of the channel is none of the room's, or one that was     *)
(* sent, or the one that comes next.                                       *)
LEMMA ReceiveLeavesNoGap ==
    ASSUME TypeOK, NoGap, NEW c \in Clients, Receive(c)
    PROVE  /\ NoGap' /\ stored' = stored
           /\ \/ got' = got
              \/ Len(got[c]) < stored[Room] /\ got' = [got EXCEPT ![c] = Append(@, Len(@) + 1)]
<1>. DEFINE e == sent[next[c]]
<1>1. /\ at[c] = "live" /\ next[c] \in 1..Len(sent) /\ next'[c] = next[c] + 1
      /\ UNCHANGED <<stored, held, sent, at, upto>>
      /\ \A d \in Clients \ {c} : next'[d] = next[d]
      /\ last[c] \in Nat /\ stored[Room] \in 0..MaxEvents
  BY StreamAssumption DEF Receive, TypeOK, storeVars
<1>2. e \in Event /\ e.seq \in Nat /\ Len(sent) \in Nat
  BY <1>1, ChannelElements
<1>3. Follows(c) /\ Beyond(c) = last[c] /\ Beyond(c)' = last'[c]
  BY <1>1 DEF NoGap, Beyond
<1>4. e.room = Room => e.seq <= last[c] + 1 /\ e.seq <= stored[Room]
  <2>1. e.room = Room => Coming(c, e.seq, next[c] - 1)
    BY <1>1, <1>3 DEF Follows
  <2>2. next[c]..(next[c] - 1) = {}
    BY <1>1
  <2>. QED
    BY <1>1, <1>3, <2>1, <2>2 DEF Coming, NoGap, Numbered
<1>5. ASSUME last'[c] \in Nat, last'[c] >= last[c], e.room = Room => e.seq <= last'[c]
      PROVE  Follows(c)'
  <2>1. ASSUME NEW n \in Int, NEW k, Coming(c, n, k) PROVE ComingNext(c, n, k)
    <3>1. CASE n > last'[c] + 1
      <4>1. PICK j \in next[c]..k : sent[j].room = Room /\ sent[j].seq = n - 1
        BY <1>1, <1>3, <1>5, <2>1, <3>1 DEF Coming
      <4>2. j # next[c]
        BY <1>2, <1>5, <3>1, <4>1
      <4>. QED
        BY <1>1, <4>1, <4>2 DEF ComingNext
    <3>2. CASE n <= last'[c] + 1
      BY <1>3, <3>2 DEF ComingNext
    <3>. QED
      BY <1>5, <3>1, <3>2
  <2>2. \A k \in next'[c]..Len(sent) : k \in next[c]..Len(sent) /\ sent[k].seq \in Int
    BY <1>1, ChannelElements
  <2>3. \A w \in Writers : held[w].seq \in Int
    BY DEF TypeOK, Event
  <2>. QED
    BY <1>1, <1>3, <2>1, <2>2, <2>3, FollowsNext DEF Follows
<1>6. CASE IsNew(c, e)
  <2>1. e.seq = last[c] + 1 /\ e.seq \in 1..MaxEvents /\ Deliver(c, e.seq)
    BY <1>1, <1>2, <1>4, <1>6, StreamAssumption DEF IsNew, Receive
  <2>2. /\ Counts(c)' /\ last'[c] = e.seq
        /\ got' = [got EXCEPT ![c] = Append(@, Len(@) + 1)] /\ Len(got[c]) + 1 = e.seq
        /\ \A d \in Clients \ {c} : last'[d] = last[d] /\ got'[d] = got[d]
    BY <1>1, <2>1, DeliverCounts
  <2>3. NoGap'
    BY <1>1, <1>2, <1>5, <2>1, <2>2, ConnectionLeavesNoGap
  <2>4. Len(got[c]) < stored[Room]
    <3>1. Len(got[c]) \in Nat
      BY DEF TypeOK
    <3>. QED
      BY <1>1, <1>2, <1>4, <1>6, <2>2, <3>1 DEF IsNew
  <2>. QED
    BY <1>1, <2>2, <2>3, <2>4
<1>7. CASE ~IsNew(c, e)
  <2>1. UNCHANGED <<last, got>>
    BY <1>7 DEF Receive
  <2>2. Counts(c)'
    BY <1>1, <2>1 DEF NoGap, Counts
  <2>3. e.room = Room => e.seq <= last[c]
    BY <1>1, <1>2, <1>7 DEF IsNew
  <2>4. NoGap'
    BY <1>1, <1>5, <2>1, <2>2, <2>3, ConnectionLeavesNoGap
  <2>. QED
    BY <1>1, <2>1, <2>4
<1>. QED
  BY <1>6, <1>7

(* What opens and ends a connection.                                       *)
LEMMA OtherStepsLeaveNoGap ==
    ASSUME TypeOK, NoGap, MaxFaults = 0, NEW c \in Clients,
           Subscribe(c) \/ Backfill(c) \/ Replayed(c) \/ Lagged(c) \/ Refill(c) \/ Disconnect(c)
    PROVE  NoGap' /\ UNCHANGED <<stored, got>>
<1>1. UNCHANGED <<stored, held, sent, got>>
  BY DEF Subscribe, Backfill, Replayed, Lagged, Refill, Disconnect, storeVars
<1>2. CASE Subscribe(c)
  <2>1. /\ at'[c] = "subscribed" /\ last'[c] = Since(c)
        /\ \A d \in Clients \ {c} : /\ at'[d] = at[d] /\ next'[d] = next[d] /\ last'[d] = last[d]
                                    /\ upto'[d] = upto[d]
    BY <1>2 DEF Subscribe, TypeOK
  <2>2. Since(c) = Len(got[c])
    <3>1. got[c] \in Seq(1..MaxEvents)
      BY DEF TypeOK
    <3>. QED
      BY <3>1, SeqElements DEF Since, NoGap, Counts
  <2>3. Counts(c)'
    BY <1>1, <2>1, <2>2 DEF NoGap, Counts
  <2>. QED
    BY <1>1, <2>1, <2>3, ConnectionLeavesNoGap
<1>3. CASE Backfill(c) \/ Refill(c)
  <2>1. ~(faults < MaxFaults)
    BY DEF TypeOK
  <2>2. /\ at[c] # "off" /\ at' = [at EXCEPT ![c] = "replay"]
        /\ upto' = [upto EXCEPT ![c] = stored[Room]] /\ UNCHANGED <<next, last>>
    BY <1>3, <2>1 DEF Backfill, Refill
  <2>. QED
    BY <1>1, <2>2, ReadLeavesNoGap
<1>4. CASE Replayed(c)
  <2>1. /\ at[c] = "replay" /\ at'[c] = "live" /\ last[c] >= upto[c]
        /\ UNCHANGED <<next, last, upto>> /\ \A d \in Clients \ {c} : at'[d] = at[d]
        /\ last[c] \in Nat /\ upto[c] \in Nat
    BY <1>4, StreamAssumption DEF Replayed, TypeOK
  <2>2. Counts(c)'
    BY <1>1, <2>1 DEF NoGap, Counts
  <2>3. Beyond(c)' = Beyond(c) /\ Follows(c)
    BY <2>1 DEF Beyond, NoGap
  <2>4. Follows(c)'
    BY <1>1, <2>1, <2>3 DEF Follows, Coming
  <2>. QED
    BY <1>1, <2>1, <2>2, <2>4, ConnectionLeavesNoGap
<1>5. CASE Lagged(c) \/ Disconnect(c)
  <2>1. /\ at[c] # "off" /\ at'[c] \in {"off", "lagged"} /\ UNCHANGED <<last, upto>>
        /\ \A d \in Clients \ {c} : at'[d] = at[d] /\ next'[d] = next[d]
    BY <1>5 DEF Lagged, Disconnect, TypeOK
  <2>2. Counts(c)'
    BY <1>1, <2>1 DEF NoGap, Counts
  <2>. QED
    BY <1>1, <2>1, <2>2, ConnectionLeavesNoGap
<1>. QED
  BY <1>1, <1>2, <1>3, <1>4, <1>5

LEMMA RestartLeavesNoGap ==
    ASSUME TypeOK, NoGap, Restart
    PROVE  NoGap'
<1>1. /\ UNCHANGED <<stored, last, upto, got>> /\ sent' = <<>>
      /\ \A w \in Writers : held'[w] = NoEvent
      /\ \A c \in Clients : at'[c] = "off"
  BY DEF Restart
<1>2. Numbered'
  BY <1>1 DEF Numbered
<1>3. \A c \in Clients : Counts(c)'
  BY <1>1 DEF NoGap, Counts
<1>. QED
  BY <1>1, <1>2, <1>3 DEF NoGap

(* Every step keeps the numbering without a gap, and is a step of the       *)
(* follower's specification or leaves what it speaks of alone.             *)
LEMMA FollowerStep ==
    ASSUME TypeOK, NoGap, LoneWriter, MaxFaults = 0, [Next]_vars
    PROVE  NoGap' /\ [Follower!Next]_(Follower!vars)
<1>1. ASSUME NEW w \in Writers, NEW r \in Rooms, Store(w, r)
      PROVE  NoGap' /\ [Follower!Next]_(Follower!vars)
  <2>1. /\ got' = got /\ stored' = [stored EXCEPT ![r] = @ + 1] /\ stored[r] < MaxEvents
        /\ Room \in Rooms /\ stored \in [Rooms -> 0..MaxEvents]
    BY <1>1, StreamAssumption DEF Store, clientVars, TypeOK
  <2>2. CASE r = Room
    <3>1. Follower!Accept
      BY <2>1, <2>2 DEF Follower!Accept
    <3>. QED
      BY <1>1, <3>1, StoreLeavesNoGap DEF Follower!Next
  <2>3. CASE r # Room
    BY <1>1, <2>1, <2>3, StoreLeavesNoGap DEF Follower!vars
  <2>. QED
    BY <2>2, <2>3
<1>2. ASSUME NEW w \in Writers, Send(w)
      PROVE  NoGap' /\ [Follower!Next]_(Follower!vars)
  BY <1>2, SendLeavesNoGap DEF Send, clientVars, Follower!vars
<1>3. ASSUME NEW c \in Clients, Replay(c) \/ Receive(c)
      PROVE  NoGap' /\ [Follower!Next]_(Follower!vars)
  <2>1. /\ NoGap' /\ stored' = stored
        /\ \/ got' = got
           \/ Len(got[c]) < stored[Room] /\ got' = [got EXCEPT ![c] = Append(@, Len(@) + 1)]
    BY <1>3, ReplayLeavesNoGap, ReceiveLeavesNoGap
  <2>. QED
    BY <2>1 DEF Follower!Next, Follower!Receive, Follower!vars
<1>4. ASSUME NEW c \in Clients,
             Subscribe(c) \/ Backfill(c) \/ Replayed(c) \/ Lagged(c) \/ Refill(c) \/ Disconnect(c)
      PROVE  NoGap' /\ [Follower!Next]_(Follower!vars)
  BY <1>4, OtherStepsLeaveNoGap DEF Follower!vars
<1>5. CASE Restart
  BY <1>5, RestartLeavesNoGap DEF Restart, Follower!vars
<1>6. CASE UNCHANGED vars
  BY <1>6 DEF vars, storeVars, clientVars, Follower!vars, NoGap, Numbered, Counts, Follows, Coming, Beyond
<1>. QED
  BY <1>1, <1>2, <1>3, <1>4, <1>5, <1>6 DEF Next, ConnectionStep

(* openapi.yaml:537, a reconnect "loses nothing", as LogFollower states it  *)
(* here: with one writer and a log one can read, append, event_stream and   *)
(* follow_room show every client the next event of the log and no other,    *)
(* through lags, lost connections and restarts.                            *)
THEOREM LogFollowed ==
    ASSUME LoneWriter, MaxFaults = 0
    PROVE  Spec => Follower!Init /\ [][Follower!Next]_(Follower!vars)
<1>1. Init => Follower!Init
  BY StreamAssumption DEF Init, Follower!Init
<1>2. TypeOK /\ NoGap /\ [Next]_vars => NoGap' /\ [Follower!Next]_(Follower!vars)
  BY FollowerStep
<1>. QED
  BY <1>1, <1>2, NoGapInit, StreamTypeCorrect, PTL DEF Spec

=============================================================================
