----------------------------- MODULE EventFile -----------------------------
(***************************************************************************)
(* The durable store of a local runtime (FileStore, src/events/mod.rs): an *)
(* append-only file of one event per line, and the projection of it in     *)
(* memory that readers see. Appends are made by API calls, whose future is *)
(* dropped when the caller hangs up, and by lanes; the process, or the     *)
(* machine under it, stops anywhere; writes and syncs fail.                *)
(*                                                                         *)
(* One room: numbers are per room. What an event says is left out; an      *)
(* event's identity is the count of appends begun before it.               *)
(***************************************************************************)
EXTENDS Integers, Sequences, FiniteSets

CONSTANTS
    Callers,     (* tasks that append                                 *)
    None,        (* nobody                                            *)
    MaxAppends,  (* bound: appends begun                              *)
    MaxDrops,    (* bound: callers that hang up                       *)
    MaxCrashes,  (* bound: times the server stops                     *)
    MaxFailures  (* bound: writes and syncs that fail                 *)

ASSUME FileAssumption ==
    /\ None \notin Callers
    /\ {MaxAppends, MaxDrops, MaxCrashes, MaxFailures} \subseteq Nat

VARIABLES
    disk,     \* what was written, in order: [id, seq, end]
    synced,   \* how many of them survive a power failure
    inFlight, \* writes whose append was dropped while they were under way
    server,   \* "up", "down", or "refused": open found the file invalid
    lock,     \* who holds the store's write lock
    mem,      \* the projection: ids, an event's number is its position
    pc,       \* where each caller's append is
    line,     \* what it writes: [id, seq]
    accepted, \* [id, seq] of every append that returned
    minted, drops, crashes, failures

diskVars   == <<disk, synced, inFlight>>
memVars    == <<server, lock, mem, pc, line>>
fileBounds == <<drops, crashes, failures>>
fileVars   == <<diskVars, memVars, accepted, minted, fileBounds>>

NoLine == [id |-> 0, seq |-> 0]

(* How a line can end: with its newline, complete without it, or cut short. *)
Endings == {"line", "bare", "cut"}

Written(l, end) == [id |-> l.id, seq |-> l.seq, end |-> end]

-----------------------------------------------------------------------------
(* One append.                                                             *)

Takes(c) ==
    /\ server = "up"
    /\ pc[c] = "idle"
    /\ minted < MaxAppends
    /\ minted' = minted + 1
    /\ line' = [line EXCEPT ![c] = [id |-> minted + 1, seq |-> Len(mem) + 1]]
    /\ pc' = [pc EXCEPT ![c] = "write"]
    /\ UNCHANGED <<diskVars, server, mem, accepted, fileBounds>>

(* A slip: the number is taken without the lock. *)
BeginUnlocked(c) == Takes(c) /\ UNCHANGED lock

(* The write lock, held to the end of the append, and the next number. *)
Begin(c) == lock = None /\ lock' = c /\ Takes(c)

(* The line is in the file, though perhaps not yet on the disk. *)
Write(c) ==
    /\ pc[c] = "write"
    /\ disk' = Append(disk, Written(line[c], "line"))
    /\ pc' = [pc EXCEPT ![c] = "sync"]
    /\ UNCHANGED <<synced, inFlight, server, lock, mem, line, accepted, minted, fileBounds>>

(* The append's future is done or dropped, and its lock with it. *)
Leaves(c) ==
    /\ pc' = [pc EXCEPT ![c] = "idle"]
    /\ line' = [line EXCEPT ![c] = NoLine]
    /\ lock' = None

(* A slip: visible once written. *)
PublishUnsynced(c) ==
    /\ pc[c] = "sync"
    /\ mem' = Append(mem, line[c].id)
    /\ accepted' = accepted \cup {line[c]}
    /\ Leaves(c)
    /\ UNCHANGED <<diskVars, server, minted, fileBounds>>

(* sync_data returned: the event joins the projection and becomes visible,  *)
(* with no await in between.                                                *)
Publish(c) ==
    /\ pc[c] = "sync"
    /\ synced' = Len(disk)
    /\ mem' = Append(mem, line[c].id)
    /\ accepted' = accepted \cup {line[c]}
    /\ Leaves(c)
    /\ UNCHANGED <<disk, inFlight, server, minted, fileBounds>>

-----------------------------------------------------------------------------
(* What goes wrong.                                                        *)

Fault == failures < MaxFailures /\ failures' = failures + 1

(* The file cannot be opened, or the disk is full: nothing, or a part of    *)
(* the line, is written. The caller is told.                                *)
WriteFails(c) ==
    /\ pc[c] = "write"
    /\ Fault
    /\ \/ UNCHANGED disk
       \/ \E end \in {"bare", "cut"} : disk' = Append(disk, Written(line[c], end))
    /\ Leaves(c)
    /\ UNCHANGED <<synced, inFlight, server, mem, accepted, minted, drops, crashes>>

(* The caller is told so here too, but the line is in the file. *)
SyncFails(c) ==
    /\ pc[c] = "sync"
    /\ Fault
    /\ Leaves(c)
    /\ UNCHANGED <<diskVars, server, mem, accepted, minted, drops, crashes>>

(* The caller hangs up, and its append is dropped at an await. A write      *)
(* handed to the blocking pool goes on without it.                          *)
Drop(c) ==
    /\ pc[c] # "idle"
    /\ drops < MaxDrops
    /\ drops' = drops + 1
    /\ inFlight' \in IF pc[c] = "write" THEN {inFlight, inFlight \cup {line[c]}} ELSE {inFlight}
    /\ Leaves(c)
    /\ UNCHANGED <<disk, synced, server, mem, accepted, minted, crashes, failures>>

Lands(l) ==
    /\ inFlight' = inFlight \ {l}
    /\ disk' = Append(disk, Written(l, "line"))
    /\ UNCHANGED <<synced, memVars, accepted, minted, fileBounds>>

(* The process or the machine stops. Of what was not synced, the file keeps *)
(* a prefix, the last line of it perhaps in part.                           *)
Crash ==
    /\ server = "up"
    /\ crashes < MaxCrashes
    /\ crashes' = crashes + 1
    /\ \E n \in synced..Len(disk) :
        \/ disk' = SubSeq(disk, 1, n)
        \/ /\ n > synced /\ disk[n].end = "line"
           /\ \E end \in {"bare", "cut"} :
                  disk' = [SubSeq(disk, 1, n) EXCEPT ![n].end = end]
    /\ synced' = Len(disk')
    /\ inFlight' = {}
    /\ server' = "down"
    /\ lock' = None
    /\ mem' = <<>>
    /\ pc' = [c \in Callers |-> "idle"]
    /\ line' = [c \in Callers |-> NoLine]
    /\ UNCHANGED <<accepted, minted, drops, failures>>

-----------------------------------------------------------------------------
(* Opening the file.                                                       *)

(* Every line parses: what was written without a newline is read as one     *)
(* with what follows it, and only a last complete one can do without.       *)
Parses ==
    \A k \in DOMAIN disk :
        disk[k].end = "line" \/ (k = Len(disk) /\ disk[k].end = "bare")

(* "expected sequence {expected}, got {}" *)
Contiguous == \A k \in DOMAIN disk : disk[k].seq = k

(* A slip: the numbers in the file are not compared with the positions.     *)
IsValidInAnyOrder == Parses

IsValid == Parses /\ Contiguous

Open ==
    /\ server = "down"
    /\ IF IsValid
       THEN /\ server' = "up"
            /\ mem' = [k \in DOMAIN disk |-> disk[k].id]
       ELSE server' = "refused" /\ UNCHANGED mem
    /\ UNCHANGED <<diskVars, lock, pc, line, accepted, minted, fileBounds>>

-----------------------------------------------------------------------------
FileInit ==
    /\ disk = <<>> /\ synced = 0 /\ inFlight = {}
    /\ server = "up" /\ lock = None /\ mem = <<>>
    /\ pc = [c \in Callers |-> "idle"]
    /\ line = [c \in Callers |-> NoLine]
    /\ accepted = {} /\ minted = 0
    /\ drops = 0 /\ crashes = 0 /\ failures = 0

FileNext ==
    \/ \E c \in Callers :
        \/ Begin(c) \/ Write(c) \/ Publish(c)
        \/ WriteFails(c) \/ SyncFails(c) \/ Drop(c)
    \/ \E l \in inFlight : Lands(l)
    \/ Crash
    \/ Open

FileSpec == FileInit /\ [][FileNext]_fileVars
-----------------------------------------------------------------------------
(* Properties.                                                             *)

Line    == [id : Nat, seq : Nat]
OnDisk  == [id : Nat, seq : Nat, end : Endings]

(* Every variable holds what the code's types let it hold, and the lock is  *)
(* held by the append in progress and by nothing else.                      *)
FileTypeOK ==
    /\ disk \in Seq(OnDisk)
    /\ synced \in 0..Len(disk)
    /\ inFlight \subseteq Line
    /\ server \in {"up", "down", "refused"}
    /\ lock \in Callers \cup {None}
    /\ mem \in Seq(Nat)
    /\ pc \in [Callers -> {"idle", "write", "sync"}]
    /\ line \in [Callers -> Line]
    /\ \A c \in Callers : pc[c] # "idle" <=> lock = c
    /\ accepted \subseteq Line
    /\ minted \in Nat
    /\ drops \in Nat /\ crashes \in Nat /\ failures \in Nat

(* "Every accepted event is flushed to disk before it becomes visible"      *)
(* (events/mod.rs:151): what a caller was told is stored is in the part of  *)
(* the file no power failure takes, whatever crashed, failed or hung up in  *)
(* between.                                                                 *)
AcceptedIsDurable ==
    \A l \in accepted :
        \E k \in 1..synced : disk[k].id = l.id /\ disk[k].seq = l.seq /\ disk[k].end # "cut"

(* An accepted event keeps its number for as long as there is a server to   *)
(* ask, before and after any restart: Last-Event-ID means what it meant.    *)
NumbersAreStable ==
    server = "up" => \A l \in accepted : l.seq \in DOMAIN mem /\ mem[l.seq] = l.id

(* A stop alone, wherever it falls, never leaves a file that cannot be      *)
(* opened, as long as it leaves whole lines: appends in progress at the     *)
(* same time never write the same number.                                   *)
StopLeavesValidFile ==
    drops = 0 /\ failures = 0 /\ (\A k \in DOMAIN disk : disk[k].end = "line")
        => server # "refused"

(* open's "expected sequence {expected}, got {}" (events/mod.rs:191) takes  *)
(* it that the store only ever writes the numbers 1, 2, 3 and so on.        *)
WritesInSequence == Contiguous
=============================================================================
