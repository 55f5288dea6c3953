------------------------------ MODULE MCServer ------------------------------
(* Two callers, and three kinds of use of the server: the registry and its *)
(* rooms, the participants' keys, and messages that cost turns.             *)
EXTENDS Server

CONSTANTS f, a

ThreeUses == {{"register", "delete", "create", "close"}, {"invite", "close"},
            {"submit", "close"}}

(* What Replayed says of a log is what restore_agents makes of it, entry by *)
(* entry.                                                                   *)
Entry == [kind : {"agent.registered", "agent.removed"}, name : Names, spec : 1..2]
ASSUME FoldIsReplayed ==
    \A k \in 0..3 : \A log \in [1..k -> Entry] :
        Replayed(log) = FoldLeft(Replay, [n \in Files |-> 0], log)

Alike == Permutations(Callers) \cup Permutations(Rooms)
=============================================================================
