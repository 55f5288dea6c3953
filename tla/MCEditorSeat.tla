---------------------------- MODULE MCEditorSeat ----------------------------
(* A room of two agents whose turns can overlap, one of which fails.       *)
EXTENDS EditorSeat

CONSTANTS a, b, t1, t2, p1, p2

TwoTurns == [t \in {t1, t2} |-> IF t = t1 THEN [by |-> a, parts |-> 2, ends |-> "finished"]
                               ELSE [by |-> b, parts |-> 1, ends |-> "failed"]]

(* Two turns side by side; a turn that somebody else's message interrupts;   *)
(* and two prompts at once.                                                 *)
ThreeCasts ==
    {[asks |-> {p1}, turns |-> {t1, t2}, others |-> 0],
     [asks |-> {p1}, turns |-> {t1}, others |-> 1],
     [asks |-> {p1, p2}, turns |-> {t2}, others |-> 0]}
=============================================================================
