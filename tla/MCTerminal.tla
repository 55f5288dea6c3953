----------------------------- MODULE MCTerminal -----------------------------
(* Terminal with two rooms, the second one made by the view.                *)
EXTENDS Terminal

CONSTANTS r1, r2, t1, t2, i1, i2, g

Entry(kind, turn, what) == [kind |-> kind, turn |-> turn, what |-> what]
Lives(a, b) == [r \in Rooms |-> IF r = r1 THEN a ELSE b]
Ask(turn, i) == Entry("requested", turn, i)
Talk == <<Entry("said", t1, g), Entry("said", t2, g), Entry("started", t1, Nothing),
          Entry("started", t2, Nothing), Entry("part", t1, Nothing), Entry("part", t1, Nothing),
          Entry("part", t2, Nothing), Entry("failed", t1, Nothing)>>

(* Two agents that speak at once; two that ask at once, one of which ends;  *)
(* a request in each of two rooms; and one whose turn is cancelled, and     *)
(* calls that fail.                                                         *)
Scenario(first, life, before, visits, answers, failing) ==
    [first |-> first, life |-> life, before |-> before, visits |-> visits, answers |-> answers,
     faults |-> failing, inbox |-> 1, approves |-> answers = 2]
FourScenes ==
    {Scenario(Rooms, Lives(Talk, <<Entry("started", t1, Nothing)>>), 7, 2, 0, 1),
     Scenario(Rooms, Lives(<<Ask(t1, i1), Ask(t2, i2)>>, <<>>), 0, 1, 2, 0),
     Scenario({r1}, Lives(<<Ask(t1, i1)>>, <<Ask(t2, i2)>>), 0, 2, 1, 0),
     Scenario({r1}, Lives(<<Ask(t1, i1), Entry("cancelling", t1, i1),
                            Entry("failed", t1, Nothing)>>, <<>>), 0, 1, 1, 1)}
=============================================================================
