----------------------------- MODULE ServerProofs -----------------------------
(* Theorems about Server, for any callers, agents and rooms, any budgets and *)
(* any number of calls, restarts and faults.                                 *)
EXTENDS Server, TLAPS, FiniteSetTheorems

(***************************************************************************)
(* The data: a log with one more entry, the registry, the buckets.         *)
(***************************************************************************)

Entries == [kind : {"agent.registered", "agent.removed"}, name : Names, spec : 0..MaxCalls]

(* What the log says of other agents stays, and of this one it says what    *)
(* the new entry says.                                                      *)
LEMMA ReplayedOneMore ==
    ASSUME NEW log \in Seq(Entries), NEW e \in Entries
    PROVE  LET later == Replayed(Append(log, e)) IN
           /\ \A n \in Names \ {e.name} :
                 /\ n \in DOMAIN later <=> n \in DOMAIN Replayed(log)
                 /\ n \in DOMAIN later => later[n] = Replayed(log)[n]
           /\ e.name \in DOMAIN later <=> e.kind = "agent.registered"
           /\ e.kind = "agent.registered" => later[e.name] = e.spec
<1> DEFINE more == Append(log, e)
           k == Len(log) + 1
<1>1. /\ Len(log) \in Nat /\ DOMAIN log = 1..Len(log) /\ DOMAIN more = 1..k /\ more[k] = e
      /\ \A i \in 1..Len(log) : more[i] = log[i] /\ log[i] \in Entries
  OBVIOUS
<1>2. e.name \in Names
  BY DEF Entries
<1>. HIDE DEF more, k
<1>3. ASSUME NEW n \in Names \ {e.name}
      PROVE  /\ Latest(more, n) = Latest(log, n) /\ Latest(log, n) \subseteq 1..Len(log)
             /\ \A i \in Latest(log, n) : more[i] = log[i]
  BY <1>1 DEF Latest, k
<1>4. Latest(more, e.name) = {k}
  BY <1>1 DEF Latest, k
<1>5. ASSUME NEW n \in Names \ {e.name}
      PROVE  /\ Known(more, n) <=> Known(log, n)
             /\ Known(log, n) => Replayed(more)[n] = Replayed(log)[n]
  <2>1. Known(more, n) <=> Known(log, n)
    BY <1>3 DEF Known
  <2>2. CASE Latest(log, n) = {}
    BY <1>3, <2>1, <2>2 DEF Replayed
  <2>3. CASE Latest(log, n) # {}
    <3> DEFINE i == CHOOSE i \in Latest(log, n) : TRUE
    <3>1. i \in Latest(log, n)
      BY <2>3
    <3>2. more[i] = log[i]
      BY <1>3, <3>1
    <3>3. ASSUME Known(log, n) PROVE Replayed(more)[n] = more[i].spec /\ Replayed(log)[n] = log[i].spec
      BY <1>3, <2>1, <2>3, <3>3 DEF Replayed
    <3>. QED
      BY <2>1, <3>2, <3>3
  <2>. QED
    BY <2>2, <2>3
<1>6. Known(more, e.name) <=> e.kind = "agent.registered"
  BY <1>1, <1>4 DEF Known
<1>7. e.kind = "agent.registered" => Replayed(more)[e.name] = e.spec
  <2>1. (CHOOSE i \in Latest(more, e.name) : TRUE) = k
    BY <1>4
  <2>2. ASSUME Known(more, e.name) PROVE Replayed(more)[e.name] = more[k].spec
    BY <1>2, <1>4, <2>1, <2>2 DEF Replayed
  <2>. QED
    BY <1>1, <1>6, <2>2
<1>8. \A l : DOMAIN Replayed(l) = {m \in Names : Known(l, m)}
  BY DEF Replayed
<1>. QED
  BY <1>2, <1>5, <1>6, <1>7, <1>8 DEF more

LEMMA ReplayedType ==
    ASSUME NEW log \in Seq(Entries), MaxCalls \in Nat
    PROVE  DOMAIN Replayed(log) \subseteq Names /\ \A n \in DOMAIN Replayed(log) : Replayed(log)[n] \in 0..MaxCalls
<1>1. DOMAIN Replayed(log) \subseteq Names
  BY DEF Replayed
<1>2. ASSUME NEW n \in DOMAIN Replayed(log), Latest(log, n) # {}
      PROVE  Replayed(log)[n] \in 0..MaxCalls
  <2> DEFINE i == CHOOSE i \in Latest(log, n) : TRUE
  <2>1. i \in DOMAIN log
    BY <1>2 DEF Latest
  <2>2. \A j \in DOMAIN log : log[j] \in Entries
    OBVIOUS
  <2>3. log[i].spec \in 0..MaxCalls
    BY <2>1, <2>2 DEF Entries
  <2>. QED
    BY <1>2, <2>3 DEF Replayed
<1>3. ASSUME NEW n \in DOMAIN Replayed(log), Latest(log, n) = {}
      PROVE  Replayed(log)[n] \in 0..MaxCalls
  BY <1>3 DEF Replayed
<1>. QED
  BY <1>1, <1>2, <1>3

LEMMA PutFacts ==
    ASSUME NEW reg, NEW n, NEW spec
    PROVE  /\ DOMAIN Put(reg, n, spec) = DOMAIN reg \cup {n} /\ Put(reg, n, spec)[n] = spec
           /\ \A m \in DOMAIN reg \ {n} : Put(reg, n, spec)[m] = reg[m]
BY DEF Put

LEMMA RestrictFacts ==
    ASSUME NEW reg, NEW S
    PROVE  DOMAIN Restrict(reg, S) = S /\ \A m \in S : Restrict(reg, S)[m] = reg[m]
BY DEF Restrict

(* The buckets of a limiter of n turns for the keys of S.                   *)
Buckets(b, S, n, now) ==
    /\ DOMAIN b \subseteq S
    /\ \A k \in DOMAIN b : b[k].tokens \in Int /\ b[k].tokens <= Full(n) /\ b[k].last \in 0..now

LEMMA LevelBound ==
    ASSUME NEW b, b.tokens \in Int, b.last \in Int, NEW n \in Nat, NEW now \in Nat
    PROVE  Level(b, n, now) \in Int /\ Level(b, n, now) <= Full(n)
<1>1. Full(n) \in Int
  BY LimiterAssumption DEF Full, Token
<1>2. b.tokens + n * (now - b.last) \in Int
  OBVIOUS
<1>. QED
  BY <1>1, <1>2 DEF Level

LEMMA RefilledBuckets ==
    ASSUME NEW b, NEW S, NEW n \in Nat, NEW now \in Nat, Buckets(b, S, n, now), NEW key \in S
    PROVE  /\ Buckets(Refilled(b, n, key, now), S, n, now)
           /\ key \in DOMAIN Refilled(b, n, key, now)
<1> DEFINE left == IF key \notin DOMAIN b /\ Cardinality(DOMAIN b) >= EvictAt
                   THEN Restrict(b, {k \in DOMAIN b : now - b[k].last <= Idle})
                   ELSE b
           tokens == IF key \in DOMAIN left THEN Level(left[key], n, now) ELSE Full(n)
<1>1. Buckets(left, S, n, now)
  BY RestrictFacts DEF Buckets
<1>2. Refilled(b, n, key, now) = [k \in DOMAIN left \cup {key} |->
            IF k = key THEN [tokens |-> tokens, last |-> now] ELSE left[k]]
  BY DEF Refilled
<1>. HIDE DEF left
<1>3. Full(n) \in Int
  BY LimiterAssumption DEF Full, Token
<1>4. tokens \in Int /\ tokens <= Full(n)
  <2>1. CASE key \in DOMAIN left
    BY <1>1, <2>1, LevelBound DEF Buckets
  <2>. QED
    BY <1>3, <2>1
<1>. HIDE DEF tokens
<1>. QED
  BY <1>1, <1>2, <1>4 DEF Buckets

LEMMA ChargedBuckets ==
    ASSUME NEW b, NEW S, NEW n \in Nat, NEW now \in Nat, Buckets(b, S, n, now), NEW key \in S,
           NEW turns \in Nat
    PROVE  Buckets(Charged(b, n, key, now, turns), S, n, now)
<1> DEFINE f == Refilled(b, n, key, now)
<1>1. Buckets(f, S, n, now) /\ key \in DOMAIN f
  BY RefilledBuckets
<1>2. turns * Token \in Nat
  BY LimiterAssumption DEF Token
<1>3. \E t, l : f[key] = [tokens |-> t, last |-> l]
  BY DEF Refilled
<1>4. Full(n) \in Int
  BY LimiterAssumption DEF Full, Token
<1>. HIDE DEF f
<1>5. Buckets([f EXCEPT ![key].tokens = @ - turns * Token], S, n, now)
  <2> DEFINE g == [f EXCEPT ![key].tokens = @ - turns * Token]
  <2>1. /\ DOMAIN g = DOMAIN f /\ \A k \in DOMAIN f \ {key} : g[k] = f[k]
        /\ g[key].tokens = f[key].tokens - turns * Token /\ g[key].last = f[key].last
    BY <1>1, <1>3
  <2>. HIDE DEF g
  <2>2. g[key].tokens \in Int /\ g[key].tokens <= Full(n)
    BY <1>1, <1>2, <1>4, <2>1 DEF Buckets
  <2>3. Buckets(g, S, n, now)
    BY <1>1, <2>1, <2>2 DEF Buckets
  <2>. QED
    BY <2>3 DEF g
<1>. QED
  BY <1>1, <1>5 DEF Charged, f

(***************************************************************************)
(* The calls: what each handler's steps do to them.                        *)
(***************************************************************************)

Calls == [op : {"none", "register", "delete", "create", "invite", "submit"},
          at : {"none", "append", "remove", "insert", "accept", "charge"},
          on : Names \cup Rooms \cup {""}, with : SUBSET Names, n : Nat, alone : BOOLEAN]

Fits(k) ==
    /\ k \in Calls
    /\ k.op \in {"register", "delete"} => k.on \in Names
    /\ k.op \in {"create", "invite", "submit"} => k.on \in Rooms
    /\ k.op \in {"register", "invite"} => k.n \in 0..MaxCalls
    /\ k.op = "create" => k.at \in {"append", "insert"} /\ k.with # {}

CallTypes ==
    /\ call \in [Callers -> Calls] /\ \A c \in Callers : Fits(call[c])
    /\ made \in 0..MaxCalls

(* The same task, wherever it has come to.                                  *)
Like(k, l) == k.op = l.op /\ k.on = l.on /\ k.with = l.with

LEMMA LikeDisturbs ==
    ASSUME NEW k, NEW l, NEW j, NEW i, Like(j, k), Like(i, l)
    PROVE  Disturbs(j, i) <=> Disturbs(k, l)
BY DEF Like, Disturbs, About

(* A new call k of c; c's call comes to another place; c's call is over.    *)
Arrives(c, k) ==
    /\ call[c].op = "none"
    /\ Like(call'[c], k) /\ call'[c].at = k.at /\ call'[c].n = k.n
    /\ call'[c].alone => \A e \in Callers : ~Disturbs(call[e], k)
    /\ \A d \in Callers \ {c} :
          /\ Like(call'[d], call[d]) /\ call'[d].at = call[d].at /\ call'[d].n = call[d].n
          /\ call'[d].alone => call[d].alone /\ ~Disturbs(k, call[d])

Moves(c, at) ==
    /\ Like(call'[c], call[c]) /\ call'[c].at = at
    /\ call'[c].alone = call[c].alone /\ (call[c].op # "submit" => call'[c].n = call[c].n)
    /\ \A d \in Callers \ {c} : call'[d] = call[d]

Ends(c) == call'[c] = Nobody /\ \A d \in Callers \ {c} : call'[d] = call[d]

LEMMA BeginFacts ==
    ASSUME CallTypes, MaxCalls \in Nat, NEW c \in Callers, NEW k, Fits(k), Begin(c, k)
    PROVE  Arrives(c, k) /\ CallTypes'
<1> DEFINE mine == [k EXCEPT !.alone = \A e \in Callers : ~Disturbs(call[e], k)]
           theirs(d) == [call[d] EXCEPT !.alone = @ /\ ~Disturbs(k, call[d])]
<1>1. /\ mine \in Calls /\ Like(mine, k) /\ mine.at = k.at /\ mine.n = k.n
      /\ mine.alone <=> \A e \in Callers : ~Disturbs(call[e], k)
  BY DEF Fits, Calls, Like
<1>2. ASSUME NEW d \in Callers
      PROVE  /\ theirs(d) \in Calls /\ Like(theirs(d), call[d])
             /\ theirs(d).at = call[d].at /\ theirs(d).n = call[d].n
             /\ theirs(d).alone <=> call[d].alone /\ ~Disturbs(k, call[d])
  BY DEF CallTypes, Calls, Like
<1>3. call' = [d \in Callers |-> IF d = c THEN mine ELSE theirs(d)]
  BY DEF Begin
<1>4. call'[c] = mine /\ \A d \in Callers \ {c} : call'[d] = theirs(d)
  BY <1>3
<1>5. call[c].op = "none" /\ made' \in 0..MaxCalls
  BY DEF Begin, CallTypes
<1>6. call' \in [Callers -> Calls]
  BY <1>1, <1>2, <1>3
<1>. HIDE DEF mine, theirs
<1>7. \A d \in Callers : Fits(call'[d])
  BY <1>1, <1>2, <1>4, <1>6 DEF Fits, Like, CallTypes
<1>. QED
  BY <1>1, <1>2, <1>4, <1>5, <1>6, <1>7 DEF Arrives, CallTypes

LEMMA GoesFacts ==
    ASSUME CallTypes, NEW c \in Callers, NEW at \in {"append", "insert"}, Goes(c, at)
    PROVE  Moves(c, at) /\ CallTypes' /\ UNCHANGED <<work, made, restarts, faults>>
<1> DEFINE mine == [call[c] EXCEPT !.at = at]
<1>1. /\ mine \in Calls /\ Like(mine, call[c])
      /\ mine.at = at /\ mine.alone = call[c].alone /\ mine.n = call[c].n
  BY DEF CallTypes, Calls, Like
<1>2. /\ call' \in [Callers -> Calls] /\ call'[c] = mine
      /\ \A d \in Callers \ {c} : call'[d] = call[d]
  BY <1>1 DEF Goes, CallTypes
<1>. HIDE DEF mine
<1>3. Fits(call'[c])
  BY <1>1, <1>2 DEF CallTypes, Fits, Like
<1>4. \A d \in Callers : Fits(call'[d])
  BY <1>2, <1>3 DEF CallTypes
<1>. QED
  BY <1>1, <1>2, <1>4 DEF Moves, Goes, CallTypes

LEMMA NobodyFits == Nobody \in Calls /\ Fits(Nobody) /\ Nobody.op = "none"
BY DEF Nobody, Calls, Fits

LEMMA ReturnsFacts ==
    ASSUME CallTypes, NEW c \in Callers, call' = [call EXCEPT ![c] = Nobody], made' = made
    PROVE  Ends(c) /\ CallTypes'
BY NobodyFits DEF CallTypes, Ends

LEMMA Bounds == /\ {MaxWake, MaxCalls, MaxClock, MaxRestarts, MaxFaults} \subseteq Nat
                /\ MaxCalls \in Nat /\ MaxWake \in Nat /\ MaxClock \in Nat
                /\ PerRoom \in Nat /\ Total \in Nat
BY ServerAssumption

(* The calls that begin in each handler.                                    *)
LEMMA CallsBegin ==
    ASSUME CallTypes, NEW c \in Callers
    PROVE  /\ \A n \in Names : Register(c, n) => CallTypes' /\
                 \E k : /\ k.op = "register" /\ k.at = "append" /\ k.on = n /\ k.n = made + 1
                        /\ Arrives(c, k)
           /\ \A n \in Names, force \in BOOLEAN : Delete(c, n, force) => CallTypes' /\
                 \E k : k.op = "delete" /\ k.at = "remove" /\ k.on = n /\ Arrives(c, k)
           /\ \A r \in Rooms, agents \in SUBSET Names : Create(c, r, agents) => CallTypes' /\
                 \E k : /\ k.op = "create" /\ k.at = "append" /\ k.on = r /\ k.with = agents
                        /\ Arrives(c, k)
           /\ \A r \in Rooms : IssueKey(c, r) => CallTypes' /\
                 \E k : k.op = "invite" /\ k.at = "append" /\ k.on = r /\ Arrives(c, k)
           /\ \A r \in Rooms : Admit(c, r) => CallTypes' /\
                 \E k : k.op = "submit" /\ k.at = "accept" /\ k.on = r /\ Arrives(c, k)
<1>0. \A k : Begin(c, k) => made + 1 \in 0..MaxCalls
  BY Bounds DEF CallTypes, Begin
<1>1. ASSUME NEW n \in Names, Register(c, n)
      PROVE  CallTypes' /\
             \E k : /\ k.op = "register" /\ k.at = "append" /\ k.on = n /\ k.n = made + 1
                    /\ Arrives(c, k)
  <2> DEFINE k == [Nobody EXCEPT !.op = "register", !.at = "append", !.on = n, !.n = made + 1]
  <2>1. Begin(c, k)
    BY <1>1 DEF Register
  <2>2. made + 1 \in 0..MaxCalls /\ made + 1 \in Nat
    BY <1>0, <2>1, Bounds
  <2>3. Fits(k) /\ k.op = "register" /\ k.at = "append" /\ k.on = n /\ k.n = made + 1
    BY <2>2 DEF Fits, Calls, Nobody
  <2>. QED
    BY <2>1, <2>3, BeginFacts, Bounds
<1>2. ASSUME NEW n \in Names, NEW force \in BOOLEAN, Delete(c, n, force)
      PROVE  CallTypes' /\
             \E k : k.op = "delete" /\ k.at = "remove" /\ k.on = n /\ Arrives(c, k)
  <2> DEFINE k == [Nobody EXCEPT !.op = "delete", !.at = "remove", !.on = n]
  <2>1. Begin(c, k)
    BY <1>2 DEF Delete
  <2>2. Fits(k) /\ k.op = "delete" /\ k.at = "remove" /\ k.on = n
    BY DEF Fits, Calls, Nobody
  <2>. QED
    BY <2>1, <2>2, BeginFacts, Bounds
<1>3. ASSUME NEW r \in Rooms, NEW agents \in SUBSET Names, Create(c, r, agents)
      PROVE  CallTypes' /\
             \E k : /\ k.op = "create" /\ k.at = "append" /\ k.on = r /\ k.with = agents
                    /\ Arrives(c, k)
  <2> DEFINE k == [Nobody EXCEPT !.op = "create", !.at = "append", !.on = r, !.with = agents]
  <2>1. Begin(c, k) /\ agents # {}
    BY <1>3 DEF Create
  <2>2. Fits(k) /\ k.op = "create" /\ k.at = "append" /\ k.on = r /\ k.with = agents
    BY <2>1 DEF Fits, Calls, Nobody
  <2>. QED
    BY <2>1, <2>2, BeginFacts, Bounds
<1>4. ASSUME NEW r \in Rooms, IssueKey(c, r)
      PROVE  CallTypes' /\
             \E k : k.op = "invite" /\ k.at = "append" /\ k.on = r /\ Arrives(c, k)
  <2> DEFINE k == [Nobody EXCEPT !.op = "invite", !.at = "append", !.on = r, !.n = made + 1]
  <2>1. Begin(c, k)
    BY <1>4 DEF IssueKey
  <2>2. made + 1 \in 0..MaxCalls /\ made + 1 \in Nat
    BY <1>0, <2>1, Bounds
  <2>3. Fits(k) /\ k.op = "invite" /\ k.at = "append" /\ k.on = r
    BY <2>2 DEF Fits, Calls, Nobody
  <2>. QED
    BY <2>1, <2>3, BeginFacts, Bounds
<1>5. ASSUME NEW r \in Rooms, Admit(c, r)
      PROVE  CallTypes' /\
             \E k : k.op = "submit" /\ k.at = "accept" /\ k.on = r /\ Arrives(c, k)
  <2> DEFINE k == [Nobody EXCEPT !.op = "submit", !.at = "accept", !.on = r]
  <2>1. Begin(c, k)
    BY <1>5 DEF Admit
  <2>2. Fits(k) /\ k.op = "submit" /\ k.at = "accept" /\ k.on = r
    BY DEF Fits, Calls, Nobody
  <2>. QED
    BY <2>1, <2>2, BeginFacts, Bounds
<1>. QED
  BY <1>1, <1>2, <1>3, <1>4, <1>5

(* The calls that go on.                                                    *)
LEMMA CallsGoOn ==
    ASSUME CallTypes, NEW c \in Callers
    PROVE  /\ LogRegistered(c) \/ LogRemoved(c) \/ Insert(c) \/ InsertKey(c) \/ Charge(c) \/ Breaks(c)
                 => CallTypes' /\ Ends(c)
           /\ Unregister(c) => CallTypes' /\ (Ends(c) \/ Moves(c, "append"))
           /\ LogCreated(c) \/ LogInvited(c) => CallTypes' /\ Moves(c, "insert")
           /\ \A wake \in 0..MaxWake : Accept(c, wake) =>
                 CallTypes' /\ (Ends(c) \/ (Moves(c, "charge") /\ call'[c].n = wake))
<1>1. ASSUME LogRegistered(c) \/ LogRemoved(c) \/ Insert(c) \/ InsertKey(c) \/ Charge(c) \/ Breaks(c)
      PROVE  CallTypes' /\ Ends(c)
  <2>1. call' = [call EXCEPT ![c] = Nobody] /\ made' = made
    BY <1>1 DEF LogRegistered, LogRemoved, Insert, InsertKey, Charge, Breaks, Returns
  <2>. QED
    BY <2>1, ReturnsFacts
<1>2. ASSUME Unregister(c) PROVE CallTypes' /\ (Ends(c) \/ Moves(c, "append"))
  <2>1. Goes(c, "append") \/ Returns(c)
    BY <1>2 DEF Unregister
  <2>. QED
    BY <2>1, GoesFacts, ReturnsFacts DEF Returns
<1>3. ASSUME LogCreated(c) \/ LogInvited(c) PROVE CallTypes' /\ Moves(c, "insert")
  <2>1. Goes(c, "insert")
    BY <1>3 DEF LogCreated, LogInvited
  <2>. QED
    BY <2>1, GoesFacts
<1>4. ASSUME NEW wake \in 0..MaxWake, Accept(c, wake)
      PROVE  CallTypes' /\ (Ends(c) \/ (Moves(c, "charge") /\ call'[c].n = wake))
  <2>1. CASE Returns(c)
    BY <2>1, ReturnsFacts DEF Returns
  <2>2. CASE call' = [call EXCEPT ![c].at = "charge", ![c].n = wake] /\ made' = made
    <3> DEFINE mine == [call[c] EXCEPT !.at = "charge", !.n = wake]
    <3>0. wake \in Nat /\ call[c] \in Calls
      BY Bounds DEF CallTypes
    <3>1. /\ mine \in Calls /\ Like(mine, call[c]) /\ mine.at = "charge" /\ mine.n = wake
          /\ mine.alone = call[c].alone
      BY <3>0 DEF Calls, Like
    <3>2. /\ call' \in [Callers -> Calls] /\ call'[c] = mine
          /\ \A d \in Callers \ {c} : call'[d] = call[d]
      BY <2>2, <3>1 DEF CallTypes
    <3>3. call[c].op = "submit"
      BY <1>4 DEF Accept, In
    <3>. HIDE DEF mine
    <3>4. \A d \in Callers : Fits(call'[d])
      BY <3>1, <3>2, <3>3 DEF CallTypes, Fits, Like
    <3>. QED
      BY <2>2, <3>1, <3>2, <3>3, <3>4 DEF Moves, CallTypes
  <2>. QED
    BY <1>4, <2>1, <2>2 DEF Accept
<1>. QED
  BY <1>1, <1>2, <1>3, <1>4

LEMMA CallsStep == CallTypes /\ [Next]_vars => CallTypes'
<1>. SUFFICES ASSUME CallTypes, [Next]_vars PROVE CallTypes'
  OBVIOUS
<1>1. CASE Restart
  <2>1. call' = [c \in Callers |-> Nobody] /\ made' = made
    BY <1>1 DEF Restart
  <2>. QED
    BY <2>1, NobodyFits DEF CallTypes
<1>2. CASE (\E r \in Rooms : Close(r) \/ TooMany(r)) \/ Tick \/ UNCHANGED vars
  <2>1. call' = call /\ made' = made
    BY <1>2 DEF Close, TooMany, Tick, vars
  <2>. QED
    BY <2>1 DEF CallTypes
<1>. QED
  BY <1>1, <1>2, CallsBegin, CallsGoOn DEF Next, Done

(***************************************************************************)
(* Types.                                                                  *)
(***************************************************************************)

RegistryTypes ==
    /\ syslog \in Seq(Entries)
    /\ DOMAIN registry \subseteq Names /\ \A n \in DOMAIN registry : registry[n] \in 0..MaxCalls
    /\ keys \in [Rooms -> 0..MaxCalls] /\ invited \in [Rooms -> 0..MaxCalls]
    /\ doubtful \subseteq Names \cup Rooms

LEMMA RegistryTypesStep == CallTypes /\ RegistryTypes /\ [Next]_vars => RegistryTypes'
<1>. SUFFICES ASSUME CallTypes, RegistryTypes, [Next]_vars PROVE RegistryTypes'
  OBVIOUS
<1>0. \A c \in Callers : Fits(call[c]) /\ Settled(c) \subseteq doubtful
  BY DEF CallTypes, Settled
<1>1. ASSUME NEW c \in Callers, NEW n \in Names, Register(c, n) PROVE RegistryTypes'
  <2>1. made < MaxCalls
    BY <1>1 DEF Register, Begin
  <2>2. made + 1 \in 0..MaxCalls
    BY <2>1, Bounds DEF CallTypes
  <2>3. /\ registry' = Put(registry, n, made + 1) /\ doubtful' = doubtful \cup {n}
        /\ UNCHANGED <<syslog, keys, invited>>
    BY <1>1 DEF Register, stored
  <2>4. DOMAIN registry' \subseteq Names /\ \A m \in DOMAIN registry' : registry'[m] \in 0..MaxCalls
    BY <2>2, <2>3 DEF Put, RegistryTypes
  <2>. QED
    BY <2>3, <2>4 DEF RegistryTypes
<1>2. ASSUME NEW c \in Callers, LogRegistered(c) \/ LogRemoved(c) PROVE RegistryTypes'
  <2>1. \E e \in Entries : syslog' = Append(syslog, e)
    <3>1. CASE LogRegistered(c)
      <4>1. [kind |-> "agent.registered", name |-> call[c].on, spec |-> call[c].n] \in Entries
        BY <1>0, <3>1 DEF LogRegistered, In, Fits, Entries
      <4>. QED
        BY <3>1, <4>1 DEF LogRegistered
    <3>2. CASE LogRemoved(c)
      <4>1. [kind |-> "agent.removed", name |-> call[c].on, spec |-> 0] \in Entries
        BY <1>0, <3>2, Bounds DEF LogRemoved, In, Fits, Entries
      <4>. QED
        BY <3>2, <4>1 DEF LogRemoved
    <3>. QED
      BY <1>2, <3>1, <3>2
  <2>2. syslog' \in Seq(Entries)
    BY <2>1 DEF RegistryTypes
  <2>. QED
    BY <1>0, <1>2, <2>2 DEF LogRegistered, LogRemoved, RegistryTypes, memory
<1>3. ASSUME NEW c \in Callers, Unregister(c) PROVE RegistryTypes'
  BY <1>0, <1>3, RestrictFacts DEF Unregister, In, Fits, RegistryTypes, stored
<1>4. ASSUME NEW c \in Callers, LogInvited(c) PROVE RegistryTypes'
  BY <1>0, <1>4 DEF LogInvited, In, Fits, RegistryTypes, memory
<1>5. ASSUME NEW c \in Callers, InsertKey(c) PROVE RegistryTypes'
  BY <1>0, <1>5 DEF InsertKey, In, Fits, RegistryTypes, stored
<1>6. CASE Restart
  BY <1>6, ReplayedType, Bounds DEF Restart, Restored, RegistryTypes, stored
<1>7. CASE UNCHANGED <<registry, syslog, keys, invited, doubtful>>
  BY <1>7 DEF RegistryTypes
<1>8. CASE \E c \in Callers :
             \/ \E n \in Names, force \in BOOLEAN : Delete(c, n, force)
             \/ \E r \in Rooms : IssueKey(c, r) \/ Admit(c, r) \/ \E agents \in SUBSET Names : Create(c, r, agents)
             \/ LogCreated(c) \/ Insert(c) \/ Charge(c) \/ Breaks(c)
             \/ \E wake \in 0..MaxWake : Accept(c, wake)
  BY <1>7, <1>8 DEF Delete, IssueKey, Admit, Create, LogCreated, Insert, Charge, Breaks, Accept,
                    memory, stored
<1>9. CASE (\E r \in Rooms : Close(r) \/ TooMany(r)) \/ Tick \/ UNCHANGED vars
  BY <1>7, <1>9 DEF Close, TooMany, Tick, vars, memory, stored
<1>. QED
  BY <1>1, <1>2, <1>3, <1>4, <1>5, <1>6, <1>8, <1>9 DEF Next, Done

RoomStates == [with : SUBSET Names, live : BOOLEAN, closed : BOOLEAN]

(* A room is live only after its agents were logged.                        *)
RoomTypes ==
    /\ rooms \in [Rooms -> RoomStates] /\ stranded \subseteq Rooms
    /\ \A r \in Rooms : rooms[r].live => rooms[r].with # {}
    /\ \A c \in Callers : In(c, "create", "insert") => rooms[call[c].on].with # {}

(* What a step does to one room.                                            *)
Changes(r, new) ==
    /\ new \in RoomStates /\ rooms'[r] = new
    /\ \A q \in Rooms \ {r} : rooms'[q] = rooms[q]

LEMMA RoomChanges ==
    ASSUME CallTypes, RoomTypes, NEW c \in Callers, call[c].op = "create"
    PROVE  /\ call[c].on \in Rooms /\ call[c].with # {} /\ call[c].with \subseteq Names
           /\ LogCreated(c) => \E new : /\ new.with = call[c].with /\ new.live = rooms[call[c].on].live
                                       /\ new.closed = rooms[call[c].on].closed
                                       /\ Changes(call[c].on, new)
           /\ Insert(c) => \E new : /\ new.live = TRUE /\ new.with = rooms[call[c].on].with
                                   /\ new.closed = rooms[call[c].on].closed
                                   /\ Changes(call[c].on, new)
<1> DEFINE r == call[c].on
<1>1. r \in Rooms /\ call[c].with # {} /\ call[c].with \subseteq Names /\ rooms \in [Rooms -> RoomStates]
  BY DEF CallTypes, Fits, Calls, RoomTypes
<1>2. rooms[r] \in RoomStates
  BY <1>1
<1>3. ASSUME LogCreated(c)
      PROVE  \E new : /\ new.with = call[c].with /\ new.live = rooms[r].live
                      /\ new.closed = rooms[r].closed /\ Changes(r, new)
  <2> DEFINE new == [rooms[r] EXCEPT !.with = call[c].with]
  <2>1. /\ new \in RoomStates /\ new.with = call[c].with /\ new.live = rooms[r].live
        /\ new.closed = rooms[r].closed
    BY <1>1, <1>2 DEF RoomStates
  <2>2. rooms'[r] = new /\ \A q \in Rooms \ {r} : rooms'[q] = rooms[q]
    BY <1>1, <1>3 DEF LogCreated
  <2>. QED
    BY <2>1, <2>2 DEF Changes
<1>4. ASSUME Insert(c)
      PROVE  \E new : /\ new.live = TRUE /\ new.with = rooms[r].with
                      /\ new.closed = rooms[r].closed /\ Changes(r, new)
  <2> DEFINE new == [rooms[r] EXCEPT !.live = TRUE]
  <2>1. /\ new \in RoomStates /\ new.with = rooms[r].with /\ new.live = TRUE
        /\ new.closed = rooms[r].closed
    BY <1>1, <1>2 DEF RoomStates
  <2>2. rooms'[r] = new /\ \A q \in Rooms \ {r} : rooms'[q] = rooms[q]
    BY <1>1, <1>4 DEF Insert
  <2>. QED
    BY <2>1, <2>2 DEF Changes
<1>. QED
  BY <1>1, <1>3, <1>4

LEMMA RoomTypesStep == CallTypes /\ RoomTypes /\ [Next]_vars => RoomTypes'
<1>. SUFFICES ASSUME CallTypes, RoomTypes, [Next]_vars PROVE RoomTypes'
  OBVIOUS
<1>0. rooms \in [Rooms -> RoomStates] /\ \A c \in Callers : Fits(call[c])
  BY DEF RoomTypes, CallTypes
<1>1. ASSUME NEW c \in Callers, LogCreated(c) PROVE RoomTypes'
  <2>1. call[c].op = "create" /\ stranded' = stranded /\ Moves(c, "insert")
    BY <1>1, CallsGoOn DEF LogCreated, In
  <2>2. PICK new : new.with = call[c].with /\ new.live = rooms[call[c].on].live /\ Changes(call[c].on, new)
    BY <1>1, <2>1, RoomChanges
  <2>3. rooms' \in [Rooms -> RoomStates]
    BY <1>0, <1>1, <2>2 DEF Changes, LogCreated
  <2>4. new.with # {} /\ call[c].on \in Rooms
    BY <2>1, <2>2, RoomChanges
  <2>5. \A r \in Rooms : rooms'[r].with # {} \/ rooms'[r] = rooms[r]
    BY <2>2, <2>4 DEF Changes
  <2>6. \A d \in Callers : call'[d].on = call[d].on /\ (d # c => call'[d] = call[d])
    BY <2>1 DEF Moves, Like
  <2>7. rooms'[call'[c].on].with # {}
    BY <2>2, <2>4, <2>6 DEF Changes
  <2>8. \A d \in Callers \ {c} : In(d, "create", "insert")' => In(d, "create", "insert") /\ call'[d].on \in Rooms
    BY <1>0, <2>6 DEF In, Fits
  <2>. QED
    BY <2>1, <2>3, <2>5, <2>6, <2>7, <2>8 DEF RoomTypes
<1>2. ASSUME NEW c \in Callers, Insert(c) PROVE RoomTypes'
  <2>1. In(c, "create", "insert") /\ stranded' \subseteq stranded \cup {call[c].on} /\ Ends(c)
    BY <1>2, CallsGoOn DEF Insert
  <2>2. PICK new : new.with = rooms[call[c].on].with /\ Changes(call[c].on, new)
    BY <1>2, <2>1, RoomChanges DEF In
  <2>3. rooms' \in [Rooms -> RoomStates]
    BY <1>0, <1>2, <2>2 DEF Changes, Insert
  <2>4. new.with # {} /\ call[c].on \in Rooms /\ stranded' \subseteq Rooms
    BY <2>1, <2>2, RoomChanges, ZenonT(60) DEF RoomTypes, In
  <2>5. \A r \in Rooms : rooms'[r].with # {} \/ rooms'[r] = rooms[r]
    BY <2>2, <2>4 DEF Changes
  <2>6. \A d \in Callers : In(d, "create", "insert")' => In(d, "create", "insert") /\ call'[d].on = call[d].on
                                                      /\ call[d].on \in Rooms
    BY <1>0, <2>1, NobodyFits DEF Ends, In, Fits
  <2>. QED
    BY <2>3, <2>4, <2>5, <2>6 DEF RoomTypes
<1>3. ASSUME NEW r \in Rooms, Close(r) PROVE RoomTypes'
  <2>1. [rooms[r] EXCEPT !.closed = TRUE] \in RoomStates
    BY <1>0 DEF RoomStates
  <2>2. /\ rooms' \in [Rooms -> RoomStates] /\ call' = call /\ stranded' = stranded
        /\ \A q \in Rooms : rooms'[q].with = rooms[q].with /\ rooms'[q].live = rooms[q].live
    BY <1>0, <1>3, <2>1 DEF Close, RoomStates
  <2>. QED
    BY <1>0, <2>2 DEF RoomTypes, In, Fits
<1>4. CASE Restart
  <2>1. \A r \in Rooms : /\ [rooms[r] EXCEPT !.live = rooms[r].with # {}] \in RoomStates
                         /\ rooms'[r] = [rooms[r] EXCEPT !.live = rooms[r].with # {}]
    BY <1>0, <1>4 DEF Restart, RoomStates
  <2>2. \A r \in Rooms : rooms'[r].with = rooms[r].with /\ (rooms'[r].live <=> rooms[r].with # {})
    BY <1>0, <2>1 DEF RoomStates
  <2>3. rooms' \in [Rooms -> RoomStates]
    BY <1>4, <2>1 DEF Restart
  <2>4. \A c \in Callers : call'[c] = Nobody
    BY <1>4 DEF Restart
  <2>5. stranded' \subseteq Rooms
    BY <1>0, <1>4 DEF Restart, RoomTypes, Fits
  <2>. QED
    BY <2>2, <2>3, <2>4, <2>5, NobodyFits DEF RoomTypes, In
<1>5. ASSUME rooms' = rooms, stranded' \subseteq Rooms,
             \A c \in Callers : In(c, "create", "insert")' =>
                 In(c, "create", "insert") /\ call'[c].on = call[c].on
      PROVE  RoomTypes'
  BY <1>5 DEF RoomTypes
<1>6. ASSUME NEW c \in Callers, NEW k, Arrives(c, k), k.at # "insert"
      PROVE  \A d \in Callers : In(d, "create", "insert")' =>
                 In(d, "create", "insert") /\ call'[d].on = call[d].on
  BY <1>6 DEF Arrives, In, Like
<1>7. ASSUME NEW c \in Callers, Ends(c) \/ (\E at : Moves(c, at) /\ (at # "insert" \/ call[c].op # "create"))
      PROVE  \A d \in Callers : In(d, "create", "insert")' =>
                 In(d, "create", "insert") /\ call'[d].on = call[d].on
  BY <1>7, NobodyFits DEF Ends, Moves, In, Like
<1>8. ASSUME NEW c \in Callers, NEW n \in Names, NEW force \in BOOLEAN, Register(c, n) \/ Delete(c, n, force)
      PROVE  RoomTypes'
  <2>1. rooms' = rooms /\ stranded' \subseteq Rooms
    BY <1>8 DEF Register, Delete, memory, RoomTypes
  <2>. QED
    BY <1>5, <1>6, <1>8, <2>1, CallsBegin
<1>9. ASSUME NEW c \in Callers, NEW r \in Rooms, NEW agents \in SUBSET Names,
             IssueKey(c, r) \/ Admit(c, r) \/ Create(c, r, agents)
      PROVE  RoomTypes'
  <2>1. rooms' = rooms /\ stranded' = stranded
    BY <1>9 DEF IssueKey, Admit, Create, memory
  <2>. QED
    BY <1>5, <1>6, <1>9, <2>1, CallsBegin DEF RoomTypes
<1>10. ASSUME NEW c \in Callers, NEW wake \in 0..MaxWake,
              \/ LogRegistered(c) \/ Unregister(c) \/ LogRemoved(c) \/ LogInvited(c) \/ InsertKey(c)
              \/ Charge(c) \/ Breaks(c) \/ Accept(c, wake)
       PROVE  RoomTypes'
  <2>1. rooms' = rooms /\ stranded' \subseteq Rooms
    BY <1>0, <1>10 DEF LogRegistered, Unregister, LogRemoved, LogInvited, InsertKey, Charge, Breaks, Accept,
                       memory, RoomTypes, In, Fits
  <2>2. LogInvited(c) => call[c].op # "create"
    BY DEF LogInvited, In
  <2>. QED
    BY <1>5, <1>7, <1>10, <2>1, <2>2, CallsGoOn
<1>11. CASE (\E r \in Rooms : TooMany(r)) \/ Tick \/ UNCHANGED vars
  <2>1. rooms' = rooms /\ stranded' = stranded /\ call' = call
    BY <1>11 DEF TooMany, Tick, vars, memory
  <2>. QED
    BY <1>5, <2>1 DEF In, RoomTypes
<1>. QED
  <2>1. TRUE \in BOOLEAN /\ {} \in SUBSET Names /\ 0 \in 0..MaxWake
    BY Bounds
  <2>. QED
    BY <1>1, <1>2, <1>3, <1>4, <1>8, <1>9, <1>10, <1>11, <2>1 DEF Next, Done

BudgetTypes ==
    /\ clock \in Nat /\ spent \in Int
    /\ Buckets(perRoom, Rooms, PerRoom, clock) /\ Buckets(total, {All}, Total, clock)

LEMMA BudgetTypesStep == CallTypes /\ BudgetTypes /\ [Next]_vars => BudgetTypes'
<1>. SUFFICES ASSUME CallTypes, BudgetTypes, [Next]_vars PROVE BudgetTypes'
  OBVIOUS
<1>0. /\ \A c \in Callers : Fits(call[c]) /\ call[c].n \in Nat
      /\ clock \in Nat /\ PerRoom \in Nat /\ Total \in Nat
  BY Bounds DEF CallTypes, Calls, BudgetTypes
<1>1. ASSUME NEW r \in Rooms
      PROVE  /\ Buckets(Refilled(perRoom, PerRoom, r, clock), Rooms, PerRoom, clock)
             /\ Buckets(Refilled(total, Total, All, clock), {All}, Total, clock)
  BY <1>0, RefilledBuckets DEF BudgetTypes
<1>2. ASSUME NEW c \in Callers, NEW r \in Rooms, Admit(c, r) PROVE BudgetTypes'
  BY <1>1, <1>2 DEF Admit, BudgetTypes
<1>3. ASSUME NEW r \in Rooms, TooMany(r) PROVE BudgetTypes'
  BY <1>1, <1>3 DEF TooMany, BudgetTypes
<1>4. ASSUME NEW c \in Callers, Charge(c) PROVE BudgetTypes'
  <2>1. call[c].on \in Rooms
    BY <1>0, <1>4 DEF Charge, In, Fits
  <2>2. /\ Buckets(Charged(perRoom, PerRoom, call[c].on, clock, call[c].n), Rooms, PerRoom, clock)
        /\ Buckets(Charged(total, Total, All, clock, call[c].n), {All}, Total, clock)
    BY <1>0, <2>1, ChargedBuckets DEF BudgetTypes
  <2>. QED
    BY <1>4, <2>2 DEF Charge, BudgetTypes
<1>5. ASSUME NEW c \in Callers, NEW wake \in 0..MaxWake, Accept(c, wake) \/ Breaks(c) PROVE BudgetTypes'
  <2>1. spent' \in Int
    BY <1>0, <1>5, Bounds DEF Accept, Breaks, BudgetTypes
  <2>. QED
    BY <1>5, <2>1 DEF Accept, Breaks, memory, BudgetTypes
<1>6. CASE Restart
  <2>1. perRoom' = << >> /\ total' = << >> /\ clock' = 0 /\ spent' = 0
    BY <1>6 DEF Restart
  <2>. QED
    BY <2>1 DEF BudgetTypes, Buckets
<1>7. CASE Tick
  <2>1. UNCHANGED <<perRoom, total, spent>> /\ clock' = clock + 1
    BY <1>7 DEF Tick
  <2>. QED
    BY <1>0, <2>1 DEF BudgetTypes, Buckets
<1>8. CASE UNCHANGED limits
  BY <1>8 DEF limits, BudgetTypes
<1>9. CASE \/ \E c \in Callers :
                \/ \E n \in Names : Register(c, n) \/ \E force \in BOOLEAN : Delete(c, n, force)
                \/ \E r \in Rooms : IssueKey(c, r) \/ \E agents \in SUBSET Names : Create(c, r, agents)
                \/ LogRegistered(c) \/ Unregister(c) \/ LogRemoved(c) \/ LogCreated(c) \/ Insert(c)
                \/ LogInvited(c) \/ InsertKey(c)
           \/ \E r \in Rooms : Close(r)
           \/ UNCHANGED vars
  <2>1. ASSUME NEW c \in Callers, NEW n \in Names, NEW force \in BOOLEAN,
               Register(c, n) \/ Delete(c, n, force)
        PROVE  UNCHANGED limits
    BY <2>1 DEF Register, Delete, memory, limits
  <2>2. ASSUME NEW c \in Callers, NEW r \in Rooms, NEW agents \in SUBSET Names,
               IssueKey(c, r) \/ Create(c, r, agents)
        PROVE  UNCHANGED limits
    BY <2>2 DEF IssueKey, Create, memory, limits
  <2>3. ASSUME NEW c \in Callers,
               \/ LogRegistered(c) \/ Unregister(c) \/ LogRemoved(c)
               \/ LogCreated(c) \/ Insert(c) \/ LogInvited(c) \/ InsertKey(c)
        PROVE  UNCHANGED limits
    <3>1. LogRegistered(c) \/ LogRemoved(c) \/ LogCreated(c) \/ LogInvited(c) => UNCHANGED limits
      BY DEF LogRegistered, LogRemoved, LogCreated, LogInvited, memory, limits
    <3>2. Unregister(c) \/ Insert(c) \/ InsertKey(c) => UNCHANGED limits
      BY DEF Unregister, Insert, InsertKey, limits
    <3>. QED
      BY <2>3, <3>1, <3>2
  <2>4. UNCHANGED vars => UNCHANGED limits
    BY DEF vars, memory, limits
  <2>5. UNCHANGED limits
    <3>1. (\E c \in Callers : \E n \in Names : Register(c, n) \/ \E force \in BOOLEAN : Delete(c, n, force))
             => UNCHANGED limits
      BY <2>1
    <3>2. (\E c \in Callers : \E r \in Rooms : IssueKey(c, r) \/ \E agents \in SUBSET Names : Create(c, r, agents))
             => UNCHANGED limits
      BY <2>2
    <3>3. CASE \E r \in Rooms : Close(r)
      BY <3>3 DEF Close, limits
    <3>. QED
      BY <1>9, <2>3, <2>4, <3>1, <3>2, <3>3
  <2>. QED
    BY <1>8, <2>5
<1>. QED
  <2>1. 0 \in 0..MaxWake
    BY Bounds
  <2>. QED
    BY <1>2, <1>3, <1>4, <1>5, <1>6, <1>7, <1>9, <2>1 DEF Next, Done

ServerTypes == CallTypes /\ RegistryTypes /\ RoomTypes /\ BudgetTypes

LEMMA ServerTypesInit == Init => ServerTypes
<1>. SUFFICES ASSUME Init PROVE ServerTypes
  OBVIOUS
<1>1. CallTypes
  BY NobodyFits, Bounds DEF Init, CallTypes
<1>2. RegistryTypes
  <2>1. registry = [n \in Files |-> 0] /\ syslog = <<>> /\ keys = [r \in Rooms |-> 0] /\ invited = keys /\ doubtful = {}
    BY DEF Init
  <2>. QED
    BY <2>1, ServerAssumption, Bounds DEF RegistryTypes
<1>3. RoomTypes
  <2>1. PICK opened \in SUBSET Rooms :
          rooms = [r \in Rooms |-> [with |-> IF r \in opened THEN Files ELSE {},
                                    live |-> r \in opened, closed |-> FALSE]]
    BY DEF Init
  <2>2. rooms \in [Rooms -> RoomStates] /\ \A r \in Rooms : rooms[r].live => rooms[r].with # {}
    <3> DEFINE new(r) == [with |-> IF r \in opened THEN Files ELSE {}, live |-> r \in opened, closed |-> FALSE]
    <3>1. \A r \in Rooms : new(r) \in RoomStates /\ (new(r).live => new(r).with # {})
      <4>1. \A r \in Rooms : (IF r \in opened THEN Files ELSE {}) \in SUBSET Names
        BY ServerAssumption
      <4>2. \A r \in Rooms : new(r) \in RoomStates
        <5>1. \A r \in Rooms : (r \in opened) \in BOOLEAN /\ FALSE \in BOOLEAN
          OBVIOUS
        <5>. QED
          BY <4>1, <5>1 DEF RoomStates
      <4>3. \A r \in Rooms : new(r).live => r \in opened
        BY Zenon
      <4>. QED
        BY Zenon, <4>2, <4>3, ServerAssumption
    <3>2. rooms = [r \in Rooms |-> new(r)]
      BY <2>1
    <3>. HIDE DEF new
    <3>. QED
      BY <3>1, <3>2
  <2>3. stranded = {} /\ \A c \in Callers : call[c].op = "none"
    BY NobodyFits DEF Init
  <2>. QED
    BY <2>2, <2>3 DEF RoomTypes, In
<1>4. BudgetTypes
  <2>1. perRoom = << >> /\ total = << >> /\ clock = 0 /\ spent = 0
    BY DEF Init
  <2>. QED
    BY <2>1 DEF BudgetTypes, Buckets
<1>. QED
  BY <1>1, <1>2, <1>3, <1>4 DEF ServerTypes

LEMMA Typed == ServerTypes => TypeOK
<1>1. RoomStates = [with : SUBSET Names, live : BOOLEAN, closed : BOOLEAN]
  BY DEF RoomStates
<1>2. BudgetTypes => Filled(perRoom, Rooms, PerRoom) /\ Filled(total, {All}, Total) /\ spent \in Int
  BY DEF BudgetTypes, Buckets, Filled
<1>. QED
  BY <1>1, <1>2 DEF ServerTypes, RegistryTypes, RoomTypes, TypeOK

LEMMA ServerTypesCorrect == Spec => []ServerTypes
<1>1. ServerTypes /\ [Next]_vars => ServerTypes'
  BY CallsStep, RegistryTypesStep, RoomTypesStep, BudgetTypesStep DEF ServerTypes
<1>. QED
  BY <1>1, ServerTypesInit, PTL DEF Spec

(* The shared state keeps its shape: no room is live before its agents are  *)
(* on record, and no bucket is fuller than full, whatever calls overlap,    *)
(* fail or break off (register_agent to submit_input, Runtime::bind).       *)
THEOREM ServerTypeCorrect == Spec => []TypeOK
BY ServerTypesCorrect, Typed, PTL

(***************************************************************************)
(* Calls that have their subject for themselves.                           *)
(***************************************************************************)

Apart == \A c, d \in Callers : c # d /\ call[c].alone => ~Disturbs(call[d], call[c])

LEMMA ApartStep == CallTypes /\ Apart /\ [Next]_vars => Apart'
<1>. SUFFICES ASSUME CallTypes, Apart, [Next]_vars PROVE Apart'
  OBVIOUS
<1>1. ASSUME NEW c \in Callers, NEW k, Arrives(c, k) PROVE Apart'
  <2>1. \A d, e \in Callers : e # c /\ d # c => (Disturbs(call'[d], call'[e]) <=> Disturbs(call[d], call[e]))
    BY <1>1, LikeDisturbs DEF Arrives
  <2>2. \A d \in Callers \ {c} : /\ Disturbs(call'[c], call'[d]) <=> Disturbs(k, call[d])
                                 /\ Disturbs(call'[d], call'[c]) <=> Disturbs(call[d], k)
    BY <1>1, LikeDisturbs DEF Arrives
  <2>3. ASSUME NEW d \in Callers, NEW e \in Callers, d # e, call'[d].alone
        PROVE  ~Disturbs(call'[e], call'[d])
    <3>1. ASSUME NEW b \in Callers \ {c}, call'[c].alone PROVE ~Disturbs(call'[b], call'[c])
      <4>1. ~Disturbs(call[b], k)
        BY <1>1, <3>1 DEF Arrives
      <4>2. Disturbs(call'[b], call'[c]) <=> Disturbs(call[b], k)
        BY <2>2
      <4>. QED
        BY <4>1, <4>2
    <3>2. ASSUME NEW b \in Callers \ {c}, call'[b].alone PROVE ~Disturbs(call'[c], call'[b])
      <4>1. ~Disturbs(k, call[b])
        BY <1>1, <3>2 DEF Arrives
      <4>2. Disturbs(call'[c], call'[b]) <=> Disturbs(k, call[b])
        BY <2>2
      <4>. QED
        BY <4>1, <4>2
    <3>3. CASE d # c /\ e # c
      BY <1>1, <2>1, <2>3, <3>3 DEF Apart, Arrives
    <3>. QED
      BY <2>3, <3>1, <3>2, <3>3
  <2>. QED
    BY <2>3 DEF Apart
<1>2. \A k : ~Disturbs(Nobody, k) /\ ~Disturbs(k, Nobody)
  BY DEF Disturbs, About, Nobody
<1>3. ASSUME NEW c \in Callers, Ends(c) PROVE Apart'
  BY <1>2, <1>3 DEF Apart, Ends
<1>4. ASSUME NEW c \in Callers, NEW at, Moves(c, at) PROVE Apart'
  <2>1. \A d \in Callers : Like(call'[d], call[d]) /\ call'[d].alone = call[d].alone
    BY <1>4 DEF Moves, Like
  <2>2. \A d, e \in Callers : Disturbs(call'[d], call'[e]) <=> Disturbs(call[d], call[e])
    BY <2>1, LikeDisturbs
  <2>. QED
    BY <2>1, <2>2 DEF Apart
<1>5. CASE Restart
  BY <1>2, <1>5 DEF Restart, Apart
<1>6. CASE (\E r \in Rooms : Close(r) \/ TooMany(r)) \/ Tick \/ UNCHANGED vars
  <2>1. call' = call
    BY <1>6 DEF Close, TooMany, Tick, vars
  <2>. QED
    BY <2>1 DEF Apart
<1>. QED
  BY <1>1, <1>3, <1>4, <1>5, <1>6, CallsBegin, CallsGoOn DEF Next, Done

(***************************************************************************)
(* What a restart would build.                                             *)
(***************************************************************************)

AgreesOn(n) ==
    /\ n \in DOMAIN registry <=> n \in DOMAIN Restored
    /\ n \in DOMAIN registry => registry[n] = Restored[n]

(* A call between memory and log has made its subject doubtful, and when it *)
(* has it for itself the one says already what it will make the other say.  *)
Underway(c) ==
    /\ In(c, "register", "append") =>
          /\ call[c].on \in doubtful
          /\ call[c].alone => call[c].on \in DOMAIN registry /\ registry[call[c].on] = call[c].n
    /\ In(c, "delete", "append") =>
          /\ call[c].on \in doubtful
          /\ call[c].alone => call[c].on \notin DOMAIN registry
    /\ In(c, "invite", "insert") =>
          /\ call[c].on \in doubtful
          /\ call[c].alone => invited[call[c].on] = call[c].n

Agree ==
    /\ \A n \in Names \ doubtful : AgreesOn(n)
    /\ \A r \in Rooms \ doubtful : keys[r] = invited[r]
    /\ \A c \in Callers : Underway(c)

(* A call that goes on as it was, with what it left.                        *)
LEMMA UnderwayStays ==
    ASSUME NEW c \in Callers, Underway(c),
           call'[c].op = call[c].op, call'[c].at = call[c].at, call'[c].on = call[c].on,
           call'[c].n = call[c].n, call'[c].alone => call[c].alone,
           call[c].op \in {"register", "delete", "invite"} /\ call[c].on \in doubtful
              => call[c].on \in doubtful',
           In(c, "register", "append") \/ In(c, "delete", "append") =>
              /\ call'[c].alone => (call[c].on \in DOMAIN registry <=> call[c].on \in DOMAIN registry')
              /\ call'[c].alone => registry'[call[c].on] = registry[call[c].on],
           In(c, "invite", "insert") /\ call'[c].alone => invited'[call[c].on] = invited[call[c].on]
    PROVE  Underway(c)'
BY DEF Underway, In

LEMMA UnderwayElsewhere ==
    ASSUME NEW c \in Callers,
           \/ call'[c].op \notin {"register", "delete", "invite"}
           \/ call'[c].op = "delete" /\ call'[c].at = "remove"
           \/ call'[c].op = "invite" /\ call'[c].at = "append"
    PROVE  Underway(c)'
BY DEF Underway, In

(* Two calls about the same agent or room, one of which has it for itself.  *)
LEMMA OneAlone ==
    ASSUME CallTypes, Apart, NEW c \in Callers, NEW d \in Callers, c # d, call[c].alone,
           call[c].op \in {"register", "delete", "invite"},
           call[d].op \in {"register", "delete", "invite"}
    PROVE  call[d].on # call[c].on
BY DEF Apart, Disturbs, About

LEMMA ArrivesAlone ==
    ASSUME NEW c \in Callers, NEW k, Arrives(c, k), NEW d \in Callers, d # c, call'[d].alone,
           k.op \in {"register", "delete", "invite"},
           call[d].op \in {"register", "delete", "invite"}
    PROVE  call[d].on # k.on
BY DEF Arrives, Disturbs, About

(* Steps that leave memory and log alone.                                   *)
LEMMA QuietAgrees ==
    ASSUME Agree, UNCHANGED <<registry, syslog, keys, invited, doubtful>>,
           \A c \in Callers :
              \/ /\ call'[c].op = call[c].op /\ call'[c].at = call[c].at /\ call'[c].on = call[c].on
                 /\ call'[c].n = call[c].n /\ (call'[c].alone => call[c].alone)
              \/ call'[c].op \notin {"register", "delete", "invite"}
              \/ call'[c].op = "delete" /\ call'[c].at = "remove"
              \/ call'[c].op = "invite" /\ call'[c].at = "append"
    PROVE  Agree'
<1>1. \A c \in Callers : Underway(c)'
  BY UnderwayStays, UnderwayElsewhere DEF Agree
<1>. QED
  BY <1>1 DEF Agree, AgreesOn, Restored

LEMMA RegisterAgrees ==
    ASSUME CallTypes, RegistryTypes, Agree, NEW c \in Callers, NEW n \in Names, Register(c, n)
    PROVE  Agree'
<1>1. PICK k : k.op = "register" /\ k.at = "append" /\ k.on = n /\ k.n = made + 1 /\ Arrives(c, k)
  BY CallsBegin
<1>2. /\ registry' = Put(registry, n, made + 1) /\ doubtful' = doubtful \cup {n}
      /\ UNCHANGED <<syslog, keys, invited>>
  BY DEF Register, stored
<1>3. /\ DOMAIN registry' = DOMAIN registry \cup {n} /\ registry'[n] = made + 1
      /\ \A m \in DOMAIN registry \ {n} : registry'[m] = registry[m]
  BY <1>2 DEF Put
<1>4. \A m \in Names \ doubtful' : AgreesOn(m)'
  BY <1>2, <1>3 DEF Agree, AgreesOn, Restored
<1>5. Underway(c)'
  BY <1>1, <1>2, <1>3 DEF Arrives, Like, Underway, In
<1>6. ASSUME NEW d \in Callers, d # c PROVE Underway(d)'
  <2>1. /\ call'[d].op = call[d].op /\ call'[d].at = call[d].at /\ call'[d].on = call[d].on
        /\ call'[d].n = call[d].n /\ (call'[d].alone => call[d].alone)
    BY <1>1, <1>6 DEF Arrives, Like
  <2>2. call'[d].alone /\ call[d].op \in {"register", "delete"} => call[d].on # n
    BY <1>1, <1>6, ArrivesAlone
  <2>3. Underway(d)
    BY DEF Agree
  <2>. QED
    BY <1>2, <1>3, <2>1, <2>2, <2>3 DEF Underway, In
<1>. QED
  BY <1>2, <1>4, <1>5, <1>6 DEF Agree

(* The append that follows: the log now says of the agent what memory did.  *)
LEMMA LoggedAgrees ==
    ASSUME CallTypes, RegistryTypes, Apart, Agree, NEW c \in Callers, LogRegistered(c) \/ LogRemoved(c)
    PROVE  Agree'
<1> DEFINE n == call[c].on
<1>1. /\ n \in Names /\ n \notin Rooms /\ Ends(c) /\ call[c].op \in {"register", "delete"}
      /\ call[c].at = "append" /\ doubtful' = Settled(c) /\ UNCHANGED <<registry, keys, invited>>
  BY CallsGoOn, ServerAssumption DEF LogRegistered, LogRemoved, In, CallTypes, Fits, memory
<1>2. PICK e \in Entries : /\ syslog' = Append(syslog, e) /\ e.name = n
                           /\ e.kind = "agent.registered" <=> call[c].op = "register"
                           /\ call[c].op = "register" => e.spec = call[c].n
  <2>1. CASE LogRegistered(c)
    <3>1. [kind |-> "agent.registered", name |-> n, spec |-> call[c].n] \in Entries
      BY <1>1, <2>1 DEF LogRegistered, In, CallTypes, Fits, Entries
    <3>. QED
      BY <2>1, <3>1 DEF LogRegistered, In
  <2>2. CASE LogRemoved(c)
    <3>1. [kind |-> "agent.removed", name |-> n, spec |-> 0] \in Entries
      BY <1>1, Bounds DEF Entries
    <3>. QED
      BY <2>2, <3>1 DEF LogRemoved, In
  <2>. QED
    BY <2>1, <2>2
<1>3. /\ \A m \in Names \ {n} : /\ m \in DOMAIN Restored' <=> m \in DOMAIN Restored
                                /\ m \in DOMAIN Restored' => Restored'[m] = Restored[m]
      /\ n \in DOMAIN Restored' <=> call[c].op = "register"
      /\ call[c].op = "register" => Restored'[n] = call[c].n
  BY <1>2, ReplayedOneMore DEF Restored, RegistryTypes
<1>4. doubtful \ {n} \subseteq doubtful' /\ (n \notin doubtful' => call[c].alone)
  BY <1>1 DEF Settled, Agree, Underway, In
<1>5. ASSUME NEW m \in Names \ doubtful' PROVE AgreesOn(m)'
  <2>1. CASE m # n
    BY <1>1, <1>3, <1>4, <1>5, <2>1 DEF Agree, AgreesOn
  <2>2. CASE m = n
    <3>1. call[c].alone /\ Underway(c)
      BY <1>4, <1>5, <2>2 DEF Agree
    <3>2. call[c].op = "register" => n \in DOMAIN registry /\ registry[n] = call[c].n
      BY <1>1, <3>1 DEF Underway, In
    <3>3. call[c].op = "delete" => n \notin DOMAIN registry
      BY <1>1, <3>1 DEF Underway, In
    <3>. QED
      BY <1>1, <1>3, <2>2, <3>2, <3>3 DEF AgreesOn
  <2>. QED
    BY <2>1, <2>2
<1>6. ASSUME NEW d \in Callers PROVE Underway(d)'
  <2>1. CASE d = c
    BY <1>1, <2>1, NobodyFits, UnderwayElsewhere DEF Ends
  <2>2. CASE d # c
    <3>1. call'[d] = call[d] /\ Underway(d)
      BY <1>1, <2>2 DEF Ends, Agree
    <3>2. call[d].op \in {"register", "delete", "invite"} /\ call[d].on \in doubtful => call[d].on \in doubtful'
      BY <1>1, <1>4, <2>2, OneAlone DEF Settled
    <3>. QED
      BY <1>1, <3>1, <3>2, UnderwayStays
  <2>. QED
    BY <2>1, <2>2
<1>. QED
  BY <1>1, <1>4, <1>5, <1>6 DEF Agree

LEMMA UnregisterAgrees ==
    ASSUME CallTypes, RegistryTypes, Apart, Agree, NEW c \in Callers, Unregister(c)
    PROVE  Agree'
<1> DEFINE n == call[c].on
<1>1. call[c].op = "delete" /\ n \in Names /\ UNCHANGED <<syslog, keys, invited>>
  BY DEF Unregister, In, CallTypes, Fits, stored
<1>2. CASE n \in DOMAIN registry
  <2>1. /\ registry' = Restrict(registry, DOMAIN registry \ {n}) /\ doubtful' = doubtful \cup {n}
        /\ Moves(c, "append")
    BY <1>2, GoesFacts DEF Unregister
  <2>2. DOMAIN registry' = DOMAIN registry \ {n} /\ \A m \in DOMAIN registry' : registry'[m] = registry[m]
    BY <2>1, RestrictFacts
  <2>3. \A m \in Names \ doubtful' : AgreesOn(m)'
    BY <1>1, <2>1, <2>2 DEF Agree, AgreesOn, Restored
  <2>4. Underway(c)'
    BY <1>1, <2>1, <2>2 DEF Moves, Like, Underway, In
  <2>5. ASSUME NEW d \in Callers, d # c PROVE Underway(d)'
    <3>1. call'[d] = call[d] /\ Underway(d)
      BY <2>1, <2>5 DEF Moves, Agree
    <3>2. call[d].alone /\ call[d].op \in {"register", "delete", "invite"} => call[d].on # n
      BY <1>1, <2>5, OneAlone
    <3>. QED
      BY <1>1, <2>1, <2>2, <3>1, <3>2 DEF Underway, In
  <2>. QED
    BY <1>1, <2>1, <2>3, <2>4, <2>5 DEF Agree
<1>3. CASE n \notin DOMAIN registry
  <2>1. Ends(c) /\ UNCHANGED <<registry, doubtful>>
    BY <1>3, ReturnsFacts DEF Unregister, Returns
  <2>2. \A d \in Callers : call'[d] = call[d] \/ call'[d].op = "none"
    BY <2>1, NobodyFits DEF Ends
  <2>. QED
    BY <1>1, <2>1, <2>2, QuietAgrees
<1>. QED
  BY <1>2, <1>3

LEMMA InvitedAgrees ==
    ASSUME CallTypes, RegistryTypes, Apart, Agree, NEW c \in Callers, LogInvited(c)
    PROVE  Agree'
<1> DEFINE r == call[c].on
<1>1. /\ call[c].op = "invite" /\ r \in Rooms /\ Moves(c, "insert") /\ doubtful' = doubtful \cup {r}
      /\ UNCHANGED <<registry, keys, syslog>>
  BY CallsGoOn DEF LogInvited, In, CallTypes, Fits, memory
<1>2. invited'[r] = call[c].n /\ \A q \in Rooms \ {r} : invited'[q] = invited[q]
  BY <1>1 DEF LogInvited, RegistryTypes
<1>3. \A m \in Names \ doubtful' : AgreesOn(m)'
  BY <1>1 DEF Agree, AgreesOn, Restored
<1>4. Underway(c)'
  BY <1>1, <1>2 DEF Moves, Like, Underway, In
<1>5. ASSUME NEW d \in Callers, d # c PROVE Underway(d)'
  <2>1. call'[d] = call[d] /\ Underway(d)
    BY <1>1, <1>5 DEF Moves, Agree
  <2>2. call[d].alone /\ call[d].op = "invite" => call[d].on # r /\ call[d].on \in Rooms
    BY <1>1, <1>5, OneAlone DEF CallTypes, Fits
  <2>. QED
    BY <1>1, <1>2, <2>1, <2>2 DEF Underway, In
<1>. QED
  BY <1>1, <1>2, <1>3, <1>4, <1>5 DEF Agree

LEMMA KeyAgrees ==
    ASSUME CallTypes, RegistryTypes, Apart, Agree, NEW c \in Callers, InsertKey(c)
    PROVE  Agree'
<1> DEFINE r == call[c].on
<1>1. /\ In(c, "invite", "insert") /\ call[c].op = "invite" /\ r \in Rooms /\ r \notin Names /\ Ends(c)
      /\ doubtful' = Settled(c) /\ UNCHANGED <<registry, syslog, invited>>
  BY CallsGoOn, ServerAssumption DEF InsertKey, In, CallTypes, Fits, stored
<1>2. keys'[r] = call[c].n /\ \A q \in Rooms \ {r} : keys'[q] = keys[q]
  BY <1>1 DEF InsertKey, RegistryTypes
<1>3. /\ doubtful \ {r} \subseteq doubtful'
      /\ r \notin doubtful' => call[c].alone /\ invited[r] = call[c].n
  BY <1>1 DEF Settled, Agree, Underway
<1>4. \A m \in Names \ doubtful' : AgreesOn(m)'
  BY <1>1, <1>3 DEF Agree, AgreesOn, Restored
<1>5. \A q \in Rooms \ doubtful' : keys'[q] = invited'[q]
  BY <1>1, <1>2, <1>3 DEF Agree
<1>6. ASSUME NEW d \in Callers PROVE Underway(d)'
  <2>1. CASE d = c
    BY <1>1, <2>1, NobodyFits, UnderwayElsewhere DEF Ends
  <2>2. CASE d # c
    <3>1. call'[d] = call[d] /\ Underway(d)
      BY <1>1, <2>2 DEF Ends, Agree
    <3>2. call[d].op \in {"register", "delete", "invite"} /\ call[d].on \in doubtful => call[d].on \in doubtful'
      BY <1>1, <1>3, <2>2, OneAlone DEF Settled
    <3>. QED
      BY <1>1, <3>1, <3>2, UnderwayStays
  <2>. QED
    BY <2>1, <2>2
<1>. QED
  BY <1>4, <1>5, <1>6 DEF Agree

LEMMA AgreeStep == CallTypes /\ RegistryTypes /\ Apart /\ Agree /\ [Next]_vars => Agree'
<1>. SUFFICES ASSUME CallTypes, RegistryTypes, Apart, Agree, [Next]_vars PROVE Agree'
  OBVIOUS
<1>1. CASE Restart
  <2>1. /\ registry' = Restored /\ syslog' = syslog /\ keys' = invited /\ invited' = invited /\ doubtful' = {}
        /\ \A c \in Callers : call'[c] = Nobody
    BY <1>1 DEF Restart, stored
  <2>2. \A c \in Callers : Underway(c)'
    BY <2>1, NobodyFits, UnderwayElsewhere
  <2>3. Restored' = Restored
    BY <2>1 DEF Restored
  <2>. QED
    BY <2>1, <2>2, <2>3 DEF Agree, AgreesOn
<1>2. ASSUME NEW c \in Callers, NEW n \in Names, NEW force \in BOOLEAN, Delete(c, n, force) PROVE Agree'
  <2>1. PICK k : k.op = "delete" /\ k.at = "remove" /\ Arrives(c, k)
    BY <1>2, CallsBegin
  <2>2. UNCHANGED <<registry, syslog, keys, invited, doubtful>>
    BY <1>2 DEF Delete, memory, stored
  <2>. QED
    BY <2>1, <2>2, QuietAgrees DEF Arrives, Like
<1>3. ASSUME NEW c \in Callers, NEW r \in Rooms, NEW agents \in SUBSET Names,
             IssueKey(c, r) \/ Admit(c, r) \/ Create(c, r, agents)
      PROVE  Agree'
  <2>1. PICK k : /\ k.op \in {"submit", "create"} \/ (k.op = "invite" /\ k.at = "append")
                 /\ Arrives(c, k)
    BY <1>3, CallsBegin
  <2>2. UNCHANGED <<registry, syslog, keys, invited, doubtful>>
    BY <1>3 DEF IssueKey, Admit, Create, memory, stored
  <2>. QED
    BY <2>1, <2>2, QuietAgrees DEF Arrives, Like
<1>4. ASSUME NEW c \in Callers, NEW wake \in 0..MaxWake,
             LogCreated(c) \/ Insert(c) \/ Charge(c) \/ Breaks(c) \/ Accept(c, wake)
      PROVE  Agree'
  <2>1. Ends(c) \/ \E at : Moves(c, at) /\ call[c].op \in {"create", "submit"}
    BY <1>4, CallsGoOn DEF LogCreated, Accept, In
  <2>2. UNCHANGED <<registry, syslog, keys, invited, doubtful>>
    BY <1>4 DEF LogCreated, Insert, Charge, Breaks, Accept, memory, stored
  <2>. QED
    BY <2>1, <2>2, QuietAgrees, NobodyFits DEF Ends, Moves, Like
<1>5. CASE (\E r \in Rooms : Close(r) \/ TooMany(r)) \/ Tick \/ UNCHANGED vars
  <2>1. UNCHANGED <<registry, syslog, keys, invited, doubtful, call>>
    BY <1>5 DEF Close, TooMany, Tick, vars, memory, stored
  <2>. QED
    BY <2>1, QuietAgrees
<1>. QED
  <2>1. {} \in SUBSET Names /\ 0 \in 0..MaxWake
    BY Bounds
  <2>. QED
    BY <1>1, <1>2, <1>3, <1>4, <1>5, <2>1, RegisterAgrees, LoggedAgrees, UnregisterAgrees, InvitedAgrees,
       KeyAgrees DEF Next, Done

LEMMA AgreesFirst == Init => Apart /\ Agree
<1>. SUFFICES ASSUME Init PROVE Apart /\ Agree
  OBVIOUS
<1>1. /\ \A c \in Callers : call[c] = Nobody
      /\ registry = [n \in Files |-> 0] /\ syslog = << >> /\ invited = keys
  BY DEF Init
<1>2. \A n : Latest(<< >>, n) = {}
  BY DEF Latest
<1>3. \A n \in Names : AgreesOn(n)
  BY <1>1, <1>2, ServerAssumption DEF AgreesOn, Restored, Replayed, Known
<1>. QED
  BY <1>1, <1>3, NobodyFits DEF Apart, Agree, Underway, In, Disturbs, About

(* A restart builds the registry and the keys that are live, but for those  *)
(* that a call has left between memory and log, or that several calls       *)
(* changed at once (register_agent, delete_agent, record_invite).           *)
THEOREM RestartRestores == Spec => []RestartAgrees
<1>1. Agree => RestartAgrees
  BY DEF Agree, AgreesOn, RestartAgrees
<1>2. ServerTypes /\ Apart /\ Agree /\ [Next]_vars => Apart' /\ Agree'
  BY ApartStep, AgreeStep DEF ServerTypes
<1>. QED
  BY AgreesFirst, <1>1, <1>2, ServerTypesCorrect, PTL DEF Spec

(***************************************************************************)
(* The agents of open rooms.                                               *)
(***************************************************************************)

(* A room with agents that is not in the table is being created.            *)
KeptRoom(r) ==
    r \notin stranded /\ rooms[r].with # {} /\ ~rooms[r].closed =>
       \/ rooms[r].live /\ rooms[r].with \subseteq DOMAIN registry
       \/ ~rooms[r].live /\ \E c \in Callers : In(c, "create", "insert") /\ call[c].on = r

(* A creation that nobody deleted an agent under has its agents, and its    *)
(* room for itself.                                                         *)
KeptCreate(c) ==
    call[c].op = "create" =>
       /\ call[c].alone => call[c].with \subseteq DOMAIN registry
       /\ ~rooms[call[c].on].live
       /\ call[c].at = "append" => rooms[call[c].on].with = {}
       /\ call[c].at = "insert" => rooms[call[c].on].with = call[c].with
       /\ \A d \in Callers : call[d].op = "create" /\ call[d].on = call[c].on => d = c

(* A deletion that has looked goes on to no open room that uses the agent.  *)
KeptDelete(c) ==
    In(c, "delete", "remove") =>
       \A r \in Rooms \ stranded : rooms[r].live /\ call[c].on \in rooms[r].with => rooms[r].closed

Kept ==
    /\ \A r \in Rooms : KeptRoom(r)
    /\ \A c \in Callers : KeptCreate(c) /\ KeptDelete(c)

(* The same call as before, perhaps no longer alone.                        *)
Still(c) ==
    /\ Like(call'[c], call[c]) /\ call'[c].at = call[c].at
    /\ call'[c].alone => call[c].alone

Other(c) ==
    /\ call'[c].op # "create" /\ ~In(c, "delete", "remove")'
    /\ In(c, "create", "insert") => call[c].on \in stranded'

(* Steps that leave the rooms alone and take nobody from the registry.      *)
LEMMA QuietKeeps ==
    ASSUME CallTypes, Kept, rooms' = rooms, stranded \subseteq stranded',
           DOMAIN registry \subseteq DOMAIN registry',
           \A c \in Callers : Still(c) \/ Other(c)
    PROVE  Kept'
<1>1. ASSUME NEW r \in Rooms PROVE KeptRoom(r)'
  <2>1. ASSUME NEW c \in Callers, In(c, "create", "insert"), call[c].on = r, r \notin stranded'
        PROVE  In(c, "create", "insert")' /\ call'[c].on = r
    BY <2>1 DEF Still, Other, Like, In
  <2>. QED
    BY <2>1 DEF Kept, KeptRoom
<1>2. ASSUME NEW c \in Callers PROVE KeptCreate(c)'
  <2>1. \A d \in Callers : call'[d].op = "create" => Still(d)
    BY DEF Other
  <2>. QED
    BY <2>1 DEF Kept, KeptCreate, Still, Like
<1>3. ASSUME NEW c \in Callers PROVE KeptDelete(c)'
  BY DEF Kept, KeptDelete, Still, Other, Like, In
<1>. QED
  BY <1>1, <1>2, <1>3 DEF Kept

LEMMA DeleteKeeps ==
    ASSUME CallTypes, RoomTypes, Kept, NEW c \in Callers, NEW n \in Names, NEW force \in BOOLEAN,
           Delete(c, n, force)
    PROVE  Kept'
<1>1. PICK k : k.op = "delete" /\ k.at = "remove" /\ k.on = n /\ Arrives(c, k)
  BY CallsBegin
<1>2. rooms' = rooms /\ registry' = registry /\ stranded \subseteq stranded'
  BY DEF Delete, memory
<1>3. \A d \in Callers \ {c} : Still(d)
  BY <1>1 DEF Arrives, Still
<1>4. call'[c].op = "delete" /\ call'[c].on = n /\ call[c].op = "none"
  BY <1>1 DEF Arrives, Like
<1>5. ASSUME NEW r \in Rooms \ stranded', rooms[r].live, n \in rooms[r].with PROVE rooms[r].closed
  BY <1>5 DEF Delete, UsedBy
<1>6. ASSUME NEW r \in Rooms PROVE KeptRoom(r)'
  <2>1. ASSUME NEW d \in Callers, In(d, "create", "insert"), call[d].on = r
        PROVE  In(d, "create", "insert")' /\ call'[d].on = r
    BY <1>3, <1>4, <2>1 DEF Still, Like, In
  <2>. QED
    BY <1>2, <2>1 DEF Kept, KeptRoom
<1>7. ASSUME NEW d \in Callers PROVE KeptCreate(d)'
  <2>1. \A e \in Callers : call'[e].op = "create" => Still(e)
    BY <1>3, <1>4
  <2>. QED
    BY <1>2, <2>1 DEF Kept, KeptCreate, Still, Like
<1>8. ASSUME NEW d \in Callers PROVE KeptDelete(d)'
  <2>1. CASE d = c
    BY <1>2, <1>4, <1>5, <2>1 DEF KeptDelete
  <2>2. CASE d # c
    BY <1>2, <1>3, <2>2 DEF Kept, KeptDelete, Still, Like, In
  <2>. QED
    BY <2>1, <2>2
<1>. QED
  BY <1>6, <1>7, <1>8 DEF Kept

LEMMA CreateKeeps ==
    ASSUME CallTypes, RoomTypes, Kept, NEW c \in Callers, NEW r \in Rooms, NEW agents \in SUBSET Names,
           Create(c, r, agents)
    PROVE  Kept'
<1>1. PICK k : k.op = "create" /\ k.at = "append" /\ k.on = r /\ k.with = agents /\ Arrives(c, k)
  BY CallsBegin
<1>2. UNCHANGED <<rooms, registry, stranded>> /\ agents \subseteq DOMAIN registry /\ rooms[r].with = {}
      /\ \A d \in Callers : ~(call[d].op = "create" /\ call[d].on = r)
  BY DEF Create, memory
<1>3. \A d \in Callers \ {c} : Still(d)
  BY <1>1 DEF Arrives, Still
<1>4. /\ call'[c].op = "create" /\ call'[c].on = r /\ call'[c].with = agents /\ call'[c].at = "append"
      /\ call[c].op = "none"
  BY <1>1 DEF Arrives, Like
<1>5. ASSUME NEW q \in Rooms PROVE KeptRoom(q)'
  <2>1. ASSUME NEW d \in Callers, In(d, "create", "insert"), call[d].on = q
        PROVE  In(d, "create", "insert")' /\ call'[d].on = q
    BY <1>3, <1>4, <2>1 DEF Still, Like, In
  <2>. QED
    BY <1>2, <2>1 DEF Kept, KeptRoom
<1>6. \A d \in Callers \ {c} : /\ call'[d].op = call[d].op /\ call'[d].on = call[d].on
                               /\ call'[d].at = call[d].at /\ call'[d].with = call[d].with
                               /\ call'[d].alone => call[d].alone
  BY <1>3 DEF Still, Like
<1>7. KeptCreate(c)'
  <2>1. ~rooms[r].live
    BY <1>2 DEF RoomTypes
  <2>. QED
    BY <1>2, <1>4, <1>6, <2>1 DEF KeptCreate
<1>8. ASSUME NEW d \in Callers \ {c} PROVE KeptCreate(d)'
  BY <1>2, <1>4, <1>6 DEF Kept, KeptCreate
<1>9. ASSUME NEW d \in Callers PROVE KeptDelete(d)'
  BY <1>2, <1>4, <1>6 DEF Kept, KeptDelete, In
<1>. QED
  BY <1>5, <1>7, <1>8, <1>9 DEF Kept

LEMMA LogCreatedKeeps ==
    ASSUME CallTypes, RoomTypes, Kept, NEW c \in Callers, LogCreated(c)
    PROVE  Kept'
<1>1. /\ call[c].op = "create" /\ call[c].at = "append" /\ Moves(c, "insert")
      /\ UNCHANGED <<registry, stranded>>
  BY CallsGoOn DEF LogCreated, In
<1>0. PICK r \in Rooms : r = call[c].on
  BY <1>1, RoomChanges
<1>2. PICK new : /\ new.with = call[c].with /\ new.live = rooms[r].live /\ new.closed = rooms[r].closed
                 /\ Changes(r, new)
  BY <1>0, <1>1, RoomChanges
<1>3. ~rooms[r].live /\ r \in Rooms /\ \A d \in Callers : call[d].op = "create" /\ call[d].on = r => d = c
  BY <1>0, <1>1 DEF Kept, KeptCreate
<1>4. /\ rooms'[r].with = call[c].with /\ rooms'[r].live = rooms[r].live
      /\ \A q \in Rooms \ {r} : rooms'[q] = rooms[q]
  BY <1>2 DEF Changes
<1>5. /\ call'[c].op = "create" /\ call'[c].at = "insert" /\ call'[c].on = r /\ call'[c].with = call[c].with
      /\ call'[c].alone = call[c].alone /\ \A d \in Callers \ {c} : call'[d] = call[d]
  BY <1>0, <1>1 DEF Moves, Like
<1>6. KeptRoom(r)'
  <2>1. ~rooms'[r].live /\ In(c, "create", "insert")'
    BY <1>3, <1>4, <1>5 DEF In
  <2>. QED
    BY <1>5, <2>1 DEF KeptRoom
<1>7. ASSUME NEW q \in Rooms \ {r} PROVE KeptRoom(q)'
  <2>1. ASSUME NEW d \in Callers, In(d, "create", "insert"), call[d].on = q
        PROVE  In(d, "create", "insert")' /\ call'[d].on = q
    BY <1>1, <1>5, <2>1 DEF In
  <2>. QED
    BY <1>1, <1>4, <2>1 DEF Kept, KeptRoom
<1>8. KeptCreate(c)'
  BY <1>1, <1>3, <1>4, <1>5 DEF Kept, KeptCreate
<1>9. ASSUME NEW d \in Callers \ {c} PROVE KeptCreate(d)' /\ KeptDelete(d)'
  <2>1. call[d].op = "create" => call[d].on # r /\ call[d].on \in Rooms
    BY <1>3 DEF CallTypes, Fits
  <2>2. KeptCreate(d)'
    BY <1>1, <1>3, <1>4, <1>5, <2>1 DEF Kept, KeptCreate
  <2>3. \A q \in Rooms : rooms'[q].live => rooms'[q] = rooms[q]
    BY <1>3, <1>4
  <2>4. KeptDelete(d)'
    BY <1>1, <1>5, <2>3 DEF Kept, KeptDelete, In
  <2>. QED
    BY <2>2, <2>4
<1>10. KeptDelete(c)'
  BY <1>5 DEF KeptDelete, In
<1>. QED
  BY <1>6, <1>7, <1>8, <1>9, <1>10 DEF Kept

LEMMA InsertKeeps ==
    ASSUME CallTypes, RoomTypes, Apart, Kept, NEW c \in Callers, Insert(c)
    PROVE  Kept'
<1>1. /\ call[c].op = "create" /\ call[c].at = "insert" /\ Ends(c) /\ registry' = registry
      /\ stranded' = IF call[c].alone THEN stranded ELSE stranded \cup {call[c].on}
  BY CallsGoOn DEF Insert, In
<1>2. PICK r \in Rooms : r = call[c].on
  BY <1>1, RoomChanges
<1>3. PICK new : /\ new.with = rooms[r].with /\ new.live = TRUE /\ new.closed = rooms[r].closed
                 /\ Changes(r, new)
  BY <1>1, <1>2, RoomChanges
<1>4. /\ rooms'[r].with = rooms[r].with /\ rooms'[r].live = TRUE /\ rooms[r].with = call[c].with
      /\ \A q \in Rooms \ {r} : rooms'[q] = rooms[q]
  BY <1>1, <1>2, <1>3 DEF Changes, Kept, KeptCreate
<1>5. /\ call'[c].op = "none" /\ \A d \in Callers \ {c} : call'[d] = call[d]
      /\ \A d \in Callers : call[d].op = "create" /\ call[d].on = r => d = c
  BY <1>1, <1>2, NobodyFits DEF Ends, Kept, KeptCreate
<1>6. stranded \subseteq stranded' /\ (r \notin stranded' => call[c].alone)
  BY <1>1, <1>2
<1>7. KeptRoom(r)'
  <2>1. call[c].alone => rooms[r].with \subseteq DOMAIN registry
    BY <1>1, <1>4 DEF Kept, KeptCreate
  <2>. QED
    BY <1>1, <1>4, <1>6, <2>1 DEF KeptRoom
<1>8. ASSUME NEW q \in Rooms \ {r} PROVE KeptRoom(q)'
  <2>1. ASSUME NEW d \in Callers, In(d, "create", "insert"), call[d].on = q
        PROVE  In(d, "create", "insert")' /\ call'[d].on = q
    BY <1>2, <1>5, <2>1 DEF In
  <2>. QED
    BY <1>1, <1>4, <1>6, <2>1 DEF Kept, KeptRoom
<1>9. ASSUME NEW d \in Callers PROVE KeptCreate(d)'
  <2>1. CASE d = c
    BY <1>5, <2>1 DEF KeptCreate
  <2>2. CASE d # c
    <3>1. call[d].op = "create" => call[d].on # r /\ call[d].on \in Rooms
      BY <1>5, <2>2 DEF CallTypes, Fits
    <3>2. \A e \in Callers : call'[e].op = "create" => call'[e] = call[e]
      BY <1>5
    <3>. QED
      BY <1>1, <1>4, <1>5, <2>2, <3>1, <3>2 DEF Kept, KeptCreate
  <2>. QED
    BY <2>1, <2>2
<1>10. ASSUME NEW d \in Callers PROVE KeptDelete(d)'
  <2>1. CASE d = c
    BY <1>5, <2>1 DEF KeptDelete, In
  <2>2. CASE d # c
    <3>1. call[d].op = "delete" /\ call[d].on \in rooms[r].with => r \in stranded'
      BY <1>1, <1>4, <1>6, <2>2 DEF Apart, Disturbs, About
    <3>. QED
      BY <1>4, <1>5, <1>6, <2>2, <3>1 DEF Kept, KeptDelete, In
  <2>. QED
    BY <2>1, <2>2
<1>. QED
  BY <1>7, <1>8, <1>9, <1>10 DEF Kept

LEMMA CloseKeeps ==
    ASSUME CallTypes, RoomTypes, Kept, NEW r \in Rooms, Close(r)
    PROVE  Kept'
<1>1. /\ UNCHANGED <<registry, call, stranded>>
      /\ \A q \in Rooms : /\ rooms'[q].with = rooms[q].with /\ rooms'[q].live = rooms[q].live
                          /\ rooms[q].closed => rooms'[q].closed
  <2>1. \A q \in Rooms : rooms[q] \in RoomStates
    BY DEF RoomTypes
  <2>2. rooms' = [rooms EXCEPT ![r].closed = TRUE] /\ rooms \in [Rooms -> RoomStates]
    BY DEF Close, RoomTypes
  <2>. QED
    BY <2>1, <2>2 DEF Close, RoomStates
<1>2. \A c \in Callers : call[c].op = "create" => call[c].on \in Rooms
  BY DEF CallTypes, Fits
<1>3. \A q \in Rooms : KeptRoom(q)'
  BY <1>1 DEF Kept, KeptRoom, In
<1>4. \A c \in Callers : KeptCreate(c)'
  BY <1>1, <1>2 DEF Kept, KeptCreate
<1>5. \A c \in Callers : KeptDelete(c)'
  BY <1>1 DEF Kept, KeptDelete, In
<1>. QED
  BY <1>3, <1>4, <1>5 DEF Kept

LEMMA UnregisterKeeps ==
    ASSUME CallTypes, RoomTypes, Apart, Kept, NEW c \in Callers, Unregister(c)
    PROVE  Kept'
<1>1. call[c].op = "delete" /\ call[c].at = "remove" /\ UNCHANGED <<rooms, stranded>>
  BY DEF Unregister, In
<1>2. PICK n \in Names : n = call[c].on
  BY <1>1 DEF CallTypes, Fits
<1>3. DOMAIN registry \ {n} \subseteq DOMAIN registry'
  BY <1>2, RestrictFacts DEF Unregister
<1>4. /\ call'[c].op # "create" /\ ~In(c, "delete", "remove")'
      /\ \A d \in Callers \ {c} : call'[d] = call[d]
  BY <1>1, CallsGoOn, NobodyFits DEF Ends, Moves, Like, In
<1>5. ASSUME NEW r \in Rooms PROVE KeptRoom(r)'
  <2>1. r \notin stranded /\ rooms[r].live /\ ~rooms[r].closed => n \notin rooms[r].with
    BY <1>1, <1>2 DEF Kept, KeptDelete, In
  <2>2. ASSUME NEW d \in Callers, In(d, "create", "insert"), call[d].on = r
        PROVE  In(d, "create", "insert")' /\ call'[d].on = r
    BY <1>1, <1>4, <2>2 DEF In
  <2>. QED
    BY <1>1, <1>3, <2>1, <2>2 DEF Kept, KeptRoom
<1>6. ASSUME NEW d \in Callers PROVE KeptCreate(d)'
  <2>1. d # c /\ call[d].op = "create" /\ call[d].alone => n \notin call[d].with
    BY <1>1, <1>2 DEF Apart, Disturbs, About
  <2>2. \A e \in Callers : call'[e].op = "create" => call'[e] = call[e] /\ e # c
    BY <1>4
  <2>. QED
    BY <1>1, <1>3, <2>1, <2>2 DEF Kept, KeptCreate
<1>7. ASSUME NEW d \in Callers PROVE KeptDelete(d)'
  BY <1>1, <1>4 DEF Kept, KeptDelete, In
<1>. QED
  BY <1>5, <1>6, <1>7 DEF Kept

LEMMA RestartKeeps ==
    ASSUME CallTypes, RoomTypes, Agree, Kept, Restart
    PROVE  Kept'
<1>1. /\ registry' = Restored /\ \A c \in Callers : call'[c] = Nobody
      /\ stranded' = stranded \cup {r \in Rooms : rooms[r].with \cap doubtful # {}}
                        \cup {call[c].on : c \in {d \in Callers : call[d].op = "create" /\ ~call[d].alone}}
  BY DEF Restart
<1>2. \A r \in Rooms : /\ rooms'[r].with = rooms[r].with /\ rooms'[r].closed = rooms[r].closed
                       /\ rooms'[r].live <=> rooms[r].with # {}
                       /\ rooms[r].with \subseteq Names
  <2>1. \A r \in Rooms : rooms[r] \in RoomStates
    BY DEF RoomTypes
  <2>2. \A r \in Rooms : rooms'[r] = [rooms[r] EXCEPT !.live = rooms[r].with # {}]
    BY DEF Restart
  <2>. QED
    BY <2>1, <2>2 DEF RoomStates
<1>3. ASSUME NEW r \in Rooms \ stranded', rooms[r].with # {}, ~rooms[r].closed
      PROVE  rooms[r].with \subseteq DOMAIN registry'
  <2>1. rooms[r].with \subseteq DOMAIN registry
    <3>1. CASE rooms[r].live
      BY <1>1, <1>3, <3>1 DEF Kept, KeptRoom
    <3>2. CASE ~rooms[r].live
      <4>1. PICK c \in Callers : In(c, "create", "insert") /\ call[c].on = r
        BY <1>1, <1>3, <3>2 DEF Kept, KeptRoom
      <4>2. call[c].alone
        BY <1>1, <1>3, <4>1 DEF In
      <4>. QED
        BY <4>1, <4>2 DEF Kept, KeptCreate, In
    <3>. QED
      BY <3>1, <3>2
  <2>2. rooms[r].with \cap doubtful = {}
    BY <1>1, <1>3
  <2>. QED
    BY <1>1, <1>2, <2>1, <2>2 DEF Agree, AgreesOn
<1>4. \A r \in Rooms : KeptRoom(r)'
  BY <1>2, <1>3 DEF KeptRoom
<1>5. \A c \in Callers : KeptCreate(c)' /\ KeptDelete(c)'
  BY <1>1, NobodyFits DEF KeptCreate, KeptDelete, In
<1>. QED
  BY <1>4, <1>5 DEF Kept

LEMMA KeptStep == ServerTypes /\ Apart /\ Agree /\ Kept /\ [Next]_vars => Kept'
<1>. SUFFICES ASSUME CallTypes, RoomTypes, Apart, Agree, Kept, [Next]_vars PROVE Kept'
  BY DEF ServerTypes
<1>1. ASSUME NEW c \in Callers, NEW k, Arrives(c, k), k.op \notin {"create", "delete"}
      PROVE  \A d \in Callers : Still(d) \/ Other(d)
  BY <1>1 DEF Arrives, Still, Other, Like, In
<1>2. ASSUME NEW c \in Callers, NEW n \in Names, Register(c, n) PROVE Kept'
  <2>1. /\ rooms' = rooms /\ stranded' = stranded
        /\ DOMAIN registry \subseteq DOMAIN registry'
    BY <1>2 DEF Register, Put
  <2>. QED
    BY <1>1, <1>2, <2>1, CallsBegin, QuietKeeps
<1>3. ASSUME NEW c \in Callers, NEW r \in Rooms, IssueKey(c, r) \/ Admit(c, r) PROVE Kept'
  <2>1. UNCHANGED <<rooms, stranded, registry>>
    BY <1>3 DEF IssueKey, Admit, memory
  <2>. QED
    BY <1>1, <1>3, <2>1, CallsBegin, QuietKeeps
<1>4. ASSUME NEW c \in Callers, NEW wake \in 0..MaxWake,
             \/ LogRegistered(c) \/ LogRemoved(c) \/ LogInvited(c) \/ InsertKey(c) \/ Charge(c)
             \/ Accept(c, wake)
      PROVE  Kept'
  <2>1. UNCHANGED <<rooms, stranded, registry>> /\ call[c].op # "create"
        /\ (LogInvited(c) \/ Accept(c, wake) => call[c].op # "delete")
    BY <1>4 DEF LogRegistered, LogRemoved, LogInvited, InsertKey, Charge, Accept, memory, In
  <2>2. \A d \in Callers \ {c} : Still(d)
    BY <1>4, CallsGoOn DEF Ends, Moves, Still, Like
  <2>3. Other(c)
    BY <1>4, <2>1, CallsGoOn, NobodyFits DEF Ends, Moves, Other, Like, In
  <2>. QED
    BY <2>1, <2>2, <2>3, QuietKeeps
<1>5. ASSUME NEW c \in Callers, Breaks(c) PROVE Kept'
  <2>1. /\ rooms' = rooms /\ registry' = registry /\ stranded \subseteq stranded'
        /\ In(c, "create", "insert") => call[c].on \in stranded'
    BY <1>5 DEF Breaks, memory
  <2>2. \A d \in Callers \ {c} : Still(d)
    BY <1>5, CallsGoOn DEF Ends, Still, Like
  <2>3. Other(c)
    BY <1>5, <2>1, CallsGoOn, NobodyFits DEF Ends, Other, In
  <2>. QED
    BY <2>1, <2>2, <2>3, QuietKeeps
<1>6. CASE (\E r \in Rooms : TooMany(r)) \/ Tick \/ UNCHANGED vars
  <2>1. UNCHANGED <<rooms, stranded, registry, call>>
    BY <1>6 DEF TooMany, Tick, vars, memory
  <2>2. \A c \in Callers : Still(c)
    BY <2>1 DEF Still, Like
  <2>. QED
    BY <2>1, <2>2, QuietKeeps
<1>. QED
  <2>1. 0 \in 0..MaxWake
    BY Bounds
  <2>. QED
    BY <1>2, <1>3, <1>4, <1>5, <1>6, <2>1, DeleteKeeps, CreateKeeps, LogCreatedKeeps, InsertKeeps, CloseKeeps,
       UnregisterKeeps, RestartKeeps DEF Next, Done

(* The agents of an open room stay registered, across deletions, closings   *)
(* and restarts, but for rooms created while one of their agents was being  *)
(* deleted, or left by a forced deletion or a registration that was not     *)
(* logged (delete_agent's used_by; Manager::create_scoped).                 *)
THEOREM AgentsKept == Spec => []RoomsKeepAgents
<1>1. Init => Kept
  <2>. SUFFICES ASSUME Init PROVE Kept
    OBVIOUS
  <2>1. /\ \A c \in Callers : call[c] = Nobody
        /\ registry = [n \in Files |-> 0]
    BY DEF Init
  <2>2. \A r \in Rooms : rooms[r].with = {} \/ (rooms[r].with = Files /\ rooms[r].live)
    <3>1. PICK opened \in SUBSET Rooms :
             \A r \in Rooms : rooms[r] = [with |-> IF r \in opened THEN Files ELSE {},
                                         live |-> r \in opened, closed |-> FALSE]
      BY DEF Init
    <3>. DEFINE new(r) == [with |-> IF r \in opened THEN Files ELSE {},
                          live |-> r \in opened, closed |-> FALSE]
    <3>2. \A r \in Rooms : rooms[r] = new(r)
      BY <3>1
    <3>3. \A r \in Rooms : new(r).live <=> r \in opened
      BY Zenon
    <3>4. \A r \in Rooms : new(r).with = (IF r \in opened THEN Files ELSE {})
      OBVIOUS
    <3>. HIDE DEF new
    <3>5. ASSUME NEW r \in Rooms
          PROVE  rooms[r].with = {} \/ (rooms[r].with = Files /\ rooms[r].live)
      <4>1. rooms[r].with = (IF r \in opened THEN Files ELSE {})
        BY <3>2, <3>4
      <4>2. r \in opened => rooms[r].live
        BY <3>2, <3>3
      <4>. QED
        BY <4>1, <4>2
    <3>. QED
      BY <3>5
  <2>. QED
    BY <2>1, <2>2, NobodyFits DEF Kept, KeptRoom, KeptCreate, KeptDelete, In
<1>2. RoomTypes /\ Kept => RoomsKeepAgents
  BY DEF RoomTypes, Kept, KeptRoom, RoomsKeepAgents
<1>3. ServerTypes /\ Apart /\ Agree /\ Kept /\ [Next]_vars => Apart' /\ Agree' /\ Kept'
  BY ApartStep, AgreeStep, KeptStep DEF ServerTypes
<1>4. Init => Apart /\ Agree
  BY AgreesFirst
<1>5. ServerTypes => RoomTypes
  BY DEF ServerTypes
<1>. QED
  BY <1>1, <1>2, <1>3, <1>4, <1>5, ServerTypesCorrect, PTL DEF Spec

(***************************************************************************)
(* The budgets: what the calls in flight may still cost.                   *)
(***************************************************************************)

(* The turns the calls in flight may begin at most: one room's, and all.   *)
TurnsOf(c, m) == {c} \X (1..m)
Ahead == {t \in Callers \X (1..MaxWake) : call[t[1]].op = "submit"}
AheadIn(r) == {t \in Ahead : call[t[1]].on = r}
(* The turns that were begun and are not charged yet.                       *)
Owed == {t \in Ahead : call[t[1]].at = "charge" /\ t[2] <= call[t[1]].n}
Capacity == Cardinality(Callers) * MaxWake

(* A bucket is in debt for no more than the calls in flight at once cost,   *)
(* less the turn that was left when the last of them was admitted.          *)
Solvent(b, key, ahead) ==
    key \in DOMAIN b => b[key].tokens >= (Cardinality(ahead) + 1 - Capacity) * Token

(* What was charged since the start is what is gone from the server's       *)
(* bucket.                                                                 *)
Balance(b, charged) ==
    IF All \in DOMAIN b
    THEN charged * Token + b[All].tokens <= Full(Total) + Total * b[All].last
    ELSE charged <= 0
Balanced == Balance(total, spent - Cardinality(Owed))

CostsKnown == \A c \in Callers : In(c, "submit", "charge") => call[c].n \in 0..MaxWake

BudgetInv ==
    /\ CostsKnown
    /\ \A r \in Rooms : Solvent(perRoom, r, AheadIn(r))
    /\ Solvent(total, All, Ahead)
    /\ Balanced

LEMMA TokenFacts ==
    /\ Token \in Nat /\ Token > 0 /\ Token = Minute /\ Minute \in Nat
    /\ PerRoom \in Nat /\ PerRoom > 0 /\ Total \in Nat /\ Total > 0 /\ MaxWake \in Nat
    /\ Capacity \in Nat /\ Cardinality(Callers) \in Nat
<1>1. IsFiniteSet(Callers) /\ MaxWake \in Nat
  BY ServerAssumption
<1>2. Cardinality(Callers) \in Nat
  BY <1>1, FS_CardinalityType
<1>3. Capacity \in Nat
  BY <1>1, <1>2 DEF Capacity
<1>. QED
  BY <1>1, <1>2, <1>3, ServerAssumption, LimiterAssumption DEF Token

LEMMA Scaled ==
    ASSUME NEW x \in Int, NEW y \in Int, x <= y, NEW z \in Nat
    PROVE  x * z <= y * z
OBVIOUS

LEMMA Apportioned ==
    ASSUME NEW x \in Int, NEW y \in Int, NEW z \in Nat
    PROVE  (x + y) * z = x * z + y * z /\ (x - y) * z = x * z - y * z
OBVIOUS

(* Sets of turns, and how many they are.                                    *)
LEMMA TurnSets ==
    ASSUME NEW S \in SUBSET (Callers \X (1..MaxWake))
    PROVE  IsFiniteSet(S) /\ Cardinality(S) \in 0..Capacity
<1>1. /\ IsFiniteSet(Callers) /\ IsFiniteSet(1..MaxWake)
      /\ Cardinality(1..MaxWake) = MaxWake
  <2>1. IsFiniteSet(Callers) /\ MaxWake \in Nat /\ 1 \in Int /\ MaxWake \in Int
    BY ServerAssumption
  <2>2. /\ IsFiniteSet(1..MaxWake)
        /\ Cardinality(1..MaxWake) = IF 1 > MaxWake THEN 0 ELSE MaxWake - 1 + 1
    BY <2>1, FS_Interval
  <2>. QED
    BY <2>1, <2>2
<1>2. /\ IsFiniteSet(Callers \X (1..MaxWake))
      /\ Cardinality(Callers \X (1..MaxWake)) = Cardinality(Callers) * Cardinality(1..MaxWake)
  BY <1>1, FS_Product
<1>3. Cardinality(Callers \X (1..MaxWake)) = Capacity
  BY <1>1, <1>2 DEF Capacity
<1>4. IsFiniteSet(S) /\ Cardinality(S) <= Capacity
  BY <1>2, <1>3, FS_Subset
<1>5. Cardinality(S) \in Nat
  BY <1>4, FS_CardinalityType
<1>. QED
  BY <1>4, <1>5, TokenFacts

LEMMA TurnsOfFacts ==
    ASSUME NEW c \in Callers, NEW m \in 0..MaxWake
    PROVE  /\ IsFiniteSet(TurnsOf(c, m)) /\ Cardinality(TurnsOf(c, m)) = m
           /\ TurnsOf(c, m) = {t \in Callers \X (1..MaxWake) : t[1] = c /\ t[2] <= m}
<1>1. m \in Nat /\ m <= MaxWake /\ MaxWake \in Nat
  BY TokenFacts
<1>2. IsFiniteSet({c}) /\ Cardinality({c}) = 1
  BY FS_Singleton
<1>3. IsFiniteSet(1..m) /\ Cardinality(1..m) = m
  BY <1>1, FS_Interval
<1>4. /\ IsFiniteSet({c} \X (1..m))
      /\ Cardinality({c} \X (1..m)) = Cardinality({c}) * Cardinality(1..m)
  BY <1>2, <1>3, FS_Product
<1>5. Cardinality({c} \X (1..m)) = m
  BY <1>1, <1>2, <1>3, <1>4
<1>6. {c} \X (1..m) = {t \in Callers \X (1..MaxWake) : t[1] = c /\ t[2] <= m}
  BY <1>1
<1>. QED
  BY <1>4, <1>5, <1>6 DEF TurnsOf

LEMMA TurnsAdded ==
    ASSUME NEW S \in SUBSET (Callers \X (1..MaxWake)), NEW c \in Callers, NEW m \in 0..MaxWake,
           NEW T, T = S \cup TurnsOf(c, m), S \cap TurnsOf(c, m) = {}
    PROVE  Cardinality(T) = Cardinality(S) + m
<1>1. IsFiniteSet(S) /\ Cardinality(S) \in Nat /\ IsFiniteSet(TurnsOf(c, m)) /\ Cardinality(TurnsOf(c, m)) = m
  BY TurnSets, TurnsOfFacts, TokenFacts
<1>2. Cardinality(T) = Cardinality(S) + Cardinality(TurnsOf(c, m)) - Cardinality({})
  BY <1>1, FS_Union
<1>3. Cardinality({}) = 0
  BY FS_EmptySet
<1>. QED
  BY <1>1, <1>2, <1>3, TokenFacts

LEMMA TurnsTaken ==
    ASSUME NEW S \in SUBSET (Callers \X (1..MaxWake)), NEW c \in Callers, NEW m \in 0..MaxWake,
           NEW T, T = S \ TurnsOf(c, m), TurnsOf(c, m) \subseteq S
    PROVE  Cardinality(T) = Cardinality(S) - m
<1>1. IsFiniteSet(S) /\ Cardinality(S) \in Nat /\ Cardinality(TurnsOf(c, m)) = m
  BY TurnSets, TurnsOfFacts, TokenFacts
<1>2. Cardinality(T) = Cardinality(S) - Cardinality(S \cap TurnsOf(c, m))
  BY <1>1, FS_Difference
<1>3. S \cap TurnsOf(c, m) = TurnsOf(c, m)
  OBVIOUS
<1>. QED
  BY <1>1, <1>2, <1>3

LEMMA AheadSets ==
    /\ Ahead \in SUBSET (Callers \X (1..MaxWake)) /\ Owed \in SUBSET Ahead
    /\ \A r : AheadIn(r) \in SUBSET Ahead
    /\ Cardinality(Ahead) \in 0..Capacity /\ Cardinality(Owed) \in 0..Capacity
    /\ Cardinality(Owed) <= Cardinality(Ahead)
    /\ \A r : Cardinality(AheadIn(r)) \in 0..Capacity
<1>1. Ahead \in SUBSET (Callers \X (1..MaxWake)) /\ Owed \in SUBSET Ahead
  BY DEF Ahead, Owed
<1>2. \A r : AheadIn(r) \in SUBSET Ahead
  BY DEF AheadIn
<1>3. IsFiniteSet(Ahead) /\ Cardinality(Ahead) \in 0..Capacity /\ Cardinality(Owed) \in 0..Capacity
  BY <1>1, TurnSets
<1>4. \A r : Cardinality(AheadIn(r)) \in 0..Capacity
  BY <1>1, <1>2, TurnSets
<1>5. Cardinality(Owed) <= Cardinality(Ahead)
  BY <1>1, <1>3, FS_Subset
<1>. QED
  BY <1>1, <1>2, <1>3, <1>4, <1>5

(* What Limiter::refill and charge do to the bucket they are called for.    *)
LEMMA LevelGrows ==
    ASSUME NEW b, NEW n \in Nat, NEW now \in Nat,
           b.tokens \in Int, b.tokens <= Full(n), b.last \in 0..now
    PROVE  /\ Level(b, n, now) >= b.tokens
           /\ Level(b, n, now) <= b.tokens + n * (now - b.last)
           /\ Level(b, n, now) \in Int
<1>1. n * (now - b.last) \in Nat /\ Full(n) \in Int
  BY TokenFacts DEF Full
<1>. QED
  BY <1>1 DEF Level

RefillsAt(b, n, key, now, g) ==
    /\ key \in DOMAIN g /\ g[key].last = now
    /\ key \notin DOMAIN b => g[key].tokens = Full(n)
    /\ key \in DOMAIN b => g[key].tokens = Level(b[key], n, now)
    /\ \A k \in DOMAIN g \ {key} : k \in DOMAIN b /\ g[k] = b[k]
    /\ \A k \in DOMAIN b \ DOMAIN g : ~(now - b[k].last <= Idle)

LEMMA RefilledAt ==
    ASSUME NEW b, NEW n, NEW key, NEW now
    PROVE  RefillsAt(b, n, key, now, Refilled(b, n, key, now))
<1> DEFINE left == IF key \notin DOMAIN b /\ Cardinality(DOMAIN b) >= EvictAt
                   THEN Restrict(b, {k \in DOMAIN b : now - b[k].last <= Idle})
                   ELSE b
           tokens == IF key \in DOMAIN left THEN Level(left[key], n, now) ELSE Full(n)
           g == Refilled(b, n, key, now)
<1>1. g = [k \in DOMAIN left \cup {key} |->
            IF k = key THEN [tokens |-> tokens, last |-> now] ELSE left[k]]
  BY DEF Refilled
<1>2. /\ DOMAIN left \subseteq DOMAIN b /\ \A k \in DOMAIN left : left[k] = b[k]
      /\ \A k \in DOMAIN b \ DOMAIN left : ~(now - b[k].last <= Idle)
      /\ key \in DOMAIN b => left = b
  BY RestrictFacts
<1>. HIDE DEF left
<1>3. /\ key \notin DOMAIN b => tokens = Full(n)
      /\ key \in DOMAIN b => tokens = Level(b[key], n, now)
  BY <1>2
<1>. HIDE DEF tokens, g
<1>4. RefillsAt(b, n, key, now, g)
  BY <1>1, <1>2, <1>3 DEF RefillsAt
<1>. QED
  BY <1>4 DEF g

ChargesAt(key, now, turns, g, h) ==
    /\ DOMAIN h = DOMAIN g /\ h[key].tokens = g[key].tokens - turns * Token /\ h[key].last = now
    /\ \A k \in DOMAIN g \ {key} : h[k] = g[k]

LEMMA ChargedAt ==
    ASSUME NEW b, NEW n, NEW key, NEW now, NEW turns, turns # 0
    PROVE  ChargesAt(key, now, turns, Refilled(b, n, key, now), Charged(b, n, key, now, turns))
<1>. DEFINE g == Refilled(b, n, key, now)
            h == Charged(b, n, key, now, turns)
<1>1. \E t : g[key] = [tokens |-> t, last |-> now]
  BY DEF Refilled
<1>2. key \in DOMAIN g
  BY RefilledAt DEF RefillsAt
<1>3. h = [g EXCEPT ![key].tokens = @ - turns * Token]
  BY DEF Charged
<1>. HIDE DEF g, h
<1>4. ChargesAt(key, now, turns, g, h)
  BY <1>1, <1>2, <1>3 DEF ChargesAt
<1>. QED
  BY <1>4 DEF g, h

(* A bucket that is brought up to now, or charged.                          *)
Solvency(k) == (k + 1 - Capacity) * Token

LEMMA SolventRefilled ==
    ASSUME NEW b, NEW S, NEW n \in Nat, n > 0, NEW now \in Nat, Buckets(b, S, n, now), NEW key \in S,
           NEW g, g = Refilled(b, n, key, now), NEW k \in S,
           NEW ahead \in SUBSET (Callers \X (1..MaxWake)), Solvent(b, k, ahead)
    PROVE  Solvent(g, k, ahead)
<1>0. Cardinality(ahead) \in 0..Capacity
  BY TurnSets
<1>1. CASE k # key
  <2>1. k \in DOMAIN g => k \in DOMAIN b
    BY <1>1, RefilledAt DEF RefillsAt
  <2>2. k \in DOMAIN g => g[k] = b[k]
    BY <1>1, RefilledAt DEF RefillsAt
  <2>. QED
    BY <2>1, <2>2 DEF Solvent
<1>2. CASE k = key /\ key \in DOMAIN b
  <2>1. g[key].tokens = Level(b[key], n, now)
    BY <1>2, RefilledAt DEF RefillsAt
  <2>2. Level(b[key], n, now) >= b[key].tokens /\ b[key].tokens \in Int /\ Level(b[key], n, now) \in Int
    BY <1>2, LevelGrows DEF Buckets
  <2>3. Solvency(Cardinality(ahead)) \in Int /\ b[key].tokens >= Solvency(Cardinality(ahead))
    BY <1>0, <1>2, TokenFacts DEF Solvency, Solvent
  <2>4. g[key].tokens >= Solvency(Cardinality(ahead))
    BY <2>1, <2>2, <2>3
  <2>. QED
    BY <1>2, <2>4 DEF Solvent, Solvency
<1>3. CASE k = key /\ key \notin DOMAIN b
  <2>1. g[key].tokens = n * Token
    BY <1>3, RefilledAt DEF RefillsAt, Full
  <2>2. Cardinality(ahead) + 1 - Capacity <= n /\ Cardinality(ahead) + 1 - Capacity \in Int
    BY <1>0, TokenFacts
  <2>3. (Cardinality(ahead) + 1 - Capacity) * Token <= n * Token
    BY <2>2, Scaled, TokenFacts
  <2>. QED
    BY <1>3, <2>1, <2>3 DEF Solvent
<1>. QED
  BY <1>1, <1>2, <1>3

LEMMA SolventLess ==
    ASSUME NEW b, NEW S, NEW n \in Nat, NEW now \in Nat, Buckets(b, S, n, now), NEW k,
           NEW ahead \in SUBSET (Callers \X (1..MaxWake)), NEW fewer \in SUBSET ahead,
           Solvent(b, k, ahead)
    PROVE  Solvent(b, k, fewer)
<1>1. /\ Cardinality(ahead) \in 0..Capacity /\ Cardinality(fewer) \in 0..Capacity
      /\ Cardinality(fewer) <= Cardinality(ahead)
  BY TurnSets, FS_Subset
<1>2. Cardinality(fewer) + 1 - Capacity <= Cardinality(ahead) + 1 - Capacity
  BY <1>1, TokenFacts
<1>3. Solvency(Cardinality(fewer)) <= Solvency(Cardinality(ahead))
  BY <1>1, <1>2, Scaled, TokenFacts DEF Solvency
<1>4. Solvency(Cardinality(fewer)) \in Int /\ Solvency(Cardinality(ahead)) \in Int
  BY <1>1, TokenFacts DEF Solvency
<1>5. k \in DOMAIN b => b[k].tokens >= Solvency(Cardinality(ahead)) /\ b[k].tokens \in Int
  BY DEF Solvent, Solvency, Buckets
<1>6. k \in DOMAIN b => b[k].tokens >= Solvency(Cardinality(fewer))
  BY <1>3, <1>4, <1>5
<1>. QED
  BY <1>6 DEF Solvent, Solvency

LEMMA SolventAllowed ==
    ASSUME NEW b, NEW S, NEW n \in Nat, NEW now \in Nat, Buckets(b, S, n, now), NEW key \in S,
           NEW g, g = Refilled(b, n, key, now), Allows(b, n, key, now),
           NEW ahead \in SUBSET (Callers \X (1..MaxWake))
    PROVE  Solvent(g, key, ahead)
<1>1. Cardinality(ahead) \in 0..Capacity
  BY TurnSets
<1>2. Cardinality(ahead) + 1 - Capacity <= 1 /\ Cardinality(ahead) + 1 - Capacity \in Int
  BY <1>1, TokenFacts
<1>3. (Cardinality(ahead) + 1 - Capacity) * Token <= 1 * Token
  BY <1>2, Scaled, TokenFacts
<1>4. Solvency(Cardinality(ahead)) <= Token /\ Solvency(Cardinality(ahead)) \in Int
  BY <1>2, <1>3, TokenFacts DEF Solvency
<1>5. g[key].tokens >= Token
  BY DEF Allows
<1>6. g[key].tokens \in Int
  BY RefilledBuckets DEF Buckets
<1>7. g[key].tokens >= Solvency(Cardinality(ahead))
  BY <1>4, <1>5, <1>6, TokenFacts
<1>. QED
  BY <1>7 DEF Solvent, Solvency

LEMMA SolventCharged ==
    ASSUME NEW b, NEW S, NEW n \in Nat, n > 0, NEW now \in Nat, Buckets(b, S, n, now), NEW key \in S,
           NEW turns \in 0..MaxWake, NEW h, h = Charged(b, n, key, now, turns),
           NEW c \in Callers, NEW k \in S,
           NEW ahead \in SUBSET (Callers \X (1..MaxWake)), Solvent(b, k, ahead),
           NEW rest, rest = ahead \ TurnsOf(c, MaxWake),
           k = key => TurnsOf(c, MaxWake) \subseteq ahead
    PROVE  Solvent(h, k, rest)
<1>0. turns \in Nat /\ rest \in SUBSET ahead
  BY TokenFacts
<1>1. CASE turns = 0
  <2>1. h = b
    BY <1>1 DEF Charged
  <2>. QED
    BY <1>0, <2>1, SolventLess
<1>2. CASE turns # 0
  <2>. DEFINE g == Refilled(b, n, key, now)
  <2>1. Solvent(g, k, ahead) /\ Buckets(g, S, n, now)
    BY SolventRefilled, RefilledBuckets
  <2>2. RefillsAt(b, n, key, now, g) /\ ChargesAt(key, now, turns, g, h)
    BY <1>2, RefilledAt, ChargedAt
  <2>3. /\ DOMAIN h = DOMAIN g /\ key \in DOMAIN g
        /\ h[key].tokens = g[key].tokens - turns * Token
        /\ \A j \in DOMAIN g \ {key} : h[j] = g[j]
    BY <2>2 DEF RefillsAt, ChargesAt
  <2>. HIDE DEF g
  <2>4. CASE k # key
    <3>1. Solvent(g, k, rest)
      BY <1>0, <2>1, SolventLess
    <3>. QED
      BY <2>3, <2>4, <3>1 DEF Solvent
  <2>5. CASE k = key
    <3>1. Cardinality(rest) = Cardinality(ahead) - MaxWake /\ Cardinality(ahead) \in 0..Capacity
      BY <2>5, TurnSets, TurnsTaken, TokenFacts
    <3>2. turns * Token <= MaxWake * Token /\ turns * Token \in Int /\ MaxWake * Token \in Int
      BY <1>0, Scaled, TokenFacts
    <3>3. PICK x \in Int : x = Cardinality(ahead) + 1 - Capacity
      BY <3>1, TokenFacts
    <3>4. (x - MaxWake) * Token = x * Token - MaxWake * Token
      BY Apportioned, TokenFacts
    <3>5. Cardinality(rest) + 1 - Capacity = x - MaxWake
      BY <3>1, <3>3, TokenFacts
    <3>6. Solvency(Cardinality(rest)) = Solvency(Cardinality(ahead)) - MaxWake * Token
      BY <3>3, <3>4, <3>5 DEF Solvency
    <3>7. Solvency(Cardinality(ahead)) \in Int /\ g[key].tokens \in Int
      BY <2>1, <2>3, <3>3, TokenFacts DEF Solvency, Buckets
    <3>8. g[key].tokens >= Solvency(Cardinality(ahead))
      BY <2>1, <2>3, <2>5 DEF Solvent, Solvency
    <3>9. h[key].tokens >= Solvency(Cardinality(rest))
      BY <2>3, <3>2, <3>6, <3>7, <3>8
    <3>. QED
      BY <2>5, <3>9 DEF Solvent, Solvency
  <2>. QED
    BY <2>4, <2>5
<1>. QED
  BY <1>1, <1>2

(* The server's bucket against what was charged.                            *)
LEMMA BalanceRefilled ==
    ASSUME NEW b, NEW now \in Nat, Buckets(b, {All}, Total, now), NEW charged \in Int,
           Balance(b, charged), NEW g, g = Refilled(b, Total, All, now)
    PROVE  Balance(g, charged) /\ All \in DOMAIN g /\ g[All].tokens \in Int /\ g[All].last = now
<1>0. All \in DOMAIN g /\ g[All].last = now /\ charged * Token \in Int /\ Full(Total) \in Int
  <2>1. All \in DOMAIN g /\ g[All].last = now
    BY RefilledAt, TokenFacts DEF RefillsAt
  <2>2. charged * Token \in Int /\ Full(Total) \in Int
    BY TokenFacts DEF Full
  <2>. QED
    BY <2>1, <2>2
<1>1. g[All].tokens \in Int
  BY RefilledBuckets, TokenFacts DEF Buckets
<1>2. CASE All \in DOMAIN b
  <2>1. g[All].tokens = Level(b[All], Total, now)
    BY <1>2, RefilledAt, TokenFacts DEF RefillsAt
  <2>2. /\ b[All].tokens \in Int /\ b[All].last \in 0..now
        /\ Level(b[All], Total, now) <= b[All].tokens + Total * (now - b[All].last)
    BY <1>2, LevelGrows, TokenFacts DEF Buckets
  <2>3. Total * (now - b[All].last) = Total * now - Total * b[All].last
    BY <2>2, TokenFacts
  <2>4. Total * now \in Int /\ Total * b[All].last \in Int
    BY <2>2, TokenFacts
  <2>5. charged * Token + b[All].tokens <= Full(Total) + Total * b[All].last
    BY <1>2 DEF Balance
  <2>6. charged * Token + g[All].tokens <= Full(Total) + Total * now
    BY <1>0, <1>1, <2>1, <2>2, <2>3, <2>4, <2>5
  <2>. QED
    BY <1>0, <1>1, <2>6 DEF Balance
<1>3. CASE All \notin DOMAIN b
  <2>1. g[All].tokens = Full(Total)
    BY <1>3, RefilledAt, TokenFacts DEF RefillsAt
  <2>2. charged <= 0
    BY <1>3 DEF Balance
  <2>3. charged * Token <= 0 * Token
    BY <2>2, Scaled, TokenFacts
  <2>4. Total * now \in Nat /\ 0 * Token = 0
    BY TokenFacts
  <2>5. charged * Token + g[All].tokens <= Full(Total) + Total * now
    BY <1>0, <2>1, <2>3, <2>4
  <2>. QED
    BY <1>0, <1>1, <2>5 DEF Balance
<1>. QED
  BY <1>2, <1>3

LEMMA BalanceCharged ==
    ASSUME NEW b, NEW now \in Nat, Buckets(b, {All}, Total, now), NEW charged \in Int,
           Balance(b, charged), NEW turns \in Nat, NEW h, h = Charged(b, Total, All, now, turns)
    PROVE  Balance(h, charged + turns)
<1>1. CASE turns = 0
  <2>1. h = b /\ charged + turns = charged
    BY <1>1 DEF Charged
  <2>. QED
    BY <2>1
<1>2. CASE turns # 0
  <2>. DEFINE g == Refilled(b, Total, All, now)
  <2>1. Balance(g, charged) /\ All \in DOMAIN g /\ g[All].tokens \in Int /\ g[All].last = now
    BY BalanceRefilled
  <2>2. ChargesAt(All, now, turns, g, h)
    BY <1>2, ChargedAt
  <2>. HIDE DEF g
  <2>3. (charged + turns) * Token = charged * Token + turns * Token
    BY Apportioned, TokenFacts
  <2>4. charged * Token \in Int /\ turns * Token \in Int /\ Full(Total) + Total * now \in Int
    BY TokenFacts DEF Full
  <2>5. charged * Token + g[All].tokens <= Full(Total) + Total * now
    BY <2>1 DEF Balance
  <2>6. h[All].tokens = g[All].tokens - turns * Token /\ All \in DOMAIN h /\ h[All].last = now
    BY <2>1, <2>2 DEF ChargesAt
  <2>7. (charged + turns) * Token + h[All].tokens <= Full(Total) + Total * now
    BY <2>1, <2>3, <2>4, <2>5, <2>6
  <2>. QED
    BY <2>6, <2>7 DEF Balance
<1>. QED
  BY <1>1, <1>2

(* The sets of turns, when a call joins, is accepted or leaves.             *)
SameTurns(d) ==
    /\ call'[d].op = "submit" <=> call[d].op = "submit"
    /\ call[d].op = "submit" =>
          call'[d].on = call[d].on /\ call'[d].at = call[d].at /\ call'[d].n = call[d].n

LEMMA PairsOf ==
    \A t \in Callers \X (1..MaxWake) : t[1] \in Callers /\ t[2] \in 1..MaxWake
OBVIOUS

LEMMA AheadSame ==
    ASSUME \A d \in Callers : SameTurns(d)
    PROVE  /\ Ahead' = Ahead /\ Owed' = Owed /\ \A r : AheadIn(r)' = AheadIn(r)
           /\ CostsKnown => CostsKnown'
<1>1. Ahead' = Ahead
  BY PairsOf DEF Ahead, SameTurns
<1>2. \A t \in Ahead : SameTurns(t[1]) /\ call[t[1]].op = "submit"
  BY PairsOf DEF Ahead
<1>3. Owed' = Owed /\ \A r : AheadIn(r)' = AheadIn(r)
  BY <1>1, <1>2 DEF Owed, AheadIn, SameTurns
<1>4. CostsKnown => CostsKnown'
  BY DEF CostsKnown, In, SameTurns
<1>. QED
  BY <1>1, <1>3, <1>4

LEMMA AheadJoins ==
    ASSUME NEW c \in Callers, NEW k, Arrives(c, k), k.op = "submit", k.at = "accept"
    PROVE  /\ Owed' = Owed /\ \A r : r # k.on => AheadIn(r)' = AheadIn(r)
           /\ CostsKnown => CostsKnown'
<1>1. /\ call[c].op = "none" /\ call'[c].op = "submit" /\ call'[c].on = k.on /\ call'[c].at = "accept"
      /\ \A d \in Callers : d # c => SameTurns(d)
  BY DEF Arrives, Like, SameTurns
<1>2. \A t \in Callers \X (1..MaxWake) : t[1] # c => SameTurns(t[1])
  BY <1>1, PairsOf
<1>3. Owed' = Owed
  BY <1>1, <1>2 DEF Owed, Ahead, SameTurns
<1>4. ASSUME NEW r, r # k.on PROVE AheadIn(r)' = AheadIn(r)
  BY <1>1, <1>2, <1>4 DEF AheadIn, Ahead, SameTurns
<1>5. CostsKnown => CostsKnown'
  BY <1>1 DEF CostsKnown, In, SameTurns
<1>. QED
  BY <1>3, <1>4, <1>5

LEMMA AheadAccepted ==
    ASSUME NEW c \in Callers, Moves(c, "charge"), In(c, "submit", "accept"),
           NEW wake \in 0..MaxWake, call'[c].n = wake
    PROVE  /\ Ahead' = Ahead /\ \A r : AheadIn(r)' = AheadIn(r)
           /\ Owed' = Owed \cup TurnsOf(c, wake) /\ Owed \cap TurnsOf(c, wake) = {}
           /\ CostsKnown => CostsKnown'
<1>1. /\ call[c].op = "submit" /\ call[c].at = "accept"
      /\ call'[c].op = "submit" /\ call'[c].at = "charge" /\ call'[c].on = call[c].on
      /\ \A d \in Callers : d # c => call'[d] = call[d]
  BY DEF Moves, In, Like
<1>2. \A t \in Callers \X (1..MaxWake) : t[1] # c => call'[t[1]] = call[t[1]]
  BY <1>1, PairsOf
<1>3. Ahead' = Ahead
  BY <1>1, <1>2 DEF Ahead
<1>4. \A r : AheadIn(r)' = AheadIn(r)
  BY <1>1, <1>2, <1>3 DEF AheadIn, Ahead
<1>5. TurnsOf(c, wake) = {t \in Callers \X (1..MaxWake) : t[1] = c /\ t[2] <= wake}
  BY TurnsOfFacts
<1>6. Owed' = Owed \cup TurnsOf(c, wake)
  BY <1>1, <1>2, <1>3, <1>5 DEF Owed, Ahead
<1>7. Owed \cap TurnsOf(c, wake) = {}
  BY <1>1, <1>5 DEF Owed
<1>8. CostsKnown => CostsKnown'
  BY <1>1 DEF CostsKnown, In
<1>. QED
  BY <1>3, <1>4, <1>6, <1>7, <1>8

LEMMA AheadLeaves ==
    ASSUME CostsKnown, NEW c \in Callers, Ends(c), call[c].op = "submit"
    PROVE  /\ Ahead' = Ahead \ TurnsOf(c, MaxWake) /\ TurnsOf(c, MaxWake) \subseteq Ahead
           /\ \A r : AheadIn(r)' = AheadIn(r) \ TurnsOf(c, MaxWake)
           /\ TurnsOf(c, MaxWake) \subseteq AheadIn(call[c].on)
           /\ call[c].at # "charge" => Owed' = Owed
           /\ call[c].at = "charge" =>
                 /\ call[c].n \in 0..MaxWake
                 /\ Owed' = Owed \ TurnsOf(c, call[c].n) /\ TurnsOf(c, call[c].n) \subseteq Owed
           /\ CostsKnown'
<1>1. /\ call'[c].op = "none" /\ \A d \in Callers : d # c => call'[d] = call[d]
  BY NobodyFits DEF Ends
<1>2. \A t \in Callers \X (1..MaxWake) : t[1] # c => call'[t[1]] = call[t[1]]
  BY <1>1, PairsOf
<1>3. TurnsOf(c, MaxWake) = {t \in Callers \X (1..MaxWake) : t[1] = c}
  <2>1. MaxWake \in 0..MaxWake
    BY TokenFacts
  <2>2. TurnsOf(c, MaxWake) = {t \in Callers \X (1..MaxWake) : t[1] = c /\ t[2] <= MaxWake}
    BY <2>1, TurnsOfFacts
  <2>. QED
    BY <2>2, PairsOf, TokenFacts
<1>4. Ahead' = Ahead \ TurnsOf(c, MaxWake) /\ TurnsOf(c, MaxWake) \subseteq Ahead
  BY <1>1, <1>2, <1>3 DEF Ahead
<1>5. \A r : AheadIn(r)' = AheadIn(r) \ TurnsOf(c, MaxWake)
  BY <1>1, <1>2, <1>3, <1>4 DEF AheadIn, Ahead
<1>6. TurnsOf(c, MaxWake) \subseteq AheadIn(call[c].on)
  BY <1>3, <1>4 DEF AheadIn
<1>7. call[c].at # "charge" => Owed' = Owed
  BY <1>1, <1>2 DEF Owed, Ahead
<1>8. ASSUME call[c].at = "charge"
      PROVE  /\ call[c].n \in 0..MaxWake
             /\ Owed' = Owed \ TurnsOf(c, call[c].n) /\ TurnsOf(c, call[c].n) \subseteq Owed
  <2>1. PICK n \in 0..MaxWake : n = call[c].n
    BY <1>8 DEF CostsKnown, In
  <2>2. TurnsOf(c, n) = {t \in Callers \X (1..MaxWake) : t[1] = c /\ t[2] <= n}
    BY TurnsOfFacts
  <2>3. Owed' = Owed \ TurnsOf(c, n)
    BY <1>1, <1>2, <2>1, <2>2 DEF Owed, Ahead
  <2>4. TurnsOf(c, n) \subseteq Owed
    BY <1>8, <2>1, <2>2 DEF Owed, Ahead
  <2>. QED
    BY <2>1, <2>3, <2>4
<1>9. CostsKnown'
  BY <1>1 DEF CostsKnown, In
<1>. QED
  BY <1>4, <1>5, <1>6, <1>7, <1>8, <1>9

(* A call that does not submit.                                             *)
LEMMA OtherCalls ==
    ASSUME CallTypes, NEW c \in Callers,
           \/ \E n \in Names : Register(c, n) \/ \E force \in BOOLEAN : Delete(c, n, force)
           \/ \E r \in Rooms : IssueKey(c, r) \/ \E agents \in SUBSET Names : Create(c, r, agents)
           \/ LogRegistered(c) \/ Unregister(c) \/ LogRemoved(c) \/ LogCreated(c) \/ Insert(c)
           \/ LogInvited(c) \/ InsertKey(c)
    PROVE  UNCHANGED limits /\ \A d \in Callers : SameTurns(d)
<1>1. ASSUME NEW k, Arrives(c, k), k.op # "submit" PROVE \A d \in Callers : SameTurns(d)
  BY <1>1 DEF Arrives, Like, SameTurns
<1>2. ASSUME NEW at, Moves(c, at) \/ Ends(c), call[c].op # "submit" PROVE \A d \in Callers : SameTurns(d)
  BY <1>2, NobodyFits DEF Moves, Ends, Like, SameTurns
<1>3. ASSUME NEW n \in Names, Register(c, n) PROVE UNCHANGED limits /\ \A d \in Callers : SameTurns(d)
  <2>1. \E k : k.op = "register" /\ Arrives(c, k)
    BY <1>3, CallsBegin
  <2>2. UNCHANGED limits
    BY <1>3 DEF Register, limits
  <2>. QED
    BY <1>1, <2>1, <2>2
<1>4. ASSUME NEW n \in Names, NEW force \in BOOLEAN, Delete(c, n, force)
      PROVE  UNCHANGED limits /\ \A d \in Callers : SameTurns(d)
  <2>1. \E k : k.op = "delete" /\ Arrives(c, k)
    BY <1>4, CallsBegin
  <2>2. UNCHANGED limits
    BY <1>4 DEF Delete, memory, limits
  <2>. QED
    BY <1>1, <2>1, <2>2
<1>5. ASSUME NEW r \in Rooms, IssueKey(c, r) PROVE UNCHANGED limits /\ \A d \in Callers : SameTurns(d)
  <2>1. \E k : k.op = "invite" /\ Arrives(c, k)
    BY <1>5, CallsBegin
  <2>2. UNCHANGED limits
    BY <1>5 DEF IssueKey, memory, limits
  <2>. QED
    BY <1>1, <2>1, <2>2
<1>6. ASSUME NEW r \in Rooms, NEW agents \in SUBSET Names, Create(c, r, agents)
      PROVE  UNCHANGED limits /\ \A d \in Callers : SameTurns(d)
  <2>1. \E k : k.op = "create" /\ Arrives(c, k)
    BY <1>6, CallsBegin
  <2>2. UNCHANGED limits
    BY <1>6 DEF Create, memory, limits
  <2>. QED
    BY <1>1, <2>1, <2>2
<1>7. CASE LogRegistered(c) \/ LogRemoved(c) \/ LogCreated(c) \/ LogInvited(c)
  <2>1. call[c].op # "submit" /\ UNCHANGED limits
    BY <1>7 DEF LogRegistered, LogRemoved, LogCreated, LogInvited, In, memory, limits
  <2>2. Ends(c) \/ Moves(c, "insert")
    BY <1>7, CallsGoOn
  <2>. QED
    BY <1>2, <2>1, <2>2
<1>8. CASE Unregister(c) \/ Insert(c) \/ InsertKey(c)
  <2>1. call[c].op # "submit" /\ UNCHANGED limits
    BY <1>8 DEF Unregister, Insert, InsertKey, In, limits
  <2>2. Ends(c) \/ Moves(c, "append")
    BY <1>8, CallsGoOn
  <2>. QED
    BY <1>2, <2>1, <2>2
<1>. QED
  BY <1>3, <1>4, <1>5, <1>6, <1>7, <1>8

LEMMA BudgetSame ==
    ASSUME BudgetInv, UNCHANGED <<perRoom, total, spent>>, \A d \in Callers : SameTurns(d)
    PROVE  BudgetInv'
BY AheadSame DEF BudgetInv, Balanced, Solvent, Balance

(* The same turns, and buckets brought up to now.                           *)
LEMMA BudgetRefilled ==
    ASSUME BudgetTypes, BudgetInv, NEW r \in Rooms, UNCHANGED spent, \A d \in Callers : SameTurns(d),
           perRoom' = Refilled(perRoom, PerRoom, r, clock),
           total' \in {total, Refilled(total, Total, All, clock)}
    PROVE  BudgetInv'
<1>0. /\ Ahead' = Ahead /\ Owed' = Owed /\ CostsKnown' /\ \A q : AheadIn(q)' = AheadIn(q)
      /\ Buckets(perRoom, Rooms, PerRoom, clock) /\ Buckets(total, {All}, Total, clock)
      /\ clock \in Nat /\ spent \in Int
      /\ Ahead \in SUBSET (Callers \X (1..MaxWake)) /\ \A q : AheadIn(q) \in SUBSET (Callers \X (1..MaxWake))
      /\ Cardinality(Owed) \in Int
  BY AheadSame, AheadSets DEF BudgetTypes, BudgetInv
<1>1. ASSUME NEW q \in Rooms PROVE Solvent(perRoom', q, AheadIn(q))
  <2>1. Solvent(perRoom, q, AheadIn(q))
    BY DEF BudgetInv
  <2>. QED
    BY <1>0, <2>1, SolventRefilled, TokenFacts
<1>2. Solvent(total', All, Ahead)
  <2>1. Solvent(total, All, Ahead)
    BY DEF BudgetInv
  <2>2. Solvent(Refilled(total, Total, All, clock), All, Ahead)
    BY <1>0, <2>1, SolventRefilled, TokenFacts
  <2>. QED
    BY <2>1, <2>2
<1>3. Balance(total', spent - Cardinality(Owed))
  <2>1. Balance(total, spent - Cardinality(Owed)) /\ spent - Cardinality(Owed) \in Int
    BY <1>0 DEF BudgetInv, Balanced
  <2>2. Balance(Refilled(total, Total, All, clock), spent - Cardinality(Owed))
    BY <1>0, <2>1, BalanceRefilled
  <2>. QED
    BY <2>1, <2>2
<1>. QED
  BY <1>0, <1>1, <1>2, <1>3 DEF BudgetInv, Balanced, Solvent, Balance

BudgetState == ServerTypes /\ BudgetInv /\ restarts \in Nat

LEMMA BudgetFacts ==
    ASSUME BudgetState
    PROVE  /\ CallTypes /\ BudgetTypes /\ BudgetInv /\ CostsKnown
           /\ Buckets(perRoom, Rooms, PerRoom, clock) /\ Buckets(total, {All}, Total, clock)
           /\ clock \in Nat /\ spent \in Int
           /\ Ahead \in SUBSET (Callers \X (1..MaxWake)) /\ Owed \in SUBSET (Callers \X (1..MaxWake))
           /\ \A r : AheadIn(r) \in SUBSET (Callers \X (1..MaxWake))
           /\ Cardinality(Owed) \in Int
           /\ Solvent(total, All, Ahead) /\ \A r \in Rooms : Solvent(perRoom, r, AheadIn(r))
           /\ Balance(total, spent - Cardinality(Owed))
BY AheadSets DEF BudgetState, ServerTypes, BudgetTypes, BudgetInv, Balanced

LEMMA AdmitBudget ==
    ASSUME BudgetState, NEW c \in Callers, NEW r \in Rooms, Admit(c, r)
    PROVE  BudgetInv'
<1>1. PICK k : k.op = "submit" /\ k.at = "accept" /\ k.on = r /\ Arrives(c, k)
  BY BudgetFacts, CallsBegin
<1>2. Owed' = Owed /\ CostsKnown' /\ \A q : q # r => AheadIn(q)' = AheadIn(q)
  BY <1>1, AheadJoins, BudgetFacts
<1>3. Ahead' \in SUBSET (Callers \X (1..MaxWake)) /\ AheadIn(r)' \in SUBSET (Callers \X (1..MaxWake))
  BY DEF Ahead, AheadIn
<1>4. /\ Allows(perRoom, PerRoom, r, clock) /\ Allows(total, Total, All, clock)
      /\ perRoom' = Refilled(perRoom, PerRoom, r, clock)
      /\ total' = Refilled(total, Total, All, clock) /\ spent' = spent
  BY DEF Admit
<1>5. Solvent(perRoom', r, AheadIn(r)')
  BY <1>3, <1>4, BudgetFacts, TokenFacts, SolventAllowed
<1>6. ASSUME NEW q \in Rooms, q # r PROVE Solvent(perRoom', q, AheadIn(q)')
  <2>1. Solvent(perRoom', q, AheadIn(q))
    BY <1>4, BudgetFacts, TokenFacts, SolventRefilled
  <2>. QED
    BY <1>2, <1>6, <2>1
<1>7. Solvent(total', All, Ahead')
  BY <1>3, <1>4, BudgetFacts, TokenFacts, SolventAllowed
<1>8. Balance(total', spent - Cardinality(Owed))
  <2>1. spent - Cardinality(Owed) \in Int
    BY BudgetFacts
  <2>. QED
    BY <1>4, <2>1, BudgetFacts, BalanceRefilled
<1>. QED
  BY <1>2, <1>4, <1>5, <1>6, <1>7, <1>8 DEF BudgetInv, Balanced, Solvent, Balance

LEMMA AcceptBudget ==
    ASSUME BudgetState, NEW c \in Callers, NEW wake \in 0..MaxWake, Accept(c, wake)
    PROVE  BudgetInv'
<1>0. /\ UNCHANGED <<perRoom, total>> /\ In(c, "submit", "accept")
      /\ call[c].op = "submit" /\ call[c].at = "accept"
  BY DEF Accept, memory, In
<1>1. CASE Returns(c) /\ UNCHANGED spent
  <2>1. Ends(c)
    BY <1>1, BudgetFacts, ReturnsFacts DEF Returns
  <2>2. Owed' = Owed /\ CostsKnown' /\ Ahead' \in SUBSET Ahead /\ \A r : AheadIn(r)' \in SUBSET AheadIn(r)
    BY <1>0, <2>1, AheadLeaves, BudgetFacts
  <2>3. Solvent(total, All, Ahead')
    BY <2>2, BudgetFacts, TokenFacts, SolventLess
  <2>4. \A r \in Rooms : Solvent(perRoom, r, AheadIn(r)')
    BY <2>2, BudgetFacts, TokenFacts, SolventLess
  <2>. QED
    BY <1>0, <1>1, <2>2, <2>3, <2>4, BudgetFacts DEF BudgetInv, Balanced, Solvent, Balance
<1>2. CASE spent' = spent + wake /\ call' = [call EXCEPT ![c].at = "charge", ![c].n = wake]
  <2>1. Moves(c, "charge") /\ call'[c].n = wake
    <3>1. call'[c].op = "submit"
      BY <1>0, <1>2, BudgetFacts DEF CallTypes, Calls
    <3>2. ~Ends(c)
      BY <3>1, NobodyFits DEF Ends
    <3>. QED
      BY <3>2, BudgetFacts, CallsGoOn
  <2>2. /\ Ahead' = Ahead /\ (\A r : AheadIn(r)' = AheadIn(r)) /\ CostsKnown'
        /\ Owed' = Owed \cup TurnsOf(c, wake) /\ Owed \cap TurnsOf(c, wake) = {}
    BY <1>0, <2>1, AheadAccepted, BudgetFacts
  <2>3. Cardinality(Owed') = Cardinality(Owed) + wake
    BY <2>2, TurnsAdded, BudgetFacts
  <2>4. spent' - Cardinality(Owed') = spent - Cardinality(Owed)
    BY <1>2, <2>3, BudgetFacts, TokenFacts
  <2>. QED
    BY <1>0, <2>2, <2>4, BudgetFacts DEF BudgetInv, Balanced, Solvent, Balance
<1>. QED
  BY <1>1, <1>2 DEF Accept

LEMMA ChargeBudget ==
    ASSUME BudgetState, NEW c \in Callers, Charge(c)
    PROVE  BudgetInv'
<1>0. call[c].op = "submit" /\ call[c].at = "charge" /\ call[c].on \in Rooms /\ spent' = spent
  BY BudgetFacts DEF Charge, In, CallTypes, Fits
<1>1. Ends(c)
  BY BudgetFacts, CallsGoOn
<1>2. /\ Ahead' = Ahead \ TurnsOf(c, MaxWake) /\ TurnsOf(c, MaxWake) \subseteq Ahead
      /\ \A r : AheadIn(r)' = AheadIn(r) \ TurnsOf(c, MaxWake)
      /\ TurnsOf(c, MaxWake) \subseteq AheadIn(call[c].on) /\ CostsKnown'
  BY <1>0, <1>1, AheadLeaves, BudgetFacts
<1>3. PICK n \in 0..MaxWake : /\ n = call[c].n
                              /\ Owed' = Owed \ TurnsOf(c, n) /\ TurnsOf(c, n) \subseteq Owed
  BY <1>0, <1>1, AheadLeaves, BudgetFacts
<1>4. PICK key \in Rooms : key = call[c].on
  BY <1>0
<1>5. /\ perRoom' = Charged(perRoom, PerRoom, key, clock, n)
      /\ total' = Charged(total, Total, All, clock, n)
  BY <1>3, <1>4 DEF Charge
<1>6. ASSUME NEW r \in Rooms PROVE Solvent(perRoom', r, AheadIn(r)')
  <2>1. r = key => TurnsOf(c, MaxWake) \subseteq AheadIn(r)
    BY <1>2, <1>4
  <2>2. Solvent(perRoom', r, AheadIn(r) \ TurnsOf(c, MaxWake))
    BY <1>5, <2>1, BudgetFacts, TokenFacts, SolventCharged
  <2>. QED
    BY <1>2, <2>2
<1>7. Solvent(total', All, Ahead')
  <2>1. Solvent(total', All, Ahead \ TurnsOf(c, MaxWake))
    BY <1>2, <1>5, BudgetFacts, TokenFacts, SolventCharged
  <2>. QED
    BY <1>2, <2>1
<1>8. Balance(total', spent' - Cardinality(Owed'))
  <2>1. Cardinality(Owed') = Cardinality(Owed) - n
    BY <1>3, TurnsTaken, BudgetFacts
  <2>2. n \in Nat /\ spent - Cardinality(Owed) \in Int
    BY BudgetFacts, TokenFacts
  <2>3. Balance(total', (spent - Cardinality(Owed)) + n)
    BY <1>5, <2>2, BudgetFacts, BalanceCharged
  <2>4. spent' - Cardinality(Owed') = (spent - Cardinality(Owed)) + n
    BY <1>0, <2>1, <2>2, BudgetFacts
  <2>. QED
    BY <2>3, <2>4
<1>. QED
  BY <1>2, <1>6, <1>7, <1>8 DEF BudgetInv, Balanced, Solvent, Balance

LEMMA BreaksBudget ==
    ASSUME BudgetState, NEW c \in Callers, Breaks(c)
    PROVE  BudgetInv'
<1>0. Ends(c) /\ UNCHANGED <<perRoom, total>>
  BY BudgetFacts, CallsGoOn DEF Breaks, memory
<1>1. CASE call[c].op # "submit"
  <2>1. \A d \in Callers : SameTurns(d)
    BY <1>0, <1>1, NobodyFits DEF Ends, SameTurns
  <2>2. spent' = spent
    BY <1>1 DEF Breaks, In
  <2>. QED
    BY <1>0, <2>1, <2>2, BudgetSame, BudgetFacts
<1>2. CASE call[c].op = "submit"
  <2>1. CostsKnown' /\ Ahead' \in SUBSET Ahead /\ \A r : AheadIn(r)' \in SUBSET AheadIn(r)
    BY <1>0, <1>2, AheadLeaves, BudgetFacts
  <2>2. Solvent(total, All, Ahead')
    BY <2>1, BudgetFacts, TokenFacts, SolventLess
  <2>3. \A r \in Rooms : Solvent(perRoom, r, AheadIn(r)')
    BY <2>1, BudgetFacts, TokenFacts, SolventLess
  <2>4. spent' - Cardinality(Owed') = spent - Cardinality(Owed)
    <3>1. CASE call[c].at # "charge"
      <4>1. Owed' = Owed
        BY <1>0, <1>2, <3>1, AheadLeaves, BudgetFacts
      <4>2. spent' = spent
        BY <3>1 DEF Breaks, In
      <4>. QED
        BY <4>1, <4>2
    <3>2. CASE call[c].at = "charge"
      <4>1. PICK n \in 0..MaxWake : /\ n = call[c].n
                                    /\ Owed' = Owed \ TurnsOf(c, n) /\ TurnsOf(c, n) \subseteq Owed
        BY <1>0, <1>2, <3>2, AheadLeaves, BudgetFacts
      <4>2. Cardinality(Owed') = Cardinality(Owed) - n
        BY <4>1, TurnsTaken, BudgetFacts
      <4>3. spent' = spent - n /\ n \in Int
        BY <1>2, <3>2, <4>1, TokenFacts DEF Breaks, In
      <4>. QED
        BY <4>2, <4>3, BudgetFacts
    <3>. QED
      BY <3>1, <3>2
  <2>. QED
    BY <1>0, <2>1, <2>2, <2>3, <2>4, BudgetFacts DEF BudgetInv, Balanced, Solvent, Balance
<1>. QED
  BY <1>1, <1>2

NoCalls ==
    /\ \A c \in Callers : call[c].op # "submit"
    /\ perRoom = << >> /\ total = << >> /\ spent = 0

LEMMA NoCallsBudget == NoCalls => BudgetInv
<1>. SUFFICES ASSUME NoCalls PROVE BudgetInv
  OBVIOUS
<1>1. Owed = {} /\ CostsKnown
  BY PairsOf DEF NoCalls, Owed, Ahead, CostsKnown, In
<1>2. Cardinality(Owed) = 0
  BY <1>1, FS_EmptySet
<1>3. DOMAIN perRoom = {} /\ DOMAIN total = {} /\ spent = 0
  BY DEF NoCalls
<1>. QED
  BY <1>1, <1>2, <1>3 DEF BudgetInv, Balanced, Balance, Solvent

LEMMA RestartBudget ==
    ASSUME Restart
    PROVE  BudgetInv'
<1>1. NoCalls'
  BY NobodyFits DEF Restart, NoCalls
<1>. QED
  BY <1>1, NoCallsBudget, PTL

LEMMA BudgetStep == BudgetState /\ [Next]_vars => BudgetInv'
<1>. SUFFICES ASSUME BudgetState, [Next]_vars PROVE BudgetInv'
  OBVIOUS
<1>1. CASE (\E r \in Rooms : Close(r)) \/ Tick \/ UNCHANGED vars
  <2>1. UNCHANGED <<perRoom, total, spent, call>>
    BY <1>1 DEF Close, Tick, vars, memory, limits
  <2>. QED
    BY <2>1, BudgetFacts, BudgetSame DEF SameTurns
<1>2. ASSUME NEW r \in Rooms, TooMany(r) PROVE BudgetInv'
  <2>1. /\ UNCHANGED <<spent, call>> /\ perRoom' = Refilled(perRoom, PerRoom, r, clock)
        /\ total' \in {total, Refilled(total, Total, All, clock)}
    BY <1>2 DEF TooMany
  <2>. QED
    BY <2>1, BudgetFacts, BudgetRefilled DEF SameTurns
<1>3. ASSUME NEW c \in Callers,
             \/ \E n \in Names : Register(c, n) \/ \E force \in BOOLEAN : Delete(c, n, force)
             \/ \E r \in Rooms : IssueKey(c, r) \/ \E agents \in SUBSET Names : Create(c, r, agents)
             \/ LogRegistered(c) \/ Unregister(c) \/ LogRemoved(c) \/ LogCreated(c) \/ Insert(c)
             \/ LogInvited(c) \/ InsertKey(c)
      PROVE  BudgetInv'
  <2>1. UNCHANGED limits /\ \A d \in Callers : SameTurns(d)
    BY <1>3, BudgetFacts, OtherCalls
  <2>. QED
    BY <2>1, BudgetFacts, BudgetSame DEF limits
<1>. QED
  BY <1>1, <1>2, <1>3, AdmitBudget, AcceptBudget, ChargeBudget, BreaksBudget, RestartBudget DEF Next, Done

LEMMA BudgetHolds == Spec => []BudgetState
<1>1. Init => BudgetState
  <2>. SUFFICES ASSUME Init PROVE BudgetState
    OBVIOUS
  <2>1. NoCalls
    BY NobodyFits DEF Init, NoCalls
  <2>2. restarts = 0
    BY DEF Init
  <2>. QED
    BY <2>1, <2>2, NoCallsBudget, ServerTypesInit DEF BudgetState
<1>2. BudgetState /\ [Next]_vars => BudgetState'
  <2>1. ServerTypes /\ [Next]_vars => ServerTypes'
    BY CallsStep, RegistryTypesStep, RoomTypesStep, BudgetTypesStep DEF ServerTypes
  <2>2. restarts \in Nat /\ [Next]_vars => restarts' \in Nat
    <3>1. ASSUME NEW c \in Callers
          PROVE  /\ \A n \in Names : Register(c, n) => restarts' = restarts
                 /\ \A n \in Names, force \in BOOLEAN : Delete(c, n, force) => restarts' = restarts
                 /\ \A r \in Rooms : IssueKey(c, r) \/ Admit(c, r) => restarts' = restarts
                 /\ \A r \in Rooms, agents \in SUBSET Names : Create(c, r, agents) => restarts' = restarts
      BY DEF Register, Delete, IssueKey, Admit, Create, Begin
    <3>2. ASSUME NEW c \in Callers
          PROVE  /\ LogRegistered(c) \/ Unregister(c) \/ LogRemoved(c) \/ LogCreated(c) \/ Insert(c)
                       => restarts' = restarts
                 /\ LogInvited(c) \/ InsertKey(c) \/ Charge(c) \/ Breaks(c) => restarts' = restarts
                 /\ \A wake \in 0..MaxWake : Accept(c, wake) => restarts' = restarts
      BY DEF LogRegistered, Unregister, LogRemoved, LogCreated, Insert, LogInvited, InsertKey, Charge,
             Breaks, Accept, Goes, Returns
    <3>3. (\E r \in Rooms : Close(r) \/ TooMany(r)) \/ Tick \/ UNCHANGED vars => restarts' = restarts
      BY DEF Close, TooMany, Tick, vars
    <3>4. Restart => restarts' = restarts + 1
      BY DEF Restart
    <3>5. [Next]_vars => restarts' = restarts \/ restarts' = restarts + 1
      BY <3>1, <3>2, <3>3, <3>4 DEF Next, Done
    <3>. QED
      BY <3>5
  <2>. QED
    BY <2>1, <2>2, BudgetStep DEF BudgetState
<1>. QED
  BY <1>1, <1>2, PTL DEF Spec

(* The server's budget holds for turns, not for messages, but for what the  *)
(* calls in flight at once can start (AppState::admit, Limiter::charge).    *)
THEOREM BudgetKept == Spec => []TurnsWithinBudget
<1>1. BudgetState => TurnsWithinBudget
  <2>. SUFFICES ASSUME BudgetState PROVE TurnsWithinBudget
    OBVIOUS
  <2>. DEFINE owed == Cardinality(Owed)
              ahead == Cardinality(Ahead)
              charged == spent - owed
  <2>1. /\ owed \in 0..Capacity /\ ahead \in 0..Capacity /\ owed <= ahead
        /\ clock \in Nat /\ spent \in Int /\ charged \in Int
    BY AheadSets, BudgetFacts, TokenFacts
  <2>2. Full(Total) = Total * Token /\ Full(Total) \in Nat /\ Token <= Full(Total)
    <3>1. 1 * Token <= Total * Token
      BY Scaled, TokenFacts
    <3>. QED
      BY <3>1, TokenFacts DEF Full
  <2>3. Cardinality(Callers) * MaxWake * Token = Capacity * Token
    BY DEF Capacity
  <2>4. /\ Balance(total, charged)
        /\ All \in DOMAIN total => total[All].tokens >= (ahead + 1 - Capacity) * Token
    BY BudgetFacts DEF Solvent
  <2>5. (spent + 1) * Token = charged * Token + owed * Token + Token
    <3>1. (charged + owed) * Token = charged * Token + owed * Token
      BY <2>1, Apportioned, TokenFacts
    <3>2. (spent + 1) * Token = spent * Token + 1 * Token
      BY <2>1, Apportioned, TokenFacts
    <3>3. charged + owed = spent
      BY <2>1
    <3>. HIDE DEF charged
    <3>4. spent * Token = charged * Token + owed * Token
      BY <3>1, <3>3
    <3>. QED
      BY <3>2, <3>4, TokenFacts
  <2>6. owed * Token <= ahead * Token /\ ahead * Token <= Capacity * Token
    BY <2>1, Scaled, TokenFacts
  <2>7. /\ charged * Token \in Int /\ owed * Token \in Int /\ ahead * Token \in Int
        /\ Capacity * Token \in Int /\ Total * clock \in Nat
    BY <2>1, TokenFacts
  <2>. HIDE DEF owed, ahead, charged
  <2>8. CASE All \in DOMAIN total
    <3>1. total[All].tokens \in Int /\ total[All].last \in 0..clock
      BY <2>8, BudgetFacts DEF Buckets
    <3>2. charged * Token + total[All].tokens <= Full(Total) + Total * total[All].last
      BY <2>4, <2>8 DEF Balance
    <3>3. total[All].tokens >= (ahead + 1 - Capacity) * Token
      BY <2>4, <2>8
    <3>4. (ahead + 1 - Capacity) * Token = ahead * Token + Token - Capacity * Token
      <4>1. \A x \in Int, y \in Int, z \in Nat : (x + 1 - y) * z = x * z + z - y * z
        OBVIOUS
      <4>2. ahead \in Int /\ Capacity \in Int /\ Token \in Nat
        BY <2>1, TokenFacts
      <4>. QED
        BY <4>1, <4>2
    <3>5. Total * total[All].last <= Total * clock /\ Total * total[All].last \in Int
      BY <2>1, <3>1, TokenFacts
    <3>6. charged * Token + owed * Token + Token <= Full(Total) + Total * clock + Capacity * Token
      BY <2>2, <2>6, <2>7, <3>1, <3>2, <3>3, <3>4, <3>5, TokenFacts
    <3>. QED
      BY <2>3, <2>5, <3>6 DEF TurnsWithinBudget
  <2>9. CASE All \notin DOMAIN total
    <3>1. charged <= 0
      BY <2>4, <2>9 DEF Balance
    <3>2. charged * Token <= 0 * Token
      BY <2>1, <3>1, Scaled, TokenFacts
    <3>3. charged * Token + owed * Token + Token <= Full(Total) + Total * clock + Capacity * Token
      BY <2>2, <2>6, <2>7, <3>2, TokenFacts
    <3>. QED
      BY <2>3, <2>5, <3>3 DEF TurnsWithinBudget
  <2>. QED
    BY <2>8, <2>9
<1>. QED
  BY <1>1, BudgetHolds, PTL

(* A bucket that was not used for twice a minute lacks no more than what is  *)
(* left of its debt.                                                       *)
LEMMA IdleLacks ==
    ASSUME BudgetState, NEW r \in Rooms, r \in DOMAIN perRoom, ~(clock - perRoom[r].last <= Idle)
    PROVE  LET lacks == Full(PerRoom) - Level(perRoom[r], PerRoom, clock)
           IN  lacks > 0 => lacks <= Forgivable
<1>. DEFINE b == perRoom[r]
            ahead == Cardinality(AheadIn(r))
            debt == (Capacity - 1) * Token
            earned == PerRoom * (clock - b.last)
<1>1. b.tokens \in Int /\ b.last \in 0..clock /\ clock \in Nat
  BY BudgetFacts DEF Buckets
<1>2. ahead \in 0..Capacity /\ b.tokens >= (ahead + 1 - Capacity) * Token
  BY AheadSets, BudgetFacts DEF Solvent
<1>. HIDE DEF ahead, b
<1>3. 1 - Capacity <= ahead + 1 - Capacity
  BY <1>2, TokenFacts
<1>4. (1 - Capacity) * Token <= (ahead + 1 - Capacity) * Token
  BY <1>2, <1>3, Scaled, TokenFacts
<1>5. (1 - Capacity) * Token = 0 - debt
  BY TokenFacts
<1>6. b.tokens >= 0 - debt /\ debt \in Int
  <2>1. /\ (1 - Capacity) * Token \in Int /\ (ahead + 1 - Capacity) * Token \in Int
        /\ debt \in Int
    BY <1>2, TokenFacts
  <2>. QED
    BY <1>1, <1>2, <1>4, <1>5, <2>1
<1>7. 2 * Token + 1 <= clock - b.last /\ clock - b.last \in Nat
  BY <1>1, TokenFacts DEF b, Idle
<1>8. (2 * Token + 1) * PerRoom <= (clock - b.last) * PerRoom
  BY <1>7, Scaled, TokenFacts
<1>9. (2 * Token + 1) * PerRoom = PerRoom * (Token + 1) + PerRoom * Token
  BY TokenFacts
<1>10. (clock - b.last) * PerRoom = earned
  BY <1>7, TokenFacts
<1>11. /\ earned \in Int /\ PerRoom * (Token + 1) \in Int /\ PerRoom * Token \in Int
       /\ earned >= PerRoom * (Token + 1) + PerRoom * Token
  BY <1>7, <1>8, <1>9, <1>10, TokenFacts
<1>12. Full(PerRoom) = PerRoom * Token
  BY DEF Full
<1>13. Forgivable = debt - PerRoom * (Token + 1)
  BY TokenFacts DEF Forgivable, Capacity
<1>14. Level(b, PerRoom, clock) = IF b.tokens + earned > Full(PerRoom) THEN Full(PerRoom) ELSE b.tokens + earned
  BY DEF Level
<1>. HIDE DEF debt, earned
<1>15. CASE b.tokens + earned > Full(PerRoom)
  BY <1>11, <1>12, <1>14, <1>15 DEF b
<1>16. CASE ~(b.tokens + earned > Full(PerRoom))
  <2>1. Full(PerRoom) - Level(b, PerRoom, clock) = PerRoom * Token - (b.tokens + earned)
    BY <1>12, <1>14, <1>16
  <2>2. PerRoom * Token - (b.tokens + earned) <= debt - PerRoom * (Token + 1)
    BY <1>1, <1>6, <1>11
  <2>. QED
    BY <1>13, <2>1, <2>2 DEF b
<1>. QED
  BY <1>15, <1>16

(* Dropping an idle room's bucket (Limiter::refill) forgives no more than the *)
(* debt that admit and charge can leave, less what two minutes earn beyond a *)
(* full bucket.                                                            *)
THEOREM EvictionForgivesLittle == Spec => ForgivenIsBounded
<1>1. BudgetState /\ [Next]_vars =>
         [restarts' = restarts =>
            \A r \in DOMAIN perRoom \ DOMAIN perRoom' :
                LET lacks == Full(PerRoom) - Level(perRoom[r], PerRoom, clock)
                IN  lacks > 0 => lacks <= Forgivable]_vars
  <2>. SUFFICES ASSUME BudgetState, [Next]_vars, restarts' = restarts,
                       NEW r \in DOMAIN perRoom \ DOMAIN perRoom'
                PROVE  LET lacks == Full(PerRoom) - Level(perRoom[r], PerRoom, clock)
                       IN  lacks > 0 => lacks <= Forgivable
    OBVIOUS
  <2>0. r \in Rooms
    BY BudgetFacts DEF Buckets
  <2>1. ASSUME NEW q \in Rooms, perRoom' = Refilled(perRoom, PerRoom, q, clock)
        PROVE  ~(clock - perRoom[r].last <= Idle)
    BY <2>1, RefilledAt DEF RefillsAt
  <2>2. ASSUME NEW q \in Rooms, NEW n \in Nat, perRoom' = Charged(perRoom, PerRoom, q, clock, n)
        PROVE  ~(clock - perRoom[r].last <= Idle)
    <3>1. n # 0
      BY <2>2 DEF Charged
    <3>2. DOMAIN perRoom' = DOMAIN Refilled(perRoom, PerRoom, q, clock)
      BY <2>2, <3>1, ChargedAt DEF ChargesAt
    <3>. QED
      BY <3>2, RefilledAt DEF RefillsAt
  <2>3. \/ perRoom' = perRoom
        \/ \E q \in Rooms : perRoom' = Refilled(perRoom, PerRoom, q, clock)
        \/ \E c \in Callers : Charge(c)
    <3>1. ASSUME NEW c \in Callers,
                 \/ \E n \in Names : Register(c, n) \/ \E force \in BOOLEAN : Delete(c, n, force)
                 \/ \E q \in Rooms : IssueKey(c, q) \/ \E agents \in SUBSET Names : Create(c, q, agents)
                 \/ LogRegistered(c) \/ Unregister(c) \/ LogRemoved(c) \/ LogCreated(c) \/ Insert(c)
                 \/ LogInvited(c) \/ InsertKey(c)
          PROVE  perRoom' = perRoom
      <4>1. UNCHANGED limits
        BY <3>1, BudgetFacts, OtherCalls
      <4>. QED
        BY <4>1 DEF limits
    <3>2. ~Restart
      BY DEF Restart, BudgetState
    <3>. QED
      BY <3>1, <3>2 DEF Next, Done, Admit, TooMany, Accept, Breaks, Close, Tick, vars, memory, limits
  <2>4. ASSUME NEW c \in Callers, Charge(c) PROVE ~(clock - perRoom[r].last <= Idle)
    <3>1. call[c].on \in Rooms /\ call[c].n \in Nat
      BY <2>4, BudgetFacts DEF Charge, In, CallTypes, Fits, Calls
    <3>. QED
      BY <2>2, <2>4, <3>1 DEF Charge
  <2>. QED
    BY <2>0, <2>1, <2>3, <2>4, IdleLacks
<1>. QED
  BY <1>1, BudgetHolds, PTL DEF Spec, ForgivenIsBounded
=============================================================================
