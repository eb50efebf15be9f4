------------------------- MODULE SignalProgramProofs -------------------------
(***************************************************************************)
(* Theorems about the programs of processes and signals, for every office, *)
(* every number of children and of user signals. The invariants of the     *)
(* five programs are parts of one, IInv, each under the condition that its *)
(* program runs.                                                           *)
(***************************************************************************)
EXTENDS MCSignals, Processes, FiniteSetTheorems, SequenceTheorems, TLAPS

-----------------------------------------------------------------------------
(* Lemmas about the process table: what each operator changes *)

\* The places of all five programs.
Places == Gone \cup
    {"inspect", "suspend", "wait", "fork", "decide", "switch", "born", "unmask", "test", "look",
     "enter", "clear", "block", "run", "stopping", "check", "serve", "await", "finish", "count",
     "sleep", "send", "work", "sent", "usr1", "chld", "usr1chld", "answer"}
Process == [at : Places, last : Signals \cup {NoSignal}, pending : SUBSET Signals, n : Nat]
Table(D) == [D -> Process]

LEMMA GotoIs ==
    ASSUME NEW D, NEW t \in Table(D), NEW p \in D, NEW l \in Places
    PROVE  /\ Goto(t, p, l) \in Table(D)
           /\ \A q \in D : q # p => Goto(t, p, l)[q] = t[q]
           /\ Goto(t, p, l)[p].at = l
           /\ Goto(t, p, l)[p].last = t[p].last
           /\ Goto(t, p, l)[p].pending = t[p].pending
           /\ Goto(t, p, l)[p].n = t[p].n
BY DEF Goto, Table, Process

LEMMA ForkIs ==
    ASSUME NEW D, NEW t \in Table(D), NEW p \in D, NEW l \in Places
    PROVE  /\ Fork(t, p, l) \in Table(D)
           /\ \A q \in D : q # p => Fork(t, p, l)[q] = t[q]
           /\ Fork(t, p, l)[p] = ProcessAt(l)
           /\ Fork(t, p, l)[p].at = l
           /\ Fork(t, p, l)[p].pending = {}
BY DEF Fork, Table, Process, ProcessAt, Signals

\* A signal to a process that is not there, or not any more, changes nothing.
LEMMA KillIs ==
    ASSUME NEW D, NEW t \in Table(D), NEW p, NEW s \in Signals
    PROVE  /\ Kill(t, p, s) \in Table(D)
           /\ \A q \in D : q # p => Kill(t, p, s)[q] = t[q]
           /\ p \in D => Kill(t, p, s)[p].at = t[p].at
           /\ p \in D => Kill(t, p, s)[p].last = t[p].last
           /\ p \in D => Kill(t, p, s)[p].n = t[p].n
           /\ p \in D /\ Alive(t, p) => Kill(t, p, s)[p].pending = t[p].pending \cup {s}
           /\ ~ Alive(t, p) => Kill(t, p, s) = t
BY DEF Kill, Table, Process

LEMMA KillAllIs ==
    ASSUME NEW D, NEW t \in Table(D), NEW ps, NEW s \in Signals
    PROVE  /\ KillAll(t, ps, s) \in Table(D)
           /\ \A q \in D : q \notin ps \/ ~ Alive(t, q) => KillAll(t, ps, s)[q] = t[q]
           /\ \A q \in D : KillAll(t, ps, s)[q].at = t[q].at
           /\ \A q \in D : KillAll(t, ps, s)[q].last = t[q].last
           /\ \A q \in D : KillAll(t, ps, s)[q].n = t[q].n
           /\ \A q \in D : q \in ps /\ Alive(t, q) =>
                  KillAll(t, ps, s)[q].pending = t[q].pending \cup {s}
BY DEF KillAll, Table, Process

\* The same with a name for the new table.
LEMMA Went ==
    ASSUME NEW D, NEW t \in Table(D), NEW p \in D, NEW l \in Places, NEW u, u = Goto(t, p, l)
    PROVE  /\ u \in Table(D)
           /\ u[p].at = l
           /\ u[p].last = t[p].last
           /\ u[p].pending = t[p].pending
           /\ u[p].n = t[p].n
           /\ \A q \in D : q # p => u[q] = t[q]
BY GotoIs

\* The parent of a family goes.
LEMMA ParentWent ==
    ASSUME NEW D, 0 \in D, NEW t \in Table(D), NEW l \in Places, NEW u, u = Goto(t, 0, l)
    PROVE  /\ u \in Table(D)
           /\ u[0].at = l
           /\ u[0].last = t[0].last
           /\ u[0].pending = t[0].pending
           /\ u[0].n = t[0].n
           /\ \A q \in D : q # 0 => u[q] = t[q]
BY Went

LEMMA SentAll ==
    ASSUME NEW D, NEW t \in Table(D), NEW ps, NEW s \in Signals, NEW u, u = KillAll(t, ps, s)
    PROVE  /\ u \in Table(D)
           /\ \A q \in D : q \notin ps \/ ~ Alive(t, q) => u[q] = t[q]
           /\ \A q \in D : u[q].at = t[q].at /\ u[q].last = t[q].last /\ u[q].n = t[q].n
           /\ \A q \in D : q \in ps /\ Alive(t, q) => u[q].pending = t[q].pending \cup {s}
BY KillAllIs

LEMMA SuspendIs ==
    ASSUME NEW D, NEW t \in Table(D), NEW p \in D, NEW open, NEW s \in Signals
    PROVE  /\ Suspend(t, p, open, s) \in Table(D)
           /\ \A q \in D : q # p => Suspend(t, p, open, s)[q] = t[q]
           /\ Suspend(t, p, open, s)[p].at = t[p].at
           /\ Suspend(t, p, open, s)[p].last = s
           /\ Suspend(t, p, open, s)[p].pending = t[p].pending \ open
           /\ Suspend(t, p, open, s)[p].n = t[p].n
BY DEF Suspend, Table, Process

LEMMA HandleIs ==
    ASSUME NEW D, NEW t \in Table(D), NEW p \in D, NEW s \in Signals
    PROVE  /\ Handle(t, p, s) \in Table(D)
           /\ \A q \in D : q # p => Handle(t, p, s)[q] = t[q]
           /\ Handle(t, p, s)[p].at = t[p].at
           /\ Handle(t, p, s)[p].last = s
           /\ Handle(t, p, s)[p].pending = t[p].pending \ {s}
           /\ Handle(t, p, s)[p].n = t[p].n
BY DEF Handle, Table, Process

LEMMA ReapIs ==
    ASSUME NEW D, NEW t \in Table(D), NEW ps
    PROVE  /\ Reap(t, ps) \in Table(D)
           /\ \A q \in D : q \notin ps \/ t[q].at # "left" => Reap(t, ps)[q] = t[q]
           /\ \A q \in D : q \in ps /\ t[q].at = "left" => Reap(t, ps)[q].at = "reaped"
           /\ \A q \in D : Reap(t, ps)[q].last = t[q].last
           /\ \A q \in D : Reap(t, ps)[q].pending = t[q].pending
           /\ \A q \in D : Reap(t, ps)[q].n = t[q].n
<1>1. ASSUME NEW q \in D
      PROVE  Reap(t, ps)[q] = IF q \in ps /\ t[q].at = "left"
                              THEN [t[q] EXCEPT !.at = "reaped"] ELSE t[q]
  BY DEF Reap, Table
<1>2. ASSUME NEW q \in D PROVE Reap(t, ps)[q] \in Process
  <2>1. t[q] \in Process
    BY DEF Table
  <2>2. [t[q] EXCEPT !.at = "reaped"] \in Process
    BY <2>1 DEF Process, Places, Gone
  <2> QED
    BY <1>1, <2>1, <2>2
<1>3. Reap(t, ps) \in Table(D)
  BY <1>2 DEF Reap, Table
<1> QED
  BY <1>1, <1>3 DEF Table, Process

\* last_signal = 0, a counter that goes up, a handler that stores nothing.
Reset(t, p) == [t EXCEPT ![p].last = NoSignal]
Add(t, p, i) == [t EXCEPT ![p].n = @ + i]

LEMMA ResetIs ==
    ASSUME NEW D, NEW t \in Table(D), NEW p \in D
    PROVE  /\ Reset(t, p) \in Table(D)
           /\ \A q \in D : q # p => Reset(t, p)[q] = t[q]
           /\ Reset(t, p)[p].at = t[p].at
           /\ Reset(t, p)[p].last = NoSignal
           /\ Reset(t, p)[p].pending = t[p].pending
           /\ Reset(t, p)[p].n = t[p].n
BY DEF Reset, Table, Process

LEMMA AddIs ==
    ASSUME NEW D, NEW t \in Table(D), NEW p \in D, NEW i \in Nat
    PROVE  /\ Add(t, p, i) \in Table(D)
           /\ \A q \in D : q # p => Add(t, p, i)[q] = t[q]
           /\ Add(t, p, i)[p].at = t[p].at
           /\ Add(t, p, i)[p].last = t[p].last
           /\ Add(t, p, i)[p].pending = t[p].pending
           /\ Add(t, p, i)[p].n = t[p].n + i
BY DEF Add, Table, Process

Take(t, p, ss) == [t EXCEPT ![p].pending = @ \ ss]

LEMMA TakeIs ==
    ASSUME NEW D, NEW t \in Table(D), NEW p \in D, NEW ss
    PROVE  /\ Take(t, p, ss) \in Table(D)
           /\ \A q \in D : q # p => Take(t, p, ss)[q] = t[q]
           /\ Take(t, p, ss)[p].at = t[p].at
           /\ Take(t, p, ss)[p].last = t[p].last
           /\ Take(t, p, ss)[p].pending = t[p].pending \ ss
           /\ Take(t, p, ss)[p].n = t[p].n
BY DEF Take, Table, Process

LEMMA Names ==
    /\ {"SIGUSR1", "SIGUSR2", "SIGINT", "SIGCHLD"} \subseteq Signals
    /\ {"left", "inspect", "suspend", "wait", "decide", "switch", "born", "unmask", "test", "look",
        "enter", "clear", "block", "run", "stopping", "check", "serve", "await", "finish", "count",
        "sleep", "send", "work", "sent", "usr1", "chld", "usr1chld", "answer"} \subseteq Places
BY DEF Signals, Places, Gone

\* Signals and last_signal do not move a process.
SamePlaces(D, t, u) == u \in Table(D) /\ \A q \in D : u[q].at = t[q].at

LEMMA Stay ==
    ASSUME NEW D, NEW t \in Table(D)
    PROVE  /\ \A p : \A s \in Signals : SamePlaces(D, t, Kill(t, p, s))
           /\ \A ps : \A s \in Signals : SamePlaces(D, t, KillAll(t, ps, s))
           /\ \A p \in D : \A open : \A s \in Signals : SamePlaces(D, t, Suspend(t, p, open, s))
           /\ \A p \in D, s \in Signals : SamePlaces(D, t, Handle(t, p, s))
           /\ \A p \in D : SamePlaces(D, t, Reset(t, p))
           /\ \A p \in D, i \in Nat : SamePlaces(D, t, Add(t, p, i))
           /\ \A p \in D : \A ss : SamePlaces(D, t, Take(t, p, ss))
<1>1. ASSUME NEW p, NEW s \in Signals PROVE SamePlaces(D, t, Kill(t, p, s))
  BY KillIs DEF SamePlaces
<1>2. ASSUME NEW ps, NEW s \in Signals PROVE SamePlaces(D, t, KillAll(t, ps, s))
  BY KillAllIs DEF SamePlaces
<1>3. ASSUME NEW p \in D, NEW open, NEW s \in Signals
      PROVE  SamePlaces(D, t, Suspend(t, p, open, s))
  BY SuspendIs DEF SamePlaces
<1>4. ASSUME NEW p \in D, NEW s \in Signals PROVE SamePlaces(D, t, Handle(t, p, s))
  BY HandleIs DEF SamePlaces
<1>5. ASSUME NEW p \in D PROVE SamePlaces(D, t, Reset(t, p))
  BY ResetIs DEF SamePlaces
<1>6. ASSUME NEW p \in D, NEW i \in Nat PROVE SamePlaces(D, t, Add(t, p, i))
  BY AddIs DEF SamePlaces
<1>7. ASSUME NEW p \in D, NEW ss PROVE SamePlaces(D, t, Take(t, p, ss))
  BY TakeIs DEF SamePlaces
<1> QED
  BY <1>1, <1>2, <1>3, <1>4, <1>5, <1>6, <1>7

\* A process goes to another place, and the others stay where they are.
Moves(D, t, u, p, l) ==
    u \in Table(D) /\ \A q \in D : u[q].at = IF q = p THEN l ELSE t[q].at

LEMMA Move ==
    ASSUME NEW D, NEW t \in Table(D), NEW p \in D, NEW l \in Places
    PROVE  /\ \A u : SamePlaces(D, t, u) => Moves(D, t, Goto(u, p, l), p, l)
           /\ Moves(D, t, Fork(t, p, l), p, l)
<1>1. Moves(D, t, Fork(t, p, l), p, l)
  BY ForkIs DEF Moves
<1>2. ASSUME NEW u, SamePlaces(D, t, u) PROVE Moves(D, t, Goto(u, p, l), p, l)
  BY <1>2, GotoIs DEF Moves, SamePlaces
<1> QED
  BY <1>1, <1>2

\* Waiting for children that have exited only tells zombies from reaped ones.
LEMMA Reaped ==
    ASSUME NEW D, NEW t \in Table(D), NEW ps
    PROVE  /\ Reap(t, ps) \in Table(D)
           /\ \A q \in D : \/ Reap(t, ps)[q].at = t[q].at
                           \/ t[q].at = "left" /\ Reap(t, ps)[q].at = "reaped"
BY ReapIs

-----------------------------------------------------------------------------
(* ClerkTree *)

\* p has exited only if all of ps have.
Exited == {"left", "reaped"}
LeavesLast(t, p, ps) == t[p].at \in Exited => \A c \in ps : t[c].at \in Exited

\* The tree is left from the bottom up.
ClerkInv ==
    /\ proc \in Table(Clerks)
    /\ \A p \in Clerks : LeavesLast(proc, p, Subordinates[p])

LEMMA ClerkTable ==
    /\ \A t, p, l : Clerk!Goto(t, p, l) = Goto(t, p, l)
    /\ \A t, p, l : Clerk!Fork(t, p, l) = Fork(t, p, l)
    /\ \A t, p, s : Clerk!Kill(t, p, s) = Kill(t, p, s)
    /\ \A t, ps, s : Clerk!KillAll(t, ps, s) = KillAll(t, ps, s)
    /\ \A t, p, o, s : Clerk!Suspend(t, p, o, s) = Suspend(t, p, o, s)
    /\ \A t, p, s : Clerk!Handle(t, p, s) = Handle(t, p, s)
    /\ \A t, ps : Clerk!Reap(t, ps) = Reap(t, ps)
    /\ \A t, ps : Clerk!AllLeft(t, ps) = AllLeft(t, ps)
    /\ Clerk!NoSignal = NoSignal /\ Clerk!Signals = Signals /\ Clerk!Gone = Gone
    /\ \A l : Clerk!ProcessAt(l) = ProcessAt(l)
BY DEF Clerk!Goto, Goto, Clerk!Fork, Fork, Clerk!Kill, Kill, Clerk!KillAll, KillAll, Clerk!Suspend, Suspend,
       Clerk!Handle, Handle, Clerk!Reap, Reap, Clerk!AllLeft, AllLeft, Clerk!Alive, Alive, Clerk!Gone, Gone,
       Clerk!NoSignal, NoSignal, Clerk!Signals, Signals, Clerk!ProcessAt, ProcessAt

LEMMA ClerkInit == Clerk!Init => ClerkInv
<1> SUFFICES ASSUME Clerk!Office PROVE ClerkInv
  BY DEF Clerk!Init, Clerk!Init3, Clerk!Init4, Clerk!Init5
<1>1. proc = [c \in Clerks |-> ProcessAt(IF c = 0 THEN "inspect" ELSE "unborn")]
  BY ClerkTable DEF Clerk!Office
<1>2. \A c \in Clerks : proc[c] \in Process /\ proc[c].at \notin Exited
  BY <1>1 DEF ProcessAt, Process, Places, Gone, Exited
<1> QED
  BY <1>1, <1>2 DEF ClerkInv, Table, LeavesLast

LEMMA AwakeIs ==
    ASSUME proc \in Table(Clerks), NEW c \in Clerks, NEW s \in Signals
    PROVE  SamePlaces(Clerks, proc, Clerk!Awake(c, s))
<1>1. PICK t : t = Suspend(proc, c, Clerk!Awaited, s)
  OBVIOUS
<1>2. SamePlaces(Clerks, proc, t)
  BY <1>1, Stay
<1>3. Clerk!Awake(c, s) = Reset(t, c)
  BY <1>1, ClerkTable DEF Clerk!Awake, Reset
<1>4. SamePlaces(Clerks, t, Reset(t, c))
  BY <1>2, Stay DEF SamePlaces
<1> QED
  BY <1>2, <1>3, <1>4 DEF SamePlaces

LEMMA ClerkNext == ClerkInv /\ Clerk!Next => ClerkInv'
<1> SUFFICES ASSUME ClerkInv, NEW c \in Clerks,
                    \/ Clerk!Clerk3(c)
                    \/ Clerk!Loop(c)
                    \/ \E s \in {"SIGUSR2", "SIGINT"} : Clerk!UserSignal(c, s)
             PROVE  ClerkInv'
  BY DEF Clerk!Next
<1>0. /\ proc \in Table(Clerks)
      /\ \A p \in Clerks : Subordinates[p] \subseteq Clerks
  BY OfficeAssumption DEF ClerkInv
<1>1. ASSUME SamePlaces(Clerks, proc, proc') PROVE ClerkInv'
  BY <1>0, <1>1 DEF ClerkInv, SamePlaces, LeavesLast
\* A clerk that has not exited goes where it still has not.
<1>2. ASSUME NEW p \in Clerks, NEW l, proc[p].at \notin Exited, l \notin Exited,
             Moves(Clerks, proc, proc', p, l)
      PROVE  ClerkInv'
  BY <1>0, <1>2 DEF ClerkInv, Moves, LeavesLast
<1>3. CASE Clerk!Inspect(c)
  <2>1. PICK s \in Subordinates[c] : proc[s].at = "unborn" /\ proc' = Fork(proc, s, "inspect")
    BY <1>3, ClerkTable DEF Clerk!Inspect
  <2>2. Moves(Clerks, proc, proc', s, "inspect")
    BY <1>0, <2>1, Move, Names
  <2> QED
    BY <1>0, <1>2, <2>1, <2>2 DEF Exited
<1>4. CASE Clerk!Inspected(c)
  <2>1. PICK l \in {"wait", "suspend"} : proc[c].at = "inspect" /\ proc' = Goto(proc, c, l)
    BY <1>4, ClerkTable DEF Clerk!Inspected
  <2>2. Moves(Clerks, proc, proc', c, l)
    BY <1>0, <2>1, Move, Names DEF SamePlaces
  <2> QED
    BY <1>2, <2>1, <2>2 DEF Exited
<1>5. CASE Clerk!Leave(c)
  <2>1. PICK t : t = Reap(proc, Subordinates[c])
    OBVIOUS
  <2>2. /\ proc[c].at = "wait"
        /\ proc' = Goto(t, c, "left")
        /\ \A s \in Subordinates[c] : proc[s].at \in Exited
    BY <1>5, <2>1, ClerkTable DEF Clerk!Leave, AllLeft, Exited
  <2>3. /\ t \in Table(Clerks)
        /\ \A q \in Clerks : /\ t[q].at \in Exited <=> proc[q].at \in Exited
                             /\ t[q].at = proc[q].at \/ t[q].at \in Exited
    BY <1>0, <2>1, Reaped DEF Exited
  <2>4. Moves(Clerks, t, proc', c, "left")
    BY <2>2, <2>3, Move, Names DEF SamePlaces
  <2> QED
    BY <1>0, <2>2, <2>3, <2>4 DEF ClerkInv, LeavesLast, Exited, Moves
<1>6. CASE Clerk!TakeDocument(c)
  <2>1. PICK t : t = Clerk!Awake(c, "SIGUSR2")
    OBVIOUS
  <2>2. SamePlaces(Clerks, proc, t)
    BY <1>0, <2>1, AwakeIs, Names
  <2>3. proc' = t \/ proc' = Kill(t, Clerk!Superior(c), "SIGUSR2")
    BY <1>6, <2>1, ClerkTable DEF Clerk!TakeDocument
  <2>4. SamePlaces(Clerks, t, Kill(t, Clerk!Superior(c), "SIGUSR2"))
    BY <2>2, Stay, Names DEF SamePlaces
  <2> QED
    BY <1>1, <2>2, <2>3, <2>4 DEF SamePlaces
<1>7. CASE Clerk!TakeNothing(c)
  <2>1. PICK s \in Signals : proc' = Clerk!Awake(c, s)
    BY <1>7 DEF Clerk!TakeNothing, Signals
  <2> QED
    BY <1>0, <1>1, <2>1, AwakeIs
<1>8. CASE Clerk!EndDay(c)
  <2>1. PICK t : t = Clerk!Awake(c, "SIGINT")
    OBVIOUS
  <2>2. PICK u : u = KillAll(t, Subordinates[c], "SIGINT")
    OBVIOUS
  <2>3. proc[c].at = "suspend" /\ proc' = Goto(u, c, "wait")
    BY <1>8, <2>1, <2>2, ClerkTable DEF Clerk!EndDay, Clerk!Wake
  <2>4. SamePlaces(Clerks, proc, t)
    BY <1>0, <2>1, AwakeIs, Names
  <2>5. \A ps : SamePlaces(Clerks, t, KillAll(t, ps, "SIGINT"))
    BY <2>4, Stay, Names DEF SamePlaces
  <2>6. SamePlaces(Clerks, proc, u)
    BY <2>2, <2>4, <2>5 DEF SamePlaces
  <2>7. Moves(Clerks, proc, proc', c, "wait")
    BY <1>0, <2>3, <2>6, Move, Names
  <2> QED
    BY <1>2, <2>3, <2>7 DEF Exited
<1>9. ASSUME NEW s \in {"SIGUSR2", "SIGINT"}, Clerk!UserSignal(c, s) PROVE ClerkInv'
  <2>1. PICK t : t = Add(proc, 0, 1)
    OBVIOUS
  <2>2. SamePlaces(Clerks, proc, t)
    BY <1>0, <2>1, Stay, OfficeAssumption
  <2>3. proc' = Kill(t, c, s)
    BY <1>9, <2>1, ClerkTable DEF Clerk!UserSignal, Add
  <2>4. s \in Signals /\ t \in Table(Clerks)
    BY <2>2 DEF SamePlaces, Signals
  <2>5. SamePlaces(Clerks, t, proc')
    BY <2>3, <2>4, Stay
  <2> QED
    BY <1>1, <2>2, <2>5 DEF SamePlaces
<1> QED
  BY <1>3, <1>4, <1>5, <1>6, <1>7, <1>8, <1>9
     DEF Clerk!Clerk3, Clerk!Loop, Clerk!Clerk4, Clerk!Clerk5

-----------------------------------------------------------------------------
(* A parent and its children: TokenRing, SignalCounter, PingPong, Students *)

Family0(n) == {0} \cup 1 .. n
ParentLast(n, t) == t \in Table(Family0(n)) /\ LeavesLast(t, 0, 1 .. n)

LEMMA ParentLastKept ==
    ASSUME NEW n \in Nat, NEW t, ParentLast(n, t), NEW u
    PROVE  /\ SamePlaces(Family0(n), t, u) => ParentLast(n, u)
           /\ \A p \in Family0(n) : \A l :
                 Moves(Family0(n), t, u, p, l) /\ t[p].at \notin Exited /\ (p = 0 => l \notin Exited)
                     => ParentLast(n, u)
<1>1. SamePlaces(Family0(n), t, u) => ParentLast(n, u)
  BY DEF ParentLast, SamePlaces, LeavesLast, Family0
<1>2. ASSUME NEW p \in Family0(n), NEW l, Moves(Family0(n), t, u, p, l),
             t[p].at \notin Exited, p = 0 => l \notin Exited
      PROVE  ParentLast(n, u)
  BY <1>2 DEF ParentLast, Moves, LeavesLast, Family0
<1> QED
  BY <1>1, <1>2

LEMMA FamilyStep ==
    ASSUME NEW n \in Nat, NEW t, ParentLast(n, t), NEW p \in Family0(n), NEW l \in Places, NEW u,
           SamePlaces(Family0(n), t, u), t[p].at \notin Exited, p = 0 => l \notin Exited
    PROVE  ParentLast(n, Goto(u, p, l))
<1>1. Moves(Family0(n), t, Goto(u, p, l), p, l)
  BY Move DEF ParentLast
<1> QED
  BY <1>1, ParentLastKept

\* The parent has waited for all of them.
LEMMA ParentEnds ==
    ASSUME NEW n \in Nat, NEW t, ParentLast(n, t), AllLeft(t, 1 .. n), t[0].at \notin Exited,
           NEW u, u = Goto(Reap(t, 1 .. n), 0, "left")
    PROVE  ParentLast(n, u)
<1>1. PICK r : r = Reap(t, 1 .. n)
  OBVIOUS
<1>2. /\ r \in Table(Family0(n))
      /\ \A q \in 1 .. n : r[q].at \in Exited
  BY <1>1, Reaped DEF ParentLast, AllLeft, Exited, Family0
<1>3. Moves(Family0(n), r, u, 0, "left")
  BY <1>1, <1>2, Move, Names DEF SamePlaces, Family0
<1> QED
  BY <1>2, <1>3 DEF ParentLast, LeavesLast, Moves, Family0, Exited

-----------------------------------------------------------------------------
(* TokenRing *)

RingStage == stage \in {1, 2, 3}
RingInv == ParentLast(Family, proc)

LEMMA RingTable ==
    /\ \A t, p, l : Ring!Goto(t, p, l) = Goto(t, p, l)
    /\ \A t, p, l : Ring!Fork(t, p, l) = Fork(t, p, l)
    /\ \A t, p, s : Ring!Kill(t, p, s) = Kill(t, p, s)
    /\ \A t, ps, s : Ring!KillAll(t, ps, s) = KillAll(t, ps, s)
    /\ \A t, p, o, s : Ring!Suspend(t, p, o, s) = Suspend(t, p, o, s)
    /\ \A t, p, s : Ring!Handle(t, p, s) = Handle(t, p, s)
    /\ \A t, ps : Ring!Reap(t, ps) = Reap(t, ps)
    /\ \A t, ps : Ring!AllLeft(t, ps) = AllLeft(t, ps)
    /\ Ring!NoSignal = NoSignal /\ Ring!Signals = Signals /\ Ring!Gone = Gone
    /\ \A l : Ring!ProcessAt(l) = ProcessAt(l)
BY DEF Ring!Goto, Goto, Ring!Fork, Fork, Ring!Kill, Kill, Ring!KillAll, KillAll, Ring!Suspend, Suspend,
       Ring!Handle, Handle, Ring!Reap, Reap, Ring!AllLeft, AllLeft, Ring!Alive, Alive, Ring!Gone, Gone,
       Ring!NoSignal, NoSignal, Ring!Signals, Signals, Ring!ProcessAt, ProcessAt

LEMMA RingInit == Ring!Init => RingStage /\ RingInv
<1> SUFFICES ASSUME Ring!Init PROVE RingInv
  BY DEF Ring!Init, RingStage
<1>1. proc = [p \in Family0(Family) |-> ProcessAt(IF p = 0 THEN "fork" ELSE "unborn")]
  BY RingTable DEF Ring!Init, Ring!Procs, Ring!Children, Ring!Parent, Family0
<1>2. \A p \in Family0(Family) : proc[p] \in Process
  BY <1>1 DEF ProcessAt, Process, Places, Gone
<1>3. proc[0].at \notin Exited
  BY <1>1 DEF ProcessAt, Exited, Family0
<1> QED
  BY <1>1, <1>2, <1>3 DEF RingInv, ParentLast, LeavesLast, Table

LEMMA RingStageStays == Ring!Next => stage' = stage
BY DEF Ring!Next, Ring!ParentStep, Ring!StartFirst, Ring!ParentWakes, Ring!Shutdown,
       Ring!StopCurrent, Ring!StartNext, Ring!End, Ring!UserSignal, Ring!ForkChild, Ring!Deliver,
       Ring!Child1, Ring!Child2, Ring!Child3, Ring!SetUp, Ring!Unmask, Ring!Test, Ring!Enter,
       Ring!Activate, Ring!Count, Ring!StopCounting, Ring!ChildGoes, Ring!Clears

LEMMA RingNext == RingStage /\ RingInv /\ Ring!Next => RingInv'
<1> DEFINE D == Family0(Family)
<1> SUFFICES ASSUME RingStage, RingInv, Ring!Next PROVE RingInv'
  OBVIOUS
<1>0. /\ Family \in Nat
      /\ proc \in Table(D)
      /\ ParentLast(Family, proc)
      /\ 0 \in D
      /\ 1 .. Family \subseteq D
  BY FamilyAssumption DEF RingInv, ParentLast, Family0
<1>1. ASSUME SamePlaces(D, proc, proc') PROVE RingInv'
  BY <1>0, <1>1, ParentLastKept DEF RingInv
<1>2. ASSUME NEW p \in D, NEW l \in Places, NEW u, SamePlaces(D, proc, u), proc' = Goto(u, p, l),
             proc[p].at \notin Exited, p = 0 => l \notin Exited
      PROVE  RingInv'
  BY <1>0, <1>2, FamilyStep DEF RingInv
<1>3. SamePlaces(D, proc, proc)
  BY <1>0 DEF SamePlaces
<1> HIDE DEF D
\* The parent
<1>4. CASE Ring!StartFirst
  <2>1. PICK u \in {proc, Kill(proc, 1, "SIGUSR1")}, l \in {"wait", "suspend"} :
           proc[0].at = "fork" /\ proc' = Goto(u, 0, l)
    <3>1. proc[0].at = "fork"
      BY <1>4 DEF Ring!StartFirst, Ring!Parent
    <3>2. CASE stage = 1
      <4>1. proc' = Goto(proc, 0, "wait")
        BY <1>4, <3>2, RingTable DEF Ring!StartFirst, Ring!ParentGoes, Ring!Parent
      <4> QED
        BY <3>1, <4>1
    <3>3. CASE stage = 2
      <4>1. proc' = Goto(Kill(proc, 1, "SIGUSR1"), 0, "wait")
        BY <1>4, <3>3, RingTable DEF Ring!StartFirst, Ring!ParentGoes, Ring!Parent
      <4> QED
        BY <3>1, <4>1
    <3>4. CASE stage = 3
      <4>1. proc' = Goto(Kill(proc, 1, "SIGUSR1"), 0, "suspend")
        BY <1>4, <3>4, RingTable DEF Ring!StartFirst, Ring!ParentGoes, Ring!Parent
      <4> QED
        BY <3>1, <4>1
    <3> QED
      BY <3>2, <3>3, <3>4 DEF RingStage
  <2>2. SamePlaces(D, proc, u)
    BY <1>0, <1>3, Stay, Names
  <2> QED
    BY <1>0, <1>2, <2>1, <2>2, Names DEF Exited
<1>5. CASE Ring!ParentWakes
  <2>1. PICK s \in proc[0].pending :
           proc[0].at = "suspend" /\ proc' = Goto(Suspend(proc, 0, Signals, s), 0, "decide")
    BY <1>5, RingTable DEF Ring!ParentWakes, Ring!ParentGoes, Ring!Parent
  <2>2. s \in Signals
    BY <1>0 DEF Table, Process
  <2>3. SamePlaces(D, proc, Suspend(proc, 0, Signals, s))
    BY <1>0, <2>2, Stay
  <2> QED
    BY <1>0, <1>2, <2>1, <2>3, Names DEF Exited
<1>6. CASE Ring!Shutdown
  <2>1. proc[0].at = "decide" /\ proc' = Goto(KillAll(proc, 1 .. Family, "SIGINT"), 0, "wait")
    BY <1>6, RingTable DEF Ring!Shutdown, Ring!ParentGoes, Ring!Parent, Ring!Children
  <2>2. SamePlaces(D, proc, KillAll(proc, 1 .. Family, "SIGINT"))
    BY <1>0, Stay, Names
  <2> QED
    BY <1>0, <1>2, <2>1, <2>2, Names DEF Exited
<1>7. CASE Ring!StopCurrent
  <2>1. proc[0].at = "decide" /\ proc' = Goto(Kill(proc, current_child, "SIGUSR2"), 0, "switch")
    BY <1>7, RingTable DEF Ring!StopCurrent, Ring!ParentGoes, Ring!Parent
  <2>2. SamePlaces(D, proc, Kill(proc, current_child, "SIGUSR2"))
    BY <1>0, Stay, Names
  <2> QED
    BY <1>0, <1>2, <2>1, <2>2, Names DEF Exited
<1>8. CASE Ring!StartNext
  <2>1. PICK t : t = Kill(proc, current_child, "SIGUSR1")
    OBVIOUS
  <2>2. proc[0].at = "switch" /\ proc' = Goto(Reset(t, 0), 0, "suspend")
    BY <1>8, <2>1, RingTable DEF Ring!StartNext, Ring!ParentGoes, Ring!Parent, Reset
  <2>3. SamePlaces(D, proc, t)
    BY <1>0, <2>1, Stay, Names
  <2>4. SamePlaces(D, t, Reset(t, 0))
    BY <1>0, <2>3, Stay DEF SamePlaces
  <2>5. SamePlaces(D, proc, Reset(t, 0))
    BY <2>3, <2>4 DEF SamePlaces
  <2> QED
    BY <1>0, <1>2, <2>2, <2>5, Names DEF Exited
<1>9. CASE Ring!End
  <2>1. /\ proc[0].at \notin Exited
        /\ AllLeft(proc, 1 .. Family)
        /\ proc' = Goto(Reap(proc, 1 .. Family), 0, "left")
    BY <1>9, RingTable DEF Ring!End, Ring!ParentGoes, Ring!Parent, Ring!Children, Exited
  <2> QED
    BY <1>0, <2>1, ParentEnds DEF RingInv
<1>10. CASE Ring!UserSignal
  <2>1. PICK t : t = Add(proc, 0, 1)
    OBVIOUS
  <2>2. proc' \in {Kill(t, 0, "SIGUSR1"), KillAll(t, Ring!Procs, "SIGINT")}
    BY <1>10, <2>1, RingTable DEF Ring!UserSignal, Ring!Parent, Add
  <2>3. SamePlaces(D, proc, t)
    BY <1>0, <2>1, Stay
  <2>4. t \in Table(D)
    BY <2>3 DEF SamePlaces
  <2>5. SamePlaces(D, t, proc')
    BY <2>2, <2>4, Stay, Names
  <2> QED
    BY <1>1, <2>3, <2>5 DEF SamePlaces
\* The children
<1>11. ASSUME NEW c \in Ring!Children, Ring!ForkChild(c) PROVE RingInv'
  <2>1. proc[c].at = "unborn" /\ proc' = Fork(proc, c, "born") /\ c \in D /\ c # 0
    BY <1>0, <1>11, RingTable DEF Ring!ForkChild, Ring!Children
  <2>2. Moves(D, proc, proc', c, "born")
    BY <1>0, <2>1, Move, Names
  <2> QED
    BY <1>0, <2>1, <2>2, ParentLastKept DEF RingInv, Exited, D
<1>12. ASSUME NEW c \in Ring!Children, Ring!Deliver(c) PROVE RingInv'
  <2>1. PICK s \in proc[c].pending :
           proc' = IF proc[c].at = "suspend" THEN Goto(Handle(proc, c, s), c, "test")
                                             ELSE Handle(proc, c, s)
    BY <1>12, RingTable DEF Ring!Deliver
  <2>2. c \in D /\ c # 0
    BY <1>0 DEF Ring!Children
  <2>3. s \in Signals
    BY <1>0, <2>2 DEF Table, Process
  <2>4. SamePlaces(D, proc, Handle(proc, c, s))
    BY <1>0, <2>2, <2>3, Stay
  <2> QED
    BY <1>1, <1>2, <2>1, <2>2, <2>4, Names DEF Exited
<1>13. ASSUME NEW c \in Ring!Children,
              Ring!Child1(c) \/ Ring!Child2(c) \/ Ring!Child3(c)
       PROVE  RingInv'
  <2>1. c \in D /\ c # 0
    BY <1>0 DEF Ring!Children
  <2>2. ASSUME NEW from, NEW to, Ring!ChildGoes(c, from, to), from \notin Exited, to \in Places
        PROVE  RingInv'
    <3>1. proc[c].at = from /\ proc' = Goto(proc, c, to)
      BY <2>2, RingTable DEF Ring!ChildGoes
    <3> QED
      BY <1>2, <1>3, <2>1, <2>2, <3>1
  <2>3. ASSUME NEW from, NEW to, Ring!Clears(c, from, to), from \notin Exited, to \in Places
        PROVE  RingInv'
    <3>1. proc[c].at = from /\ proc' = Goto(Reset(proc, c), c, to)
      BY <2>3, RingTable DEF Ring!Clears, Reset
    <3>2. SamePlaces(D, proc, Reset(proc, c))
      BY <1>0, <2>1, Stay
    <3> QED
      BY <1>2, <2>1, <2>3, <3>1, <3>2
  <2>4. CASE Ring!Child1(c)
    <3>1. proc[c].at = "born" /\ proc' = Goto(proc, c, "left")
      BY <2>4, RingTable DEF Ring!Child1
    <3> QED
      BY <1>2, <1>3, <2>1, <3>1, Names DEF Exited
  <2>5. CASE Ring!Child2(c)
    <3>1. proc[c].at = "born" /\ proc' = Goto(Suspend(proc, c, {"SIGUSR1"}, "SIGUSR1"), c, "run")
      BY <2>5, RingTable DEF Ring!Child2
    <3>2. SamePlaces(D, proc, Suspend(proc, c, {"SIGUSR1"}, "SIGUSR1"))
      BY <1>0, <2>1, Stay, Names
    <3> QED
      BY <1>2, <2>1, <3>1, <3>2, Names DEF Exited
  <2>6. CASE Ring!SetUp(c) \/ Ring!Unmask(c)
    BY <2>2, <2>6, Names DEF Ring!SetUp, Ring!Unmask, Exited
  <2>7. CASE Ring!Test(c)
    <3>1. \/ \E l \in {"clear", "look"} : Ring!ChildGoes(c, "test", l)
          \/ \E l \in {"left", "enter"} : Ring!ChildGoes(c, "look", l)
      BY <2>7 DEF Ring!Test
    <3> QED
      BY <2>2, <3>1, Names DEF Exited
  <2>8. CASE Ring!Enter(c)
    <3>1. proc[c].at = "enter" /\ proc' = Goto(proc, c, "suspend")
      BY <2>8, RingTable DEF Ring!Enter
    <3> QED
      BY <1>2, <1>3, <2>1, <3>1, Names DEF Exited
  <2>9. CASE Ring!Activate(c)
    BY <2>2, <2>3, <2>9, Names DEF Ring!Activate, Exited
  <2>10. CASE Ring!Count(c)
    <3>1. \/ \E l \in {"stopping", "check"} : Ring!ChildGoes(c, "run", l)
          \/ \E l \in {"left", "run"} : Ring!ChildGoes(c, "check", l)
      BY <2>10 DEF Ring!Count
    <3> QED
      BY <2>2, <3>1, Names DEF Exited
  <2>11. CASE Ring!StopCounting(c)
    BY <2>3, <2>11, Names DEF Ring!StopCounting, Exited
  <2> QED
    BY <1>13, <2>4, <2>5, <2>6, <2>7, <2>8, <2>9, <2>10, <2>11 DEF Ring!Child3
<1> QED
  BY <1>4, <1>5, <1>6, <1>7, <1>8, <1>9, <1>10, <1>11, <1>12, <1>13
     DEF Ring!Next, Ring!ParentStep

-----------------------------------------------------------------------------
(* SignalCounter, where the parent of maian2.c (stage 2) does not wait *)

CounterInv == stage # 2 => ParentLast(Family, proc)

LEMMA CounterTable ==
    /\ \A t, p, l : Counter!Goto(t, p, l) = Goto(t, p, l)
    /\ \A t, p, l : Counter!Fork(t, p, l) = Fork(t, p, l)
    /\ \A t, p, s : Counter!Kill(t, p, s) = Kill(t, p, s)
    /\ \A t, ps, s : Counter!KillAll(t, ps, s) = KillAll(t, ps, s)
    /\ \A t, p, o, s : Counter!Suspend(t, p, o, s) = Suspend(t, p, o, s)
    /\ \A t, p, s : Counter!Handle(t, p, s) = Handle(t, p, s)
    /\ \A t, ps : Counter!Reap(t, ps) = Reap(t, ps)
    /\ \A t, ps : Counter!AllLeft(t, ps) = AllLeft(t, ps)
    /\ Counter!NoSignal = NoSignal /\ Counter!Signals = Signals /\ Counter!Gone = Gone
    /\ \A l : Counter!ProcessAt(l) = ProcessAt(l)
BY DEF Counter!Goto, Goto, Counter!Fork, Fork, Counter!Kill, Kill, Counter!KillAll, KillAll, Counter!Suspend, Suspend,
       Counter!Handle, Handle, Counter!Reap, Reap, Counter!AllLeft, AllLeft, Counter!Alive, Alive, Counter!Gone, Gone,
       Counter!NoSignal, NoSignal, Counter!Signals, Signals, Counter!ProcessAt, ProcessAt

LEMMA CounterInit == Counter!Init => CounterInv
<1> SUFFICES ASSUME Counter!Init PROVE ParentLast(Family, proc)
  BY DEF CounterInv
<1>1. proc = [p \in Family0(Family) |-> ProcessAt(IF p = 0 THEN "fork" ELSE "unborn")]
  BY CounterTable DEF Counter!Init, Counter!Procs, Counter!Children, Counter!Parent, Family0
<1>2. \A p \in Family0(Family) : proc[p] \in Process
  BY <1>1 DEF ProcessAt, Process, Places, Gone
<1>3. proc[0].at \notin Exited
  BY <1>1 DEF ProcessAt, Exited, Family0
<1> QED
  BY <1>1, <1>2, <1>3 DEF ParentLast, LeavesLast, Table

LEMMA CounterStageStays == Counter!Next => stage' = stage
BY DEF Counter!Next, Counter!Start, Counter!Forked, Counter!ForkChild, Counter!Listen,
       Counter!Program2, Counter!Program3, Counter!Program4, Counter!Count, Counter!SendBurst,
       Counter!StopGroup, Counter!End, Counter!Stop, Counter!Test, Counter!Send

LEMMA CounterNext == CounterInv /\ Counter!Next => CounterInv'
<1> DEFINE D == Family0(Family)
<1> SUFFICES ASSUME stage # 2, ParentLast(Family, proc), Counter!Next
             PROVE  ParentLast(Family, proc)'
  BY CounterStageStays DEF CounterInv
<1>0. /\ Family \in Nat
      /\ proc \in Table(D)
      /\ 0 \in D
      /\ 1 .. Family \subseteq D
  BY FamilyAssumption DEF ParentLast, Family0
<1>1. ASSUME SamePlaces(D, proc, proc') PROVE ParentLast(Family, proc)'
  BY <1>0, <1>1, ParentLastKept
<1>2. ASSUME NEW p \in D, NEW l \in Places, NEW u, SamePlaces(D, proc, u), proc' = Goto(u, p, l),
             proc[p].at \notin Exited, p = 0 => l \notin Exited
      PROVE  ParentLast(Family, proc)'
  BY <1>0, <1>2, FamilyStep
<1>3. SamePlaces(D, proc, proc)
  BY <1>0 DEF SamePlaces
<1> HIDE DEF D
<1>4. CASE Counter!Forked
  <2>1. proc[0].at = "fork" /\ proc' = Goto(proc, 0, "count")
    BY <1>4, CounterTable DEF Counter!Forked, Counter!Parent
  <2> QED
    BY <1>0, <1>2, <1>3, <2>1, Names DEF Exited
<1>5. CASE Counter!Count
  <2>1. PICK t : t = Take(proc, 0, {"SIGUSR1"})
    OBVIOUS
  <2>2. SamePlaces(D, proc, t)
    BY <1>0, <2>1, Stay
  <2>3. proc' = Add(t, 0, 1)
    BY <1>5, <2>1 DEF Counter!Count, Counter!Parent, Add, Take
  <2>4. t \in Table(D)
    BY <2>2 DEF SamePlaces
  <2>5. SamePlaces(D, t, proc')
    BY <1>0, <2>3, <2>4, Stay
  <2> QED
    BY <1>1, <2>2, <2>5 DEF SamePlaces
<1>6. CASE Counter!StopGroup
  <2>1. proc[0].at = "count" /\ proc' = Goto(KillAll(proc, Counter!Listening, "SIGUSR2"), 0, "wait")
    BY <1>6, CounterTable DEF Counter!StopGroup, Counter!Parent
  <2>2. SamePlaces(D, proc, KillAll(proc, Counter!Listening, "SIGUSR2"))
    BY <1>0, Stay, Names
  <2> QED
    BY <1>0, <1>2, <2>1, <2>2, Names DEF Exited
<1>7. CASE Counter!End
  <2>1. /\ proc[0].at \notin Exited
        /\ AllLeft(proc, 1 .. Family)
        /\ proc' = Goto(Reap(proc, 1 .. Family), 0, "left")
    BY <1>7, CounterTable DEF Counter!End, Counter!Parent, Counter!Children, Exited
  <2> QED
    BY <1>0, <2>1, ParentEnds
<1>8. ASSUME NEW c \in Counter!Children, Counter!ForkChild(c) PROVE ParentLast(Family, proc)'
  <2>1. proc[c].at = "unborn" /\ proc' = Fork(proc, c, "born") /\ c \in D /\ c # 0
    BY <1>0, <1>8, CounterTable DEF Counter!ForkChild, Counter!Children
  <2>2. Moves(D, proc, proc', c, "born")
    BY <1>0, <2>1, Move, Names
  <2> QED
    BY <1>0, <2>1, <2>2, ParentLastKept DEF Exited, D
<1>9. ASSUME NEW c \in Counter!Children,
             \/ Counter!Listen(c) \/ Counter!Stop(c) \/ Counter!Test(c) \/ Counter!Send(c)
             \/ Counter!SendBurst(c)
      PROVE  ParentLast(Family, proc)'
  <2>1. c \in D /\ c # 0
    BY <1>0 DEF Counter!Children
  <2>2. CASE Counter!Listen(c) \/ Counter!Test(c)
    <3>1. PICK l \in {"sleep", "left", "send"} :
             proc[c].at \in {"born", "sleep"} /\ proc' = Goto(proc, c, l)
      BY <2>2, CounterTable DEF Counter!Listen, Counter!Test
    <3> QED
      BY <1>2, <1>3, <2>1, <3>1, Names DEF Exited
  <2>3. CASE Counter!Stop(c)
    <3>1. proc' = Handle(proc, c, "SIGUSR2")
      BY <2>3, CounterTable DEF Counter!Stop
    <3> QED
      BY <1>0, <1>1, <2>1, <3>1, Stay, Names
  <2>4. CASE Counter!Send(c)
    <3>1. PICK l \in {"left", "sleep"} :
             proc[c].at = "send" /\ proc' = Goto(Kill(proc, 0, "SIGUSR1"), c, l)
      BY <2>4, CounterTable DEF Counter!Send, Counter!Parent
    <3>2. SamePlaces(D, proc, Kill(proc, 0, "SIGUSR1"))
      BY <1>0, Stay, Names
    <3> QED
      BY <1>2, <2>1, <3>1, <3>2, Names DEF Exited
  <2>5. CASE Counter!SendBurst(c)
    <3>1. PICK t : t = Add(proc, c, 1)
      OBVIOUS
    <3>2. PICK u : u = Kill(t, 0, "SIGUSR1")
      OBVIOUS
    <3>3. proc[c].at = "sleep" /\ (proc' = Goto(u, c, "left") \/ proc' = u)
      BY <2>5, <3>1, <3>2, CounterTable DEF Counter!SendBurst, Counter!Parent, Add
    <3>4. SamePlaces(D, proc, t)
      BY <1>0, <2>1, <3>1, Stay
    <3>5. t \in Table(D)
      BY <3>4 DEF SamePlaces
    <3>6. SamePlaces(D, t, u)
      BY <3>2, <3>5, Stay, Names
    <3>7. SamePlaces(D, proc, u)
      BY <3>4, <3>6 DEF SamePlaces
    <3> QED
      BY <1>1, <1>2, <2>1, <3>3, <3>7, Names DEF Exited
  <2> QED
    BY <1>9, <2>2, <2>3, <2>4, <2>5
<1> QED
  BY <1>4, <1>5, <1>6, <1>7, <1>8, <1>9
     DEF Counter!Next, Counter!Start, Counter!Program2, Counter!Program3, Counter!Program4

-----------------------------------------------------------------------------
(* PingPong *)

\* Nobody has or will read a SIGUSR1.
NoBall ==
    /\ \A p \in Family0(Family) : "SIGUSR1" \notin proc[p].pending
    /\ proc[0].last # "SIGUSR1"

\* Until the last round is over all the children wait for their turn, and while the
\* parent awaits an answer the ball is with the child of this turn, on its way
\* back or taken.
Playing ==
    /\ \A c \in 1 .. Family : proc[c].at = "suspend"
    /\ \A p \in Family0(Family) : proc[p].pending \subseteq {"SIGUSR1"}
    /\ \/ proc[0].at \in {"serve", "finish"} /\ NoBall
       \/ /\ proc[0].at = "await"
          /\ proc[0].last # "SIGUSR1"
          /\ \E b \in {0, turn} :
                \A p \in Family0(Family) : "SIGUSR1" \in proc[p].pending <=> p = b
       \/ /\ proc[0].at = "await"
          /\ proc[0].last = "SIGUSR1"
          /\ \A p \in Family0(Family) : "SIGUSR1" \notin proc[p].pending

\* Then they hear of SIGINT only.
Ended ==
    /\ proc[0].at \in {"wait", "left"}
    /\ \A c \in 1 .. Family : proc[c].pending \subseteq {"SIGINT"}
    /\ NoBall

PingInv ==
    /\ ParentLast(Family, proc)
    /\ turn \in 1 .. Family
    /\ ~interrupted => Playing \/ Ended

LEMMA PingTable ==
    /\ \A t, p, l : Ping!Goto(t, p, l) = Goto(t, p, l)
    /\ \A t, p, l : Ping!Fork(t, p, l) = Fork(t, p, l)
    /\ \A t, p, s : Ping!Kill(t, p, s) = Kill(t, p, s)
    /\ \A t, ps, s : Ping!KillAll(t, ps, s) = KillAll(t, ps, s)
    /\ \A t, p, o, s : Ping!Suspend(t, p, o, s) = Suspend(t, p, o, s)
    /\ \A t, p, s : Ping!Handle(t, p, s) = Handle(t, p, s)
    /\ \A t, ps : Ping!Reap(t, ps) = Reap(t, ps)
    /\ \A t, ps : Ping!AllLeft(t, ps) = AllLeft(t, ps)
    /\ Ping!NoSignal = NoSignal /\ Ping!Signals = Signals /\ Ping!Gone = Gone
    /\ \A l : Ping!ProcessAt(l) = ProcessAt(l)
BY DEF Ping!Goto, Goto, Ping!Fork, Fork, Ping!Kill, Kill, Ping!KillAll, KillAll, Ping!Suspend, Suspend,
       Ping!Handle, Handle, Ping!Reap, Reap, Ping!AllLeft, AllLeft, Ping!Alive, Alive, Ping!Gone, Gone,
       Ping!NoSignal, NoSignal, Ping!Signals, Signals, Ping!ProcessAt, ProcessAt

LEMMA PingInit == Ping!Init => PingInv
<1> SUFFICES ASSUME Ping!Init PROVE PingInv
  OBVIOUS
<1>1. proc = [p \in Family0(Family) |-> ProcessAt(IF p = 0 THEN "serve" ELSE "suspend")]
  BY PingTable DEF Ping!Init, Ping!Procs, Ping!Children, Ping!Parent, Family0
<1>2. \A p \in Family0(Family) : /\ proc[p] \in Process
                                 /\ proc[p].pending = {}
                                 /\ proc[p].at = IF p = 0 THEN "serve" ELSE "suspend"
                                 /\ proc[p].last = NoSignal
  BY <1>1 DEF ProcessAt, Process, Places, Gone
<1>3. /\ 0 \in Family0(Family)
      /\ \A c \in 1 .. Family : c \in Family0(Family) /\ c # 0
  BY DEF Family0
<1>4. ParentLast(Family, proc)
  BY <1>1, <1>2, <1>3 DEF ParentLast, LeavesLast, Table, Exited
<1>5. turn \in 1 .. Family
  BY FamilyAssumption DEF Ping!Init
<1>6. Playing
  BY <1>2, <1>3 DEF Playing, NoBall, NoSignal
<1> QED
  BY <1>4, <1>5, <1>6 DEF PingInv

\* The parent leaves last, also after a Ctrl-C.
LEMMA PingLast == PingInv /\ Ping!Next => ParentLast(Family, proc)'
<1> DEFINE D == Family0(Family)
<1> SUFFICES ASSUME PingInv, Ping!Next PROVE ParentLast(Family, proc)'
  OBVIOUS
<1>0. /\ Family \in Nat
      /\ ParentLast(Family, proc)
      /\ proc \in Table(D)
      /\ 0 \in D
      /\ 1 .. Family \subseteq D
  BY FamilyAssumption DEF PingInv, ParentLast, Family0
<1>1. ASSUME SamePlaces(D, proc, proc') PROVE ParentLast(Family, proc)'
  BY <1>0, <1>1, ParentLastKept
<1>2. ASSUME NEW p \in D, NEW l \in Places, NEW u, SamePlaces(D, proc, u), proc' = Goto(u, p, l),
             proc[p].at \notin Exited, p = 0 => l \notin Exited
      PROVE  ParentLast(Family, proc)'
  BY <1>0, <1>2, FamilyStep
<1> HIDE DEF D
<1>4. CASE Ping!Serve
  <2>1. proc[0].at = "serve" /\ proc' = Goto(Kill(proc, turn, "SIGUSR1"), 0, "await")
    BY <1>4, PingTable DEF Ping!Serve, Ping!Parent
  <2>2. SamePlaces(D, proc, Kill(proc, turn, "SIGUSR1"))
    BY <1>0, Stay, Names
  <2> QED
    BY <1>0, <1>2, <2>1, <2>2, Names DEF Exited
<1>5. CASE Ping!ParentWakes
  <2>1. PICK s \in proc[0].pending : proc' = Suspend(proc, 0, Ping!Open, s)
    BY <1>5, PingTable DEF Ping!ParentWakes, Ping!Parent
  <2>2. s \in Signals
    BY <1>0 DEF Table, Process
  <2> QED
    BY <1>0, <1>1, <2>1, <2>2, Stay
<1>6. CASE Ping!NextTurn
  <2>1. PICK l \in {"finish", "serve"} : proc[0].at = "await" /\ proc' = Goto(Reset(proc, 0), 0, l)
    BY <1>6, PingTable DEF Ping!NextTurn, Ping!ResetSignal, Ping!Parent, Reset
  <2>2. SamePlaces(D, proc, Reset(proc, 0))
    BY <1>0, Stay
  <2> QED
    BY <1>0, <1>2, <2>1, <2>2, Names DEF Exited
<1>7. CASE Ping!Finish
  <2>1. proc[0].at = "finish" /\ proc' = Goto(KillAll(proc, 1 .. Family, "SIGINT"), 0, "wait")
    BY <1>7, PingTable DEF Ping!Finish, Ping!Parent, Ping!Children
  <2>2. SamePlaces(D, proc, KillAll(proc, 1 .. Family, "SIGINT"))
    BY <1>0, Stay, Names
  <2> QED
    BY <1>0, <1>2, <2>1, <2>2, Names DEF Exited
<1>8. CASE Ping!End
  <2>1. /\ proc[0].at \notin Exited
        /\ AllLeft(proc, 1 .. Family)
        /\ proc' = Goto(Reap(proc, 1 .. Family), 0, "left")
    BY <1>8, PingTable DEF Ping!End, Ping!Parent, Ping!Children, Exited
  <2> QED
    BY <1>0, <2>1, ParentEnds
<1>9. ASSUME NEW c \in Ping!Children, Ping!Child(c) PROVE ParentLast(Family, proc)'
  <2>0. c \in D /\ c # 0
    BY <1>0 DEF Ping!Children
  <2>1. PICK s \in proc[c].pending :
           proc' = IF s = "SIGINT" THEN Goto(Suspend(proc, c, Ping!Open, s), c, "left")
                   ELSE Kill(Reset(Suspend(proc, c, Ping!Open, s), c), 0, "SIGUSR1")
    BY <1>9, PingTable DEF Ping!Child, Ping!Parent, Reset
  <2>2. s \in Signals
    BY <1>0, <2>0 DEF Table, Process
  <2>3. PICK t : t = Suspend(proc, c, Ping!Open, s)
    OBVIOUS
  <2>4. PICK u : u = Reset(t, c)
    OBVIOUS
  <2>5. SamePlaces(D, proc, t)
    BY <1>0, <2>0, <2>2, <2>3, Stay
  <2>6. t \in Table(D)
    BY <2>5 DEF SamePlaces
  <2>7. SamePlaces(D, t, u) /\ u \in Table(D)
    BY <2>0, <2>4, <2>6, Stay DEF SamePlaces
  <2>8. CASE s = "SIGINT"
    <3>1. proc[c].at = "suspend"
      BY <1>9 DEF Ping!Child
    <3> QED
      BY <1>2, <2>0, <2>1, <2>3, <2>5, <2>8, <3>1, Names DEF Exited
  <2>9. CASE s # "SIGINT"
    <3>1. SamePlaces(D, u, proc')
      BY <2>1, <2>3, <2>4, <2>7, <2>9, Stay, Names
    <3> QED
      BY <1>1, <2>5, <2>7, <3>1 DEF SamePlaces
  <2> QED
    BY <2>8, <2>9
<1>10. CASE Ping!Interrupt
  <2>1. proc' = KillAll(proc, Ping!Procs, "SIGINT")
    BY <1>10, PingTable DEF Ping!Interrupt
  <2> QED
    BY <1>0, <1>1, <2>1, Stay, Names
<1> QED
  BY <1>4, <1>5, <1>6, <1>7, <1>8, <1>9, <1>10 DEF Ping!Next, Ping!ParentStep

LEMMA PingTurn == PingInv /\ Ping!Next => (turn \in 1 .. Family)'
<1> SUFFICES ASSUME turn \in 1 .. Family, Ping!Next PROVE turn' \in 1 .. Family
  BY DEF PingInv
<1>1. CASE Ping!NextTurn
  <2>1. turn' = (turn % Family) + 1
    BY <1>1 DEF Ping!NextTurn
  <2>2. turn % Family \in 0 .. Family - 1
    BY FamilyAssumption
  <2> QED
    BY <2>1, <2>2, FamilyAssumption
<1>2. CASE ~ Ping!NextTurn
  BY <1>2
     DEF Ping!Next, Ping!ParentStep, Ping!Serve, Ping!ParentWakes, Ping!Finish, Ping!End,
         Ping!Child, Ping!Interrupt
<1> QED
  BY <1>1, <1>2

\* One ball while they play, none when it has ended.
LEMMA PingGame == PingInv /\ Ping!Next /\ ~interrupted' => (Playing \/ Ended)'
<1> DEFINE D == Family0(Family)
<1> SUFFICES ASSUME PingInv, Ping!Next, ~interrupted' PROVE (Playing \/ Ended)'
  OBVIOUS
<1>0. /\ proc \in Table(D)
      /\ 0 \in D
      /\ \A c \in 1 .. Family : c \in D /\ c # 0
      /\ \A p \in D : p = 0 \/ p \in 1 .. Family
      /\ turn \in 1 .. Family
      /\ ~interrupted => Playing \/ Ended
  BY DEF PingInv, ParentLast, Family0
<1> HIDE DEF D
<1>t. proc \in Table(D) /\ 0 \in D
  BY <1>0
<1>p. /\ "await" \in Places /\ "finish" \in Places /\ "serve" \in Places
      /\ "wait" \in Places /\ "left" \in Places
      /\ "SIGUSR1" \in Signals /\ "SIGINT" \in Signals
  BY Names
<1>1. ~ Ping!Interrupt
  BY DEF Ping!Interrupt
<1>2. Playing \/ Ended
  BY <1>0, <1>1
     DEF Ping!Next, Ping!ParentStep, Ping!Serve, Ping!ParentWakes, Ping!NextTurn, Ping!Finish,
         Ping!End, Ping!Child
<1>3. CASE Ping!Serve
  <2>1. PICK t : t = Kill(proc, turn, "SIGUSR1")
    OBVIOUS
  <2>2. proc[0].at = "serve" /\ proc' = Goto(t, 0, "await") /\ turn' = turn
    BY <1>3, <2>1, PingTable DEF Ping!Serve, Ping!Parent
  <2>3. Playing
    BY <1>2, <2>2 DEF Ended, D
  <2>4. Alive(proc, turn)
    BY <1>0, <2>3 DEF Playing, Alive, Gone, D
  <2>5. /\ t \in Table(D)
        /\ \A q \in D : q # turn => t[q] = proc[q]
        /\ t[turn].at = "suspend"
        /\ t[turn].pending = proc[turn].pending \cup {"SIGUSR1"}
    BY <1>0, <2>1, <2>3, <2>4, <1>p, KillIs DEF Playing, D
  <2>6. /\ proc'[0].at = "await"
        /\ proc'[0].last = proc[0].last
        /\ proc'[0].pending = proc[0].pending
        /\ \A q \in D : q # 0 => proc'[q] = t[q]
    <3>1. t \in Table(D)
      BY <2>5
    <3>2. PICK l \in Places : l = "await"
      BY <1>p
    <3>3. proc' = Goto(t, 0, l)
      BY <2>2, <3>2
    <3>4. /\ proc'[0].at = l
          /\ proc'[0].last = t[0].last
          /\ proc'[0].pending = t[0].pending
          /\ \A q \in D : q # 0 => proc'[q] = t[q]
      BY <1>t, <3>1, <3>3, ParentWent
    <3> QED
      BY <1>0, <2>5, <3>2, <3>4 
  <2> QED
    BY <1>0, <2>2, <2>3, <2>5, <2>6 DEF Playing, NoBall, D
<1>4. CASE Ping!ParentWakes
  <2>1. PICK s \in proc[0].pending :
           /\ proc' = Suspend(proc, 0, Ping!Open, s)
           /\ proc[0].at = "await" /\ proc[0].last # "SIGUSR1"
           /\ turn' = turn
    BY <1>4, PingTable DEF Ping!ParentWakes, Ping!Parent
  <2>2. Playing
    BY <1>2, <2>1 DEF Ended, D
  <2>3. s = "SIGUSR1"
    BY <1>0, <2>1, <2>2 DEF Playing, D
  <2>4. \A p \in D : "SIGUSR1" \in proc[p].pending <=> p = 0
    BY <1>0, <2>1, <2>2, <2>3 DEF Playing, D
  <2>5. /\ \A q \in D : q # 0 => proc'[q] = proc[q]
        /\ proc'[0].at = "await"
        /\ proc'[0].last = "SIGUSR1"
        /\ proc'[0].pending = proc[0].pending \ Ping!Open
    BY <1>0, <2>1, <2>3, <1>p, SuspendIs
  <2>6. proc'[0].pending = {}
    BY <1>0, <2>2, <2>5 DEF Ping!Open, Playing, D
  <2> QED
    BY <1>0, <2>2, <2>4, <2>5, <2>6 DEF Playing, D
<1>5. CASE Ping!NextTurn
  <2>1. PICK t : t = Reset(proc, 0)
    OBVIOUS
  <2>2. PICK l \in {"finish", "serve"} :
           proc[0].at = "await" /\ proc[0].last = "SIGUSR1" /\ proc' = Goto(t, 0, l)
    BY <1>5, <2>1, PingTable DEF Ping!NextTurn, Ping!ResetSignal, Ping!Parent, Reset
  <2>3. Playing
    BY <1>2, <2>2 DEF Ended, D
  <2>4. /\ t \in Table(D)
        /\ \A q \in D : q # 0 => t[q] = proc[q]
        /\ t[0].last = NoSignal
        /\ t[0].pending = proc[0].pending
    BY <1>0, <2>1, ResetIs
  <2>5. /\ \A q \in D : q # 0 => proc'[q] = t[q]
        /\ proc'[0].at = l
        /\ proc'[0].last = t[0].last
        /\ proc'[0].pending = t[0].pending
    <3>1. t \in Table(D)
      BY <2>4
    <3>2. proc' = Goto(t, 0, l) /\ l \in Places
      BY <2>2, <1>p
    <3>3. 0 \in D
      BY <1>t
    <3> QED
      BY <3>1, <3>2, <3>3, ParentWent
  <2> QED
    BY <1>0, <2>2, <2>3, <2>4, <2>5 DEF Playing, NoBall, NoSignal, D
<1>6. CASE Ping!Finish
  <2>1. PICK t : t = KillAll(proc, 1 .. Family, "SIGINT")
    OBVIOUS
  <2>2. proc[0].at = "finish" /\ proc' = Goto(t, 0, "wait")
    BY <1>6, <2>1, PingTable DEF Ping!Finish, Ping!Parent, Ping!Children
  <2>3. Playing /\ NoBall
    BY <1>2, <2>2 DEF Ended, Playing, D
  <2>4. \A c \in 1 .. Family : Alive(proc, c) /\ proc[c].pending = {}
    BY <1>0, <2>3 DEF Playing, NoBall, Alive, Gone, D
  <2>5. /\ t \in Table(D)
        /\ t[0] = proc[0]
        /\ \A c \in 1 .. Family : t[c].pending = proc[c].pending \cup {"SIGINT"}
    <3>1. t \in Table(D)
      BY <1>t, <1>p, <2>1, SentAll
    <3>2. t[0] = proc[0]
      <4>1. 0 \notin 1 .. Family
        OBVIOUS
      <4>2. PICK ps : ps = 1 .. Family
        OBVIOUS
      <4>3. "SIGINT" \in Signals
        BY <1>p
      <4>4. t = KillAll(proc, ps, "SIGINT") /\ 0 \notin ps
        BY <2>1, <4>1, <4>2
      <4> QED
        BY <1>t, <4>3, <4>4, SentAll
    <3>3. ASSUME NEW c \in 1 .. Family PROVE t[c].pending = proc[c].pending \cup {"SIGINT"}
      <4>1. Alive(proc, c) /\ c \in D
        BY <1>0, <2>4
      <4>2. PICK ps : ps = 1 .. Family
        OBVIOUS
      <4>3. "SIGINT" \in Signals
        BY <1>p
      <4>4. t = KillAll(proc, ps, "SIGINT") /\ c \in ps
        BY <2>1, <4>2
      <4> QED
        BY <1>t, <4>1, <4>3, <4>4, SentAll
    <3> QED
      BY <3>1, <3>2, <3>3
  <2>6. /\ \A q \in D : q # 0 => proc'[q] = t[q]
        /\ proc'[0].at = "wait"
        /\ proc'[0].last = t[0].last
        /\ proc'[0].pending = t[0].pending
    <3>1. t \in Table(D)
      BY <2>5
    <3>2. proc' = Goto(t, 0, "wait") /\ "wait" \in Places
      BY <2>2, <1>p
    <3>3. 0 \in D
      BY <1>t
    <3> QED
      BY <3>1, <3>2, <3>3, ParentWent
  <2> QED
    BY <1>0, <2>3, <2>4, <2>5, <2>6 DEF Ended, NoBall, D
<1>7. CASE Ping!End
  <2>1. PICK t : t = Reap(proc, 1 .. Family)
    OBVIOUS
  <2>2. proc[0].at = "wait" /\ proc' = Goto(t, 0, "left")
    BY <1>7, <2>1, PingTable DEF Ping!End, Ping!Parent, Ping!Children
  <2>3. Ended
    BY <1>2, <2>2 DEF Playing, D
  <2>4. /\ t \in Table(D)
        /\ \A q \in D : t[q].pending = proc[q].pending /\ t[q].last = proc[q].last
    BY <1>0, <2>1, ReapIs
  <2>5. /\ \A q \in D : q # 0 => proc'[q] = t[q]
        /\ proc'[0].at = "left"
        /\ proc'[0].last = t[0].last
        /\ proc'[0].pending = t[0].pending
    <3>1. t \in Table(D)
      BY <2>4
    <3>2. proc' = Goto(t, 0, "left") /\ "left" \in Places
      BY <2>2, <1>p
    <3>3. 0 \in D
      BY <1>t
    <3> QED
      BY <3>1, <3>2, <3>3, ParentWent
  <2> QED
    BY <1>0, <2>3, <2>4, <2>5 DEF Ended, NoBall, D
<1>8. ASSUME NEW c \in 1 .. Family, Ping!Child(c) PROVE (Playing \/ Ended)'
  <2>1. PICK s \in proc[c].pending :
           proc' = IF s = "SIGINT" THEN Goto(Suspend(proc, c, Ping!Open, s), c, "left")
                   ELSE Kill(Reset(Suspend(proc, c, Ping!Open, s), c), 0, "SIGUSR1")
    BY <1>8, PingTable DEF Ping!Child, Ping!Parent, Reset
  <2>2. s \in Signals /\ c \in D /\ c # 0 /\ turn' = turn /\ proc[c].at = "suspend"
    BY <1>0, <1>8 DEF Table, Process, Ping!Child
  <2>3. PICK t : t = Suspend(proc, c, Ping!Open, s)
    OBVIOUS
  <2>4. /\ t \in Table(D)
        /\ \A q \in D : q # c => t[q] = proc[q]
        /\ t[c].at = "suspend"
        /\ t[c].pending = proc[c].pending \ Ping!Open
    BY <1>0, <2>2, <2>3, SuspendIs
  <2>5. CASE Playing
    <3>1. s = "SIGUSR1"
      BY <1>0, <2>1, <2>2, <2>5 DEF Playing, D
    <3>2. /\ proc[0].at = "await" /\ proc[0].last # "SIGUSR1"
          /\ \A p \in D : "SIGUSR1" \in proc[p].pending <=> p = c
      BY <1>0, <2>1, <2>2, <2>5, <3>1 DEF Playing, NoBall, D
    <3>3. PICK u : u = Reset(t, c)
      OBVIOUS
    <3>4. /\ u \in Table(D)
          /\ \A q \in D : q # c => u[q] = t[q]
          /\ u[c].at = "suspend"
          /\ u[c].pending = t[c].pending
      BY <2>2, <2>4, <3>3, ResetIs
    <3>5. proc' = Kill(u, 0, "SIGUSR1")
      BY <2>1, <2>3, <3>1, <3>3
    <3>6. Alive(u, 0)
      BY <1>0, <2>2, <2>4, <3>2, <3>4 DEF Alive, Gone
    <3>7. /\ \A q \in D : q # 0 => proc'[q] = u[q]
          /\ proc'[0].at = u[0].at
          /\ proc'[0].last = u[0].last
          /\ proc'[0].pending = u[0].pending \cup {"SIGUSR1"}
      BY <1>0, <3>4, <3>5, <3>6, <1>p, KillIs
    <3>8. proc'[c].pending = {} /\ proc'[c].at = "suspend"
      BY <2>2, <2>4, <2>5, <3>4, <3>7 DEF Ping!Open, Playing, D
    <3>9. \A q \in D : q # 0 /\ q # c => proc'[q] = proc[q]
      BY <2>4, <3>4, <3>7
    <3>10. /\ proc'[0].at = "await" /\ proc'[0].last # "SIGUSR1"
           /\ proc'[0].pending = proc[0].pending \cup {"SIGUSR1"}
      BY <1>0, <2>2, <2>4, <3>2, <3>4, <3>7
    <3> QED
      BY <1>0, <2>2, <2>5, <3>2, <3>8, <3>9, <3>10 DEF Playing, D
  <2>6. CASE Ended
    <3>1. s = "SIGINT"
      BY <2>1, <2>6 DEF Ended, D
    <3>2. /\ \A q \in D : q # c => proc'[q] = t[q]
          /\ proc'[c].pending = t[c].pending
      <4>1. PICK l \in Places : l = "left"
        BY <1>p
      <4>2. proc' = Goto(t, c, l)
        BY <2>1, <2>3, <3>1, <4>1
      <4>3. t \in Table(D) /\ c \in D
        BY <2>2, <2>4
      <4>4. PICK k \in D : k = c
        BY <4>3
      <4>5. proc' = Goto(t, k, l)
        BY <4>2, <4>4
      <4>6. (\A q \in D : q # k => proc'[q] = t[q]) /\ proc'[k].pending = t[k].pending
        BY <4>3, <4>5, Went
      <4> QED
        BY <4>4, <4>6
    <3>3. \A q \in D : q # c => proc'[q] = proc[q]
      BY <2>4, <3>2
    <3> QED
      BY <1>0, <2>2, <2>4, <2>6, <3>2, <3>3 DEF Ended, NoBall, D
  <2> QED
    BY <1>2, <2>5, <2>6
<1> QED
  BY <1>1, <1>3, <1>4, <1>5, <1>6, <1>7, <1>8 DEF Ping!Next, Ping!ParentStep, Ping!Children

LEMMA PingNext == PingInv /\ Ping!Next => PingInv'
BY PingLast, PingTurn, PingGame DEF PingInv

-----------------------------------------------------------------------------
(* Students *)

Class == 1 .. Family + 1
Hall == {0} \cup Class
AtDesk == {"unborn", "work", "sent", "left", "reaped"}
Collecting == {"chld", "usr1chld"}

StudentType ==
    /\ stage \in {2, 3, 4}
    /\ proc \in Table(Hall)
    /\ \A s \in Class : proc[s].at \in AtDesk
    /\ proc[0].at \notin {"unborn", "reaped"}
    /\ last_student_pid \in Hall
    /\ si_pid \in Hall

\* A student is in at most one of the places a solution passes through, and then
\* it waits for the answer. Outside the handlers and the loop's test the teacher
\* holds no last_student_pid; only the sender of a pending SIGUSR1 is remembered.
StudentMail ==
    /\ proc[0].at \notin Collecting \cup {"usr1", "answer"} => last_student_pid = 0
    /\ si_pid # 0 <=> "SIGUSR1" \in proc[0].pending
    /\ \A s \in Class :
          "SIGUSR2" \in proc[s].pending => /\ proc[s].at = "sent"
                                           /\ s # last_student_pid /\ s # si_pid
    /\ last_student_pid # 0 => proc[last_student_pid].at = "sent" /\ last_student_pid # si_pid
    /\ si_pid # 0 => proc[si_pid].at = "sent"

\* The teacher leaves last; where students are counted, it has then waited for all.
TeacherLast ==
    /\ proc[0].at = "wait" => stage = 2
    /\ proc[0].at \in Exited =>
          \A s \in Class : proc[s].at \in Exited /\ (stage # 2 => proc[s].at = "reaped")

Unreaped(t) == {s \in Class : t[s].at # "reaped"}
Waited(t) == {s \in Class : t[s].at = "reaped"}

\* active_students counts who has not been waited for, and the table has a line for
\* each of the others.
StudentCount ==
    /\ stage # 2 => active_students = Cardinality(Unreaped(proc))
    /\ stage = 4 =>
          /\ results \in Seq([pid : Class, issues : Nat])
          /\ Len(results) = Cardinality(Waited(proc))
          /\ {results[i].pid : i \in DOMAIN results} = Waited(proc)
          /\ \A i \in DOMAIN results : results[i].issues = proc[results[i].pid].n % 256

StudentInv == StudentType /\ StudentMail /\ TeacherLast /\ StudentCount

LEMMA StudentTable ==
    /\ \A t, p, l : Student!Goto(t, p, l) = Goto(t, p, l)
    /\ \A t, p, l : Student!Fork(t, p, l) = Fork(t, p, l)
    /\ \A t, p, s : Student!Kill(t, p, s) = Kill(t, p, s)
    /\ \A t, ps : Student!Reap(t, ps) = Reap(t, ps)
    /\ \A t, ps : Student!AllLeft(t, ps) = AllLeft(t, ps)
    /\ \A l : Student!ProcessAt(l) = ProcessAt(l)
    /\ \A z : Student!Cardinality(z) = Cardinality(z)
    /\ Student!Pupils = Class /\ Student!Procs = Hall
    /\ Student!Teacher = 0 /\ Student!NoPid = 0
BY DEF Student!Goto, Goto, Student!Fork, Fork, Student!Kill, Kill, Student!Reap, Reap, Student!AllLeft, AllLeft,
       Student!Alive, Alive, Student!Gone, Gone, Student!ProcessAt, ProcessAt, Student!NoSignal, NoSignal,
       Student!Cardinality, Cardinality, Student!Pupils, Class, Student!Procs, Hall, Student!Teacher,
       Student!NoPid

LEMMA ClassIs ==
    /\ IsFiniteSet(Class) /\ Cardinality(Class) = Family + 1
    /\ Hall = {0} \cup Class /\ 0 \notin Class
    /\ 0 \in Hall /\ Class \subseteq Hall
    /\ Hall = Family0(Family + 1)
<1>1. IsFiniteSet(1 .. Family + 1) /\ Cardinality(1 .. Family + 1) = Family + 1
  BY FS_Interval, FamilyAssumption
<1> QED
  BY <1>1 DEF Class, Hall, Family0

\* What is said of the students holds as long as nobody is waited for.
LEMMA CountStays ==
    ASSUME StudentType, StudentCount,
           stage' = stage, active_students' = active_students, results' = results,
           \A s \in Class : /\ proc'[s].at = "reaped" <=> proc[s].at = "reaped"
                            /\ proc[s].at = "reaped" => proc'[s].n = proc[s].n
    PROVE  StudentCount'
<1>1. Unreaped(proc') = Unreaped(proc) /\ Waited(proc') = Waited(proc)
  BY DEF Unreaped, Waited
<1>2. ASSUME stage = 4, NEW i \in DOMAIN results
      PROVE  results[i].issues = proc'[results[i].pid].n % 256
  <2>1. results[i].pid \in Waited(proc)
    BY <1>2 DEF StudentCount
  <2>2. results[i].issues = proc[results[i].pid].n % 256
    BY <1>2 DEF StudentCount
  <2> QED
    BY <2>1, <2>2 DEF Waited
<1> QED
  BY <1>1, <1>2 DEF StudentCount

LEMMA StudentInit == Student!Init => StudentInv
<1> SUFFICES ASSUME Student!Init PROVE StudentInv
  OBVIOUS
<1>1. /\ proc = [p \in Hall |-> ProcessAt(IF p = 0 THEN "fork" ELSE "unborn")]
      /\ stage \in {2, 3, 4}
      /\ active_students = Family + 1
      /\ last_student_pid = 0 /\ si_pid = 0 /\ results = <<>>
  BY StudentTable DEF Student!Init
<1>2. \A p \in Hall : /\ proc[p] \in Process
                      /\ proc[p].at = IF p = 0 THEN "fork" ELSE "unborn"
                      /\ proc[p].pending = {}
  BY <1>1 DEF ProcessAt, Process, Places, Gone
<1>3. proc \in Table(Hall)
  BY <1>1, <1>2 DEF Table
<1>4. StudentType /\ StudentMail /\ TeacherLast
  BY <1>1, <1>2, <1>3, ClassIs DEF StudentType, StudentMail, TeacherLast, AtDesk, Exited
<1>5. Unreaped(proc) = Class /\ Waited(proc) = {}
  BY <1>2, ClassIs DEF Unreaped, Waited
<1>6. Cardinality({}) = 0
  BY FS_EmptySet
<1>7. StudentCount
  BY <1>1, <1>5, <1>6, ClassIs DEF StudentCount
<1> QED
  BY <1>4, <1>7 DEF StudentInv

\* The teacher forks a student.
LEMMA StudentForks ==
    ASSUME StudentInv, NEW s \in Class, Student!ForkStudent(s)
    PROVE  StudentInv'
<1>0. proc \in Table(Hall) /\ s \in Hall /\ s # 0 /\ 0 \in Hall
  BY ClassIs DEF StudentInv, StudentType
<1>1. /\ proc[0].at = "fork"
      /\ proc[s].at = "unborn"
      /\ proc' = Fork(proc, s, "work")
      /\ UNCHANGED <<stage, active_students, last_student_pid, si_pid, results>>
  BY StudentTable DEF Student!ForkStudent
<1>2. /\ proc' \in Table(Hall)
      /\ \A q \in Hall : q # s => proc'[q] = proc[q]
      /\ proc'[s].at = "work"
      /\ proc'[s].pending = {}
  <2>1. PICK l \in Places : l = "work"
    BY Names
  <2>2. PICK u : u = Fork(proc, s, l)
    OBVIOUS
  <2>3. /\ u \in Table(Hall)
        /\ \A q \in Hall : q # s => u[q] = proc[q]
        /\ u[s].at = l
        /\ u[s].pending = {}
    BY <1>0, <2>2, ForkIs
  <2>4. proc' = u
    BY <1>1, <2>1, <2>2
  <2> QED
    BY <2>1, <2>3, <2>4
<1>3. StudentType'
  BY <1>0, <1>1, <1>2, ClassIs DEF StudentInv, StudentType, AtDesk
<1>4. StudentMail'
  BY <1>0, <1>1, <1>2, ClassIs DEF StudentInv, StudentMail, StudentType
<1>5. TeacherLast'
  BY <1>0, <1>1, <1>2 DEF StudentInv, TeacherLast, Exited
<1>6. StudentCount'
  BY <1>1, <1>2, CountStays, ClassIs DEF StudentInv
<1> QED
  BY <1>3, <1>4, <1>5, <1>6 DEF StudentInv

\* The loop begins, or in stage 2 the waiting.
LEMMA StudentsForked ==
    ASSUME StudentInv, Student!Forked
    PROVE  StudentInv'
<1>0. proc \in Table(Hall) /\ 0 \in Hall
  BY ClassIs DEF StudentInv, StudentType
<1>1. PICK l \in {"wait", "suspend"} :
         /\ proc[0].at = "fork"
         /\ proc' = Goto(proc, 0, l)
         /\ UNCHANGED <<stage, active_students, last_student_pid, si_pid, results>>
         /\ l = "wait" => stage = 2
  BY StudentTable DEF Student!Forked
<1>2. l \in Places
  BY <1>1, Names
<1>3. /\ proc' \in Table(Hall)
      /\ \A q \in Hall : q # 0 => proc'[q] = proc[q]
      /\ proc'[0].at = l
      /\ proc'[0].pending = proc[0].pending
  BY <1>0, <1>1, <1>2, ParentWent
<1>4. StudentType'
  BY <1>0, <1>1, <1>3, ClassIs DEF StudentInv, StudentType
<1>5. StudentMail'
  BY <1>0, <1>1, <1>3, ClassIs DEF StudentInv, StudentMail, StudentType, Collecting
<1>6. TeacherLast'
  BY <1>0, <1>1, <1>3, ClassIs DEF StudentInv, TeacherLast, Exited
<1>7. StudentCount'
  BY <1>1, <1>3, CountStays, ClassIs DEF StudentInv
<1> QED
  BY <1>4, <1>5, <1>6, <1>7 DEF StudentInv

\* A student sends its solution: a SIGUSR1 that finds one pending is merged with it, and
\* its sender is not remembered.
LEMMA PartSent ==
    ASSUME StudentInv, NEW s \in Class, Student!FinishPart(s)
    PROVE  /\ stage # 2 /\ proc[s].at = "work"
           /\ proc' \in Table(Hall)
           /\ \A q \in Class : q # s => proc'[q] = proc[q]
           /\ proc'[s].at = "sent" /\ proc'[s].pending = proc[s].pending
           /\ proc'[0].at = proc[0].at
           /\ proc'[0].pending = proc[0].pending \cup {"SIGUSR1"}
           /\ IF "SIGUSR1" \in proc[0].pending THEN si_pid' = si_pid /\ lost' = lost \cup {s}
                                               ELSE si_pid' = s /\ lost' = lost
           /\ UNCHANGED <<stage, active_students, last_student_pid, results>>
<1>0. proc \in Table(Hall) /\ s \in Hall /\ s # 0 /\ 0 \in Hall
  BY ClassIs DEF StudentInv, StudentType
<1>1. PICK i \in Nat :
         /\ stage # 2
         /\ proc[s].at = "work"
         /\ proc' = Kill(Goto(Add(proc, s, i), s, "sent"), 0, "SIGUSR1")
         /\ IF "SIGUSR1" \in proc[0].pending THEN si_pid' = si_pid /\ lost' = lost \cup {s}
                                             ELSE si_pid' = s /\ lost' = lost
         /\ UNCHANGED <<stage, active_students, last_student_pid, results>>
  BY IssuesAssumption, StudentTable DEF Student!FinishPart, Add
<1>2. PICK t : t = Add(proc, s, i)
  OBVIOUS
<1>3. PICK u : u = Goto(t, s, "sent")
  OBVIOUS
<1>4. /\ t \in Table(Hall)
      /\ \A q \in Hall : q # s => t[q] = proc[q]
      /\ t[s].pending = proc[s].pending
  BY <1>0, <1>2, AddIs
<1>5. /\ u \in Table(Hall)
      /\ \A q \in Hall : q # s => u[q] = t[q]
      /\ u[s].at = "sent"
      /\ u[s].pending = t[s].pending
  <2>1. PICK l \in Places : l = "sent"
    BY Names
  <2>2. u = Goto(t, s, l)
    BY <1>3, <2>1
  <2> QED
    BY <1>0, <1>4, <2>1, <2>2, Went
<1>6. proc' = Kill(u, 0, "SIGUSR1")
  BY <1>1, <1>2, <1>3
<1>7. Alive(u, 0)
  <2>1. proc[0].at \notin Exited
    BY <1>1 DEF StudentInv, TeacherLast, Exited
  <2>2. proc[0].at # "unborn"
    BY DEF StudentInv, StudentType
  <2> QED
    BY <1>0, <1>4, <1>5, <2>1, <2>2 DEF Alive, Gone, Exited
<1>8. /\ proc' \in Table(Hall)
      /\ \A q \in Hall : q # 0 => proc'[q] = u[q]
      /\ proc'[0].at = u[0].at
      /\ proc'[0].pending = u[0].pending \cup {"SIGUSR1"}
  BY <1>0, <1>5, <1>6, <1>7, KillIs, Names
<1> QED
  BY <1>0, <1>1, <1>4, <1>5, <1>8, ClassIs

LEMMA PartFinished ==
    ASSUME StudentInv, NEW s \in Class, Student!FinishPart(s)
    PROVE  StudentInv'
<1>0. proc \in Table(Hall) /\ s \in Hall /\ s # 0 /\ 0 \in Hall
  BY ClassIs DEF StudentInv, StudentType
<1>1. /\ stage # 2
      /\ proc[s].at = "work"
      /\ proc' \in Table(Hall)
      /\ \A q \in Class : q # s => proc'[q] = proc[q]
      /\ proc'[s].at = "sent"
      /\ proc'[s].pending = proc[s].pending
      /\ proc'[0].at = proc[0].at
      /\ proc'[0].pending = proc[0].pending \cup {"SIGUSR1"}
      /\ IF "SIGUSR1" \in proc[0].pending THEN si_pid' = si_pid ELSE si_pid' = s
      /\ UNCHANGED <<stage, active_students, last_student_pid, results>>
  BY PartSent
<1>2. StudentType'
  BY <1>0, <1>1, ClassIs DEF StudentInv, StudentType, AtDesk
<1>3. StudentMail'
  BY <1>0, <1>1, ClassIs DEF StudentInv, StudentMail, StudentType
<1>4. TeacherLast'
  BY <1>0, <1>1, ClassIs DEF StudentInv, TeacherLast, Exited
<1>5. StudentCount'
  BY <1>1, CountStays, ClassIs DEF StudentInv
<1> QED
  BY <1>2, <1>3, <1>4, <1>5 DEF StudentInv

\* A student takes the answer, and works on or exits, which the teacher is told.
LEMMA AnswerTaken ==
    ASSUME StudentInv, NEW s \in Class, Student!Accepted(s)
    PROVE  /\ proc[s].at = "sent" /\ "SIGUSR2" \in proc[s].pending
           /\ proc' \in Table(Hall)
           /\ \A q \in Class : q # s => proc'[q] = proc[q]
           /\ proc'[s].at \in {"work", "left"}
           /\ proc'[s].pending = proc[s].pending \ {"SIGUSR2"}
           /\ proc'[0].at = proc[0].at
           /\ proc[0].pending \subseteq proc'[0].pending
           /\ proc'[0].pending \subseteq proc[0].pending \cup {"SIGCHLD"}
           /\ proc'[s].at = "left" => "SIGCHLD" \in proc'[0].pending
           /\ UNCHANGED <<stage, active_students, last_student_pid, si_pid, results, lost>>
<1>0. proc \in Table(Hall) /\ s \in Hall /\ s # 0 /\ 0 \in Hall
  BY ClassIs DEF StudentInv, StudentType
<1>1. PICK t : t = Take(proc, s, {"SIGUSR2"})
  OBVIOUS
<1>2. /\ proc[s].at = "sent"
      /\ "SIGUSR2" \in proc[s].pending
      /\ \/ proc' = Goto(t, s, "work")
         \/ proc' = Kill(Goto(t, s, "left"), 0, "SIGCHLD")
      /\ UNCHANGED <<stage, active_students, last_student_pid, si_pid, results, lost>>
  BY <1>1, StudentTable DEF Student!Accepted, Student!ExitTo, Take
<1>3. /\ t \in Table(Hall)
      /\ \A q \in Hall : q # s => t[q] = proc[q]
      /\ t[s].pending = proc[s].pending \ {"SIGUSR2"}
  BY <1>0, <1>1, TakeIs
<1>4. ASSUME NEW l \in {"work", "left"}, NEW u, u = Goto(t, s, l)
      PROVE  /\ u \in Table(Hall)
             /\ \A q \in Hall : q # s => u[q] = proc[q]
             /\ u[s].at = l
             /\ u[s].pending = proc[s].pending \ {"SIGUSR2"}
  <2>1. l \in Places
    BY Names
  <2> QED
    BY <1>0, <1>3, <1>4, <2>1, Went
<1>5. CASE proc' = Goto(t, s, "work")
  BY <1>0, <1>2, <1>4, <1>5, ClassIs
<1>6. CASE proc' = Kill(Goto(t, s, "left"), 0, "SIGCHLD")
  <2>1. PICK u : u = Goto(t, s, "left")
    OBVIOUS
  <2>2. /\ u \in Table(Hall)
        /\ \A q \in Hall : q # s => u[q] = proc[q]
        /\ u[s].at = "left"
        /\ u[s].pending = proc[s].pending \ {"SIGUSR2"}
    BY <1>4, <2>1
  <2>3. "SIGCHLD" \in Signals /\ proc' = Kill(u, 0, "SIGCHLD")
    BY <1>6, <2>1, Names
  <2>4. Alive(u, 0)
    <3>1. proc[0].at \notin Exited
      BY <1>2 DEF StudentInv, TeacherLast, Exited
    <3>2. proc[0].at # "unborn"
      BY DEF StudentInv, StudentType
    <3> QED
      BY <1>0, <2>2, <3>1, <3>2 DEF Alive, Gone, Exited
  <2>5. /\ proc' \in Table(Hall)
        /\ \A q \in Hall : q # 0 => proc'[q] = u[q]
        /\ proc'[0].at = u[0].at
        /\ proc'[0].pending = u[0].pending \cup {"SIGCHLD"}
    BY <1>0, <2>2, <2>3, <2>4, KillIs
  <2> QED
    BY <1>0, <1>2, <2>2, <2>5, ClassIs
<1> QED
  BY <1>2, <1>5, <1>6

LEMMA PartAccepted ==
    ASSUME StudentInv, NEW s \in Class, Student!Accepted(s)
    PROVE  StudentInv'
<1>0. proc \in Table(Hall) /\ s \in Hall /\ s # 0 /\ 0 \in Hall
  BY ClassIs DEF StudentInv, StudentType
<1>1. /\ proc[s].at = "sent"
      /\ proc' \in Table(Hall)
      /\ \A q \in Class : q # s => proc'[q] = proc[q]
      /\ proc'[s].at \in {"work", "left"}
      /\ proc'[s].pending = proc[s].pending \ {"SIGUSR2"}
      /\ proc'[0].at = proc[0].at
      /\ "SIGUSR1" \in proc'[0].pending <=> "SIGUSR1" \in proc[0].pending
      /\ "SIGUSR2" \in proc[s].pending
      /\ UNCHANGED <<stage, active_students, last_student_pid, si_pid, results>>
  BY AnswerTaken
<1>2. StudentType'
  BY <1>0, <1>1, ClassIs DEF StudentInv, StudentType, AtDesk
<1>3. StudentMail'
  BY <1>0, <1>1, ClassIs DEF StudentInv, StudentMail, StudentType
<1>4. TeacherLast'
  BY <1>0, <1>1, ClassIs DEF StudentInv, TeacherLast, Exited
<1>5. StudentCount'
  BY <1>1, CountStays, ClassIs DEF StudentInv
<1> QED
  BY <1>2, <1>3, <1>4, <1>5 DEF StudentInv

\* A student of main2.c, where nobody is asked.
LEMMA StudentWorks ==
    ASSUME StudentInv, NEW s \in Class, Student!Work2(s)
    PROVE  StudentInv'
<1>0. proc \in Table(Hall) /\ s \in Hall /\ s # 0 /\ 0 \in Hall
  BY ClassIs DEF StudentInv, StudentType
<1>1. /\ proc[s].at = "work"
      /\ proc' = proc \/ proc' = Goto(proc, s, "left")
      /\ UNCHANGED <<stage, active_students, last_student_pid, si_pid, results>>
  BY StudentTable DEF Student!Work2
<1>2. PICK l \in Places : l = "left"
  BY Names
<1>2a. PICK u : u = Goto(proc, s, l)
  OBVIOUS
<1>3. /\ u \in Table(Hall)
      /\ \A q \in Hall : q # s => u[q] = proc[q]
      /\ u[s].at = l
      /\ u[s].pending = proc[s].pending
  BY <1>0, <1>2a, Went
<1>4. /\ proc' \in Table(Hall)
      /\ \A q \in Hall : q # s => proc'[q] = proc[q]
      /\ proc'[s].at \in {"work", "left"}
      /\ proc'[s].pending = proc[s].pending
  BY <1>0, <1>1, <1>2, <1>2a, <1>3
<1>5. StudentType'
  BY <1>0, <1>1, <1>4, ClassIs DEF StudentInv, StudentType, AtDesk
<1>6. StudentMail'
  BY <1>0, <1>1, <1>4, ClassIs DEF StudentInv, StudentMail, StudentType
<1>7. TeacherLast'
  BY <1>0, <1>1, <1>4, ClassIs DEF StudentInv, TeacherLast, Exited
<1>8. StudentCount'
  BY <1>1, <1>4, CountStays, ClassIs DEF StudentInv
<1> QED
  BY <1>5, <1>6, <1>7, <1>8 DEF StudentInv

\* main2.c's teacher waits for all and leaves.
LEMMA ClassLeft ==
    ASSUME StudentInv, Student!WaitAll2
    PROVE  StudentInv'
<1>0. proc \in Table(Hall) /\ 0 \in Hall
  BY ClassIs DEF StudentInv, StudentType
<1>1. PICK t : t = Reap(proc, Class)
  OBVIOUS
<1>2. PICK l \in Places : l = "left"
  BY Names
<1>3. /\ proc[0].at = "wait"
      /\ \A s \in Class : proc[s].at \in Exited
      /\ proc' = Goto(t, 0, l)
      /\ UNCHANGED <<stage, active_students, last_student_pid, si_pid, results>>
  BY <1>1, <1>2, StudentTable DEF Student!WaitAll2, AllLeft, Exited
<1>4. stage = 2
  BY <1>3 DEF StudentInv, TeacherLast
<1>5. /\ t \in Table(Hall)
      /\ t[0] = proc[0]
      /\ \A q \in Hall : t[q].pending = proc[q].pending
      /\ \A q \in Class : t[q].at \in Exited
  <2>1. t \in Table(Hall) /\ t[0] = proc[0] /\ \A q \in Hall : t[q].pending = proc[q].pending
    BY <1>0, <1>1, ReapIs, ClassIs
  <2>2. ASSUME NEW q \in Hall
        PROVE  t[q].at = proc[q].at \/ t[q].at = "reaped"
    BY <1>0, <1>1, Reaped
  <2> QED
    BY <1>3, <2>1, <2>2, ClassIs DEF Exited
<1>6. /\ proc' \in Table(Hall)
      /\ \A q \in Hall : q # 0 => proc'[q] = t[q]
      /\ proc'[0].at = l
      /\ proc'[0].pending = t[0].pending
  BY <1>0, <1>3, <1>5, ParentWent
<1>7. StudentType'
  BY <1>0, <1>2, <1>3, <1>5, <1>6, ClassIs DEF StudentInv, StudentType, AtDesk, Exited
<1>8. StudentMail'
  <2>1. \A s \in Class : proc[s].at # "sent" /\ "SIGUSR2" \notin proc'[s].pending
    BY <1>3, <1>5, <1>6, ClassIs DEF StudentInv, StudentMail, Exited
  <2>2. last_student_pid = 0 /\ si_pid = 0
    BY <2>1, ClassIs DEF StudentInv, StudentMail, StudentType
  <2> QED
    BY <1>2, <1>3, <1>5, <1>6, <2>1, <2>2 DEF StudentInv, StudentMail
<1>9. TeacherLast'
  BY <1>2, <1>3, <1>4, <1>5, <1>6, ClassIs DEF TeacherLast
<1>10. StudentCount'
  BY <1>3, <1>4 DEF StudentCount
<1> QED
  BY <1>7, <1>8, <1>9, <1>10 DEF StudentInv

\* The teacher answers the last sender only, and sleeps again while students are counted.
LEMMA AnswerGiven ==
    ASSUME StudentInv, Student!Answer
    PROVE  /\ proc[0].at = "answer"
           /\ proc' \in Table(Hall)
           /\ \A s \in Class : proc'[s].at = proc[s].at /\ proc'[s].n = proc[s].n
           /\ \A s \in Class : s # last_student_pid => proc'[s] = proc[s]
           /\ last_student_pid \in Class => "SIGUSR2" \in proc'[last_student_pid].pending
           /\ proc'[0].at = IF active_students > 0 THEN "suspend" ELSE "left"
           /\ proc'[0].pending = proc[0].pending
           /\ last_student_pid' = 0
           /\ UNCHANGED <<stage, active_students, si_pid, results, lost>>
<1>0. proc \in Table(Hall) /\ 0 \in Hall /\ last_student_pid \in Hall
  BY ClassIs DEF StudentInv, StudentType
<1>1. PICK t : t = IF last_student_pid # 0 THEN Kill(proc, last_student_pid, "SIGUSR2") ELSE proc
  OBVIOUS
<1>2. PICK l \in {"suspend", "left"} :
         /\ l = IF active_students > 0 THEN "suspend" ELSE "left"
         /\ proc[0].at = "answer"
         /\ proc' = Goto(t, 0, l)
         /\ last_student_pid' = 0
         /\ UNCHANGED <<stage, active_students, si_pid, results, lost>>
  BY <1>1, StudentTable DEF Student!Answer, Student!StillActive
<1>3. l \in Places
  BY <1>2, Names
<1>4. /\ t \in Table(Hall)
      /\ t[0] = proc[0]
      /\ \A s \in Class : t[s].at = proc[s].at /\ t[s].n = proc[s].n
      /\ \A s \in Class : s # last_student_pid => t[s] = proc[s]
      /\ last_student_pid \in Class => "SIGUSR2" \in t[last_student_pid].pending
  <2>1. CASE last_student_pid = 0
    BY <1>0, <1>1, <2>1, ClassIs
  <2>2. CASE last_student_pid # 0
    <3>1. PICK p \in Class : p = last_student_pid
      BY <1>0, <2>2, ClassIs
    <3>2. t = Kill(proc, p, "SIGUSR2") /\ "SIGUSR2" \in Signals
      BY <1>1, <2>2, <3>1, Names
    <3>3. Alive(proc, p)
      BY <2>2, <3>1 DEF StudentInv, StudentMail, Alive, Gone
    <3>4. /\ t \in Table(Hall)
          /\ \A q \in Hall : q # p => t[q] = proc[q]
          /\ t[p].at = proc[p].at
          /\ t[p].n = proc[p].n
          /\ t[p].pending = proc[p].pending \cup {"SIGUSR2"}
      BY <1>0, <3>1, <3>2, <3>3, KillIs, ClassIs
    <3> QED
      BY <1>0, <3>1, <3>4, ClassIs
  <2> QED
    BY <2>1, <2>2
<1>5. /\ proc' \in Table(Hall)
      /\ \A q \in Hall : q # 0 => proc'[q] = t[q]
      /\ proc'[0].at = l
      /\ proc'[0].pending = t[0].pending
  BY <1>0, <1>2, <1>3, <1>4, ParentWent
<1> QED
  BY <1>2, <1>4, <1>5, ClassIs

\* Without active students the teacher leaves.
LEMMA TeacherAnswers ==
    ASSUME StudentInv, stage # 2, Student!Answer
    PROVE  StudentInv'
<1>1. /\ proc[0].at = "answer"
      /\ proc' \in Table(Hall)
      /\ \A s \in Class : proc'[s].at = proc[s].at /\ proc'[s].n = proc[s].n
      /\ \A s \in Class : s # last_student_pid => proc'[s] = proc[s]
      /\ proc'[0].at = IF active_students > 0 THEN "suspend" ELSE "left"
      /\ proc'[0].pending = proc[0].pending
      /\ last_student_pid' = 0
      /\ UNCHANGED <<stage, active_students, si_pid, results>>
  BY AnswerGiven
<1>2. StudentType'
  BY <1>1, ClassIs DEF StudentInv, StudentType, AtDesk
<1>3. StudentMail'
  <2>1. si_pid = 0 \/ si_pid \in Class
    BY ClassIs DEF StudentInv, StudentType
  <2> QED
    BY <1>1, <2>1, ClassIs DEF StudentInv, StudentMail
<1>4. StudentCount'
  BY <1>1, CountStays, ClassIs DEF StudentInv
<1>5. TeacherLast'
  <2>1. ASSUME ~ (active_students > 0) PROVE \A s \in Class : proc[s].at = "reaped"
    <3>1. Unreaped(proc) \subseteq Class /\ IsFiniteSet(Unreaped(proc))
      BY ClassIs, FS_Subset DEF Unreaped
    <3>2. Cardinality(Unreaped(proc)) \in Nat
      BY <3>1, FS_CardinalityType
    <3>3. Cardinality(Unreaped(proc)) = 0
      BY <1>1, <2>1, <3>2 DEF StudentInv, StudentCount
    <3>4. Unreaped(proc) = {}
      BY <3>1, <3>3, FS_EmptySet
    <3> QED
      BY <3>4 DEF Unreaped
  <2> QED
    BY <1>1, <2>1, ClassIs DEF TeacherLast, Exited
<1> QED
  BY <1>2, <1>3, <1>4, <1>5 DEF StudentInv

\* The teacher goes on from one place of sigsuspend to another: a handler of a signal in ss
\* begins, or one returns (ss is empty). Nothing happens to the students.
LEMMA TeacherTurns ==
    ASSUME proc \in Table(Hall), NEW ss, NEW l \in Places, NEW t, t = Take(proc, 0, ss),
           proc' = Goto(t, 0, l)
    PROVE  /\ proc' \in Table(Hall)
           /\ \A s \in Class : proc'[s] = proc[s]
           /\ proc'[0].at = l
           /\ proc'[0].pending = proc[0].pending \ ss
<1>0. 0 \in Hall
  BY ClassIs
<1>1. /\ t \in Table(Hall)
      /\ \A q \in Hall : q # 0 => t[q] = proc[q]
      /\ t[0].pending = proc[0].pending \ ss
  BY <1>0, TakeIs
<1>2. /\ proc' \in Table(Hall)
      /\ \A q \in Hall : q # 0 => proc'[q] = t[q]
      /\ proc'[0].at = l
      /\ proc'[0].pending = t[0].pending
  BY <1>0, <1>1, ParentWent
<1> QED
  BY <1>1, <1>2, ClassIs

\* A SIGUSR1 is handled: whoever was in last_student_pid is lost.
LEMMA SolutionNoticed ==
    ASSUME StudentInv, Student!Usr1Handler
    PROVE  /\ proc[0].at \in {"suspend", "chld"} /\ "SIGUSR1" \in proc[0].pending
           /\ proc' \in Table(Hall) /\ \A s \in Class : proc'[s] = proc[s]
           /\ proc'[0].at = IF proc[0].at = "suspend" THEN "usr1" ELSE "chld"
           /\ proc'[0].pending = proc[0].pending \ {"SIGUSR1"}
           /\ last_student_pid' = si_pid /\ si_pid' = 0
           /\ lost' = lost \cup ({last_student_pid} \ {0})
           /\ UNCHANGED <<stage, active_students, results>>
<1>1. PICK l \in {"usr1", "chld"} : l = IF proc[0].at = "suspend" THEN "usr1" ELSE "chld"
  OBVIOUS
<1>2. PICK t : t = Take(proc, 0, {"SIGUSR1"})
  OBVIOUS
<1>3. /\ proc[0].at \in {"suspend", "chld"} /\ "SIGUSR1" \in proc[0].pending
      /\ proc' = Goto(t, 0, l)
      /\ last_student_pid' = si_pid /\ si_pid' = 0
      /\ lost' = lost \cup ({last_student_pid} \ {0})
      /\ UNCHANGED <<stage, active_students, results>>
  BY <1>1, <1>2, StudentTable DEF Student!Usr1Handler, Take
<1>4. proc \in Table(Hall) /\ l \in Places
  BY <1>1, Names DEF StudentInv, StudentType
<1> QED
  BY <1>1, <1>2, <1>3, <1>4, TeacherTurns

\* The handler of SIGCHLD begins.
LEMMA ExitNoticed ==
    ASSUME StudentInv, Student!ChldHandler
    PROVE  /\ proc[0].at \in {"suspend", "usr1"}
           /\ proc' \in Table(Hall) /\ \A s \in Class : proc'[s] = proc[s]
           /\ proc'[0].at \in Collecting
           /\ proc'[0].pending = proc[0].pending \ {"SIGCHLD"}
           /\ UNCHANGED <<stage, active_students, last_student_pid, si_pid, results, lost>>
<1>1. PICK l \in Collecting : l = IF proc[0].at = "suspend" THEN "chld" ELSE "usr1chld"
  BY DEF Collecting
<1>2. PICK t : t = Take(proc, 0, {"SIGCHLD"})
  OBVIOUS
<1>3. /\ proc[0].at \in {"suspend", "usr1"}
      /\ proc' = Goto(t, 0, l)
      /\ UNCHANGED <<stage, active_students, last_student_pid, si_pid, results, lost>>
  BY <1>1, <1>2, StudentTable DEF Student!ChldHandler, Take
<1>4. proc \in Table(Hall) /\ l \in Places
  BY <1>1, Names DEF StudentInv, StudentType, Collecting
<1> QED
  BY <1>1, <1>2, <1>3, <1>4, TeacherTurns

\* A handler returns: the one of SIGCHLD when nobody else has exited.
LEMMA HandlerLeft ==
    ASSUME StudentInv, Student!HandlerReturns
    PROVE  /\ proc[0].at \in Collecting \cup {"usr1"}
           /\ proc[0].at \in Collecting => \A s \in Class : proc[s].at # "left"
           /\ proc' \in Table(Hall) /\ \A s \in Class : proc'[s] = proc[s]
           /\ proc'[0].at \in {"usr1", "answer"}
           /\ proc'[0].pending = proc[0].pending
           /\ UNCHANGED <<stage, active_students, last_student_pid, si_pid, results, lost>>
<1>1. PICK l \in {"usr1", "answer"} : l = IF proc[0].at = "usr1chld" THEN "usr1" ELSE "answer"
  OBVIOUS
<1>2. PICK t : t = proc
  OBVIOUS
<1>3. /\ proc[0].at \in Collecting \cup {"usr1"}
      /\ proc[0].at \in Collecting => \A s \in Class : proc[s].at # "left"
      /\ proc' = Goto(t, 0, l)
      /\ UNCHANGED <<stage, active_students, last_student_pid, si_pid, results, lost>>
  BY <1>1, <1>2, StudentTable DEF Student!HandlerReturns, Student!Behind, Collecting
<1>4. proc \in Table(Hall) /\ l \in Places /\ 0 \in Hall
  BY <1>1, Names, ClassIs DEF StudentInv, StudentType
<1>5. /\ proc' \in Table(Hall)
      /\ proc'[0].at = l
      /\ proc'[0].pending = t[0].pending
      /\ \A q \in Hall : q # 0 => proc'[q] = t[q]
  BY <1>2, <1>3, <1>4, ParentWent
<1> QED
  BY <1>1, <1>2, <1>3, <1>5, ClassIs

\* One waitpid of the handler's loop.
LEMMA OneCollected ==
    ASSUME StudentInv, NEW s \in Class, Student!Waitpid(s)
    PROVE  /\ proc[0].at \in Collecting /\ proc[s].at = "left"
           /\ proc' \in Table(Hall)
           /\ \A q \in Class : q # s => proc'[q] = proc[q]
           /\ proc'[s].at = "reaped" /\ proc'[s].pending = proc[s].pending
           /\ proc'[s].n = proc[s].n
           /\ proc'[0].at = proc[0].at /\ proc'[0].pending = proc[0].pending
           /\ active_students' = active_students - 1
           /\ stage = 4 => results' = Append(results, [pid |-> s, issues |-> proc[s].n % 256])
           /\ UNCHANGED <<stage, last_student_pid, si_pid, lost>>
<1>0. proc \in Table(Hall) /\ 0 \in Hall /\ s \in Hall /\ s # 0
  BY ClassIs DEF StudentInv, StudentType
<1>1. PICK t : t = Reap(proc, {s})
  OBVIOUS
<1>2. PICK l \in Collecting : proc[0].at \in Collecting => l = proc[0].at
  BY DEF Collecting
<1>3. /\ proc[0].at = l /\ proc[s].at = "left"
      /\ proc' = Goto(t, 0, l)
      /\ active_students' = active_students - 1
      /\ stage = 4 => results' = Append(results, [pid |-> s, issues |-> proc[s].n % 256])
      /\ UNCHANGED <<stage, last_student_pid, si_pid, lost>>
  BY <1>1, <1>2, StudentTable
     DEF Student!Waitpid, Student!Collect, Student!ExitStatus, Collecting
<1>4. /\ t \in Table(Hall)
      /\ \A q \in Hall : q # s => t[q] = proc[q]
      /\ t[s].at = "reaped" /\ t[s].pending = proc[s].pending /\ t[s].n = proc[s].n
  BY <1>0, <1>1, <1>3, ReapIs
<1>5. l \in Places
  BY <1>2, Names DEF Collecting
<1>6. /\ proc' \in Table(Hall)
      /\ proc'[0].at = l
      /\ proc'[0].pending = t[0].pending
      /\ \A q \in Hall : q # 0 => proc'[q] = t[q]
  BY <1>0, <1>3, <1>4, <1>5, ParentWent
<1> QED
  BY <1>0, <1>2, <1>3, <1>4, <1>6, ClassIs

\* The student waited for leaves the count, and has the next line of the table.
LEMMA CountFalls ==
    ASSUME StudentInv, NEW s \in Class, Student!Waitpid(s)
    PROVE  StudentCount'
<1>1. /\ proc[s].at = "left" /\ proc'[s].at = "reaped" /\ proc'[s].n = proc[s].n
      /\ \A q \in Class : q # s => proc'[q] = proc[q]
      /\ active_students' = active_students - 1
      /\ stage = 4 => results' = Append(results, [pid |-> s, issues |-> proc[s].n % 256])
      /\ stage' = stage
  BY OneCollected
<1>2. /\ IsFiniteSet(Unreaped(proc)) /\ IsFiniteSet(Waited(proc))
      /\ s \in Unreaped(proc) /\ s \notin Waited(proc)
  BY <1>1, ClassIs, FS_Subset DEF Unreaped, Waited
<1>3. Unreaped(proc') = Unreaped(proc) \ {s} /\ Waited(proc') = Waited(proc) \cup {s}
  BY <1>1 DEF Unreaped, Waited
<1>4. Cardinality(Unreaped(proc')) = Cardinality(Unreaped(proc)) - 1
  BY <1>2, <1>3, FS_RemoveElement
<1>5. Cardinality(Waited(proc')) = Cardinality(Waited(proc)) + 1
  BY <1>2, <1>3, FS_AddElement
<1>6. stage' # 2 => active_students' = Cardinality(Unreaped(proc'))
  BY <1>1, <1>4 DEF StudentInv, StudentCount
<1>7. ASSUME stage = 4
      PROVE  /\ results' \in Seq([pid : Class, issues : Nat])
             /\ Len(results') = Cardinality(Waited(proc'))
             /\ {results'[i].pid : i \in DOMAIN results'} = Waited(proc')
             /\ \A i \in DOMAIN results' : results'[i].issues = proc'[results'[i].pid].n % 256
  <2> DEFINE Line == [pid : Class, issues : Nat]
  <2>1. PICK e : e = [pid |-> s, issues |-> proc[s].n % 256]
    OBVIOUS
  <2>2. e \in Line /\ e.pid = s /\ e.issues = proc[s].n % 256
    <3>1. proc[s].n \in Nat
      BY ClassIs DEF StudentInv, StudentType, Table, Process
    <3> QED
      BY <2>1, <3>1
  <2>3. /\ results \in Seq(Line) /\ Len(results) = Cardinality(Waited(proc))
        /\ {results[i].pid : i \in DOMAIN results} = Waited(proc)
        /\ \A i \in DOMAIN results : results[i].issues = proc[results[i].pid].n % 256
    BY <1>7 DEF StudentInv, StudentCount
  <2> HIDE DEF Line
  <2>4. PICK k \in Nat : k = Len(results)
    BY <2>3
  <2>5. /\ results' \in Seq(Line) /\ Len(results') = k + 1
        /\ DOMAIN results = 1 .. k /\ DOMAIN results' = 1 .. k + 1
        /\ \A i \in 1 .. k : results'[i] = results[i]
        /\ results'[k + 1] = e
    BY <1>1, <1>7, <2>1, <2>2, <2>3, <2>4
  <2>6. {results'[i].pid : i \in DOMAIN results'} = Waited(proc) \cup {s}
    <3>1. \A i \in 1 .. k + 1 : i \in 1 .. k \/ i = k + 1
      OBVIOUS
    <3>2. ASSUME NEW i \in DOMAIN results' PROVE results'[i].pid \in Waited(proc) \cup {s}
      BY <2>2, <2>3, <2>5, <3>1
    <3>3. ASSUME NEW q \in Waited(proc) PROVE \E i \in DOMAIN results' : results'[i].pid = q
      <4>1. PICK i \in 1 .. k : results[i].pid = q
        BY <2>3, <2>5
      <4>2. i \in 1 .. k + 1
        OBVIOUS
      <4> QED
        BY <2>5, <4>1, <4>2
    <3>4. \E i \in DOMAIN results' : results'[i].pid = s
      <4>1. k + 1 \in 1 .. k + 1
        OBVIOUS
      <4> QED
        BY <2>2, <2>5, <4>1
    <3> QED
      BY <3>2, <3>3, <3>4
  <2>7. ASSUME NEW i \in DOMAIN results'
        PROVE  results'[i].issues = proc'[results'[i].pid].n % 256
    <3>1. CASE i = k + 1
      BY <1>1, <2>2, <2>5, <3>1
    <3>2. CASE i \in 1 .. k
      <4>1. results[i].pid \in Class /\ results[i].pid # s
        BY <1>2, <2>3, <2>5, <3>2 DEF Waited
      <4> QED
        BY <1>1, <2>3, <2>5, <3>2, <4>1
    <3> QED
      BY <2>5, <3>1, <3>2
  <2> QED
    BY <1>3, <1>5, <2>3, <2>4, <2>5, <2>6, <2>7 DEF Line
<1> QED
  BY <1>1, <1>6, <1>7 DEF StudentCount

\* Inside sigsuspend: a handler begins or returns, or its loop waits for one student.
LEMMA TeacherWakesUp ==
    ASSUME StudentInv, stage # 2, Student!TeacherWakes
    PROVE  StudentInv'
<1>0. proc \in Table(Hall) /\ 0 \in Hall /\ last_student_pid \in Hall /\ si_pid \in Hall
  BY ClassIs DEF StudentInv, StudentType
<1>1. ASSUME proc' \in Table(Hall), \A s \in Class : proc'[s] = proc[s],
             proc'[0].at \in Collecting \cup {"usr1", "answer"},
             UNCHANGED <<stage, active_students, results>>,
             last_student_pid' \in Hall, si_pid' \in Hall
      PROVE  StudentType' /\ TeacherLast' /\ StudentCount'
  <2>1. StudentCount'
    BY <1>1, CountStays DEF StudentInv
  <2> QED
    BY <1>0, <1>1, <2>1 DEF StudentInv, StudentType, TeacherLast, Exited, Collecting
<1>2. si_pid = 0 \/ si_pid \in Class
  BY <1>0, ClassIs
<1>3. CASE Student!Usr1Handler
  <2>1. /\ proc[0].at \in {"suspend", "chld"} /\ "SIGUSR1" \in proc[0].pending
        /\ proc' \in Table(Hall) /\ \A s \in Class : proc'[s] = proc[s]
        /\ proc'[0].at = IF proc[0].at = "suspend" THEN "usr1" ELSE "chld"
        /\ proc'[0].pending = proc[0].pending \ {"SIGUSR1"}
        /\ last_student_pid' = si_pid /\ si_pid' = 0
        /\ UNCHANGED <<stage, active_students, results>>
    BY <1>3, SolutionNoticed
  <2>2. StudentMail'
    BY <1>0, <1>2, <2>1 DEF StudentInv, StudentMail, Collecting
  <2> QED
    BY <1>0, <1>1, <2>1, <2>2 DEF StudentInv, Collecting
<1>4. CASE Student!ChldHandler
  <2>1. /\ proc' \in Table(Hall) /\ \A s \in Class : proc'[s] = proc[s]
        /\ proc'[0].at \in Collecting
        /\ proc'[0].pending = proc[0].pending \ {"SIGCHLD"}
        /\ UNCHANGED <<stage, active_students, last_student_pid, si_pid, results>>
    BY <1>4, ExitNoticed
  <2>2. last_student_pid = 0 \/ last_student_pid \in Class
    BY <1>0, ClassIs
  <2>3. StudentMail'
    BY <1>0, <1>2, <2>1, <2>2 DEF StudentInv, StudentMail
  <2> QED
    BY <1>0, <1>1, <2>1, <2>3 DEF StudentInv
<1>5. CASE Student!HandlerReturns
  <2>1. /\ proc' \in Table(Hall) /\ \A s \in Class : proc'[s] = proc[s]
        /\ proc'[0].at \in {"usr1", "answer"}
        /\ proc'[0].pending = proc[0].pending
        /\ UNCHANGED <<stage, active_students, last_student_pid, si_pid, results>>
    BY <1>5, HandlerLeft
  <2>2. last_student_pid = 0 \/ last_student_pid \in Class
    BY <1>0, ClassIs
  <2>3. StudentMail'
    BY <1>0, <1>2, <2>1, <2>2 DEF StudentInv, StudentMail
  <2> QED
    BY <1>0, <1>1, <2>1, <2>3 DEF StudentInv
<1>6. ASSUME NEW s \in Class, Student!Waitpid(s) PROVE StudentInv'
  <2>1. /\ proc[0].at \in Collecting /\ proc[s].at = "left"
        /\ proc' \in Table(Hall)
        /\ \A q \in Class : q # s => proc'[q] = proc[q]
        /\ proc'[s].at = "reaped" /\ proc'[s].pending = proc[s].pending
        /\ proc'[0].at = proc[0].at /\ proc'[0].pending = proc[0].pending
        /\ UNCHANGED <<stage, last_student_pid, si_pid>>
    BY <1>6, OneCollected
  <2>2. StudentType'
    BY <1>0, <2>1 DEF StudentInv, StudentType, AtDesk
  <2>3. last_student_pid = 0 \/ last_student_pid \in Class
    BY <1>0, ClassIs
  <2>4. StudentMail'
    BY <1>0, <1>2, <2>1, <2>3 DEF StudentInv, StudentMail
  <2>5. TeacherLast'
    BY <2>1 DEF TeacherLast, Exited, Collecting
  <2>6. StudentCount'
    BY <1>6, CountFalls
  <2> QED
    BY <2>2, <2>4, <2>5, <2>6 DEF StudentInv
<1> QED
  BY <1>3, <1>4, <1>5, <1>6, StudentTable DEF Student!TeacherWakes

LEMMA StudentNext == StudentInv /\ Student!Next => StudentInv'
<1> SUFFICES ASSUME StudentInv, Student!Next PROVE StudentInv'
  OBVIOUS
<1>1. \/ Student!Forked
      \/ Student!WaitAll2
      \/ stage # 2 /\ Student!TeacherWakes
      \/ stage # 2 /\ Student!Answer
      \/ \E s \in Class : \/ Student!ForkStudent(s) \/ Student!Work2(s)
                          \/ Student!FinishPart(s) \/ Student!Accepted(s)
  BY StudentTable
     DEF Student!Next, Student!Start, Student!Program2, Student!Program3, Student!Program4
<1> QED
  BY <1>1, StudentsForked, ClassLeft, TeacherWakesUp, TeacherAnswers, StudentForks, StudentWorks,
     PartFinished, PartAccepted

-----------------------------------------------------------------------------
(* The programs together *)

IInv ==
    /\ program \in {"clerk", "ring", "ping", "counter", "student"}
    /\ program = "clerk" => ClerkInv
    /\ program = "ring" => RingStage /\ RingInv
    /\ program = "ping" => PingInv
    /\ program = "counter" => CounterInv
    /\ program = "student" => StudentInv

LEMMA Initially == Init => IInv
BY ClerkInit, RingInit, PingInit, CounterInit, StudentInit DEF Init, IInv

LEMMA Unchanged == IInv /\ UNCHANGED vars => IInv'
<1> SUFFICES ASSUME IInv, UNCHANGED vars PROVE IInv'
  OBVIOUS
<1>1. /\ program' = program /\ proc' = proc /\ stage' = stage
      /\ turn' = turn /\ interrupted' = interrupted
      /\ active_students' = active_students /\ last_student_pid' = last_student_pid
      /\ si_pid' = si_pid /\ results' = results
  BY DEF vars, pingOnly, studentOnly
<1>2. ClerkInv => ClerkInv'
  BY <1>1 DEF ClerkInv
<1>3. RingStage /\ RingInv => (RingStage /\ RingInv)'
  BY <1>1 DEF RingStage, RingInv
<1>4. PingInv => PingInv'
  BY <1>1 DEF PingInv, Playing, Ended, NoBall
<1>5. CounterInv => CounterInv'
  BY <1>1 DEF CounterInv
<1>6. StudentInv => StudentInv'
  <2>1. StudentType => StudentType'
    BY <1>1 DEF StudentType
  <2>2. StudentMail => StudentMail'
    BY <1>1 DEF StudentMail
  <2>3. TeacherLast => TeacherLast'
    BY <1>1 DEF TeacherLast
  <2>4. StudentCount => StudentCount'
    BY <1>1 DEF StudentCount
  <2> QED
    BY <2>1, <2>2, <2>3, <2>4 DEF StudentInv
<1> QED
  BY <1>1, <1>2, <1>3, <1>4, <1>5, <1>6 DEF IInv

LEMMA Inductive == IInv /\ [Next]_vars => IInv'
<1>1. ASSUME IInv, ClerkStep(Clerk!Next) PROVE IInv'
  BY <1>1, ClerkNext DEF IInv, ClerkStep
<1>2. ASSUME IInv, RingStep(Ring!Next) PROVE IInv'
  <2>1. stage' = stage /\ program' = program /\ program = "ring"
    BY <1>2, RingStageStays DEF RingStep
  <2> QED
    BY <1>2, <2>1, RingNext DEF IInv, RingStep, RingStage
<1>3. ASSUME IInv, PingStep(Ping!Next) PROVE IInv'
  BY <1>3, PingNext DEF IInv, PingStep
<1>4. ASSUME IInv, CounterStep(Counter!Next) PROVE IInv'
  BY <1>4, CounterNext DEF IInv, CounterStep
<1>5. ASSUME IInv, StudentStep(Student!Next) PROVE IInv'
  BY <1>5, StudentNext DEF IInv, StudentStep
<1> QED
  BY <1>1, <1>2, <1>3, <1>4, <1>5, Unchanged DEF Next

\* The invariant of each program holds while it runs.
THEOREM Invariance == Spec => []IInv
<1> QED
  BY Initially, Inductive, PTL DEF Spec

LEMMA FamilyBottomUp ==
    ASSUME NEW n \in Nat, ParentLast(n, proc), program # "clerk"
    PROVE  LeaveBottomUp
<1>1. DOMAIN proc = Family0(n) /\ LeavesLast(proc, 0, 1 .. n)
  BY DEF ParentLast, Table
<1>2. \A p \in DOMAIN proc : At(p) = proc[p].at
  BY DEF At
<1>3. \A p : Children(p) = IF p = 0 THEN DOMAIN proc \ {0} ELSE {}
  BY DEF Children
<1>4. DOMAIN proc \ {0} \subseteq 1 .. n
  BY <1>1 DEF Family0
<1> QED
  BY <1>1, <1>2, <1>3, <1>4 DEF LeaveBottomUp, LeavesLast, Exited

\* Nobody leaves a child behind, in any of the programs whose parents wait: no
\* process has exited while a child of it still runs.
THEOREM NobodyOrphaned == Spec => []LeaveBottomUp
<1>1. ASSUME IInv PROVE LeaveBottomUp
  <2>1. CASE program = "clerk"
    <3>1. DOMAIN proc = Clerks /\ \A p \in Clerks : LeavesLast(proc, p, Subordinates[p])
      BY <1>1, <2>1 DEF IInv, ClerkInv, Table
    <3>2. \A p \in Clerks : Subordinates[p] \subseteq Clerks
      BY OfficeAssumption
    <3>3. \A p \in Clerks : At(p) = proc[p].at /\ Children(p) = Subordinates[p]
      BY <2>1, <3>1 DEF At, Children
    <3> QED
      BY <3>1, <3>2, <3>3 DEF LeaveBottomUp, LeavesLast, Exited
  <2>2. CASE program \in {"ring", "ping"} \/ (program = "counter" /\ stage # 2)
    <3>1. ParentLast(Family, proc) /\ Family \in Nat
      BY <1>1, <2>2, FamilyAssumption DEF IInv, RingInv, PingInv, CounterInv
    <3> QED
      BY <2>2, <3>1, FamilyBottomUp
  <2>3. CASE program = "counter" /\ stage = 2
    BY <2>3 DEF LeaveBottomUp
  <2>4. CASE program = "student"
    <3>1. ParentLast(Family + 1, proc) /\ Family + 1 \in Nat
      <4>1. proc \in Table(Family0(Family + 1))
        BY <1>1, <2>4, ClassIs DEF IInv, StudentInv, StudentType
      <4>2. LeavesLast(proc, 0, Class)
        BY <1>1, <2>4 DEF IInv, StudentInv, TeacherLast, LeavesLast
      <4> QED
        BY <4>1, <4>2, FamilyAssumption DEF ParentLast, Class
    <3> QED
      BY <2>4, <3>1, FamilyBottomUp
  <2> QED
    BY <1>1, <2>1, <2>2, <2>3, <2>4 DEF IInv
<1> QED
  BY <1>1, Invariance, PTL

\* One solution, one answer: every SIGUSR2 of the teacher meets a student that
\* waits in sigsuspend.
THEOREM OneAnswerEach == Spec => []AnswersOnlyWaiting
<1>1. ASSUME IInv, program = "student" PROVE Student!AnswersOnlyWaiting
  <2>1. StudentMail /\ last_student_pid \in Hall /\ si_pid \in Hall
    BY <1>1 DEF IInv, StudentInv, StudentType
  <2>2. \A s \in {last_student_pid} \ {0} : s = last_student_pid /\ s # 0
    OBVIOUS
  <2>3. \A s \in {si_pid} \ {0} : s = si_pid /\ s # 0
    OBVIOUS
  <2> QED
    BY <2>1, <2>2, <2>3, StudentTable DEF Student!AnswersOnlyWaiting, StudentMail
<1>2. IInv => AnswersOnlyWaiting
  BY <1>1 DEF AnswersOnlyWaiting
<1> QED
  BY <1>2, Invariance, PTL

\* The table the teacher prints has one line for each student with the issues of
\* that student modulo 256, however their SIGCHLDs were merged.
THEOREM TableComplete == Spec => []ResultsComplete
<1>1. ASSUME IInv, program = "student", stage = 4, proc[0].at = "left"
      PROVE  /\ Len(results) = Family + 1
             /\ {results[i].pid : i \in DOMAIN results} = Class
             /\ \A i \in DOMAIN results : results[i].issues = proc[results[i].pid].n % 256
  <2>1. \A s \in Class : proc[s].at = "reaped"
    BY <1>1 DEF IInv, StudentInv, TeacherLast, Exited
  <2>2. Waited(proc) = Class
    BY <2>1 DEF Waited
  <2> QED
    BY <1>1, <2>2, ClassIs DEF IInv, StudentInv, StudentCount
<1>2. IInv => ResultsComplete
  BY <1>1, StudentTable DEF ResultsComplete, Student!ResultsComplete
<1> QED
  BY <1>2, Invariance, PTL

\* Between the parent's SIGUSR1 and its reset there is exactly one token: no kill of
\* the game finds SIGUSR1 pending.
THEOREM OneBall == Spec => []OneBallInPlay
<1>1. ASSUME PingInv, ~interrupted, NEW sent, NEW taken,
             sent = {p \in Family0(Family) : "SIGUSR1" \in proc[p].pending},
             taken = IF proc[0].last = "SIGUSR1" THEN 1 ELSE 0
      PROVE  /\ Cardinality(sent) + taken = (IF proc[0].at = "await" THEN 1 ELSE 0)
             /\ sent \subseteq {0, turn}
  <2>0. /\ 0 \in Family0(Family) /\ turn \in Family0(Family)
        /\ \A p \in Family0(Family) : p = 0 \/ p \in 1 .. Family
    BY <1>1 DEF PingInv, Family0
  <2>1. Cardinality({}) = 0 /\ \A b : Cardinality({b}) = 1
    BY FS_EmptySet, FS_Singleton
  <2>2. CASE NoBall /\ proc[0].at # "await"
    <3>1. sent = {} /\ taken = 0
      BY <1>1, <2>2 DEF NoBall
    <3> QED
      BY <2>1, <2>2, <3>1
  <2>3. CASE /\ proc[0].at = "await" /\ proc[0].last # "SIGUSR1"
             /\ \E b \in {0, turn} :
                   \A p \in Family0(Family) : "SIGUSR1" \in proc[p].pending <=> p = b
    <3>1. PICK b \in {0, turn} :
             \A p \in Family0(Family) : "SIGUSR1" \in proc[p].pending <=> p = b
      BY <2>3
    <3>2. sent = {b} /\ taken = 0
      BY <1>1, <2>0, <2>3, <3>1
    <3>3. Cardinality(sent) = 1
      BY <2>1, <3>2
    <3>4. sent \subseteq {0, turn}
      BY <3>2
    <3> QED
      BY <2>3, <3>2, <3>3, <3>4
  <2>4. CASE /\ proc[0].at = "await" /\ proc[0].last = "SIGUSR1"
             /\ \A p \in Family0(Family) : "SIGUSR1" \notin proc[p].pending
    <3>1. sent = {} /\ taken = 1
      BY <1>1, <2>4
    <3> QED
      BY <2>1, <2>4, <3>1
  <2> QED
    BY <1>1, <2>2, <2>3, <2>4 DEF PingInv, Playing, Ended
<1>2. Ping!Procs = Family0(Family) /\ Ping!Parent = 0
  BY DEF Ping!Procs, Ping!Parent, Ping!Children, Family0
<1>3. \A z : Ping!Cardinality(z) = Cardinality(z)
  BY DEF Ping!Cardinality, Cardinality
<1>4. PingInv => Ping!OneBallInPlay
  BY <1>1, <1>2, <1>3 DEF Ping!OneBallInPlay
<1>5. IInv => OneBallInPlay
  BY <1>4 DEF IInv, OneBallInPlay
<1> QED
  BY <1>5, Invariance, PTL

-----------------------------------------------------------------------------
(* The shutdowns on their way, and the solutions *)

\* Clerks that pass on the end of the day were at the desk of sigsuspend, which they
\* reach only after all their subordinates have begun.
ClerkPlaces == {"unborn", "inspect", "suspend", "wait", "left", "reaped"}
Heard(c) == proc[c].at \in {"wait", "left", "reaped"} \/ "SIGINT" \in proc[c].pending
ClerkDay ==
    /\ stage \in {3, 4, 5}
    /\ \A c \in Clerks : proc[c].at \in ClerkPlaces
    /\ \A c \in Clerks : stage = 3 => proc[c].at # "suspend"
    /\ \A c \in Clerks : stage = 4 => proc[c].at # "wait"
    /\ \A c \in Clerks : proc[c].at \in {"suspend", "wait"} =>
          \A s \in Subordinates[c] : proc[s].at # "unborn"
    /\ \A c \in Clerks : stage # 3 /\ proc[c].at = "wait" => \A s \in Subordinates[c] \ lost : Heard(s)

\* Once the parent of the ring waits, its children hold the shutdown, pending or in
\* last_signal.
RingPlaces == {"born"} \cup Ring!Unmasked \cup Ring!Counting
RingSignal ==
    /\ proc[0].at # "fork" => \A c \in 1 .. Family : proc[c].at # "unborn"
    /\ stage = 3 => \A c \in 1 .. Family : proc[c].at \in RingPlaces \cup Gone
    /\ stage = 1 => \A c \in 1 .. Family : proc[c].at \in {"unborn", "born", "left", "reaped"}
    /\ stage = 3 => \A c \in 1 .. Family \ lost :
          /\ proc[c].at = "suspend" => proc[c].last # "SIGINT"
          /\ proc[0].at = "wait" =>
                \/ proc[c].at \in Exited
                \/ "SIGINT" \in proc[c].pending
                \/ proc[c].last = "SIGINT"

\* The same for the counters; only the parent of mian4.c (stage 4) waits for them.
CounterSignal ==
    /\ proc \in Table(Family0(Family))
    /\ \A c \in 1 .. Family : proc[c].at \in Gone \cup {"born", "sleep", "send"}
    /\ stage # 4 => proc[0].at # "wait"
    /\ proc[0].at = "wait" => \A c \in 1 .. Family \ lost :
          \/ proc[c].at \in Exited
          \/ /\ proc[c].at \in {"sleep", "send"}
             /\ "SIGUSR2" \in proc[c].pending \/ proc[c].last = "SIGUSR2"

\* Also after a Ctrl-C there is at most one ball.
PingSignal ==
    /\ \A p \in Family0(Family) : proc[p].pending \subseteq {"SIGUSR1", "SIGINT"}
    /\ \A c \in 1 .. Family : proc[c].at \in {"suspend", "left", "reaped"}
    /\ \/ proc[0].at # "await" /\ NoBall
       \/ /\ proc[0].at = "await"
          /\ proc[0].last # "SIGUSR1"
          /\ \E b \in {0, turn} :
                \A p \in Family0(Family) : "SIGUSR1" \in proc[p].pending => p = b
       \/ /\ proc[0].at = "await"
          /\ \A p \in Family0(Family) : "SIGUSR1" \notin proc[p].pending
    /\ proc[0].at = "wait" =>
          \A c \in 1 .. Family : proc[c].at \in Exited \/ "SIGINT" \in proc[c].pending

\* Where a solution is while its student waits, merged and overwritten ones excepted; and
\* while a student has exited, SIGCHLD is pending or the loop of its handler goes on.
StudentSignal ==
    /\ stage = 2 => proc[0].at # "suspend" /\ \A s \in Class : proc[s].at # "sent"
    /\ proc[0].at # "fork" => \A s \in Class : proc[s].at # "unborn"
    /\ proc[0].at # "left" => \A s \in Class \ lost :
          proc[s].at = "sent" => \/ "SIGUSR2" \in proc[s].pending
                                 \/ last_student_pid = s
                                 \/ si_pid = s
    /\ stage # 2 => \A s \in Class :
          proc[s].at = "left" => "SIGCHLD" \in proc[0].pending \/ proc[0].at \in Collecting
    /\ stage # 2 /\ proc[0].at \in {"fork", "suspend"} => \E s \in Class : proc[s].at # "reaped"

SignalInv ==
    /\ program = "clerk" => ClerkDay
    /\ program = "ring" => RingSignal
    /\ program = "counter" => CounterSignal
    /\ program = "ping" => PingSignal
    /\ program = "student" => StudentSignal

\* The signal that ends c, or the value it left in last_signal, is still there to be
\* read; or c needs none.
Ending(c) ==
    CASE program = "clerk" ->
            \/ proc[c].at = "wait"
            \/ stage = 3 /\ proc[c].at = "inspect"
            \/ stage = 5 /\ proc[c].at \in {"inspect", "suspend"} /\ "SIGINT" \in proc[c].pending
      [] program = "ring" ->
            \/ stage = 1 /\ proc[c].at = "born"
            \/ /\ stage = 3 /\ proc[c].at \in RingPlaces
               /\ \/ "SIGINT" \in proc[c].pending
                  \/ proc[c].at # "suspend" /\ proc[c].last = "SIGINT"
      [] program = "counter" ->
            /\ proc[c].at \in {"sleep", "send"}
            /\ "SIGUSR2" \in proc[c].pending \/ proc[c].last = "SIGUSR2"
      [] program = "ping" ->
            proc[c].at = "suspend" /\ "SIGINT" \in proc[c].pending /\ "SIGUSR1" \notin proc[c].pending
      [] program = "student" -> proc[c].at = "work"

ShutdownOnItsWay ==
    ~(program = "ring" /\ stage = 2) =>
        \A p \in DOMAIN proc :
            At(p) = "wait" => \A c \in Children(p) \ lost : At(c) \in Exited \/ Ending(c)

CanRun(s) ==
    \/ proc[s].at = "work"
    \/ proc[s].at = "sent" /\ "SIGUSR2" \in proc[s].pending

\* While the teacher sleeps with nothing to wake it, some student can go on, or waits for an
\* answer that will not come: its SIGUSR1 was merged or its pid overwritten.
TeacherNeeded ==
    program = "student" /\ At(0) = "suspend" /\ proc[0].pending = {} =>
        \E s \in Class : CanRun(s) \/ (proc[s].at = "sent" /\ s \in lost)

\* A signal adds to what is pending, and sigsuspend takes what it opens.
LEMMA KillGrows ==
    ASSUME NEW D, NEW t \in Table(D), NEW p, NEW s \in Signals, NEW u, u = Kill(t, p, s)
    PROVE  /\ u \in Table(D)
           /\ \A q \in D : u[q].at = t[q].at /\ u[q].last = t[q].last
           /\ \A q \in D : /\ t[q].pending \subseteq u[q].pending
                           /\ u[q].pending \subseteq t[q].pending \cup {s}
                           /\ q # p => u[q] = t[q]
BY KillIs

\* What a clerk that wakes up does concerns itself only.
LEMMA AwakeTable ==
    ASSUME proc \in Table(Clerks), NEW c \in Clerks, NEW s \in Signals, NEW t, t = Clerk!Awake(c, s)
    PROVE  /\ t \in Table(Clerks)
           /\ \A q \in Clerks : t[q].at = proc[q].at
           /\ \A q \in Clerks : q # c => t[q] = proc[q]
<1>1. PICK u : u = Suspend(proc, c, Clerk!Awaited, s)
  OBVIOUS
<1>2. u \in Table(Clerks) /\ \A q \in Clerks : q # c => u[q] = proc[q]
  BY <1>1, SuspendIs
<1>3. t = Reset(u, c)
  BY <1>1, ClerkTable DEF Clerk!Awake, Reset
<1>4. \A q \in Clerks : q # c => t[q] = u[q]
  BY <1>2, <1>3, ResetIs
<1> QED
  BY <1>2, <1>4, AwakeIs DEF SamePlaces

\* SIGINT down the tree: EndDay reaches every subordinate, and only a later signal
\* takes it away, which `lost` records.
LEMMA ClerkDayStep == ClerkInv /\ ClerkDay /\ Clerk!Next => ClerkDay'
<1> SUFFICES ASSUME ClerkInv, ClerkDay, NEW c \in Clerks,
                    \/ Clerk!Clerk3(c)
                    \/ Clerk!Loop(c)
                    \/ \E s \in {"SIGUSR2", "SIGINT"} : Clerk!UserSignal(c, s)
             PROVE  ClerkDay'
  BY DEF Clerk!Next
<1>0. /\ proc \in Table(Clerks)
      /\ \A p \in Clerks : Subordinates[p] \subseteq Clerks
      /\ 0 \in Clerks
  BY OfficeAssumption DEF ClerkInv
<1>n. /\ {"inspect", "wait", "suspend", "left"} \subseteq Places
      /\ {"SIGUSR1", "SIGUSR2", "SIGINT"} \subseteq Signals
  BY Names
\* Nobody moves, and a SIGINT that is gone was lost.
<1>1. ASSUME stage' = stage, lost \subseteq lost',
             \A q \in Clerks : proc'[q].at = proc[q].at,
             \A q \in Clerks \ lost' : "SIGINT" \in proc[q].pending => "SIGINT" \in proc'[q].pending
      PROVE  ClerkDay'
  BY <1>0, <1>1 DEF ClerkDay, Heard
<1>3. CASE Clerk!Inspect(c)
  <2>1. PICK s \in Subordinates[c] :
           proc[s].at = "unborn" /\ proc' = Fork(proc, s, "inspect") /\ stage' = stage /\ lost' = lost
    BY <1>3, ClerkTable DEF Clerk!Inspect
  <2>2. s \in Clerks /\ "inspect" \in Places
    BY <1>0, <1>n, <2>1
  <2>3. proc'[s].at = "inspect" /\ \A q \in Clerks : q # s => proc'[q] = proc[q]
    BY <1>0, <2>1, <2>2, ForkIs
  <2> QED
    BY <1>0, <2>1, <2>2, <2>3 DEF ClerkDay, ClerkPlaces, Heard
<1>4. CASE Clerk!Inspected(c)
  <2>1. PICK l \in {"wait", "suspend"} :
           /\ l = IF stage = 3 THEN "wait" ELSE "suspend"
           /\ proc' = Goto(proc, c, l)
    BY <1>4, ClerkTable DEF Clerk!Inspected
  <2>2. /\ proc[c].at = "inspect" /\ stage' = stage /\ lost' = lost
        /\ \A s \in Subordinates[c] : proc[s].at # "unborn"
    BY <1>4 DEF Clerk!Inspected
  <2>3. l \in Places
    BY <1>n, <2>1
  <2>4. /\ proc'[c].at = l /\ proc'[c].pending = proc[c].pending
        /\ \A q \in Clerks : q # c => proc'[q] = proc[q]
    BY <1>0, <2>1, <2>3, GotoIs
  <2> QED
    BY <1>0, <2>1, <2>2, <2>4 DEF ClerkDay, ClerkPlaces, Heard
<1>5. CASE Clerk!Leave(c)
  <2>1. PICK t : t = Reap(proc, Subordinates[c])
    OBVIOUS
  <2>2. proc[c].at = "wait" /\ proc' = Goto(t, c, "left") /\ stage' = stage /\ lost' = lost
    BY <1>5, <2>1, ClerkTable DEF Clerk!Leave
  <2>3. /\ t \in Table(Clerks)
        /\ \A q \in Clerks : t[q].pending = proc[q].pending
        /\ \A q \in Clerks : \/ t[q].at = proc[q].at
                             \/ proc[q].at = "left" /\ t[q].at = "reaped"
    BY <1>0, <2>1, ReapIs, Reaped
  <2>4. "left" \in Places
    BY <1>n
  <2>5. /\ proc'[c].at = "left"
        /\ proc'[c].pending = t[c].pending
        /\ \A q \in Clerks : q # c => proc'[q] = t[q]
    BY <2>2, <2>3, <2>4, GotoIs
  <2> QED
    BY <1>0, <2>2, <2>3, <2>5 DEF ClerkDay, ClerkPlaces, Heard
<1>6. CASE Clerk!TakeDocument(c)
  <2>1. PICK t : t = Clerk!Awake(c, "SIGUSR2")
    OBVIOUS
  <2>2. "SIGUSR2" \in Signals
    BY <1>n
  <2>3. /\ t \in Table(Clerks)
        /\ \A q \in Clerks : t[q].at = proc[q].at
        /\ \A q \in Clerks : q # c => t[q] = proc[q]
    BY <1>0, <2>1, <2>2, AwakeTable
  <2>4. proc' = t \/ proc' = Kill(t, Clerk!Superior(c), "SIGUSR2")
    BY <1>6, <2>1, ClerkTable DEF Clerk!TakeDocument
  <2>5. \A q \in Clerks : proc'[q].at = t[q].at /\ t[q].pending \subseteq proc'[q].pending
    BY <2>2, <2>3, <2>4, KillGrows
  <2>6. /\ stage' = stage /\ lost \subseteq lost'
        /\ "SIGINT" \in proc[c].pending => c \in lost'
    BY <1>6 DEF Clerk!TakeDocument, Clerk!Wake
  <2> QED
    BY <1>1, <2>3, <2>5, <2>6
<1>7. CASE Clerk!TakeNothing(c) /\ stage \in {4, 5}
  <2>1. PICK s \in Signals : /\ proc' = Clerk!Awake(c, s) /\ Clerk!Wake(c, s)
                             /\ stage = 5 => s # "SIGINT"
    BY <1>7 DEF Clerk!TakeNothing, Signals
  <2>2. /\ \A q \in Clerks : proc'[q].at = proc[q].at
        /\ \A q \in Clerks : q # c => proc'[q] = proc[q]
    BY <1>0, <2>1, AwakeTable
  <2>3. stage' = stage /\ lost \subseteq lost'
    BY <2>1 DEF Clerk!Wake
  <2>4. CASE stage = 5
    <3>1. "SIGINT" \in proc[c].pending => c \in lost'
      BY <2>1, <2>4 DEF Clerk!Wake
    <3> QED
      BY <1>1, <2>2, <2>3, <3>1
  <2>5. CASE stage # 5
    <3>1. stage = 4
      BY <1>7, <2>5
    <3> QED
      BY <1>0, <2>2, <2>3, <3>1 DEF ClerkDay
  <2> QED
    BY <2>4, <2>5
<1>8. CASE Clerk!EndDay(c)
  <2>1. PICK t : t = Clerk!Awake(c, "SIGINT")
    OBVIOUS
  <2>2. PICK u : u = KillAll(t, Subordinates[c], "SIGINT")
    OBVIOUS
  <2>3. /\ proc[c].at = "suspend" /\ proc' = Goto(u, c, "wait")
        /\ stage = 5 /\ stage' = stage /\ lost' = lost
    BY <1>8, <2>1, <2>2, ClerkTable DEF Clerk!EndDay, Clerk!Wake
  <2>4. "SIGINT" \in Signals /\ "wait" \in Places
    BY <1>n
  <2>5. /\ t \in Table(Clerks)
        /\ \A q \in Clerks : t[q].at = proc[q].at
        /\ \A q \in Clerks : q # c => t[q] = proc[q]
    BY <1>0, <2>1, <2>4, AwakeTable
  <2>6. /\ u \in Table(Clerks)
        /\ \A q \in Clerks : q \notin Subordinates[c] \/ ~ Alive(t, q) => u[q] = t[q]
        /\ \A q \in Clerks : u[q].at = t[q].at
        /\ \A q \in Clerks : q \in Subordinates[c] /\ Alive(t, q) =>
              u[q].pending = t[q].pending \cup {"SIGINT"}
    BY <2>2, <2>4, <2>5, KillAllIs
  <2>7. /\ proc'[c].at = "wait"
        /\ \A q \in Clerks : q # c => proc'[q] = u[q]
    BY <1>0, <2>3, <2>4, <2>6, GotoIs
  <2>8. \A q \in Clerks : q # c /\ Heard(q) =>
           proc'[q].at \in {"wait", "left", "reaped"} \/ "SIGINT" \in proc'[q].pending
    BY <2>5, <2>6, <2>7 DEF Heard
  <2>9. \A q \in Subordinates[c] : q # c =>
           proc'[q].at \in {"wait", "left", "reaped"} \/ "SIGINT" \in proc'[q].pending
    BY <1>0, <2>3, <2>5, <2>6, <2>7 DEF ClerkDay, ClerkPlaces, Alive, Gone
  <2>10. \A q \in Clerks : q # c => proc'[q].at = proc[q].at
    BY <2>5, <2>6, <2>7
  <2> QED
    BY <1>0, <2>3, <2>7, <2>8, <2>9, <2>10 DEF ClerkDay, ClerkPlaces, Heard
<1>9. ASSUME NEW s \in {"SIGUSR2", "SIGINT"}, Clerk!UserSignal(c, s) PROVE ClerkDay'
  <2>1. PICK t : t = Add(proc, 0, 1)
    OBVIOUS
  <2>2. /\ t \in Table(Clerks)
        /\ \A q \in Clerks : t[q].at = proc[q].at /\ t[q].pending = proc[q].pending
    <3>1. PICK i \in Nat : i = 1
      OBVIOUS
    <3>2. t = Add(proc, 0, i)
      BY <2>1, <3>1
    <3>3. /\ Add(proc, 0, i) \in Table(Clerks)
          /\ \A q \in Clerks : q # 0 => Add(proc, 0, i)[q] = proc[q]
          /\ Add(proc, 0, i)[0].at = proc[0].at
          /\ Add(proc, 0, i)[0].pending = proc[0].pending
      BY <1>0, AddIs
    <3> QED
      BY <3>2, <3>3
  <2>3. proc' = Kill(t, c, s) /\ stage' = stage /\ lost' = lost
    BY <1>9, <2>1, ClerkTable DEF Clerk!UserSignal, Add
  <2>4. s \in Signals
    BY <1>n
  <2>5. \A q \in Clerks : proc'[q].at = t[q].at /\ t[q].pending \subseteq proc'[q].pending
    BY <2>2, <2>3, <2>4, KillGrows
  <2> QED
    BY <1>1, <2>2, <2>3, <2>5
<1> QED
  BY <1>3, <1>4, <1>5, <1>6, <1>7, <1>8, <1>9
     DEF Clerk!Clerk3, Clerk!Loop, Clerk!Clerk4, Clerk!Clerk5

\* SIGUSR2 to the group: from then on a counter has it pending or in last_signal.
LEMMA CounterSignalStep == CounterSignal /\ Counter!Next => CounterSignal'
<1> DEFINE D == Family0(Family)
<1> SUFFICES ASSUME CounterSignal, Counter!Next PROVE CounterSignal'
  OBVIOUS
<1>0. /\ proc \in Table(D)
      /\ 0 \in D
      /\ \A c \in 1 .. Family : c \in D /\ c # 0
      /\ \A p \in D : p = 0 \/ p \in 1 .. Family
      /\ stage' = stage
  BY CounterStageStays DEF CounterSignal, Family0
<1>n. /\ {"left", "count", "wait", "born", "sleep", "send"} \subseteq Places
      /\ "SIGUSR1" \in Signals /\ "SIGUSR2" \in Signals
  BY Names
<1> HIDE DEF D
<1>d. Counter!Children = 1 .. Family /\ Counter!Parent = 0
  BY DEF Counter!Children, Counter!Parent
\* The parent goes somewhere but to wait.
<1>1. ASSUME proc' \in Table(D), proc'[0].at # "wait",
             \A c \in 1 .. Family : proc'[c].at \in Gone \cup {"born", "sleep", "send"}
      PROVE  CounterSignal'
  BY <1>0, <1>1 DEF CounterSignal, D
\* Child c goes on; the parent may hear a signal.
<1>2. ASSUME NEW c \in 1 .. Family, proc' \in Table(D), lost' = lost,
             \A q \in D : q # c => /\ proc'[q].at = proc[q].at /\ proc'[q].last = proc[q].last
                                   /\ proc[q].pending \subseteq proc'[q].pending,
             proc[c].at \in {"born", "sleep", "send"},
             proc'[c].at \in {"sleep", "send", "left"},
             "SIGUSR2" \in proc[c].pending => "SIGUSR2" \in proc'[c].pending \/ proc'[c].last = "SIGUSR2",
             proc[c].last = "SIGUSR2" => proc'[c].last = "SIGUSR2"
      PROVE  CounterSignal'
  BY <1>0, <1>2 DEF CounterSignal, D, Exited, Gone
<1>3. CASE Counter!Forked
  <2>1. PICK l \in {"left", "count"} : proc' = Goto(proc, 0, l)
    BY <1>3, <1>d, CounterTable DEF Counter!Forked
  <2>2. l \in Places
    BY <1>n, <2>1
  <2>3. proc' \in Table(D) /\ proc'[0].at = l /\ \A q \in D : q # 0 => proc'[q] = proc[q]
    BY <1>0, <2>1, <2>2, Went
  <2> QED
    BY <1>0, <1>1, <2>1, <2>3 DEF CounterSignal
<1>4. CASE Counter!Count
  <2>1. PICK t : t = Take(proc, 0, {"SIGUSR1"})
    OBVIOUS
  <2>2. t \in Table(D) /\ t[0].at = proc[0].at /\ \A q \in D : q # 0 => t[q] = proc[q]
    BY <1>0, <2>1, TakeIs
  <2>3. PICK i \in Nat : i = 1
    OBVIOUS
  <2>4. proc' = Add(t, 0, i) /\ proc[0].at = "count"
    BY <1>4, <1>d, <2>1, <2>3 DEF Counter!Count, Add, Take
  <2>5. /\ Add(t, 0, i) \in Table(D) /\ Add(t, 0, i)[0].at = t[0].at
        /\ \A q \in D : q # 0 => Add(t, 0, i)[q] = t[q]
    BY <1>0, <2>2, AddIs
  <2> QED
    BY <1>0, <1>1, <2>2, <2>4, <2>5 DEF CounterSignal
<1>5. CASE Counter!StopGroup
  <2>1. PICK t : t = KillAll(proc, Counter!Listening, "SIGUSR2")
    OBVIOUS
  <2>2. /\ proc' = Goto(t, 0, "wait") /\ stage = 4
        /\ lost' = (1 .. Family) \ Counter!Listening
    BY <1>5, <1>d, <2>1, CounterTable DEF Counter!StopGroup
  <2>3. "SIGUSR2" \in Signals /\ "wait" \in Places
    BY <1>n
  <2>4. /\ t \in Table(D)
        /\ \A q \in D : t[q].at = proc[q].at
        /\ \A q \in D : q \in Counter!Listening /\ Alive(proc, q) => t[q].pending = proc[q].pending \cup {"SIGUSR2"}
    BY <1>0, <2>1, <2>3, SentAll
  <2>5. proc' \in Table(D) /\ \A q \in D : q # 0 => proc'[q] = t[q]
    BY <1>0, <2>2, <2>3, <2>4, Went
  <2>6. ASSUME NEW c \in 1 .. Family, c \notin lost'
        PROVE  proc'[c].at \in {"sleep", "send"} /\ "SIGUSR2" \in proc'[c].pending
    <3>1. c \in Counter!Listening
      BY <2>2, <2>6
    <3>2. proc[c].at \notin {"born"} \cup Gone
      BY <3>1, CounterTable DEF Counter!Listening
    <3>3. proc[c].at \in {"sleep", "send"} /\ Alive(proc, c)
      BY <3>2 DEF CounterSignal, Alive
    <3> QED
      BY <1>0, <2>4, <2>5, <3>1, <3>3
  <2>7. \A c \in 1 .. Family : proc'[c].at = proc[c].at
    BY <1>0, <2>4, <2>5
  <2> QED
    BY <1>0, <2>2, <2>5, <2>6, <2>7 DEF CounterSignal, D
<1>6. CASE Counter!End
  <2>1. PICK t : t = Reap(proc, 1 .. Family)
    OBVIOUS
  <2>2. proc' = Goto(t, 0, "left")
    BY <1>6, <1>d, <2>1, CounterTable DEF Counter!End
  <2>3. /\ t \in Table(D)
        /\ \A q \in D : \/ t[q].at = proc[q].at
                        \/ proc[q].at = "left" /\ t[q].at = "reaped"
    BY <1>0, <2>1, Reaped
  <2>4. "left" \in Places
    BY <1>n
  <2>5. proc' \in Table(D) /\ proc'[0].at = "left" /\ \A q \in D : q # 0 => proc'[q] = t[q]
    BY <1>0, <2>2, <2>3, <2>4, Went
  <2> QED
    BY <1>0, <1>1, <2>3, <2>5 DEF CounterSignal, Gone
<1>7. ASSUME NEW c \in 1 .. Family, Counter!ForkChild(c) PROVE CounterSignal'
  <2>1. proc[0].at = "fork" /\ proc' = Fork(proc, c, "born")
    BY <1>7, <1>d, CounterTable DEF Counter!ForkChild
  <2>2. c \in D /\ c # 0 /\ "born" \in Places
    BY <1>0, <1>n
  <2>3. proc' \in Table(D) /\ proc'[c].at = "born" /\ \A q \in D : q # c => proc'[q] = proc[q]
    BY <1>0, <2>1, <2>2, ForkIs
  <2> QED
    BY <1>0, <1>1, <2>1, <2>2, <2>3 DEF CounterSignal
<1>8. ASSUME NEW c \in 1 .. Family, Counter!Listen(c) \/ Counter!Test(c) PROVE CounterSignal'
  <2>1. PICK l \in {"sleep", "left", "send"} :
           proc[c].at \in {"born", "sleep"} /\ proc' = Goto(proc, c, l) /\ lost' = lost
    BY <1>8, CounterTable DEF Counter!Listen, Counter!Test
  <2>2. c \in D /\ l \in Places
    BY <1>0, <1>n
  <2>3. /\ proc' \in Table(D) /\ proc'[c].at = l
        /\ proc'[c].last = proc[c].last /\ proc'[c].pending = proc[c].pending
        /\ \A q \in D : q # c => proc'[q] = proc[q]
    BY <1>0, <2>1, <2>2, Went
  <2> QED
    BY <1>2, <2>1, <2>3
<1>9. ASSUME NEW c \in 1 .. Family, Counter!Stop(c) PROVE CounterSignal'
  <2>1. proc' = Handle(proc, c, "SIGUSR2") /\ lost' = lost /\ proc[c].at \in {"sleep", "send"}
    BY <1>9, CounterTable DEF Counter!Stop
  <2>2. c \in D /\ "SIGUSR2" \in Signals
    BY <1>0, <1>n
  <2>3. /\ proc' \in Table(D) /\ proc'[c].at = proc[c].at
        /\ proc'[c].last = "SIGUSR2"
        /\ \A q \in D : q # c => proc'[q] = proc[q]
    BY <1>0, <2>1, <2>2, HandleIs
  <2> QED
    BY <1>2, <2>1, <2>3
<1>10. ASSUME NEW c \in 1 .. Family, Counter!Send(c) PROVE CounterSignal'
  <2>1. PICK t : t = Kill(proc, 0, "SIGUSR1")
    OBVIOUS
  <2>2. PICK l \in {"left", "sleep"} : proc[c].at = "send" /\ proc' = Goto(t, c, l) /\ lost' = lost
    BY <1>10, <1>d, <2>1, CounterTable DEF Counter!Send
  <2>3. c \in D /\ l \in Places /\ "SIGUSR1" \in Signals
    BY <1>0, <1>n
  <2>4. /\ t \in Table(D)
        /\ \A q \in D : t[q].at = proc[q].at /\ t[q].last = proc[q].last
        /\ \A q \in D : proc[q].pending \subseteq t[q].pending
    BY <1>0, <2>1, <2>3, KillGrows
  <2>5. /\ proc' \in Table(D) /\ proc'[c].at = l
        /\ proc'[c].last = t[c].last /\ proc'[c].pending = t[c].pending
        /\ \A q \in D : q # c => proc'[q] = t[q]
    BY <2>2, <2>3, <2>4, Went
  <2> QED
    BY <1>2, <2>2, <2>3, <2>4, <2>5
<1>11. ASSUME NEW c \in 1 .. Family, Counter!SendBurst(c) PROVE CounterSignal'
  <2>1. PICK t : t = Add(proc, c, 1)
    OBVIOUS
  <2>2. PICK u : u = Kill(t, 0, "SIGUSR1")
    OBVIOUS
  <2>3. proc[c].at = "sleep" /\ (proc' = Goto(u, c, "left") \/ proc' = u) /\ lost' = lost
    BY <1>11, <1>d, <2>1, <2>2, CounterTable DEF Counter!SendBurst, Add
  <2>4. c \in D /\ "left" \in Places /\ "SIGUSR1" \in Signals
    BY <1>0, <1>n
  <2>5. /\ t \in Table(D)
        /\ \A q \in D : t[q].at = proc[q].at /\ t[q].last = proc[q].last /\ t[q].pending = proc[q].pending
    <3>1. PICK i \in Nat : i = 1
      OBVIOUS
    <3>2. t = Add(proc, c, i)
      BY <2>1, <3>1
    <3>3. /\ Add(proc, c, i) \in Table(D)
          /\ \A q \in D : q # c => Add(proc, c, i)[q] = proc[q]
          /\ Add(proc, c, i)[c].at = proc[c].at
          /\ Add(proc, c, i)[c].last = proc[c].last
          /\ Add(proc, c, i)[c].pending = proc[c].pending
      BY <1>0, <2>4, AddIs
    <3> QED
      BY <3>2, <3>3
  <2>6. /\ u \in Table(D)
        /\ \A q \in D : u[q].at = t[q].at /\ u[q].last = t[q].last
        /\ \A q \in D : t[q].pending \subseteq u[q].pending
    BY <2>2, <2>4, <2>5, KillGrows
  <2>7. ASSUME proc' = Goto(u, c, "left") PROVE CounterSignal'
    <3>1. /\ proc' \in Table(D) /\ proc'[c].at = "left"
          /\ proc'[c].last = u[c].last /\ proc'[c].pending = u[c].pending
          /\ \A q \in D : q # c => proc'[q] = u[q]
      BY <2>4, <2>6, <2>7, Went
    <3> QED
      BY <1>2, <2>3, <2>4, <2>5, <2>6, <3>1
  <2>8. ASSUME proc' = u PROVE CounterSignal'
    BY <1>2, <2>3, <2>4, <2>5, <2>6, <2>8
  <2> QED
    BY <2>3, <2>7, <2>8
<1>12. ASSUME proc' = Goto(proc, 0, "left") PROVE CounterSignal'
  <2>1. "left" \in Places
    BY <1>n
  <2>2. proc' \in Table(D) /\ proc'[0].at = "left" /\ \A q \in D : q # 0 => proc'[q] = proc[q]
    BY <1>0, <1>12, <2>1, Went
  <2> QED
    BY <1>0, <1>1, <2>2 DEF CounterSignal
<1> QED
  BY <1>3, <1>4, <1>5, <1>6, <1>7, <1>8, <1>9, <1>10, <1>11, <1>12, <1>d, CounterTable
     DEF Counter!Next, Counter!Start, Counter!Program2, Counter!Program3, Counter!Program4

\* SIGINT to the ring: a child loses it only where it blocks its signals and enters
\* sigsuspend with last_signal unread.
LEMMA RingSignalStep == RingStage /\ RingInv /\ RingSignal /\ Ring!Next => RingSignal'
<1> DEFINE D == Family0(Family)
<1> SUFFICES ASSUME RingStage, RingInv, RingSignal, Ring!Next PROVE RingSignal'
  OBVIOUS
<1>0. /\ proc \in Table(D)
      /\ 0 \in D
      /\ \A c \in 1 .. Family : c \in D /\ c # 0
      /\ stage' = stage /\ stage \in {1, 2, 3}
  BY RingStageStays DEF RingStage, RingInv, ParentLast, Family0
<1>n. /\ RingPlaces \subseteq Places
      /\ {"wait", "suspend", "decide", "switch", "left", "born", "run", "test"} \subseteq Places
      /\ Signals = {"SIGUSR1", "SIGUSR2", "SIGINT", "SIGCHLD"}
  BY Names DEF RingPlaces, Ring!Unmasked, Ring!Counting, Signals
<1> HIDE DEF D
<1>d. Ring!Children = 1 .. Family /\ Ring!Parent = 0
  BY DEF Ring!Children, Ring!Parent
\* The parent goes on, and sends some signal.
<1>1. ASSUME lost' = lost,
             proc[0].at = "fork" /\ proc'[0].at # "fork" => \A c \in 1 .. Family : proc[c].at # "unborn",
             stage = 3 /\ proc'[0].at = "wait" => proc[0].at = "wait",
             \A c \in 1 .. Family : /\ proc'[c].at = proc[c].at
                                    /\ proc'[c].last = proc[c].last
                                    /\ proc[c].pending \subseteq proc'[c].pending
      PROVE  RingSignal'
  BY <1>0, <1>1 DEF RingSignal
<1>2. ASSUME NEW u \in Table(D), NEW l \in {"wait", "suspend", "decide", "switch", "left"}, proc' = Goto(u, 0, l)
      PROVE  proc'[0].at = l /\ \A c \in 1 .. Family : proc'[c] = u[c]
  <2>1. l \in Places
    BY <1>n
  <2> QED
    BY <1>0, <1>2, <2>1, ParentWent
\* Child c goes on (stage 3).
<1>3. ASSUME NEW c \in 1 .. Family, stage = 3, lost \subseteq lost',
             proc[c].at \in RingPlaces,
             \A q \in D : q # c => proc'[q] = proc[q],
             proc'[c].at \in RingPlaces \cup {"left"},
             c \notin lost' => /\ proc'[c].at = "suspend" => proc'[c].last # "SIGINT"
                               /\ "SIGINT" \in proc[c].pending => \/ "SIGINT" \in proc'[c].pending
                                                                  \/ proc'[c].last = "SIGINT"
                               /\ proc[c].last = "SIGINT" => proc'[c].last = "SIGINT"
      PROVE  RingSignal'
  <2>1. proc'[0] = proc[0]
    BY <1>0, <1>3
  <2>2. proc'[c].at \notin {"unborn"} /\ proc'[c].at \in RingPlaces \cup Gone /\ proc[c].at \notin Exited
    BY <1>3 DEF RingPlaces, Ring!Unmasked, Ring!Counting, Gone, Exited
  <2>3. \A q \in 1 .. Family : q # c => proc'[q] = proc[q]
    BY <1>0, <1>3
  <2> HIDE DEF RingPlaces
  <2> QED
    BY <1>0, <1>3, <2>1, <2>2, <2>3 DEF RingSignal
\* The parent
<1>4. CASE Ring!StartFirst
  <2>1. PICK u \in {proc, Kill(proc, 1, "SIGUSR1")}, l \in {"wait", "suspend"} :
           proc[0].at = "fork" /\ proc' = Goto(u, 0, l) /\ (stage = 3 => l = "suspend")
    <3>1. proc[0].at = "fork"
      BY <1>4, <1>d DEF Ring!StartFirst
    <3>2. CASE stage = 1
      <4>1. proc' = Goto(proc, 0, "wait")
        BY <1>4, <3>2, RingTable DEF Ring!StartFirst, Ring!ParentGoes, Ring!Parent
      <4> QED
        BY <3>1, <3>2, <4>1
    <3>3. CASE stage = 2
      <4>1. proc' = Goto(Kill(proc, 1, "SIGUSR1"), 0, "wait")
        BY <1>4, <3>3, RingTable DEF Ring!StartFirst, Ring!ParentGoes, Ring!Parent
      <4> QED
        BY <3>1, <3>3, <4>1
    <3>4. CASE stage = 3
      <4>1. proc' = Goto(Kill(proc, 1, "SIGUSR1"), 0, "suspend")
        BY <1>4, <3>4, RingTable DEF Ring!StartFirst, Ring!ParentGoes, Ring!Parent
      <4> QED
        BY <3>1, <3>4, <4>1
    <3> QED
      BY <1>0, <3>2, <3>3, <3>4
  <2>2. /\ u \in Table(D)
        /\ \A q \in D : u[q].at = proc[q].at /\ u[q].last = proc[q].last
        /\ \A q \in D : proc[q].pending \subseteq u[q].pending
    BY <1>0, <1>n, <2>1, KillGrows
  <2>3. lost' = lost /\ \A c \in 1 .. Family : proc[c].at # "unborn"
    BY <1>4, <1>d DEF Ring!StartFirst
  <2> QED
    BY <1>0, <1>1, <1>2, <2>1, <2>2, <2>3
<1>5. CASE Ring!ParentWakes
  <2>1. PICK s \in proc[0].pending :
           /\ proc[0].at = "suspend" /\ lost' = lost
           /\ proc' = Goto(Suspend(proc, 0, Signals, s), 0, "decide")
    BY <1>5, RingTable DEF Ring!ParentWakes, Ring!ParentGoes, Ring!Parent
  <2>2. s \in Signals
    BY <1>0 DEF Table, Process
  <2>3. PICK u : u = Suspend(proc, 0, Signals, s)
    OBVIOUS
  <2>4. u \in Table(D) /\ \A q \in D : q # 0 => u[q] = proc[q]
    BY <1>0, <2>2, <2>3, SuspendIs
  <2> QED
    BY <1>0, <1>1, <1>2, <2>1, <2>3, <2>4
<1>6. CASE Ring!Shutdown
  <2>1. PICK u : u = KillAll(proc, 1 .. Family, "SIGINT")
    OBVIOUS
  <2>2. proc[0].at = "decide" /\ proc' = Goto(u, 0, "wait") /\ lost' = lost
    BY <1>6, <2>1, RingTable DEF Ring!Shutdown, Ring!ParentGoes, Ring!Parent, Ring!Children
  <2>3. /\ u \in Table(D)
        /\ \A q \in D : u[q].at = proc[q].at /\ u[q].last = proc[q].last
        /\ \A q \in D : q \in 1 .. Family /\ Alive(proc, q) => "SIGINT" \in u[q].pending
    <3>1. "SIGINT" \in Signals
      BY <1>n
    <3>2. u \in Table(D) /\ \A q \in D : u[q].at = proc[q].at /\ u[q].last = proc[q].last
      BY <1>0, <2>1, <3>1, SentAll
    <3>3. ASSUME NEW q \in D, q \in 1 .. Family, Alive(proc, q) PROVE "SIGINT" \in u[q].pending
      <4>1. PICK ps : ps = 1 .. Family
        OBVIOUS
      <4>2. u = KillAll(proc, ps, "SIGINT") /\ q \in ps
        BY <2>1, <3>3, <4>1
      <4>3. \A p \in D : p \in ps /\ Alive(proc, p) => u[p].pending = proc[p].pending \cup {"SIGINT"}
        BY <1>0, <3>1, <4>2, SentAll
      <4> QED
        BY <3>3, <4>2, <4>3
    <3> QED
      BY <3>2, <3>3
  <2>4. proc'[0].at = "wait" /\ \A c \in 1 .. Family : proc'[c] = u[c]
    BY <1>2, <2>2, <2>3
  <2>5. \A c \in 1 .. Family : proc[c].at \in Exited \/ "SIGINT" \in proc'[c].pending
    BY <1>0, <2>2, <2>3, <2>4 DEF RingSignal, Alive, Gone, Exited
  <2> QED
    BY <1>0, <2>2, <2>3, <2>4, <2>5 DEF RingSignal
<1>7. CASE Ring!StopCurrent
  <2>1. PICK u : u = Kill(proc, current_child, "SIGUSR2")
    OBVIOUS
  <2>2. proc[0].at = "decide" /\ proc' = Goto(u, 0, "switch") /\ lost' = lost
    BY <1>7, <2>1, RingTable DEF Ring!StopCurrent, Ring!ParentGoes, Ring!Parent
  <2>3. /\ u \in Table(D)
        /\ \A q \in D : u[q].at = proc[q].at /\ u[q].last = proc[q].last
        /\ \A q \in D : proc[q].pending \subseteq u[q].pending
    BY <1>0, <1>n, <2>1, KillGrows
  <2> QED
    BY <1>0, <1>1, <1>2, <2>2, <2>3
<1>8. CASE Ring!StartNext
  <2>1. PICK t : t = Kill(proc, current_child, "SIGUSR1")
    OBVIOUS
  <2>2. PICK u : u = Reset(t, 0)
    OBVIOUS
  <2>3. proc[0].at = "switch" /\ proc' = Goto(u, 0, "suspend") /\ lost' = lost
    BY <1>8, <2>1, <2>2, RingTable DEF Ring!StartNext, Ring!ParentGoes, Ring!Parent, Reset
  <2>4. /\ t \in Table(D)
        /\ \A q \in D : t[q].at = proc[q].at /\ t[q].last = proc[q].last
        /\ \A q \in D : proc[q].pending \subseteq t[q].pending
    BY <1>0, <1>n, <2>1, KillGrows
  <2>5. u \in Table(D) /\ \A q \in D : q # 0 => u[q] = t[q]
    BY <1>0, <2>2, <2>4, ResetIs
  <2> QED
    BY <1>0, <1>1, <1>2, <2>3, <2>4, <2>5
<1>9. CASE Ring!End
  <2>1. PICK u : u = Reap(proc, 1 .. Family)
    OBVIOUS
  <2>2. proc[0].at = "wait" /\ proc' = Goto(u, 0, "left") /\ lost' = lost
    BY <1>9, <2>1, RingTable DEF Ring!End, Ring!ParentGoes, Ring!Parent, Ring!Children
  <2>3. /\ u \in Table(D)
        /\ \A q \in D : u[q].last = proc[q].last
        /\ \A q \in D : \/ u[q].at = proc[q].at
                        \/ proc[q].at = "left" /\ u[q].at = "reaped"
    BY <1>0, <2>1, ReapIs, Reaped
  <2>4. proc'[0].at = "left" /\ \A c \in 1 .. Family : proc'[c] = u[c]
    BY <1>2, <2>2, <2>3
  <2> QED
    BY <1>0, <2>2, <2>3, <2>4 DEF RingSignal, Gone
<1>10. CASE Ring!UserSignal
  <2>1. PICK t : t = Add(proc, 0, 1)
    OBVIOUS
  <2>2. proc' \in {Kill(t, 0, "SIGUSR1"), KillAll(t, Ring!Procs, "SIGINT")} /\ lost' = lost
    BY <1>10, <2>1, RingTable DEF Ring!UserSignal, Ring!Parent, Add
  <2>3. t \in Table(D) /\ t[0].at = proc[0].at /\ \A q \in D : q # 0 => t[q] = proc[q]
    <3>1. PICK i \in Nat : i = 1
      OBVIOUS
    <3>2. t = Add(proc, 0, i)
      BY <2>1, <3>1
    <3>3. /\ Add(proc, 0, i) \in Table(D)
          /\ \A q \in D : q # 0 => Add(proc, 0, i)[q] = proc[q]
          /\ Add(proc, 0, i)[0].at = proc[0].at
      BY <1>0, AddIs
    <3> QED
      BY <3>2, <3>3
  <2>4. \A q \in D : /\ proc'[q].at = t[q].at /\ proc'[q].last = t[q].last
                     /\ t[q].pending \subseteq proc'[q].pending
    <3>1. "SIGUSR1" \in Signals /\ "SIGINT" \in Signals
      BY <1>n
    <3>2. CASE proc' = Kill(t, 0, "SIGUSR1")
      BY <2>3, <3>1, <3>2, KillGrows
    <3>3. CASE proc' = KillAll(t, Ring!Procs, "SIGINT")
      <4>1. ASSUME NEW q \in D
            PROVE  /\ proc'[q].at = t[q].at /\ proc'[q].last = t[q].last
                   /\ proc'[q] = t[q] \/ proc'[q].pending = t[q].pending \cup {"SIGINT"}
        BY <2>3, <3>1, <3>3, SentAll
      <4> QED
        BY <4>1
    <3> QED
      BY <2>2, <3>2, <3>3
  <2> QED
    BY <1>0, <1>1, <2>2, <2>3, <2>4
\* The children
<1>11. ASSUME NEW c \in 1 .. Family, Ring!ForkChild(c) PROVE RingSignal'
  <2>1. proc[0].at = "fork" /\ proc' = Fork(proc, c, "born") /\ lost' = lost
    BY <1>11, <1>d, RingTable DEF Ring!ForkChild
  <2>2. c \in D /\ "born" \in Places
    BY <1>0, <1>n
  <2>3. proc'[c].at = "born" /\ \A q \in D : q # c => proc'[q] = proc[q]
    BY <1>0, <2>1, <2>2, ForkIs
  <2>4. "born" \in RingPlaces
    BY DEF RingPlaces
  <2> QED
    BY <1>0, <2>1, <2>3, <2>4 DEF RingSignal
<1>12. ASSUME NEW c \in 1 .. Family, Ring!Deliver(c) PROVE RingSignal'
  <2>1. PICK s \in proc[c].pending :
           /\ proc[c].at \in Ring!Unmasked \cup Ring!Counting
           /\ proc' = IF proc[c].at = "suspend" THEN Goto(Handle(proc, c, s), c, "test")
                                                ELSE Handle(proc, c, s)
    BY <1>12, RingTable DEF Ring!Deliver
  <2>2. /\ stage = 3 /\ lost \subseteq lost'
        /\ proc[c].last = "SIGINT" => proc'[c].last = "SIGINT" \/ c \in lost'
    BY <1>12 DEF Ring!Deliver, Ring!Overwrites
  <2>3. s \in Signals /\ c \in D /\ "test" \in Places
    BY <1>0, <1>n DEF Table, Process
  <2>4. PICK t : t = Handle(proc, c, s)
    OBVIOUS
  <2>5. /\ t \in Table(D) /\ t[c].at = proc[c].at /\ t[c].last = s
        /\ t[c].pending = proc[c].pending \ {s}
        /\ \A q \in D : q # c => t[q] = proc[q]
    BY <1>0, <2>3, <2>4, HandleIs
  <2>6. /\ proc'[c].last = s /\ proc'[c].pending = proc[c].pending \ {s}
        /\ proc'[c].at = IF proc[c].at = "suspend" THEN "test" ELSE proc[c].at
        /\ \A q \in D : q # c => proc'[q] = proc[q]
    <3>1. CASE proc[c].at = "suspend"
      <4>1. PICK u : u = Goto(t, c, "test")
        OBVIOUS
      <4>2. /\ u[c].at = "test" /\ u[c].last = t[c].last /\ u[c].pending = t[c].pending
            /\ \A q \in D : q # c => u[q] = t[q]
        BY <2>3, <2>5, <4>1, Went
      <4> QED
        BY <2>1, <2>4, <2>5, <3>1, <4>1, <4>2
    <3>2. CASE proc[c].at # "suspend"
      BY <2>1, <2>4, <2>5, <3>2
    <3> QED
      BY <3>1, <3>2
  <2>7. "test" \in RingPlaces /\ proc[c].at \in RingPlaces
    BY <2>1 DEF RingPlaces, Ring!Unmasked
  <2> QED
    BY <1>3, <2>2, <2>6, <2>7
<1>13. ASSUME NEW c \in 1 .. Family,
              Ring!Child1(c) \/ Ring!Child2(c) \/ Ring!Child3(c)
       PROVE  RingSignal'
  <2>1. c \in D /\ c # 0
    BY <1>0
  <2>2. ASSUME NEW from, NEW to, Ring!ChildGoes(c, from, to),
               from \in RingPlaces, to \in RingPlaces \cup {"left"}, to # "suspend"
        PROVE  RingSignal'
    <3>1. proc[c].at = from /\ proc' = Goto(proc, c, to) /\ stage = 3 /\ lost' = lost
      BY <2>2, RingTable DEF Ring!ChildGoes
    <3>2. to \in Places
      BY <1>n, <2>2
    <3>3. /\ proc'[c].at = to /\ proc'[c].last = proc[c].last /\ proc'[c].pending = proc[c].pending
          /\ \A q \in D : q # c => proc'[q] = proc[q]
      BY <1>0, <2>1, <3>1, <3>2, Went
    <3> QED
      BY <1>3, <2>2, <3>1, <3>3
  <2>3. ASSUME NEW from, NEW to, Ring!Clears(c, from, to),
               from \in RingPlaces, to \in RingPlaces, to # "suspend"
        PROVE  RingSignal'
    <3>1. PICK t : t = Reset(proc, c)
      OBVIOUS
    <3>2. /\ proc[c].at = from /\ proc' = Goto(t, c, to) /\ stage = 3 /\ lost \subseteq lost'
          /\ proc[c].last = "SIGINT" => proc'[c].last = "SIGINT" \/ c \in lost'
      BY <2>3, <3>1, RingTable DEF Ring!Clears, Ring!Overwrites, Reset
    <3>3. to \in Places
      BY <1>n, <2>3
    <3>4. /\ t \in Table(D) /\ t[c].pending = proc[c].pending
          /\ \A q \in D : q # c => t[q] = proc[q]
      BY <1>0, <2>1, <3>1, ResetIs
    <3>5. /\ proc'[c].at = to /\ proc'[c].pending = t[c].pending
          /\ \A q \in D : q # c => proc'[q] = t[q]
      BY <2>1, <3>2, <3>3, <3>4, Went
    <3> QED
      BY <1>3, <2>3, <3>2, <3>4, <3>5
  <2>p. {"born", "unmask", "test", "look", "enter", "suspend", "clear", "block", "run", "stopping", "check"} \subseteq RingPlaces
    BY DEF RingPlaces, Ring!Unmasked, Ring!Counting
  <2>4. CASE Ring!Child1(c)
    <3>1. stage = 1 /\ proc[c].at = "born" /\ proc' = Goto(proc, c, "left") /\ lost' = lost
      BY <2>4, RingTable DEF Ring!Child1
    <3>2. "left" \in Places
      BY <1>n
    <3>3. proc'[c].at = "left" /\ \A q \in D : q # c => proc'[q] = proc[q]
      BY <1>0, <2>1, <3>1, <3>2, Went
    <3> QED
      BY <1>0, <3>1, <3>3 DEF RingSignal
  <2>5. CASE Ring!Child2(c)
    <3>1. PICK t : t = Suspend(proc, c, {"SIGUSR1"}, "SIGUSR1")
      OBVIOUS
    <3>2. stage = 2 /\ proc' = Goto(t, c, "run") /\ lost' = lost
      BY <2>5, <3>1, RingTable DEF Ring!Child2
    <3>3. "run" \in Places /\ "SIGUSR1" \in Signals
      BY <1>n
    <3>4. t \in Table(D) /\ \A q \in D : q # c => t[q] = proc[q]
      BY <1>0, <2>1, <3>1, <3>3, SuspendIs
    <3>5. proc'[c].at = "run" /\ \A q \in D : q # c => proc'[q] = t[q]
      BY <2>1, <3>2, <3>3, <3>4, Went
    <3> QED
      BY <1>0, <3>2, <3>4, <3>5 DEF RingSignal
  <2>6. CASE Ring!SetUp(c) \/ Ring!Unmask(c)
    BY <2>2, <2>6, <2>p DEF Ring!SetUp, Ring!Unmask
  <2>7. CASE Ring!Test(c)
    <3>1. \/ \E l \in {"clear", "look"} : Ring!ChildGoes(c, "test", l)
          \/ \E l \in {"left", "enter"} : Ring!ChildGoes(c, "look", l)
      BY <2>7 DEF Ring!Test
    <3> QED
      BY <2>2, <2>p, <3>1
  <2>8. CASE Ring!Enter(c)
    <3>1. /\ proc[c].at = "enter" /\ proc' = Goto(proc, c, "suspend") /\ stage = 3 /\ lost \subseteq lost'
          /\ proc[c].last = "SIGINT" => c \in lost'
      BY <2>8, RingTable DEF Ring!Enter
    <3>2. "suspend" \in Places
      BY <1>n
    <3>3. /\ proc'[c].at = "suspend" /\ proc'[c].last = proc[c].last /\ proc'[c].pending = proc[c].pending
          /\ \A q \in D : q # c => proc'[q] = proc[q]
      BY <1>0, <2>1, <3>1, <3>2, Went
    <3> QED
      BY <1>3, <2>p, <3>1, <3>3
  <2>9. CASE Ring!Activate(c)
    BY <2>2, <2>3, <2>9, <2>p DEF Ring!Activate
  <2>10. CASE Ring!Count(c)
    <3>1. \/ \E l \in {"stopping", "check"} : Ring!ChildGoes(c, "run", l)
          \/ \E l \in {"left", "run"} : Ring!ChildGoes(c, "check", l)
      BY <2>10 DEF Ring!Count
    <3> QED
      BY <2>2, <2>p, <3>1
  <2>11. CASE Ring!StopCounting(c)
    BY <2>3, <2>11, <2>p DEF Ring!StopCounting
  <2> QED
    BY <1>13, <2>4, <2>5, <2>6, <2>7, <2>8, <2>9, <2>10, <2>11 DEF Ring!Child3
<1> QED
  BY <1>4, <1>5, <1>6, <1>7, <1>8, <1>9, <1>10, <1>11, <1>12, <1>13, <1>d
     DEF Ring!Next, Ring!ParentStep

\* SIGINT to the players: a player that has it leaves, and the ball is not in play then.
LEMMA PingSignalStep == PingInv /\ PingSignal /\ Ping!Next => PingSignal'
<1> DEFINE D == Family0(Family)
<1> SUFFICES ASSUME PingInv, PingSignal, Ping!Next PROVE PingSignal'
  OBVIOUS
<1>0. /\ proc \in Table(D)
      /\ 0 \in D
      /\ \A c \in 1 .. Family : c \in D /\ c # 0
      /\ \A p \in D : p = 0 \/ p \in 1 .. Family
      /\ turn \in 1 .. Family
  BY DEF PingInv, ParentLast, Family0
<1>p. \A p \in D : proc[p].pending \subseteq {"SIGUSR1", "SIGINT"}
  BY DEF PingSignal
<1> HIDE DEF D
<1>n. /\ {"await", "finish", "serve", "wait", "left"} \subseteq Places
      /\ {"SIGUSR1", "SIGINT"} \subseteq Signals
  BY Names
<1>d. Ping!Children = 1 .. Family /\ Ping!Parent = 0 /\ Ping!Procs = D /\ Ping!Open = {"SIGUSR1", "SIGINT"}
  BY DEF Ping!Children, Ping!Parent, Ping!Procs, Ping!Open, D, Family0
<1>3. CASE Ping!Serve
  <2>1. PICK t : t = Kill(proc, turn, "SIGUSR1")
    OBVIOUS
  <2>2. proc[0].at = "serve" /\ proc' = Goto(t, 0, "await") /\ turn' = turn
    BY <1>3, <2>1, PingTable DEF Ping!Serve, Ping!Parent
  <2>3. NoBall
    BY <2>2 DEF PingSignal
  <2>4. "SIGUSR1" \in Signals /\ "await" \in Places
    BY <1>n
  <2>5. /\ t \in Table(D)
        /\ \A q \in D : t[q].at = proc[q].at /\ t[q].last = proc[q].last
        /\ \A q \in D : t[q].pending \subseteq proc[q].pending \cup {"SIGUSR1"} /\ (q # turn => t[q] = proc[q])
    BY <1>0, <2>1, <2>4, KillGrows
  <2>6. /\ proc'[0].at = "await" /\ proc'[0].last = t[0].last /\ proc'[0].pending = t[0].pending
        /\ \A q \in D : q # 0 => proc'[q] = t[q]
    BY <1>0, <2>2, <2>4, <2>5, ParentWent
  <2>7. \A q \in D : /\ proc'[q].pending \subseteq {"SIGUSR1", "SIGINT"}
                     /\ "SIGUSR1" \in proc'[q].pending => q = turn
    BY <1>0, <1>p, <2>3, <2>5, <2>6 DEF NoBall, D
  <2>8. proc'[0].last # "SIGUSR1"
    BY <1>0, <2>3, <2>5, <2>6 DEF NoBall
  <2> QED
    BY <1>0, <2>2, <2>5, <2>6, <2>7, <2>8 DEF PingSignal, D
<1>4. CASE Ping!ParentWakes
  <2>1. PICK s \in proc[0].pending :
           /\ proc' = Suspend(proc, 0, Ping!Open, s)
           /\ proc[0].at = "await" /\ proc[0].last # "SIGUSR1"
           /\ turn' = turn
    BY <1>4, PingTable DEF Ping!ParentWakes, Ping!Parent
  <2>2. s \in Signals
    BY <1>0, <1>n, <1>p, <2>1
  <2>3. /\ \A q \in D : q # 0 => proc'[q] = proc[q]
        /\ proc'[0].at = "await"
        /\ proc'[0].last = s
        /\ proc'[0].pending = {}
    BY <1>0, <1>d, <1>p, <2>1, <2>2, SuspendIs
  <2>4. PICK b \in {0, turn} : \A p \in D : "SIGUSR1" \in proc[p].pending => p = b
    BY <2>1 DEF PingSignal, D
  <2>5. s = "SIGUSR1" => \A p \in D : "SIGUSR1" \notin proc'[p].pending
    BY <1>0, <2>1, <2>3, <2>4
  <2>6. \A p \in D : "SIGUSR1" \in proc'[p].pending => p = b
    BY <1>0, <2>3, <2>4
  <2>7. \A p \in D : proc'[p].pending \subseteq {"SIGUSR1", "SIGINT"}
    BY <1>p, <2>3
  <2>8. \A c \in 1 .. Family : proc'[c].at \in {"suspend", "left", "reaped"}
    BY <1>0, <2>3 DEF PingSignal
  <2> QED
    BY <2>1, <2>3, <2>5, <2>6, <2>7, <2>8 DEF PingSignal, D
<1>5. CASE Ping!NextTurn
  <2>1. PICK t : t = Reset(proc, 0)
    OBVIOUS
  <2>2. PICK l \in {"finish", "serve"} :
           proc[0].at = "await" /\ proc[0].last = "SIGUSR1" /\ proc' = Goto(t, 0, l)
    BY <1>5, <2>1, PingTable DEF Ping!NextTurn, Ping!ResetSignal, Ping!Parent, Reset
  <2>3. \A p \in D : "SIGUSR1" \notin proc[p].pending
    BY <2>2 DEF PingSignal, D
  <2>4. /\ t \in Table(D)
        /\ \A q \in D : q # 0 => t[q] = proc[q]
        /\ t[0].last = NoSignal
        /\ t[0].pending = proc[0].pending
    BY <1>0, <2>1, ResetIs
  <2>5. l \in Places
    BY <1>n
  <2>6. /\ \A q \in D : q # 0 => proc'[q] = t[q]
        /\ proc'[0].at = l
        /\ proc'[0].last = t[0].last
        /\ proc'[0].pending = t[0].pending
    BY <1>0, <2>2, <2>4, <2>5, ParentWent
  <2>7. NoBall'
    BY <1>0, <2>3, <2>4, <2>6 DEF NoBall, NoSignal, D
  <2> QED
    BY <1>0, <1>p, <2>2, <2>4, <2>6, <2>7 DEF PingSignal, D
<1>6. CASE Ping!Finish
  <2>1. PICK ps : ps = 1 .. Family
    OBVIOUS
  <2>2. PICK t : t = KillAll(proc, ps, "SIGINT")
    OBVIOUS
  <2>3. proc[0].at = "finish" /\ proc' = Goto(t, 0, "wait")
    BY <1>6, <2>1, <2>2, PingTable DEF Ping!Finish, Ping!Parent, Ping!Children
  <2>4. "SIGINT" \in Signals /\ "wait" \in Places
    BY <1>n
  <2>5. /\ t \in Table(D)
        /\ \A q \in D : q \notin ps \/ ~ Alive(proc, q) => t[q] = proc[q]
        /\ \A q \in D : t[q].at = proc[q].at /\ t[q].last = proc[q].last
        /\ \A q \in D : q \in ps /\ Alive(proc, q) => t[q].pending = proc[q].pending \cup {"SIGINT"}
    BY <1>0, <2>2, <2>4, SentAll
  <2>6. /\ \A q \in D : q # 0 => proc'[q] = t[q]
        /\ proc'[0].at = "wait" /\ proc'[0].last = t[0].last /\ proc'[0].pending = t[0].pending
    BY <1>0, <2>3, <2>4, <2>5, ParentWent
  <2>7. \A c \in 1 .. Family : proc[c].at = "suspend" => Alive(proc, c)
    BY DEF Alive, Gone
  <2>8. ASSUME NEW q \in D
        PROVE  proc'[q].pending = proc[q].pending \/ proc'[q].pending = proc[q].pending \cup {"SIGINT"}
    BY <1>0, <2>5, <2>6
  <2>9. NoBall'
    BY <1>0, <2>3, <2>5, <2>6, <2>8 DEF PingSignal, NoBall, D
  <2>10. ASSUME NEW c \in 1 .. Family
         PROVE  /\ proc'[c].at \in {"suspend", "left", "reaped"}
                /\ proc'[c].at \in Exited \/ "SIGINT" \in proc'[c].pending
    BY <1>0, <2>1, <2>5, <2>6, <2>7 DEF PingSignal, Exited
  <2>11. \A q \in D : proc'[q].pending \subseteq {"SIGUSR1", "SIGINT"}
    BY <1>p, <2>8
  <2> QED
    BY <2>6, <2>9, <2>10, <2>11 DEF PingSignal, D
<1>7. CASE Ping!End
  <2>1. PICK t : t = Reap(proc, 1 .. Family)
    OBVIOUS
  <2>2. proc[0].at = "wait" /\ proc' = Goto(t, 0, "left")
    BY <1>7, <2>1, PingTable DEF Ping!End, Ping!Parent, Ping!Children
  <2>3. /\ t \in Table(D)
        /\ \A q \in D : t[q].last = proc[q].last /\ t[q].pending = proc[q].pending
        /\ \A q \in D : \/ t[q].at = proc[q].at
                        \/ proc[q].at = "left" /\ t[q].at = "reaped"
    BY <1>0, <2>1, ReapIs, Reaped
  <2>4. "left" \in Places
    BY <1>n
  <2>5. /\ \A q \in D : q # 0 => proc'[q] = t[q]
        /\ proc'[0].at = "left" /\ proc'[0].last = t[0].last /\ proc'[0].pending = t[0].pending
    BY <1>0, <2>2, <2>3, <2>4, ParentWent
  <2>6. \A q \in D : proc'[q].pending = proc[q].pending
    BY <1>0, <2>3, <2>5
  <2>7. NoBall'
    BY <1>0, <2>2, <2>3, <2>5, <2>6 DEF PingSignal, NoBall, D
  <2> QED
    BY <1>0, <1>p, <2>3, <2>5, <2>6, <2>7 DEF PingSignal, D
<1>8. ASSUME NEW c \in 1 .. Family, Ping!Child(c) PROVE PingSignal'
  <2>0. c \in D /\ c # 0
    BY <1>0
  <2>1. PICK s \in proc[c].pending :
           proc' = IF s = "SIGINT" THEN Goto(Suspend(proc, c, Ping!Open, s), c, "left")
                   ELSE Kill(Reset(Suspend(proc, c, Ping!Open, s), c), 0, "SIGUSR1")
    BY <1>8, PingTable DEF Ping!Child, Ping!Parent, Reset
  <2>2. s \in Signals /\ s \in {"SIGUSR1", "SIGINT"}
    BY <1>n, <1>p, <2>0, <2>1
  <2>3. proc[c].at = "suspend" /\ turn' = turn
    BY <1>8 DEF Ping!Child
  <2>4. PICK t : t = Suspend(proc, c, Ping!Open, s)
    OBVIOUS
  <2>5. /\ t \in Table(D)
        /\ \A q \in D : q # c => t[q] = proc[q]
        /\ t[c].at = proc[c].at
        /\ t[c].pending = {}
    BY <1>0, <1>d, <1>p, <2>0, <2>2, <2>4, SuspendIs
  <2>6. CASE s = "SIGINT"
    <3>1. "left" \in Places /\ proc' = Goto(t, c, "left")
      BY <1>n, <2>1, <2>4, <2>6
    <3>2. /\ \A q \in D : q # c => proc'[q] = t[q]
          /\ proc'[c].at = "left" /\ proc'[c].pending = t[c].pending
      BY <2>0, <2>5, <3>1, Went
    <3>3. /\ proc'[0] = proc[0]
          /\ \A q \in D : proc'[q].pending \subseteq proc[q].pending
          /\ \A q \in 1 .. Family : q # c => proc'[q] = proc[q]
      BY <1>0, <2>0, <2>5, <3>2
    <3>4. NoBall => NoBall'
      BY <3>3 DEF NoBall, D
    <3>5. \A q \in 1 .. Family : /\ proc'[q].at \in {"suspend", "left", "reaped"}
                                 /\ proc'[0].at = "wait" => proc'[q].at \in Exited \/ "SIGINT" \in proc'[q].pending
      BY <3>2, <3>3 DEF PingSignal, Exited
    <3>6. \A q \in D : proc'[q].pending \subseteq {"SIGUSR1", "SIGINT"}
      BY <1>p, <3>3
    <3>7. \/ proc'[0].at # "await" /\ NoBall'
          \/ /\ proc'[0].at = "await"
             /\ proc'[0].last # "SIGUSR1"
             /\ \E b \in {0, turn} : \A p \in D : "SIGUSR1" \in proc'[p].pending => p = b
          \/ /\ proc'[0].at = "await"
             /\ \A p \in D : "SIGUSR1" \notin proc'[p].pending
      BY <3>3, <3>4 DEF PingSignal, D
    <3> QED
      BY <2>3, <3>5, <3>6, <3>7 DEF PingSignal, D
  <2>7. CASE s = "SIGUSR1"
    <3>1. PICK u : u = Reset(t, c)
      OBVIOUS
    <3>2. /\ u \in Table(D)
          /\ \A q \in D : q # c => u[q] = t[q]
          /\ u[c].at = t[c].at
          /\ u[c].pending = t[c].pending
      BY <2>0, <2>5, <3>1, ResetIs
    <3>3. proc' = Kill(u, 0, "SIGUSR1") /\ "SIGUSR1" \in Signals
      BY <1>n, <2>1, <2>4, <2>7, <3>1
    <3>4. /\ \A q \in D : proc'[q].at = u[q].at /\ proc'[q].last = u[q].last
          /\ \A q \in D : proc'[q].pending \subseteq u[q].pending \cup {"SIGUSR1"} /\ (q # 0 => proc'[q] = u[q])
      BY <3>2, <3>3, KillGrows
    <3>5. /\ proc[0].at = "await" /\ proc[0].last # "SIGUSR1"
          /\ \A p \in D : "SIGUSR1" \in proc[p].pending => p = c
      BY <2>0, <2>1, <2>7 DEF PingSignal, NoBall, D
    <3>6. /\ proc'[0].at = "await" /\ proc'[0].last # "SIGUSR1"
          /\ \A p \in D : "SIGUSR1" \in proc'[p].pending => p = 0
          /\ \A p \in D : proc'[p].pending \subseteq {"SIGUSR1", "SIGINT"}
      BY <1>0, <1>p, <2>0, <2>5, <3>2, <3>4, <3>5
    <3>7. \A q \in 1 .. Family : proc'[q].at = proc[q].at
      BY <1>0, <2>0, <2>5, <3>2, <3>4
    <3> QED
      BY <2>3, <3>6, <3>7 DEF PingSignal, D
  <2> QED
    BY <2>2, <2>6, <2>7
<1>9. CASE Ping!Interrupt
  <2>1. proc' = KillAll(proc, D, "SIGINT") /\ turn' = turn
    BY <1>9, <1>d, PingTable DEF Ping!Interrupt
  <2>2. "SIGINT" \in Signals
    BY <1>n
  <2>3. /\ \A q \in D : q \notin D \/ ~ Alive(proc, q) => proc'[q] = proc[q]
        /\ \A q \in D : proc'[q].at = proc[q].at /\ proc'[q].last = proc[q].last
        /\ \A q \in D : q \in D /\ Alive(proc, q) => proc'[q].pending = proc[q].pending \cup {"SIGINT"}
    BY <1>0, <2>1, <2>2, SentAll
  <2>4. \A q \in D : proc'[q].pending = proc[q].pending \/ proc'[q].pending = proc[q].pending \cup {"SIGINT"}
    BY <2>3
  <2>5. /\ \A q \in D : "SIGUSR1" \in proc'[q].pending <=> "SIGUSR1" \in proc[q].pending
        /\ \A q \in D : proc'[q].pending \subseteq {"SIGUSR1", "SIGINT"}
        /\ \A q \in D : "SIGINT" \in proc[q].pending => "SIGINT" \in proc'[q].pending
    BY <1>p, <2>4
  <2>6. NoBall => NoBall'
    BY <1>0, <2>3, <2>5 DEF NoBall, D
  <2> QED
    BY <1>0, <2>1, <2>3, <2>5, <2>6 DEF PingSignal, D
<1> QED
  BY <1>3, <1>4, <1>5, <1>6, <1>7, <1>8, <1>9, <1>d DEF Ping!Next, Ping!ParentStep

\* A solution that is not lost is with the teacher, or its answer is with the student.
LEMMA StudentSignalStep == StudentInv /\ StudentSignal /\ Student!Next => StudentSignal'
<1> SUFFICES ASSUME StudentInv, StudentSignal, Student!Next PROVE StudentSignal'
  OBVIOUS
<1>0. /\ proc \in Table(Hall)
      /\ 0 \in Hall /\ 0 \notin Class
      /\ \A s \in Class : s \in Hall /\ s # 0 /\ proc[s].at \in AtDesk
      /\ last_student_pid \in Hall /\ si_pid \in Hall
  BY ClassIs DEF StudentInv, StudentType
<1>n. {"work", "left", "wait", "suspend"} \subseteq Places
  BY Names
<1>1. CASE Student!Forked
  <2>1. PICK l \in {"wait", "suspend"} :
           /\ proc[0].at = "fork"
           /\ l = IF stage = 2 THEN "wait" ELSE "suspend"
           /\ proc' = Goto(proc, 0, l)
           /\ UNCHANGED <<stage, last_student_pid, si_pid, lost>>
           /\ \A s \in Class : proc[s].at # "unborn"
    BY <1>1, StudentTable DEF Student!Forked
  <2>2. /\ \A q \in Hall : q # 0 => proc'[q] = proc[q]
        /\ proc'[0].at = l
        /\ proc'[0].pending = proc[0].pending
    BY <1>0, <1>n, <2>1, ParentWent
  <2> QED
    BY <1>0, <2>1, <2>2 DEF StudentSignal, Collecting
<1>2. CASE Student!WaitAll2
  <2>1. PICK t : t = Reap(proc, Class)
    OBVIOUS
  <2>2. /\ proc[0].at = "wait" /\ stage = 2
        /\ proc' = Goto(t, 0, "left")
        /\ UNCHANGED <<stage, last_student_pid, si_pid, lost>>
    BY <1>2, <2>1, StudentTable DEF Student!WaitAll2, StudentInv, TeacherLast
  <2>3. /\ t \in Table(Hall)
        /\ \A q \in Hall : \/ t[q].at = proc[q].at
                           \/ proc[q].at = "left" /\ t[q].at = "reaped"
    BY <1>0, <2>1, Reaped
  <2>4. proc'[0].at = "left" /\ \A q \in Hall : q # 0 => proc'[q] = t[q]
    <3>1. "left" \in Places
      BY <1>n
    <3> QED
      BY <1>0, <2>2, <2>3, <3>1, ParentWent
  <2> QED
    BY <1>0, <2>2, <2>3, <2>4 DEF StudentSignal
<1>3. CASE stage # 2 /\ Student!TeacherWakes
  <2>1. CASE Student!Usr1Handler
    <3>1. /\ proc[0].at \in {"suspend", "chld"}
          /\ \A s \in Class : proc'[s] = proc[s]
          /\ proc'[0].at = IF proc[0].at = "suspend" THEN "usr1" ELSE "chld"
          /\ proc'[0].pending = proc[0].pending \ {"SIGUSR1"}
          /\ last_student_pid' = si_pid /\ si_pid' = 0
          /\ lost' = lost \cup ({last_student_pid} \ {0})
          /\ stage' = stage
      BY <2>1, SolutionNoticed
    <3> QED
      BY <1>0, <1>3, <3>1 DEF StudentSignal, Collecting
  <2>2. CASE Student!ChldHandler
    <3>1. /\ proc[0].at \in {"suspend", "usr1"}
          /\ \A s \in Class : proc'[s] = proc[s]
          /\ proc'[0].at \in Collecting
          /\ UNCHANGED <<stage, last_student_pid, si_pid, lost>>
      BY <2>2, ExitNoticed
    <3> QED
      BY <1>0, <1>3, <3>1 DEF StudentSignal, Collecting
  <2>3. CASE Student!HandlerReturns
    <3>1. /\ proc[0].at \in Collecting \cup {"usr1"}
          /\ proc[0].at \in Collecting => \A s \in Class : proc[s].at # "left"
          /\ \A s \in Class : proc'[s] = proc[s]
          /\ proc'[0].at \in {"usr1", "answer"}
          /\ proc'[0].pending = proc[0].pending
          /\ UNCHANGED <<stage, last_student_pid, si_pid, lost>>
      BY <2>3, HandlerLeft
    <3> QED
      BY <1>0, <1>3, <3>1 DEF StudentSignal, Collecting
  <2>4. ASSUME NEW s \in Class, Student!Waitpid(s) PROVE StudentSignal'
    <3>1. /\ proc[0].at \in Collecting
          /\ \A q \in Class : q # s => proc'[q] = proc[q]
          /\ proc'[s].at = "reaped"
          /\ proc'[0].at = proc[0].at /\ proc'[0].pending = proc[0].pending
          /\ UNCHANGED <<stage, last_student_pid, si_pid, lost>>
      BY <2>4, OneCollected
    <3> QED
      BY <1>0, <1>3, <3>1 DEF StudentSignal, Collecting
  <2> QED
    BY <1>3, <2>1, <2>2, <2>3, <2>4, StudentTable DEF Student!TeacherWakes
<1>4. CASE stage # 2 /\ Student!Answer
  <2>1. /\ proc[0].at = "answer"
        /\ \A s \in Class : proc'[s].at = proc[s].at
        /\ \A s \in Class : s # last_student_pid => proc'[s] = proc[s]
        /\ last_student_pid \in Class => "SIGUSR2" \in proc'[last_student_pid].pending
        /\ proc'[0].at = IF active_students > 0 THEN "suspend" ELSE "left"
        /\ proc'[0].pending = proc[0].pending
        /\ last_student_pid' = 0
        /\ UNCHANGED <<stage, si_pid, lost>>
    BY <1>4, AnswerGiven
  <2>2. ASSUME active_students > 0 PROVE \E s \in Class : proc[s].at # "reaped"
    <3>1. SUFFICES ASSUME \A s \in Class : proc[s].at = "reaped" PROVE FALSE
      OBVIOUS
    <3>2. Unreaped(proc) = {}
      BY <3>1 DEF Unreaped
    <3>3. active_students = 0
      BY <1>4, <3>2, FS_EmptySet DEF StudentInv, StudentCount
    <3> QED
      BY <2>2, <3>3
  <2> QED
    BY <1>0, <1>4, <2>1, <2>2 DEF StudentSignal, Collecting
<1>5. ASSUME NEW s \in Class, Student!ForkStudent(s) PROVE StudentSignal'
  <2>1. /\ proc[0].at = "fork" /\ proc' = Fork(proc, s, "work")
        /\ UNCHANGED <<stage, last_student_pid, si_pid, lost>>
    BY <1>5, StudentTable DEF Student!ForkStudent
  <2>2. proc'[s].at = "work" /\ \A q \in Hall : q # s => proc'[q] = proc[q]
    <3>1. s \in Hall /\ "work" \in Places
      BY <1>0, <1>n
    <3>2. PICK u : u = Fork(proc, s, "work")
      OBVIOUS
    <3>3. u[s].at = "work" /\ \A q \in Hall : q # s => u[q] = proc[q]
      BY <1>0, <3>1, <3>2, ForkIs
    <3> QED
      BY <2>1, <3>2, <3>3
  <2> QED
    BY <1>0, <2>1, <2>2 DEF StudentSignal
<1>6. ASSUME NEW s \in Class, Student!Work2(s) PROVE StudentSignal'
  <2>1. /\ proc[s].at = "work" /\ stage = 2
        /\ proc' = proc \/ proc' = Goto(proc, s, "left")
        /\ UNCHANGED <<stage, last_student_pid, si_pid, lost>>
    BY <1>6, StudentTable DEF Student!Work2
  <2>2. proc'[s].at \in {"work", "left"} /\ \A q \in Hall : q # s => proc'[q] = proc[q]
    <3>1. s \in Hall /\ "left" \in Places
      BY <1>0, <1>n
    <3>2. PICK u : u = Goto(proc, s, "left")
      OBVIOUS
    <3>3. u[s].at = "left" /\ \A q \in Hall : q # s => u[q] = proc[q]
      BY <1>0, <3>1, <3>2, Went
    <3> QED
      BY <2>1, <3>2, <3>3
  <2> QED
    BY <1>0, <2>1, <2>2 DEF StudentSignal
<1>7. ASSUME NEW s \in Class, Student!FinishPart(s) PROVE StudentSignal'
  <2>1. /\ stage # 2 /\ proc[s].at = "work"
        /\ \A q \in Class : q # s => proc'[q] = proc[q]
        /\ proc'[s].at = "sent"
        /\ proc'[0].at = proc[0].at
        /\ proc[0].pending \subseteq proc'[0].pending
        /\ IF "SIGUSR1" \in proc[0].pending THEN si_pid' = si_pid /\ lost' = lost \cup {s}
                                            ELSE si_pid' = s /\ lost' = lost
        /\ UNCHANGED <<stage, last_student_pid>>
    BY <1>7, PartSent
  <2>2. "SIGUSR1" \notin proc[0].pending => si_pid = 0
    BY DEF StudentInv, StudentMail
  <2> QED
    BY <1>0, <2>1, <2>2 DEF StudentSignal
<1>8. ASSUME NEW s \in Class, stage # 2, Student!Accepted(s) PROVE StudentSignal'
  <2>1. /\ \A q \in Class : q # s => proc'[q] = proc[q]
        /\ proc'[s].at \in {"work", "left"}
        /\ proc'[0].at = proc[0].at
        /\ proc[0].pending \subseteq proc'[0].pending
        /\ proc'[s].at = "left" => "SIGCHLD" \in proc'[0].pending
        /\ UNCHANGED <<stage, last_student_pid, si_pid, lost>>
    BY <1>8, AnswerTaken
  <2> QED
    BY <1>0, <1>8, <2>1 DEF StudentSignal
<1> QED
  BY <1>1, <1>2, <1>3, <1>4, <1>5, <1>6, <1>7, <1>8, StudentTable
     DEF Student!Next, Student!Start, Student!Program2, Student!Program3, Student!Program4

LEMMA SignalInit == Init => SignalInv
<1> SUFFICES ASSUME Init PROVE SignalInv
  OBVIOUS
<1>0. /\ Family \in Nat /\ 0 \in Family0(Family)
      /\ \A c \in 1 .. Family : c \in Family0(Family) /\ c # 0
      /\ \A p \in Family0(Family) : p = 0 \/ p \in 1 .. Family
  BY FamilyAssumption DEF Family0
<1>1. ASSUME program = "clerk" PROVE ClerkDay
  <2>1. /\ proc = [c \in Clerks |-> ProcessAt(IF c = 0 THEN "inspect" ELSE "unborn")]
        /\ stage \in {3, 4, 5}
    BY <1>1, ClerkTable DEF Init, Clerk!Init, Clerk!Init3, Clerk!Init4, Clerk!Init5, Clerk!Office
  <2>2. \A c \in Clerks : proc[c].at \in {"inspect", "unborn"}
    BY <2>1 DEF ProcessAt
  <2> QED
    BY <2>1, <2>2 DEF ClerkDay, ClerkPlaces
<1>2. ASSUME program = "ring" PROVE RingSignal
  <2>1. proc = [p \in Family0(Family) |-> ProcessAt(IF p = 0 THEN "fork" ELSE "unborn")]
    BY <1>2, RingTable DEF Init, Ring!Init, Ring!Procs, Ring!Children, Ring!Parent, Family0
  <2>2. proc[0].at = "fork" /\ \A c \in 1 .. Family : proc[c].at = "unborn"
    BY <1>0, <2>1 DEF ProcessAt
  <2> QED
    BY <2>2 DEF RingSignal, Gone
<1>3. ASSUME program = "counter" PROVE CounterSignal
  <2>1. proc = [p \in Family0(Family) |-> ProcessAt(IF p = 0 THEN "fork" ELSE "unborn")]
    BY <1>3, CounterTable
       DEF Init, Counter!Init, Counter!Procs, Counter!Children, Counter!Parent, Family0
  <2>2. proc[0].at = "fork" /\ \A c \in 1 .. Family : proc[c].at = "unborn"
    BY <1>0, <2>1 DEF ProcessAt
  <2>3. \A p \in Family0(Family) : proc[p] \in Process
    BY <2>1 DEF ProcessAt, Process, Places, Gone
  <2>4. proc \in Table(Family0(Family))
    BY <2>1, <2>3 DEF Table
  <2> QED
    BY <2>2, <2>4 DEF CounterSignal, Gone
<1>4. ASSUME program = "ping" PROVE PingSignal
  <2>1. proc = [p \in Family0(Family) |-> ProcessAt(IF p = 0 THEN "serve" ELSE "suspend")]
    BY <1>4, PingTable DEF Init, Ping!Init, Ping!Procs, Ping!Children, Ping!Parent, Family0
  <2>2. /\ proc[0].at = "serve" /\ \A c \in 1 .. Family : proc[c].at = "suspend"
        /\ \A p \in Family0(Family) : proc[p].pending = {} /\ proc[p].last = NoSignal
    BY <1>0, <2>1 DEF ProcessAt
  <2> QED
    BY <1>0, <2>2 DEF PingSignal, NoBall, NoSignal
<1>5. ASSUME program = "student" PROVE StudentSignal
  <2>1. proc = [p \in Family0(Family + 1) |-> ProcessAt(IF p = 0 THEN "fork" ELSE "unborn")]
    BY <1>5, StudentTable, ClassIs DEF Init, Student!Init
  <2>2. proc[0].at = "fork" /\ \A s \in Class : proc[s].at = "unborn"
    BY <1>0, <2>1, ClassIs DEF ProcessAt
  <2>3. 1 \in Class
    BY <1>0 DEF Class
  <2> QED
    BY <2>2, <2>3 DEF StudentSignal
<1> QED
  BY <1>1, <1>2, <1>3, <1>4, <1>5 DEF SignalInv

LEMMA SignalStep == IInv /\ SignalInv /\ [Next]_vars => SignalInv'
<1>1. ASSUME IInv, SignalInv, ClerkStep(Clerk!Next) PROVE SignalInv'
  BY <1>1, ClerkDayStep DEF IInv, SignalInv, ClerkStep
<1>2. ASSUME IInv, SignalInv, RingStep(Ring!Next) PROVE SignalInv'
  BY <1>2, RingSignalStep DEF IInv, SignalInv, RingStep
<1>3. ASSUME IInv, SignalInv, PingStep(Ping!Next) PROVE SignalInv'
  BY <1>3, PingSignalStep DEF IInv, SignalInv, PingStep
<1>4. ASSUME IInv, SignalInv, CounterStep(Counter!Next) PROVE SignalInv'
  BY <1>4, CounterSignalStep DEF SignalInv, CounterStep
<1>5. ASSUME IInv, SignalInv, StudentStep(Student!Next) PROVE SignalInv'
  BY <1>5, StudentSignalStep DEF IInv, SignalInv, StudentStep
<1>6. ASSUME SignalInv, UNCHANGED vars PROVE SignalInv'
  <2>1. /\ program' = program /\ proc' = proc /\ stage' = stage /\ lost' = lost
        /\ turn' = turn /\ last_student_pid' = last_student_pid /\ si_pid' = si_pid
    BY <1>6 DEF vars, pingOnly, studentOnly
  <2>2. (ClerkDay => ClerkDay') /\ (RingSignal => RingSignal')
    BY <2>1 DEF ClerkDay, Heard, RingSignal
  <2>3. (CounterSignal => CounterSignal') /\ (PingSignal => PingSignal')
    BY <2>1 DEF CounterSignal, PingSignal, NoBall
  <2>4. StudentSignal => StudentSignal'
    BY <2>1 DEF StudentSignal
  <2> QED
    BY <1>6, <2>1, <2>2, <2>3, <2>4 DEF SignalInv
<1> QED
  BY <1>1, <1>2, <1>3, <1>4, <1>5, <1>6 DEF Next

\* Where the shutdown of each program, and each solution of a student, is on its way.
THEOREM SignalInvariance == Spec => []SignalInv
<1> QED
  BY SignalInit, SignalStep, Invariance, PTL DEF Spec

\* No parent waits in vain: while a process waits for its children, every child that
\* runs leaves of itself, or the signal that ends it (SIGINT down the tree, to the ring
\* and to the players, SIGUSR2 to the counters) is pending or stored in its last_signal;
\* the exceptions are the overwritten signals that `lost` names.
THEOREM ShutdownHeard == Spec => []ShutdownOnItsWay
<1>1. ASSUME IInv, SignalInv PROVE ShutdownOnItsWay
  <2> SUFFICES ASSUME ~(program = "ring" /\ stage = 2),
                      NEW p \in DOMAIN proc, At(p) = "wait", NEW c \in Children(p) \ lost
               PROVE  At(c) \in Exited \/ Ending(c)
    BY DEF ShutdownOnItsWay
  <2>0. proc[p].at = "wait"
    BY DEF At
  <2>1. CASE program = "clerk"
    <3>1. DOMAIN proc = Clerks
      BY <1>1, <2>1 DEF IInv, ClerkInv, Table
    <3>2. c \in Subordinates[p] /\ p \in Clerks /\ c \in Clerks
      BY <2>1, <3>1, OfficeAssumption DEF Children
    <3>3. At(c) = proc[c].at
      BY <3>1, <3>2 DEF At
    <3> QED
      BY <1>1, <2>0, <2>1, <3>2, <3>3
         DEF SignalInv, ClerkDay, ClerkPlaces, Heard, Ending, Exited
  <2>2. CASE program # "clerk"
    <3>1. p = 0 /\ c \in DOMAIN proc /\ c # 0
      BY <2>2 DEF Children
    <3>2. At(c) = proc[c].at
      BY <3>1 DEF At
    <3>3. CASE program \in {"ring", "counter", "ping"}
      <4>1. DOMAIN proc = Family0(Family)
        BY <1>1, <3>3 DEF IInv, SignalInv, RingInv, PingInv, CounterSignal, ParentLast, Table
      <4>2. c \in 1 .. Family
        BY <3>1, <4>1 DEF Family0
      <4>3. CASE program = "ring"
        BY <1>1, <2>0, <3>1, <3>2, <4>2, <4>3
           DEF IInv, RingStage, SignalInv, RingSignal, Ending, Exited, Gone
      <4>4. CASE program = "counter"
        BY <1>1, <2>0, <3>1, <3>2, <4>2, <4>4 DEF SignalInv, CounterSignal, Ending
      <4>5. CASE program = "ping"
        <5>1. proc[c].at \in {"suspend", "left", "reaped"} /\ "SIGUSR1" \notin proc[c].pending
          BY <1>1, <2>0, <3>1, <4>1, <4>2, <4>5 DEF SignalInv, PingSignal, NoBall
        <5> QED
          BY <1>1, <2>0, <3>1, <3>2, <4>2, <4>5, <5>1 DEF SignalInv, PingSignal, Ending, Exited
      <4> QED
        BY <3>3, <4>3, <4>4, <4>5
    <3>4. CASE program = "student"
      <4>1. DOMAIN proc = Hall
        BY <1>1, <3>4 DEF IInv, StudentInv, StudentType, Table
      <4>2. c \in Class /\ stage = 2 /\ proc[c].at \in AtDesk
        BY <1>1, <2>0, <3>1, <3>4, <4>1, ClassIs DEF IInv, StudentInv, StudentType, TeacherLast
      <4> QED
        BY <1>1, <2>0, <3>1, <3>2, <3>4, <4>2 DEF SignalInv, StudentSignal, AtDesk, Ending, Exited
    <3> QED
      BY <1>1, <2>2, <3>3, <3>4 DEF IInv
  <2> QED
    BY <2>1, <2>2
<1> QED
  BY <1>1, Invariance, SignalInvariance, PTL

\* The teacher of main3.c and main4.c does not sleep while nobody can wake it, but for the
\* solutions it loses: when it is in sigsuspend with nothing pending, some student works, or
\* has its SIGUSR2 pending, or waits although its SIGUSR1 was merged with another's or the
\* handler of another SIGUSR1 overwrote its pid. An exit is never missed, though the
\* SIGCHLDs of several students merge and come in the middle of handlers.
THEOREM StudentsHeard == Spec => []TeacherNeeded
<1>1. ASSUME IInv, SignalInv PROVE TeacherNeeded
  <2> SUFFICES ASSUME program = "student", At(0) = "suspend", proc[0].pending = {}
               PROVE  \E s \in Class : CanRun(s) \/ (proc[s].at = "sent" /\ s \in lost)
    BY DEF TeacherNeeded
  <2>1. proc[0].at = "suspend"
    <3>1. DOMAIN proc = Hall /\ 0 \in Hall
      BY <1>1, ClassIs DEF IInv, StudentInv, StudentType, Table
    <3> QED
      BY <3>1 DEF At
  <2>2. StudentSignal /\ last_student_pid = 0 /\ si_pid = 0
    BY <1>1, <2>1 DEF IInv, SignalInv, StudentInv, StudentMail, Collecting
  <2>3. PICK s \in Class : proc[s].at # "reaped"
    BY <2>1, <2>2 DEF StudentSignal
  <2>4. proc[s].at \in {"work", "sent", "left"} /\ s # 0
    BY <1>1, <2>1, <2>2, <2>3, ClassIs DEF IInv, StudentInv, StudentType, AtDesk, StudentSignal
  <2>5. CASE s \notin lost /\ proc[s].at = "sent"
    BY <2>1, <2>2, <2>4, <2>5 DEF StudentSignal, CanRun
  <2>6. proc[s].at # "left"
    BY <2>1, <2>2 DEF StudentSignal, Collecting
  <2> QED
    BY <2>4, <2>5, <2>6 DEF CanRun
<1> QED
  BY <1>1, Invariance, SignalInvariance, PTL

=============================================================================
