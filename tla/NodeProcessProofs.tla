-------------------------- MODULE NodeProcessProofs --------------------------
(***************************************************************************)
(* What NodeProcess keeps, for any threads, settings, routes, children and *)
(* calls: no process is left that nobody stops, and a child that is up is  *)
(* known to be up and has the settings and the route that are remembered.  *)
(*                                                                         *)
(* Both hold while the calls that change the node come one after the other *)
(* and no reader of an earlier child is left when one is spawned (apart).  *)
(* One invariant is behind them: a living child has its reader, so that    *)
(* "no reader" means "no child"; whoever stops a child stops the one the   *)
(* handle knows; whoever waits for room in a pipe is at a write, and in    *)
(* the pipe of that child; and at each step of a call it is settled which  *)
(* of the remembered values the child already has, has in its pipe, or is  *)
(* about to be sent.                                                       *)
(***************************************************************************)
EXTENDS NodeProcess, SequenceTheorems, TLAPS

Line == [cmd : {"configure", "route", "stats", "shutdown"}, arg : Nat]
Child == [at : {"unborn", "booting", "up", "leaving", "killed", "dead"}, cfg : Nat, route : Nat,
          stdin : Seq(Line), stdout : Seq({"ready", "error"}), reader : BOOLEAN]

Starting == {"wait ready", "remember", "configure"}
Stopping == {"stop", "shutdown", "wait exit", "join"}
Asking == {"ask", "request"}
Pushing == {"push", "send"}
Call == [op : {"none", "start", "stop", "route", "set"},
         at : {"none", "spawn", "reply"} \cup Asking \cup Pushing \cup Starting \cup Stopping,
         on : Nat, arg : Nat]

TypeOK ==
    /\ proc \in Children \cup {NoChild} /\ ready \in BOOLEAN /\ lastError \in BOOLEAN
    /\ cfg \in Nat /\ route \in Nat
    /\ child \in [Children -> Child]
    /\ call \in [Callers -> Call]
    /\ asks \in BOOLEAN /\ waits \in [Writers -> Children \cup {NoChild}]
    /\ apart \in BOOLEAN
-----------------------------------------------------------------------------
\* The children not spawned yet are the last ones, and nothing has been done to them.
SpawnedInOrder ==
    /\ \E k \in 1..MaxChildren + 1 : \A c \in Children : child[c].at = "unborn" <=> k <= c
    /\ \A c \in Children : child[c].at = "unborn" => child[c] = Unborn

\* The reader of a child stays as long as the child.
ReadersStay == \A c \in Children : Alive(c) => child[c].reader

WellFormed(k) ==
    /\ k.at = "none" <=> k.op = "none"
    /\ k.at \in {"shutdown", "wait exit"} => k.on \in Children

CallsAreWellFormed == \A t \in Callers : WellFormed(call[t])

\* Who waits for room in a pipe is at a write, and to the child that the handle knows if
\* the calls come one after the other.
WaitsAreWrites ==
    \A t \in Callers :
       waits[t] # NoChild => call[t].at \in Writing /\ (apart => waits[t] = proc)

Within(ats) == \E t \in Callers : call[t].at \in ats

\* No two threads are in a call.
OneCall == \A t, u \in Callers : call[t].at # "none" /\ call[u].at # "none" => t = u

\* No reader is left of a child that came before.
OneReader == proc # NoChild => \A c \in Children : child[c].reader => c = proc

\* Who stops a child stops the one the handle knows.
StopsTheChild ==
    \A t \in Callers :
       /\ call[t].at \in {"shutdown", "wait exit"} => call[t].on = proc /\ proc # NoChild
       /\ call[t].at = "join" => ~Alive(proc) \/ child[proc].at = "killed"

\* A child that lives is known to be ready, from the moment its start has seen it
\* until it is stopped.
ReadyIsKnown ==
    /\ Alive(proc) /\ ~Within({"wait ready"} \cup Stopping) => ready
    /\ Within({"spawn"}) => ~Alive(proc)

\* Nothing in a pipe but requests for the counters.
Untold(pipe) == \A i \in 1..Len(pipe) : pipe[i].cmd = "stats"

\* A child starts without settings or a route in its pipe, and without a route.
StartsUntold ==
    Within(Starting) => /\ proc # NoChild
                        /\ Untold(child[proc].stdin) /\ child[proc].route = Nothing

\* What a call is about to send is what the handle remembers.
SendsTheCaches ==
    \A t \in Callers :
       /\ call[t].at = "configure" => call[t].on = cfg /\ call[t].arg = route
       /\ call[t].at \in Asking => call[t].arg = route
       /\ call[t].at \in Pushing => call[t].arg = cfg

\* With "now" the child ends up with v when it has executed its pipe: v is what the
\* last command of the kind says, or there is none.
Ends(pipe, cmd, now, v) ==
    \/ /\ \A i \in 1..Len(pipe) : pipe[i].cmd # cmd
       /\ now = v
    \/ \E i \in 1..Len(pipe) : /\ pipe[i].cmd = cmd /\ pipe[i].arg = v
                               /\ \A j \in 1..Len(pipe) : i < j => pipe[j].cmd # cmd

\* A child that lives has the remembered values, or will have them, unless a call is
\* about to send them.
WillHaveTheCaches ==
    /\ Alive(proc) /\ ~Within(Starting \cup Stopping \cup Pushing) =>
          Ends(child[proc].stdin, "configure", child[proc].cfg, cfg)
    /\ Alive(proc) /\ ~Within(Starting \cup Stopping \cup Asking) =>
          Ends(child[proc].stdin, "route", child[proc].route, route)

Apart ==
    /\ OneCall /\ OneReader
    /\ StopsTheChild /\ NoOrphan
    /\ ReadyIsKnown
    /\ StartsUntold /\ SendsTheCaches /\ WillHaveTheCaches

NodeInv ==
    /\ TypeOK
    /\ SpawnedInOrder /\ ReadersStay /\ CallsAreWellFormed /\ WaitsAreWrites
    /\ apart => Apart
-----------------------------------------------------------------------------
(* Pipes *)

LEMMA EndsEmpty ==
    ASSUME NEW cmd, NEW now, NEW v
    PROVE  Ends(<<>>, cmd, now, v) <=> now = v
  BY DEF Ends

\* A command settles what the child ends up with.
LEMMA EndsSame ==
    ASSUME NEW pipe \in Seq(Line), NEW cmd, NEW now, NEW v
    PROVE  Ends(Append(pipe, Command(cmd, v)), cmd, now, v)
  <1> DEFINE longer == Append(pipe, Command(cmd, v))
  <1>1. /\ Len(pipe) \in Nat /\ Len(longer) = Len(pipe) + 1
        /\ longer[Len(pipe) + 1] = Command(cmd, v)
    OBVIOUS
  <1>2. Command(cmd, v).cmd = cmd /\ Command(cmd, v).arg = v
    BY DEF Command
  <1> HIDE DEF longer
  <1>3. Len(longer) \in 1..Len(longer) /\ \A j \in 1..Len(longer) : ~(Len(longer) < j)
    BY <1>1
  <1>4. Ends(longer, cmd, now, v)
    BY <1>1, <1>2, <1>3 DEF Ends
  <1> QED BY <1>4 DEF longer

\* A command of another kind does not change it.
LEMMA EndsOther ==
    ASSUME NEW pipe \in Seq(Line), NEW cmd, NEW now, NEW v, NEW line, line.cmd # cmd,
           Ends(pipe, cmd, now, v)
    PROVE  Ends(Append(pipe, line), cmd, now, v)
  <1> DEFINE longer == Append(pipe, line)
  <1>1. /\ Len(pipe) \in Nat /\ Len(longer) = Len(pipe) + 1
        /\ longer[Len(pipe) + 1] = line
        /\ \A i \in 1..Len(pipe) : longer[i] = pipe[i]
    OBVIOUS
  <1> HIDE DEF longer
  <1>2. \A i \in 1..Len(longer) : i \in 1..Len(pipe) \/ i = Len(pipe) + 1
    BY <1>1
  <1>3. CASE now = v /\ \A i \in 1..Len(pipe) : pipe[i].cmd # cmd
    <2>1. \A i \in 1..Len(longer) : longer[i].cmd # cmd
      BY <1>1, <1>2, <1>3
    <2> QED BY <1>3, <2>1 DEF Ends, longer
  <1>4. CASE \E i \in 1..Len(pipe) : /\ pipe[i].cmd = cmd /\ pipe[i].arg = v
                                     /\ \A j \in 1..Len(pipe) : i < j => pipe[j].cmd # cmd
    <2>1. PICK i \in 1..Len(pipe) : /\ pipe[i].cmd = cmd /\ pipe[i].arg = v
                                    /\ \A j \in 1..Len(pipe) : i < j => pipe[j].cmd # cmd
      BY <1>4
    <2>2. i \in 1..Len(longer) /\ longer[i] = pipe[i]
      BY <1>1
    <2>3. \A j \in 1..Len(longer) : i < j => longer[j].cmd # cmd
      BY <1>1, <1>2, <2>1
    <2>4. Ends(longer, cmd, now, v)
      BY <2>1, <2>2, <2>3 DEF Ends
    <2> QED BY <2>4 DEF longer
  <1> QED BY <1>3, <1>4 DEF Ends

\* Neither does it when the child executes a command.
LEMMA EndsTail ==
    ASSUME NEW pipe \in Seq(Line), pipe # <<>>, NEW cmd, NEW now, NEW v,
           Ends(pipe, cmd, now, v)
    PROVE  Ends(Tail(pipe), cmd, IF Head(pipe).cmd = cmd THEN Head(pipe).arg ELSE now, v)
  <1> DEFINE rest == Tail(pipe)
             then == IF Head(pipe).cmd = cmd THEN Head(pipe).arg ELSE now
  <1>1. /\ Len(pipe) \in Nat /\ Len(pipe) >= 1 /\ Len(rest) = Len(pipe) - 1
        /\ Head(pipe) = pipe[1]
        /\ \A i \in 1..Len(rest) : rest[i] = pipe[i + 1]
    OBVIOUS
  <1> HIDE DEF rest
  <1>2. CASE now = v /\ \A i \in 1..Len(pipe) : pipe[i].cmd # cmd
    <2>1. \A i \in 1..Len(rest) : rest[i].cmd # cmd
      BY <1>1, <1>2
    <2>2. then = v
      BY <1>1, <1>2
    <2> QED BY <2>1, <2>2 DEF Ends, rest
  <1>3. CASE \E i \in 1..Len(pipe) : /\ pipe[i].cmd = cmd /\ pipe[i].arg = v
                                     /\ \A j \in 1..Len(pipe) : i < j => pipe[j].cmd # cmd
    <2>1. PICK i \in 1..Len(pipe) : /\ pipe[i].cmd = cmd /\ pipe[i].arg = v
                                    /\ \A j \in 1..Len(pipe) : i < j => pipe[j].cmd # cmd
      BY <1>3
    <2>2. \A j \in 1..Len(rest) : j + 1 \in 1..Len(pipe) /\ rest[j] = pipe[j + 1]
      BY <1>1
    <2>3. CASE i = 1
      <3>1. then = v
        BY <1>1, <2>1, <2>3
      <3>2. \A j \in 1..Len(rest) : rest[j].cmd # cmd
        BY <1>1, <2>1, <2>2, <2>3
      <3>3. Ends(rest, cmd, then, v)
        BY <3>1, <3>2 DEF Ends
      <3> QED BY <3>3 DEF rest
    <2>4. CASE i # 1
      <3>1. i - 1 \in 1..Len(rest) /\ rest[i - 1] = pipe[i]
        BY <1>1, <2>4
      <3>2. \A j \in 1..Len(rest) : i - 1 < j => rest[j].cmd # cmd
        <4> SUFFICES ASSUME NEW j \in 1..Len(rest), i - 1 < j PROVE rest[j].cmd # cmd
          OBVIOUS
        <4>1. j + 1 \in 1..Len(pipe) /\ i < j + 1
          BY <1>1
        <4> QED BY <2>1, <2>2, <4>1
      <3>3. Ends(rest, cmd, then, v)
        BY <2>1, <3>1, <3>2 DEF Ends
      <3> QED BY <3>3 DEF rest
    <2> QED BY <2>3, <2>4
  <1> QED BY <1>2, <1>3 DEF Ends

\* A pipe without settings or a route stays one, and leaves what the child has.
LEMMA UntoldLemma ==
    ASSUME NEW pipe \in Seq(Line), Untold(pipe)
    PROVE  /\ Untold(Append(pipe, Command("stats", Nothing)))
           /\ pipe # <<>> => Untold(Tail(pipe)) /\ Head(pipe).cmd = "stats"
           /\ \A now : Ends(pipe, "route", now, now)
  <1>1. Untold(Append(pipe, Command("stats", Nothing)))
    <2> DEFINE longer == Append(pipe, Command("stats", Nothing))
    <2>1. /\ Len(pipe) \in Nat /\ Len(longer) = Len(pipe) + 1
          /\ longer[Len(pipe) + 1] = Command("stats", Nothing)
          /\ \A i \in 1..Len(pipe) : longer[i] = pipe[i]
      OBVIOUS
    <2>2. Command("stats", Nothing).cmd = "stats"
      BY DEF Command
    <2> HIDE DEF longer
    <2>3. \A i \in 1..Len(longer) : i \in 1..Len(pipe) \/ i = Len(pipe) + 1
      BY <2>1
    <2>4. Untold(longer)
      BY <2>1, <2>2, <2>3 DEF Untold
    <2> QED BY <2>4 DEF longer
  <1>2. ASSUME pipe # <<>> PROVE Untold(Tail(pipe)) /\ Head(pipe).cmd = "stats"
    <2> DEFINE rest == Tail(pipe)
    <2>1. /\ Len(pipe) \in Nat /\ Len(pipe) >= 1 /\ Len(rest) = Len(pipe) - 1
          /\ Head(pipe) = pipe[1]
          /\ \A i \in 1..Len(rest) : rest[i] = pipe[i + 1]
      BY <1>2
    <2> HIDE DEF rest
    <2>2. \A i \in 1..Len(rest) : i + 1 \in 1..Len(pipe)
      BY <2>1
    <2>3. Untold(rest)
      BY <2>1, <2>2 DEF Untold
    <2>4. Head(pipe).cmd = "stats"
      BY <2>1 DEF Untold
    <2> QED BY <2>3, <2>4 DEF rest
  <1>3. \A now : Ends(pipe, "route", now, now)
    BY DEF Ends, Untold
  <1> QED BY <1>1, <1>2, <1>3

\* What a command makes of a child (node_main.py:114-139).
LEMMA ExecutedLemma ==
    ASSUME NEW s \in Child, NEW line \in Line
    PROVE  /\ Executed(s, line) \in Child
           /\ Executed(s, line).at \in {s.at, "leaving"}
           /\ Executed(s, line).cfg = IF line.cmd = "configure" THEN line.arg ELSE s.cfg
           /\ Executed(s, line).route = IF line.cmd = "route" THEN line.arg ELSE s.route
           /\ Executed(s, line).reader = s.reader /\ Executed(s, line).stdin = s.stdin
  <1>1. CASE line.cmd = "configure"
    BY <1>1 DEF Executed, Child, Line
  <1>2. CASE line.cmd = "route"
    BY <1>2 DEF Executed, Child, Line
  <1>3. CASE line.cmd = "shutdown"
    BY <1>3 DEF Executed, Child, Line
  <1>4. CASE line.cmd = "stats"
    BY <1>4 DEF Executed, Child, Line
  <1> QED BY <1>1, <1>2, <1>3, <1>4 DEF Line
-----------------------------------------------------------------------------
(* Types, and what holds without the order of calls *)

LEMMA InitNode == Init => NodeInv
  <1> SUFFICES ASSUME Init PROVE NodeInv
    OBVIOUS
  <1>1. cfg \in Configs /\ cfg \in Nat /\ route \in Nat
    BY NodeAssumption DEF Init, Nothing
  <1>2. Unborn \in Child /\ Unborn.at = "unborn" /\ Unborn.reader = FALSE
    BY DEF Unborn, Child, Nothing
  <1>3. Idle \in Call /\ Idle.at = "none" /\ Idle.op = "none"
    BY DEF Idle, Call, NoChild, Nothing
  <1>4. TypeOK
    BY <1>1, <1>2, <1>3 DEF Init, TypeOK, NoChild
  <1>5. SpawnedInOrder
    <2>1. 1 \in 1..MaxChildren + 1
      BY NodeAssumption
    <2>2. \A c \in Children : child[c].at = "unborn" <=> 1 <= c
      BY <1>2 DEF Init, Children
    <2> QED BY <2>1, <2>2 DEF SpawnedInOrder, Init
  <1>6. \A c \in Children : ~Alive(c) /\ ~child[c].reader
    BY <1>2 DEF Init, Alive
  <1>7. ReadersStay /\ OneReader /\ NoOrphan
    BY <1>6 DEF ReadersStay, OneReader, NoOrphan
  <1>8. \A t \in Callers : call[t].at = "none" /\ call[t].op = "none"
    BY <1>3 DEF Init
  <1>9. CallsAreWellFormed /\ OneCall /\ StopsTheChild /\ SendsTheCaches
    BY <1>8 DEF CallsAreWellFormed, WellFormed, OneCall, StopsTheChild, SendsTheCaches, Asking, Pushing
  <1>10. ~Alive(proc)
    BY DEF Init, Alive
  <1>11. ReadyIsKnown /\ WillHaveTheCaches
    BY <1>10 DEF ReadyIsKnown, WillHaveTheCaches
  <1>12. StartsUntold
    BY <1>8 DEF StartsUntold, Within, Starting
  <1>13. WaitsAreWrites
    BY DEF Init, WaitsAreWrites, Writers
  <1> QED BY <1>4, <1>5, <1>7, <1>9, <1>11, <1>12, <1>13 DEF NodeInv, Apart

LEMMA NextChildLemma ==
    ASSUME SpawnedInOrder, Unspawned # {}
    PROVE  /\ NextChild \in Children /\ child[NextChild].at = "unborn"
           /\ \A c \in Children : child[c].at = "unborn" <=> NextChild <= c
  <1>1. PICK k \in 1..MaxChildren + 1 : \A c \in Children : child[c].at = "unborn" <=> k <= c
    BY DEF SpawnedInOrder
  <1>2. PICK c \in Children : k <= c
    BY <1>1 DEF Unspawned
  <1>3. k \in Unspawned /\ \A d \in Unspawned : k <= d
    BY <1>1, <1>2, NodeAssumption DEF Unspawned, Children
  <1>4. NextChild \in Unspawned /\ \A d \in Unspawned : NextChild <= d
    BY <1>3 DEF NextChild
  <1>5. NextChild = k
    BY <1>3, <1>4, NodeAssumption DEF Unspawned, Children
  <1> QED BY <1>1, <1>3, <1>5 DEF Unspawned

\* A line is written to a child that lives, and changes nothing else.
LEMMA WroteLemma ==
    ASSUME TypeOK, NEW line \in Line, NEW w \in Children \cup {NoChild}
    PROVE  /\ Wrote(w, line) \in [Children -> Child]
           /\ \A c \in Children :
                 /\ Wrote(w, line)[c].at = child[c].at
                 /\ Wrote(w, line)[c].reader = child[c].reader
                 /\ Wrote(w, line)[c].cfg = child[c].cfg
                 /\ Wrote(w, line)[c].route = child[c].route
                 /\ Wrote(w, line)[c].stdin = IF Alive(w) /\ c = w THEN Append(child[c].stdin, line)
                                                              ELSE child[c].stdin
                 /\ ~(Alive(w) /\ c = w) => Wrote(w, line)[c] = child[c]
  <1>1. CASE ~Alive(w)
    BY <1>1 DEF Wrote, TypeOK
  <1>2. CASE Alive(w)
    <2>1. w \in Children
      BY <1>2 DEF Alive
    <2>2. Wrote(w, line) = [child EXCEPT ![w].stdin = Append(@, line)]
      BY <1>2 DEF Wrote
    <2>3. child[w] \in Child /\ child[w].stdin \in Seq(Line)
      BY <2>1 DEF TypeOK, Child
    <2>4. Append(child[w].stdin, line) \in Seq(Line)
      BY <2>3
    <2>5. [child[w] EXCEPT !.stdin = Append(child[w].stdin, line)] \in Child
      BY <2>3, <2>4 DEF Child
    <2> QED BY <1>2, <2>1, <2>2, <2>3, <2>5 DEF TypeOK, Child
  <1> QED BY <1>1, <1>2
-----------------------------------------------------------------------------
(* The children and their readers *)

\* Of a child: its reader and its birth are not its own doing, the dead and the killed
\* do not come back, and its pipe loses the command it executes, gets one more request for
\* the counters, or is gone with it.
Moved(d) ==
    /\ child'[d] \in Child
    /\ child'[d].reader = child[d].reader
    /\ child'[d].at = "unborn" <=> child[d].at = "unborn"
    /\ child[d].at = "unborn" => child'[d] = child[d]
    /\ Alive(d)' => Alive(d)
    /\ child[d].at = "killed" /\ Alive(d)' => child'[d].at = "killed"
    /\ \/ /\ child'[d].stdin = child[d].stdin
          /\ child'[d].cfg = child[d].cfg /\ child'[d].route = child[d].route
       \/ LET line == Head(child[d].stdin) IN
          /\ child[d].stdin # <<>> /\ child'[d].stdin = Tail(child[d].stdin)
          /\ child'[d].cfg = (IF line.cmd = "configure" THEN line.arg ELSE child[d].cfg)
          /\ child'[d].route = (IF line.cmd = "route" THEN line.arg ELSE child[d].route)
       \/ /\ child'[d].stdin = Append(child[d].stdin, Command("stats", Nothing))
          /\ child'[d].cfg = child[d].cfg /\ child'[d].route = child[d].route
       \/ child'[d].at = "dead" /\ child'[d].stdin = <<>> /\ child'[d].route = Nothing

LEMMA ChildMovesLemma ==
    ASSUME TypeOK, NEW c \in Children, ChildMoves(c)
    PROVE  child' \in [Children -> Child] /\ \A d \in Children : Moved(d)
  <1>1. child \in [Children -> Child] /\ child[c] \in Child /\ c # NoChild
    BY NodeAssumption DEF TypeOK, Children, NoChild
  <1>2. child[c].stdout \in Seq({"ready", "error"}) /\ child[c].stdin \in Seq(Line)
    BY <1>1 DEF Child
  <1>3. ASSUME NEW new \in Child, child' = [child EXCEPT ![c] = new],
               new.reader = child[c].reader, child[c].at # "unborn", new.at # "unborn",
               new.at \in {"booting", "up", "leaving", "killed"} => Alive(c),
               child[c].at = "killed" => new.at \in {"killed", "dead"},
               \/ /\ new.stdin = child[c].stdin
                  /\ new.cfg = child[c].cfg /\ new.route = child[c].route
               \/ LET line == Head(child[c].stdin) IN
                  /\ child[c].stdin # <<>> /\ new.stdin = Tail(child[c].stdin)
                  /\ new.cfg = (IF line.cmd = "configure" THEN line.arg ELSE child[c].cfg)
                  /\ new.route = (IF line.cmd = "route" THEN line.arg ELSE child[c].route)
               \/ new.at = "dead" /\ new.stdin = <<>> /\ new.route = Nothing
        PROVE  child' \in [Children -> Child] /\ \A d \in Children : Moved(d)
    <2>1. child' \in [Children -> Child] /\ child'[c] = new
          /\ \A d \in Children : d # c => child'[d] = child[d]
      BY <1>1, <1>3
    <2>2. ASSUME NEW d \in Children, d # c PROVE Moved(d)
      BY <1>1, <2>1, <2>2 DEF Moved, Alive
    <2>3. Alive(c)' => Alive(c)
      BY <1>3, <2>1 DEF Alive
    <2>4. child[c].at = "killed" /\ Alive(c)' => child'[c].at = "killed"
      BY <1>3, <2>1 DEF Alive
    <2>5. Moved(c)
      BY <1>3, <2>1, <2>3, <2>4 DEF Moved
    <2> QED BY <2>1, <2>2, <2>5
  <1>4. CASE Bind(c)
    <2>1. PICK e \in {"ready", "error"}, at \in {"leaving", "up"} :
             child' = [[child EXCEPT ![c].stdout = Append(@, e)] EXCEPT ![c].at = at]
      BY <1>4 DEF Bind, Says
    <2> DEFINE new == [child[c] EXCEPT !.stdout = Append(child[c].stdout, e), !.at = at]
    <2>5. Append(child[c].stdout, e) \in Seq({"ready", "error"})
      BY <1>2
    <2>2. new \in Child /\ new.at = at /\ new.stdin = child[c].stdin /\ new.reader = child[c].reader
          /\ new.cfg = child[c].cfg /\ new.route = child[c].route
      BY <1>1, <2>5 DEF Child
    <2>3. child' = [child EXCEPT ![c] = new]
      BY <1>1, <2>1
    <2>4. child[c].at = "booting" /\ Alive(c)
      BY <1>1, <1>4 DEF Bind, Alive
    <2> HIDE DEF new
    <2> QED BY <1>3, <2>2, <2>3, <2>4
  <1>5. CASE Execute(c)
    <2> DEFINE line == Head(child[c].stdin)
               new == [Executed(child[c], line) EXCEPT !.stdin = Tail(child[c].stdin)]
    <2>1. child[c].at = "up" /\ child[c].stdin # <<>> /\ child' = [child EXCEPT ![c] = new] /\ Alive(c)
      BY <1>1, <1>5 DEF Execute, Alive
    <2>2. line \in Line /\ Tail(child[c].stdin) \in Seq(Line)
      BY <1>2, <2>1
    <2>3. /\ Executed(child[c], line) \in Child
          /\ Executed(child[c], line).at \in {child[c].at, "leaving"}
          /\ Executed(child[c], line).cfg = IF line.cmd = "configure" THEN line.arg ELSE child[c].cfg
          /\ Executed(child[c], line).route = IF line.cmd = "route" THEN line.arg ELSE child[c].route
          /\ Executed(child[c], line).reader = child[c].reader
          /\ Executed(child[c], line).stdin = child[c].stdin
      BY <1>1, <2>2, ExecutedLemma
    <2> HIDE DEF line
    <2>4. /\ new \in Child /\ new.stdin = Tail(child[c].stdin)
          /\ new.at \in {"up", "leaving"} /\ new.reader = child[c].reader
          /\ new.cfg = (IF line.cmd = "configure" THEN line.arg ELSE child[c].cfg)
          /\ new.route = (IF line.cmd = "route" THEN line.arg ELSE child[c].route)
      BY <2>1, <2>2, <2>3 DEF Child
    <2> HIDE DEF new
    <2> QED BY <1>3, <2>1, <2>4 DEF line
  <1>6. CASE Exit(c) \/ Crash(c)
    <2> DEFINE new == Gone(child[c])
    <2>1. child' = [child EXCEPT ![c] = new] /\ child[c].at # "unborn"
      BY <1>1, <1>6 DEF Exit, Crash, Alive
    <2>2. /\ new \in Child /\ new.at = "dead" /\ new.reader = child[c].reader
          /\ new.stdin = <<>> /\ new.route = Nothing
      <3>1. Unborn \in Child /\ Unborn.stdin = <<>> /\ Unborn.route = Nothing
        BY DEF Child, Unborn, Nothing
      <3>2. new = [Unborn EXCEPT !.at = "dead", !.stdout = child[c].stdout, !.reader = child[c].reader]
        BY DEF Gone
      <3>3. child[c].stdout \in Seq({"ready", "error"}) /\ child[c].reader \in BOOLEAN
        BY <1>1 DEF Child
      <3> QED BY <3>1, <3>2, <3>3 DEF Child
    <2> HIDE DEF new
    <2> QED BY <1>3, <2>1, <2>2
  <1> QED BY <1>4, <1>5, <1>6 DEF ChildMoves

\* What a child does keeps the invariant, and so does what is written to it by a poll.
LEMMA MovedKeeps ==
    ASSUME NodeInv, child' \in [Children -> Child], \A d \in Children : Moved(d),
           UNCHANGED <<proc, ready, lastError, cfg, route, call, apart>>,
           asks' \in BOOLEAN, waits' \in [Writers -> Children \cup {NoChild}], WaitsAreWrites'
    PROVE  NodeInv'
  <1>1. /\ child' \in [Children -> Child] /\ \A d \in Children : Moved(d)
        /\ UNCHANGED <<proc, ready, lastError, cfg, route, call, apart>>
    OBVIOUS
  <1>2. TypeOK /\ TypeOK'
    BY <1>1 DEF NodeInv, TypeOK
  <1>3. SpawnedInOrder'
    <2>1. PICK k \in 1..MaxChildren + 1 : \A d \in Children : child[d].at = "unborn" <=> k <= d
      BY DEF NodeInv, SpawnedInOrder
    <2>2. \A d \in Children : child'[d].at = "unborn" <=> k <= d
      BY <1>1, <2>1 DEF Moved
    <2>3. \A d \in Children : child'[d].at = "unborn" => child'[d] = Unborn
      BY <1>1 DEF Moved, NodeInv, SpawnedInOrder
    <2> QED BY <2>1, <2>2, <2>3 DEF SpawnedInOrder
  <1>4. ReadersStay' /\ CallsAreWellFormed'
    BY <1>1 DEF NodeInv, ReadersStay, CallsAreWellFormed, Moved
  <1>5. ASSUME apart PROVE Apart'
    <2>1. Apart /\ (Alive(proc)' => Alive(proc)) /\ (Alive(proc) => proc \in Children)
      <3>1. Alive(proc) => proc \in Children
        BY <1>2 DEF TypeOK, Alive
      <3>2. Alive(proc)' => proc \in Children
        BY <1>1, <1>2 DEF TypeOK, Alive
      <3>3. proc \in Children => (Alive(proc)' => Alive(proc))
        BY <1>1 DEF Moved, Alive
      <3> QED BY <1>5, <3>1, <3>2, <3>3 DEF NodeInv
    <2>2. \A ats : Within(ats)' <=> Within(ats)
      BY <1>1 DEF Within
    <2>3. OneCall' /\ OneReader' /\ SendsTheCaches'
      BY <1>1, <2>1 DEF Apart, OneCall, OneReader, SendsTheCaches, Moved
    <2>4. StopsTheChild' /\ NoOrphan'
      BY <1>1, <1>2, <1>5, <2>1 DEF Apart, StopsTheChild, NoOrphan, Moved, TypeOK
    <2>5. ReadyIsKnown'
      <3>1. /\ Alive(proc) /\ ~Within({"wait ready"} \cup Stopping) => ready
            /\ Within({"spawn"}) => ~Alive(proc)
        BY <2>1 DEF Apart, ReadyIsKnown
      <3>2. ready => ready'
        BY <1>1
      <3>3. Alive(proc)' /\ ~Within({"wait ready"} \cup Stopping)' => ready'
        BY <2>1, <2>2, <3>1, <3>2, Zenon
      <3>4. Within({"spawn"})' => ~Alive(proc)'
        BY <2>1, <2>2, <3>1, Zenon
      <3> QED BY <3>3, <3>4 DEF ReadyIsKnown
    <2>6. StartsUntold'
      <3> SUFFICES ASSUME Within(Starting) PROVE StartsUntold'
        BY <2>2 DEF StartsUntold
      <3>1. proc # NoChild /\ Untold(child[proc].stdin) /\ child[proc].route = Nothing
        BY <2>1 DEF Apart, StartsUntold
      <3>2. proc \in Children /\ Moved(proc) /\ child[proc].stdin \in Seq(Line)
        BY <1>1, <1>2, <3>1 DEF TypeOK, Child
      <3>3. Untold(<<>>)
        BY DEF Untold
      <3>4. Untold(child'[proc].stdin) /\ child'[proc].route = Nothing
        BY <3>1, <3>2, <3>3, UntoldLemma DEF Moved
      <3> QED BY <1>1, <3>1, <3>4 DEF StartsUntold
    <2>7. WillHaveTheCaches'
      <3> SUFFICES ASSUME Alive(proc)' PROVE WillHaveTheCaches'
        BY DEF WillHaveTheCaches
      <3>1. /\ Alive(proc) /\ proc \in Children /\ Moved(proc) /\ child[proc].stdin \in Seq(Line)
            /\ child'[proc].at # "dead"
        <4>1. Alive(proc) /\ proc \in Children
          BY <2>1
        <4>2. Moved(proc) /\ child[proc] \in Child
          BY <1>1, <1>2, <4>1 DEF TypeOK
        <4>3. child'[proc].at # "dead"
          BY <1>1 DEF Alive
        <4> QED BY <4>1, <4>2, <4>3 DEF Child
      <3> DEFINE stats == Command("stats", Nothing)
      <3>4. stats.cmd # "configure" /\ stats.cmd # "route"
        BY DEF Command
      <3> HIDE DEF stats
      <3>2. ASSUME Ends(child[proc].stdin, "configure", child[proc].cfg, cfg)
            PROVE  Ends(child'[proc].stdin, "configure", child'[proc].cfg, cfg)
        <4>1. Ends(Append(child[proc].stdin, stats), "configure", child[proc].cfg, cfg)
          BY <3>1, <3>2, <3>4, EndsOther
        <4>2. CASE child[proc].stdin # <<>>
          BY <3>1, <3>2, <4>1, <4>2, EndsTail DEF Moved, stats
        <4>3. CASE child[proc].stdin = <<>>
          BY <3>1, <3>2, <4>1, <4>3 DEF Moved, stats
        <4> QED BY <4>2, <4>3
      <3>3. ASSUME Ends(child[proc].stdin, "route", child[proc].route, route)
            PROVE  Ends(child'[proc].stdin, "route", child'[proc].route, route)
        <4>1. Ends(Append(child[proc].stdin, stats), "route", child[proc].route, route)
          BY <3>1, <3>3, <3>4, EndsOther
        <4>2. CASE child[proc].stdin # <<>>
          BY <3>1, <3>3, <4>1, <4>2, EndsTail DEF Moved, stats
        <4>3. CASE child[proc].stdin = <<>>
          BY <3>1, <3>3, <4>1, <4>3 DEF Moved, stats
        <4> QED BY <4>2, <4>3
      <3> QED BY <1>1, <2>1, <2>2, <3>1, <3>2, <3>3 DEF Apart, WillHaveTheCaches
    <2> QED BY <2>3, <2>4, <2>5, <2>6, <2>7 DEF Apart
  <1> QED BY <1>1, <1>2, <1>3, <1>4, <1>5 DEF NodeInv

LEMMA ChildKeeps ==
    ASSUME NodeInv, NEW c \in Children, ChildMoves(c)
    PROVE  NodeInv'
  <1>1. /\ child' \in [Children -> Child] /\ \A d \in Children : Moved(d)
        /\ UNCHANGED <<proc, ready, lastError, cfg, route, call, apart, asks, waits>>
    BY ChildMovesLemma DEF NodeInv, ChildMoves, handleVars, cacheVars, pipeVars
  <1>2. asks' \in BOOLEAN /\ waits' \in [Writers -> Children \cup {NoChild}] /\ WaitsAreWrites'
    BY <1>1 DEF NodeInv, TypeOK, WaitsAreWrites
  <1> QED BY <1>1, <1>2, MovedKeeps

\* Whoever is at a write and finds the pipe full waits for the child the handle knows.
LEMMA BlocksKeep ==
    ASSUME NodeInv, NEW w \in Writers, Blocks(w), w \in Callers => call[w].at \in Writing
    PROVE  NodeInv'
  <1>1. /\ UNCHANGED <<proc, ready, lastError, cfg, route, child, call, apart, asks>>
        /\ waits' = [waits EXCEPT ![w] = proc]
    BY DEF Blocks, handleVars, cacheVars
  <1>2. TypeOK
    BY DEF NodeInv
  <1>3. child' \in [Children -> Child] /\ \A d \in Children : Moved(d)
    BY <1>1, <1>2 DEF TypeOK, Moved, Alive
  <1>4. asks' \in BOOLEAN /\ waits' \in [Writers -> Children \cup {NoChild}]
    BY <1>1, <1>2 DEF TypeOK
  <1>5. WaitsAreWrites'
    BY <1>1, <1>2 DEF NodeInv, TypeOK, WaitsAreWrites, Writers
  <1> QED BY <1>1, <1>3, <1>4, <1>5, MovedKeeps

\* A poll leaves the node as it is, but for a request in the pipe of a child.
LEMMA PollKeeps ==
    ASSUME NodeInv, CallPoll \/ PollStep
    PROVE  NodeInv'
  <1>1. TypeOK
    BY DEF NodeInv
  <1>2. CASE CallPoll
    <2>1. /\ UNCHANGED <<proc, ready, lastError, cfg, route, child, call, apart, waits>> /\ asks' = TRUE
      BY <1>2 DEF CallPoll, handleVars, cacheVars
    <2>2. child' \in [Children -> Child] /\ \A d \in Children : Moved(d)
      BY <1>1, <2>1 DEF TypeOK, Moved, Alive
    <2>3. waits' \in [Writers -> Children \cup {NoChild}] /\ WaitsAreWrites'
      BY <1>1, <2>1 DEF NodeInv, TypeOK, WaitsAreWrites
    <2> QED BY <2>1, <2>2, <2>3, MovedKeeps
  <1>3. CASE AskCounters
    <2> DEFINE line == Command("stats", Nothing)
    <2>1. /\ UNCHANGED <<proc, ready, lastError, cfg, route, call, apart>> /\ asks' = FALSE
          /\ child' = Wrote(Target(Poll), line) /\ waits' = [waits EXCEPT ![Poll] = NoChild]
      BY <1>3 DEF AskCounters, Writes, handleVars, cacheVars
    <2>2. Target(Poll) \in Children \cup {NoChild} /\ line \in Line
      BY <1>1 DEF Target, TypeOK, Writers, Command, Line, Nothing
    <2>3. PICK w \in Children \cup {NoChild} : child' = Wrote(w, line)
      BY <2>1, <2>2
    <2>4. child' \in [Children -> Child] /\ \A d \in Children : Moved(d)
      <3>1. /\ child' \in [Children -> Child]
            /\ \A d \in Children : child'[d].at = child[d].at
            /\ \A d \in Children : child'[d].reader = child[d].reader
            /\ \A d \in Children : child'[d].cfg = child[d].cfg /\ child'[d].route = child[d].route
            /\ \A d \in Children : \/ child'[d].stdin = child[d].stdin
                                    \/ child'[d].stdin = Append(child[d].stdin, line)
            /\ \A d \in Children : ~(Alive(w) /\ d = w) => child'[d] = child[d]
        BY <1>1, <2>2, <2>3, WroteLemma
      <3> QED BY <3>1 DEF Moved, Alive
    <2>5. waits' \in [Writers -> Children \cup {NoChild}] /\ WaitsAreWrites'
      BY <1>1, <2>1, NodeAssumption DEF NodeInv, TypeOK, WaitsAreWrites, Writers
    <2> QED BY <2>1, <2>4, <2>5, MovedKeeps
  <1>4. CASE asks /\ Blocks(Poll)
    BY <1>4, BlocksKeep, NodeAssumption DEF Writers
  <1> QED BY <1>2, <1>3, <1>4 DEF PollStep

\* So does its reader, who calls the node ready or not: under apart it is the reader of
\* the child that the handle knows.
LEMMA ReaderKeeps ==
    ASSUME NodeInv, NEW c \in Children, Reads(c)
    PROVE  NodeInv'
  <1>1. /\ UNCHANGED <<proc, cfg, route, call, apart, asks, waits>> /\ TypeOK
    BY DEF NodeInv, Reads, Dispatch, ReaderEnds, cacheVars, pipeVars
  <1>2. /\ TypeOK'
        /\ \A d \in Children : child'[d].at = child[d].at
        /\ \A d \in Children : child'[d].stdin = child[d].stdin
        /\ \A d \in Children : child'[d].cfg = child[d].cfg /\ child'[d].route = child[d].route
        /\ \A d \in Children : child'[d].reader => child[d].reader
        /\ \A d \in Children : child[d].reader => child'[d].reader \/ ~Alive(d)
        /\ \A d \in Children : child[d].reader = FALSE => child'[d] = child[d]
        /\ ready' = ready \/ ready' = TRUE \/ ~Alive(c)
        /\ child[c].reader
    <2>1. child \in [Children -> Child] /\ child[c] \in Child
      BY <1>1 DEF TypeOK
    <2>2. CASE Dispatch(c)
      <3>1. Tail(child[c].stdout) \in Seq({"ready", "error"})
        BY <2>1, <2>2 DEF Child, Dispatch
      <3>2. [child[c] EXCEPT !.stdout = Tail(child[c].stdout)] \in Child
        BY <2>1, <3>1 DEF Child
      <3>3. child' = [child EXCEPT ![c] = [child[c] EXCEPT !.stdout = Tail(child[c].stdout)]]
            /\ ready' = TRUE /\ lastError' \in BOOLEAN /\ child[c].reader
        BY <1>1, <2>2 DEF Dispatch, TypeOK
      <3>4. child' \in [Children -> Child]
        BY <2>1, <3>2, <3>3
      <3> QED BY <1>1, <2>1, <3>3, <3>4 DEF TypeOK, Child
    <2>3. CASE ReaderEnds(c)
      <3>1. child' = [child EXCEPT ![c] = [child[c] EXCEPT !.reader = FALSE]]
            /\ ready' = FALSE /\ lastError' = lastError /\ ~Alive(c) /\ child[c].reader
        BY <2>3 DEF ReaderEnds
      <3>2. [child[c] EXCEPT !.reader = FALSE] \in Child
        BY <2>1 DEF Child
      <3>3. child' \in [Children -> Child]
        BY <2>1, <3>1, <3>2
      <3> QED BY <1>1, <2>1, <3>1, <3>3 DEF TypeOK, Child
    <2> QED BY <2>2, <2>3 DEF Reads
  <1>3. /\ \A d \in Children : Alive(d)' <=> Alive(d)
        /\ Alive(proc)' <=> Alive(proc)
    <2>1. \A d \in Children : Alive(d)' <=> Alive(d)
      BY <1>2 DEF Alive
    <2>2. CASE proc = NoChild
      BY <1>1, <2>1, <2>2 DEF Alive
    <2>3. CASE proc \in Children
      BY <1>1, <2>1, <2>3 DEF Alive
    <2>4. proc = NoChild \/ proc \in Children
      BY <1>1 DEF TypeOK
    <2> QED BY <2>2, <2>3, <2>4
  <1>4. SpawnedInOrder' /\ ReadersStay' /\ CallsAreWellFormed' /\ WaitsAreWrites'
    <2>1. ReadersStay' /\ CallsAreWellFormed' /\ WaitsAreWrites'
      BY <1>1, <1>2, <1>3 DEF NodeInv, ReadersStay, CallsAreWellFormed, WaitsAreWrites
    <2>2. PICK k \in 1..MaxChildren + 1 : \A d \in Children : child[d].at = "unborn" <=> k <= d
      BY DEF NodeInv, SpawnedInOrder
    <2>3. \A d \in Children : child'[d].at = "unborn" <=> k <= d
      BY <1>2, <2>2
    <2>4. \A d \in Children : child'[d].at = "unborn" => child'[d] = Unborn
      <3>1. Unborn.reader = FALSE
        BY DEF Unborn
      <3>2. \A d \in Children : child[d].at = "unborn" => child[d] = Unborn
        BY DEF NodeInv, SpawnedInOrder
      <3> QED BY <1>2, <3>1, <3>2
    <2> QED BY <2>1, <2>2, <2>3, <2>4 DEF SpawnedInOrder
  <1>5. ASSUME apart PROVE Apart'
    <2>1. Apart /\ (Alive(proc)' <=> Alive(proc)) /\ (Alive(proc) => proc \in Children /\ proc # NoChild)
      BY <1>1, <1>3, <1>5 DEF NodeInv, TypeOK, Alive
    <2>2. \A ats : Within(ats)' <=> Within(ats)
      BY <1>1 DEF Within
    <2>3. OneCall' /\ OneReader' /\ SendsTheCaches'
      BY <1>1, <1>2, <2>1 DEF Apart, OneCall, OneReader, SendsTheCaches
    <2>4. StopsTheChild' /\ NoOrphan'
      BY <1>1, <1>2, <1>3, <1>5, <2>1 DEF Apart, StopsTheChild, NoOrphan
    <2>5. ReadyIsKnown'
      <3>1. Alive(proc) => Alive(c)
        BY <1>2, <2>1 DEF Apart, OneReader
      <3>2. Alive(proc) /\ ready => ready'
        BY <1>2, <3>1
      <3> QED BY <1>1, <2>1, <2>2, <3>2 DEF Apart, ReadyIsKnown
    <2>6. StartsUntold'
      BY <1>1, <1>2, <2>1, <2>2 DEF Apart, StartsUntold, TypeOK
    <2>7. WillHaveTheCaches'
      BY <1>1, <1>2, <2>1, <2>2 DEF Apart, WillHaveTheCaches
    <2> QED BY <2>3, <2>4, <2>5, <2>6, <2>7 DEF Apart
  <1> QED BY <1>1, <1>2, <1>4, <1>5 DEF NodeInv
-----------------------------------------------------------------------------
(* The calls: one thread t at a time *)

Busy(t) == \A u \in Callers \ {t} : call[u].at = "none"

\* What is settled when the only call there is stands at k.
Settled(k) ==
    /\ k.at \in {"shutdown", "wait exit"} => k.on = proc /\ proc # NoChild
    /\ k.at = "join" => ~Alive(proc) \/ child[proc].at = "killed"
    /\ Alive(proc) /\ k.at \notin {"wait ready"} \cup Stopping => ready
    /\ k.at = "spawn" => ~Alive(proc)
    /\ k.at \in Starting => /\ proc # NoChild
                            /\ Untold(child[proc].stdin) /\ child[proc].route = Nothing
    /\ k.at = "configure" => k.on = cfg /\ k.arg = route
    /\ k.at \in Asking => k.arg = route
    /\ k.at \in Pushing => k.arg = cfg
    /\ Alive(proc) /\ k.at \notin Starting \cup Stopping \cup Pushing =>
          Ends(child[proc].stdin, "configure", child[proc].cfg, cfg)
    /\ Alive(proc) /\ k.at \notin Starting \cup Stopping \cup Asking =>
          Ends(child[proc].stdin, "route", child[proc].route, route)

LEMMA ApartSettles ==
    ASSUME Apart, NEW t \in Callers, Busy(t)
    PROVE  Settled(call[t])
  <1>2. /\ Within({"wait ready"} \cup Stopping) <=> call[t].at \in {"wait ready"} \cup Stopping
        /\ Within({"spawn"}) <=> call[t].at \in {"spawn"}
        /\ Within(Starting) <=> call[t].at \in Starting
        /\ Within(Starting \cup Stopping \cup Pushing) <=> call[t].at \in Starting \cup Stopping \cup Pushing
        /\ Within(Starting \cup Stopping \cup Asking) <=> call[t].at \in Starting \cup Stopping \cup Asking
    BY DEF Busy, Within, Starting, Stopping, Asking, Pushing
  <1>3. StopsTheChild /\ SendsTheCaches /\ ReadyIsKnown /\ StartsUntold /\ WillHaveTheCaches
    BY DEF Apart
  <1>4. /\ Alive(proc) /\ call[t].at \notin {"wait ready"} \cup Stopping => ready
        /\ call[t].at = "spawn" => ~Alive(proc)
    BY <1>2, <1>3 DEF ReadyIsKnown
  <1>5. call[t].at \in Starting =>
            proc # NoChild /\ Untold(child[proc].stdin) /\ child[proc].route = Nothing
    BY <1>2, <1>3 DEF StartsUntold
  <1>6. /\ Alive(proc) /\ call[t].at \notin Starting \cup Stopping \cup Pushing =>
              Ends(child[proc].stdin, "configure", child[proc].cfg, cfg)
        /\ Alive(proc) /\ call[t].at \notin Starting \cup Stopping \cup Asking =>
              Ends(child[proc].stdin, "route", child[proc].route, route)
    BY <1>2, <1>3 DEF WillHaveTheCaches
  <1> QED BY <1>3, <1>4, <1>5, <1>6 DEF Settled, StopsTheChild, SendsTheCaches

\* Thread t waits for no pipe any more, or did not.
Released(t) ==
    \/ waits' = [waits EXCEPT ![t] = NoChild]
    \/ waits' = waits /\ call[t].at \notin Writing

LEMMA ReleasedLemma ==
    ASSUME NodeInv, NEW t \in Callers, NEW k \in Call, call' = [call EXCEPT ![t] = k],
           Released(t), apart' => apart /\ Busy(t)
    PROVE  waits' \in [Writers -> Children \cup {NoChild}] /\ WaitsAreWrites'
  <1>1. TypeOK /\ WaitsAreWrites
    BY DEF NodeInv
  <1>2. waits' = [waits EXCEPT ![t] = NoChild]
    <2>1. CASE waits' = waits /\ call[t].at \notin Writing
      <3>1. waits[t] = NoChild
        BY <1>1, <2>1 DEF WaitsAreWrites
      <3> QED BY <1>1, <2>1, <3>1 DEF TypeOK, Writers
    <2> QED BY <2>1 DEF Released
  <1>3. waits' \in [Writers -> Children \cup {NoChild}]
    BY <1>1, <1>2 DEF TypeOK
  <1>4. ASSUME NEW u \in Callers, waits'[u] # NoChild
        PROVE  call'[u].at \in Writing /\ (apart' => waits'[u] = proc')
    <2>1. u # t /\ waits[u] # NoChild
      BY <1>1, <1>2, <1>4 DEF TypeOK, Writers
    <2>2. call[u].at \in Writing /\ call'[u] = call[u]
      BY <1>1, <2>1 DEF WaitsAreWrites, TypeOK
    <2>3. ~apart'
      BY <2>1, <2>2 DEF Busy, Writing
    <2> QED BY <2>2, <2>3
  <1> QED BY <1>3, <1>4 DEF WaitsAreWrites

\* A step of thread t, to k, when it was the only one in a call.
LEMMA ThreadStep ==
    ASSUME NodeInv, NEW t \in Callers, NEW k \in Call, call' = [call EXCEPT ![t] = k], WellFormed(k),
           TypeOK', SpawnedInOrder', ReadersStay', Released(t),
           apart' => apart /\ Busy(t) /\ OneReader' /\ NoOrphan' /\ Settled(k)'
    PROVE  NodeInv'
  <1>1. call'[t] = k /\ \A u \in Callers : u # t => call'[u] = call[u]
    BY DEF NodeInv, TypeOK
  <1>2. CallsAreWellFormed' /\ WaitsAreWrites'
    <2>1. CallsAreWellFormed'
      BY <1>1 DEF NodeInv, CallsAreWellFormed
    <2> QED BY <2>1, ReleasedLemma
  <1>3. ASSUME apart' PROVE Apart'
    <2>1. OneReader' /\ NoOrphan' /\ Settled(k)' /\ \A u \in Callers : u # t => call'[u].at = "none"
      BY <1>1, <1>3 DEF Busy
    <2>3. /\ Within({"wait ready"} \cup Stopping)' <=> k.at \in {"wait ready"} \cup Stopping
          /\ Within({"spawn"})' <=> k.at \in {"spawn"}
          /\ Within(Starting)' <=> k.at \in Starting
          /\ Within(Starting \cup Stopping \cup Pushing)' <=> k.at \in Starting \cup Stopping \cup Pushing
          /\ Within(Starting \cup Stopping \cup Asking)' <=> k.at \in Starting \cup Stopping \cup Asking
      BY <1>1, <2>1 DEF Within, Starting, Stopping, Asking, Pushing
    <2>4. OneCall'
      BY <2>1 DEF OneCall
    <2>5. StopsTheChild' /\ SendsTheCaches'
      BY <1>1, <2>1 DEF Settled, StopsTheChild, SendsTheCaches, Asking, Pushing
    <2>6. ReadyIsKnown'
      BY <2>1, <2>3 DEF Settled, ReadyIsKnown
    <2>7. StartsUntold'
      BY <2>1, <2>3 DEF Settled, StartsUntold
    <2>8. WillHaveTheCaches'
      BY <2>1, <2>3 DEF Settled, WillHaveTheCaches
    <2> QED BY <2>1, <2>4, <2>5, <2>6, <2>7, <2>8 DEF Apart
  <1> QED BY <1>2, <1>3 DEF NodeInv

\* The thread that makes a step in a call is the only one.
LEMMA OneThread ==
    ASSUME NodeInv, apart, NEW t \in Callers, call[t].at # "none"
    PROVE  Busy(t) /\ Settled(call[t])
  <1>1. Apart /\ Busy(t)
    BY DEF NodeInv, Apart, OneCall, Busy
  <1> QED BY <1>1, ApartSettles

\* A step of a call that leaves the children and what the handle knows of them alone.
LEMMA ThreadMoves ==
    ASSUME NodeInv, NEW t \in Callers, NEW k \in Call, call' = [call EXCEPT ![t] = k], WellFormed(k),
           UNCHANGED <<proc, ready, lastError, child, asks, waits>>, call[t].at \notin Writing,
           cfg' \in Nat, route' \in Nat, apart' \in BOOLEAN,
           apart' => apart /\ Busy(t) /\ Settled(k)'
    PROVE  NodeInv'
  <1>1. TypeOK'
    BY DEF NodeInv, TypeOK
  <1>2. SpawnedInOrder' /\ ReadersStay'
    BY DEF NodeInv, SpawnedInOrder, ReadersStay, Alive
  <1>3. apart' => OneReader' /\ NoOrphan'
    BY DEF NodeInv, Apart, OneReader, NoOrphan, Alive
  <1> QED BY <1>1, <1>2, <1>3, ThreadStep DEF Released

\* A step of a call that writes a line to the child.
LEMMA ThreadWrites ==
    ASSUME NodeInv, NEW t \in Callers, NEW k \in Call, call' = [call EXCEPT ![t] = k], WellFormed(k),
           UNCHANGED <<proc, ready, lastError, cfg, route, apart, asks>>,
           NEW line \in Line, Writes(t, line),
           apart => Busy(t) /\ Settled(k)'
    PROVE  NodeInv'
  <1>1. /\ child' \in [Children -> Child]
        /\ \A c \in Children : child'[c].at = child[c].at
        /\ \A c \in Children : child'[c].reader = child[c].reader
        /\ \A c \in Children : child[c].at = "unborn" => child'[c] = child[c]
    <2>1. TypeOK
      BY DEF NodeInv
    <2>2. Target(t) \in Children \cup {NoChild}
      BY <2>1 DEF Target, TypeOK, Writers
    <2>3. PICK w \in Children \cup {NoChild} : child' = Wrote(w, line)
      BY <2>2 DEF Writes
    <2>4. /\ child' \in [Children -> Child]
          /\ \A c \in Children : child'[c].at = child[c].at
          /\ \A c \in Children : child'[c].reader = child[c].reader
          /\ \A c \in Children : ~(Alive(w) /\ c = w) => child'[c] = child[c]
      BY <2>1, <2>3, WroteLemma
    <2> QED BY <2>4 DEF Alive
  <1>2. Released(t)
    BY DEF Released, Writes
  <1>3. TypeOK'
    BY <1>1, <1>2, ReleasedLemma DEF NodeInv, TypeOK
  <1>4. \A c \in Children : Alive(c)' <=> Alive(c)
    BY <1>1 DEF Alive
  <1>5. SpawnedInOrder'
    <2>1. PICK n \in 1..MaxChildren + 1 : \A d \in Children : child[d].at = "unborn" <=> n <= d
      BY DEF NodeInv, SpawnedInOrder
    <2>2. \A d \in Children : child'[d].at = "unborn" <=> n <= d
      BY <1>1, <2>1
    <2>3. \A d \in Children : child'[d].at = "unborn" => child'[d] = Unborn
      BY <1>1 DEF NodeInv, SpawnedInOrder
    <2> QED BY <2>1, <2>2, <2>3 DEF SpawnedInOrder
  <1>6. ReadersStay'
    BY <1>1, <1>4 DEF NodeInv, ReadersStay
  <1>7. apart' => OneReader' /\ NoOrphan'
    BY <1>1, <1>4 DEF NodeInv, Apart, OneReader, NoOrphan
  <1> QED BY <1>3, <1>5, <1>6, <1>7, <1>2, ThreadStep

\* A call begins: no thread is in another, or they overlap from now on.
LEMMA CallsKeep ==
    ASSUME NodeInv, NEW t \in Callers, Calls(t)
    PROVE  NodeInv'
  <1>1. TypeOK /\ call[t] \in Call /\ call \in [Callers -> Call]
    BY DEF NodeInv, TypeOK
  <1>2. Configs \cup Routes \subseteq Nat
    BY NodeAssumption
  <1>3. ASSUME NEW op \in {"start", "stop", "route", "set"},
               NEW at \in {"spawn", "stop", "ask", "push"}, NEW arg \in Nat, Begin(t, op, at, arg)
        PROVE  \E k \in Call : /\ call' = [call EXCEPT ![t] = k] /\ WellFormed(k)
                               /\ k.at = at /\ k.arg = arg
                               /\ apart' \in BOOLEAN
                               /\ apart' => apart /\ Busy(t) /\ call[t].at = "none"
                               /\ UNCHANGED <<asks, waits>> /\ call[t].at = "none"
    <2> DEFINE k == [Idle EXCEPT !.op = op, !.at = at, !.arg = arg]
    <2>1. k \in Call /\ k.op = op /\ k.at = at /\ k.arg = arg
      BY DEF Idle, Call, NoChild, Nothing, Stopping, Asking, Pushing
    <2>2. /\ call' = [call EXCEPT ![t] = k] /\ apart' = (apart /\ \A u \in Callers : call[u].op = "none")
          /\ UNCHANGED <<asks, waits>> /\ call[t].op = "none"
      BY <1>3 DEF Begin, pipeVars
    <2>3. \A u \in Callers : call[u].op = "none" => call[u].at = "none"
      BY DEF NodeInv, CallsAreWellFormed, WellFormed
    <2>4. apart' \in BOOLEAN
      BY <1>1, <2>2 DEF TypeOK
    <2>5. apart' => apart /\ Busy(t) /\ call[t].at = "none"
      BY <2>2, <2>3 DEF Busy
    <2> HIDE DEF k
    <2>6. WellFormed(k)
      BY <2>1 DEF WellFormed
    <2> QED BY <2>1, <2>2, <2>3, <2>4, <2>5, <2>6
  <1>4. ASSUME apart, Busy(t), call[t].at = "none" PROVE Settled(call[t])
    BY <1>4, ApartSettles DEF NodeInv
  <1>5. CASE CallStart(t)
    <2>1. ~Running /\ Begin(t, "start", "spawn", Nothing) /\ UNCHANGED <<proc, ready, lastError, cfg, route, child>>
      BY <1>5 DEF CallStart, handleVars, cacheVars
    <2>2. PICK k \in Call : /\ call' = [call EXCEPT ![t] = k] /\ WellFormed(k) /\ k.at = "spawn"
                            /\ apart' \in BOOLEAN
                            /\ apart' => apart /\ Busy(t) /\ call[t].at = "none"
                            /\ UNCHANGED <<asks, waits>> /\ call[t].at = "none"
      BY <1>3, <2>1 DEF Nothing
    <2>3. ASSUME apart' PROVE Settled(k)'
      <3>1. ~Alive(proc)
        BY <1>4, <2>1, <2>2, <2>3 DEF Settled, Running, Stopping
      <3>2. ~Alive(proc)'
        BY <2>1, <3>1 DEF Alive
      <3> QED BY <2>2, <3>2 DEF Settled, Starting, Asking, Pushing
    <2> QED BY <1>1, <2>1, <2>2, <2>3, ThreadMoves DEF TypeOK, Writing
  <1>6. CASE CallStop(t)
    <2>1. Begin(t, "stop", "stop", Nothing) /\ UNCHANGED <<proc, ready, lastError, cfg, route, child>>
      BY <1>6 DEF CallStop, handleVars, cacheVars
    <2>2. PICK k \in Call : /\ call' = [call EXCEPT ![t] = k] /\ WellFormed(k) /\ k.at = "stop"
                            /\ apart' \in BOOLEAN
                            /\ apart' => apart /\ Busy(t) /\ call[t].at = "none"
                            /\ UNCHANGED <<asks, waits>> /\ call[t].at = "none"
      BY <1>3, <2>1 DEF Nothing
    <2>3. Settled(k)'
      BY <2>2 DEF Settled, Starting, Stopping, Asking, Pushing
    <2> QED BY <1>1, <2>1, <2>2, <2>3, ThreadMoves DEF TypeOK, Writing
  <1>7. CASE CallRoute(t)
    <2>1. PICK r \in Routes \cup {Nothing} : Begin(t, "route", "ask", r) /\ route' = r
      BY <1>7 DEF CallRoute
    <2>2. r \in Nat /\ UNCHANGED <<proc, ready, lastError, cfg, child>>
      BY <1>2, <1>7 DEF CallRoute, handleVars, Nothing
    <2>3. PICK k \in Call : /\ call' = [call EXCEPT ![t] = k] /\ WellFormed(k) /\ k.at = "ask" /\ k.arg = r
                            /\ apart' \in BOOLEAN
                            /\ apart' => apart /\ Busy(t) /\ call[t].at = "none"
                            /\ UNCHANGED <<asks, waits>> /\ call[t].at = "none"
      BY <1>3, <2>1, <2>2
    <2>4. ASSUME apart' PROVE Settled(k)'
      <3>1. Settled(call[t]) /\ call[t].at = "none" /\ (Alive(proc)' <=> Alive(proc))
        BY <1>4, <2>2, <2>3, <2>4 DEF Alive
      <3> QED BY <2>1, <2>2, <2>3, <3>1 DEF Settled, Starting, Stopping, Asking, Pushing
    <2> QED BY <1>1, <2>1, <2>2, <2>3, <2>4, ThreadMoves DEF TypeOK, Writing
  <1>8. CASE CallSet(t)
    <2>1. PICK v \in Configs : Begin(t, "set", "push", v) /\ cfg' = v
      BY <1>8 DEF CallSet
    <2>2. v \in Nat /\ UNCHANGED <<proc, ready, lastError, route, child>>
      BY <1>2, <1>8 DEF CallSet, handleVars
    <2>3. PICK k \in Call : /\ call' = [call EXCEPT ![t] = k] /\ WellFormed(k) /\ k.at = "push" /\ k.arg = v
                            /\ apart' \in BOOLEAN
                            /\ apart' => apart /\ Busy(t) /\ call[t].at = "none"
                            /\ UNCHANGED <<asks, waits>> /\ call[t].at = "none"
      BY <1>3, <2>1, <2>2
    <2>4. ASSUME apart' PROVE Settled(k)'
      <3>1. Settled(call[t]) /\ call[t].at = "none" /\ (Alive(proc)' <=> Alive(proc))
        BY <1>4, <2>2, <2>3, <2>4 DEF Alive
      <3> QED BY <2>1, <2>2, <2>3, <3>1 DEF Settled, Starting, Stopping, Asking, Pushing
    <2> QED BY <1>1, <2>1, <2>2, <2>3, <2>4, ThreadMoves DEF TypeOK, Writing
  <1> QED BY <1>5, <1>6, <1>7, <1>8 DEF Calls

Ats == {"none", "spawn", "reply"} \cup Asking \cup Pushing \cup Starting \cup Stopping

LEMMA GoesLemma ==
    ASSUME NodeInv, NEW t \in Callers, call[t].at # "none", NEW at \in Ats \ {"none"}, Goes(t, at),
           at \in {"shutdown", "wait exit"} => call[t].on \in Children
    PROVE  \E k \in Call : /\ call' = [call EXCEPT ![t] = k] /\ WellFormed(k)
                           /\ k.at = at /\ k.on = call[t].on /\ k.arg = call[t].arg
  <1> DEFINE k == [call[t] EXCEPT !.at = at]
  <1>1. call[t] \in Call /\ call \in [Callers -> Call] /\ WellFormed(call[t])
    BY DEF NodeInv, TypeOK, CallsAreWellFormed
  <1>2. k \in Call /\ k.op = call[t].op /\ k.at = at /\ k.on = call[t].on /\ k.arg = call[t].arg
    BY <1>1 DEF Call, Ats
  <1>3. call' = [call EXCEPT ![t] = k]
    BY DEF Goes
  <1> HIDE DEF k
  <1>4. WellFormed(k)
    BY <1>1, <1>2 DEF WellFormed
  <1> QED BY <1>2, <1>3, <1>4

LEMMA ReturnsLemma ==
    ASSUME NEW t \in Callers, Returns(t)
    PROVE  \E k \in Call : call' = [call EXCEPT ![t] = k] /\ WellFormed(k) /\ k.at = "none"
  <1>1. Idle \in Call /\ Idle.at = "none" /\ WellFormed(Idle)
    BY DEF Idle, Call, NoChild, Nothing, WellFormed
  <1> QED BY <1>1 DEF Returns

LEMMA SpawnKeeps ==
    ASSUME NodeInv, NEW t \in Callers, Spawn(t)
    PROVE  NodeInv'
  <1> DEFINE n == NextChild
             new == [Unborn EXCEPT !.at = "booting", !.reader = TRUE]
  <1>1. TypeOK /\ SpawnedInOrder /\ ReadersStay /\ call[t].at = "spawn"
    BY DEF NodeInv, Spawn
  <1>2. n \in Children /\ child[n].at = "unborn" /\ \A c \in Children : child[c].at = "unborn" <=> n <= c
    BY <1>1, NextChildLemma DEF Spawn
  <1>3. child[n] = Unborn
    BY <1>1, <1>2 DEF SpawnedInOrder
  <1>4. new \in Child /\ new.at = "booting" /\ new.reader = TRUE /\ Untold(new.stdin) /\ new.route = Nothing
    <2>1. Unborn \in Child /\ Unborn.stdin = <<>> /\ Unborn.route = Nothing
      BY DEF Unborn, Child, Nothing
    <2>2. Untold(<<>>)
      BY DEF Untold
    <2> QED BY <2>1, <2>2 DEF Child
  <1>5. /\ lastError' = FALSE /\ ready' = FALSE /\ proc' = n
        /\ apart' = (apart /\ \A c \in Children : ~child[c].reader)
        /\ UNCHANGED <<cfg, route, asks, waits>> /\ Goes(t, "wait ready")
    BY DEF Spawn, cacheVars, pipeVars
  <1>6. child' = [child EXCEPT ![n] = new]
    BY <1>3 DEF Spawn
  <1> HIDE DEF n, new
  <1>7. PICK k \in Call : call' = [call EXCEPT ![t] = k] /\ WellFormed(k) /\ k.at = "wait ready"
    <2>1. "wait ready" \in Ats \ {"none"}
      BY DEF Ats, Starting
    <2>2. \E k \in Call : /\ call' = [call EXCEPT ![t] = k] /\ WellFormed(k)
                          /\ k.at = "wait ready" /\ k.on = call[t].on /\ k.arg = call[t].arg
      BY <1>1, <1>5, <2>1, GoesLemma
    <2> QED BY <2>2
  <1>8. /\ child' \in [Children -> Child] /\ child'[n] = new
        /\ \A c \in Children : c # n => child'[c] = child[c]
    BY <1>1, <1>2, <1>4, <1>6 DEF TypeOK
  <1>9. TypeOK'
    BY <1>1, <1>2, <1>5, <1>7, <1>8 DEF TypeOK
  <1>10. SpawnedInOrder'
    <2>1. n + 1 \in 1..MaxChildren + 1 /\ \A c \in Children : c # n => (n <= c <=> n + 1 <= c)
      BY <1>2, NodeAssumption DEF Children
    <2>2. ~(n + 1 <= n)
      BY <1>2 DEF Children
    <2>3. \A c \in Children : child'[c].at = "unborn" <=> n + 1 <= c
      <3> TAKE c \in Children
      <3>1. CASE c = n
        BY <1>4, <1>8, <2>2, <3>1
      <3>2. CASE c # n
        BY <1>2, <1>8, <2>1, <3>2
      <3> QED BY <3>1, <3>2
    <2>4. \A c \in Children : child'[c].at = "unborn" => child'[c] = Unborn
      BY <1>1, <1>4, <1>8 DEF SpawnedInOrder
    <2> QED BY <2>1, <2>3, <2>4 DEF SpawnedInOrder
  <1>11. ReadersStay'
    BY <1>1, <1>4, <1>8 DEF ReadersStay, Alive
  <1>12. ASSUME apart' PROVE apart /\ Busy(t) /\ OneReader' /\ NoOrphan' /\ Settled(k)'
    <2>1. apart /\ \A c \in Children : ~child[c].reader
      BY <1>5, <1>12
    <2>2. Busy(t)
      BY <1>1, <2>1, OneThread
    <2>3. \A c \in Children : ~Alive(c)
      BY <1>1, <2>1 DEF ReadersStay
    <2>4. \A c \in Children : c # n => ~Alive(c)' /\ ~child'[c].reader
      BY <1>8, <2>1, <2>3 DEF Alive
    <2>5. OneReader' /\ NoOrphan'
      BY <1>5, <2>4 DEF OneReader, NoOrphan
    <2>6. n # NoChild
      BY <1>2 DEF Children, NoChild
    <2>7. Settled(k)'
      BY <1>4, <1>5, <1>7, <1>8, <2>6 DEF Settled, Starting, Stopping, Asking, Pushing
    <2> QED BY <2>1, <2>2, <2>5, <2>7
  <1> QED BY <1>1, <1>5, <1>7, <1>9, <1>10, <1>11, <1>12, ThreadStep DEF Released, Writing

\* The steps of a start and of a stop that write nothing.
LEMMA StartKeeps ==
    ASSUME NodeInv, NEW t \in Callers, SpawnFails(t) \/ SeeReady(t) \/ Remember(t) \/ StopBegins(t)
    PROVE  NodeInv'
  <1>1. TypeOK /\ call[t] \in Call /\ call[t].at # "none" /\ UNCHANGED <<proc, cfg, route, child, apart, asks, waits>>
    BY DEF NodeInv, TypeOK, SpawnFails, SeeReady, Remember, StopBegins, handleVars, cacheVars, pipeVars
  <1>2. apart => Busy(t) /\ Settled(call[t])
    BY <1>1, OneThread
  <1>3. (Alive(proc)' <=> Alive(proc)) /\ (Alive(proc) => proc # NoChild)
    BY <1>1 DEF Alive
  <1>4. CASE SpawnFails(t)
    <2>1. ready' = FALSE /\ lastError' = TRUE /\ call[t].at = "spawn" /\ Returns(t)
      BY <1>4 DEF SpawnFails
    <2>2. PICK k \in Call : call' = [call EXCEPT ![t] = k] /\ WellFormed(k) /\ k.at = "none"
      BY <2>1, ReturnsLemma
    <2>3. ASSUME apart' PROVE Settled(k)'
      <3>1. ~Alive(proc)'
        BY <1>1, <1>2, <1>3, <2>1, <2>3 DEF Settled
      <3> QED BY <2>2, <3>1 DEF Settled, Starting, Asking, Pushing
    <2>4. TypeOK'
      BY <1>1, <2>1, <2>2 DEF TypeOK
    <2>5. SpawnedInOrder' /\ ReadersStay'
      BY <1>1 DEF NodeInv, SpawnedInOrder, ReadersStay, Alive
    <2>6. apart' => OneReader' /\ NoOrphan'
      BY <1>1 DEF NodeInv, Apart, OneReader, NoOrphan, Alive
    <2> QED BY <1>1, <1>2, <2>1, <2>2, <2>3, <2>4, <2>5, <2>6, ThreadStep DEF Released, Writing
  <1>5. CASE SeeReady(t)
    <2>1. /\ call[t].at = "wait ready" /\ UNCHANGED <<ready, lastError>>
          /\ (Goes(t, "remember") /\ ready) \/ Goes(t, "stop")
      BY <1>5 DEF SeeReady, handleVars
    <2>2. CASE Goes(t, "remember") /\ ready
      <3>1. PICK k \in Call : call' = [call EXCEPT ![t] = k] /\ WellFormed(k) /\ k.at = "remember"
        <4>1. "remember" \in Ats \ {"none"}
          BY DEF Ats, Starting
        <4>2. \E k \in Call : /\ call' = [call EXCEPT ![t] = k] /\ WellFormed(k)
                              /\ k.at = "remember" /\ k.on = call[t].on /\ k.arg = call[t].arg
          BY <1>1, <2>2, <4>1, GoesLemma
        <4> QED BY <4>2
      <3>2. apart => Settled(k)'
        BY <1>1, <1>2, <2>1, <2>2, <3>1 DEF Settled, Starting, Stopping, Asking, Pushing
      <3> QED BY <1>1, <1>2, <2>1, <3>1, <3>2, ThreadMoves DEF TypeOK, Writing
    <2>3. CASE Goes(t, "stop")
      <3>1. PICK k \in Call : call' = [call EXCEPT ![t] = k] /\ WellFormed(k) /\ k.at = "stop"
        <4>1. "stop" \in Ats \ {"none"}
          BY DEF Ats, Stopping
        <4>2. \E k \in Call : /\ call' = [call EXCEPT ![t] = k] /\ WellFormed(k)
                              /\ k.at = "stop" /\ k.on = call[t].on /\ k.arg = call[t].arg
          BY <1>1, <2>3, <4>1, GoesLemma
        <4> QED BY <4>2
      <3>2. Settled(k)'
        BY <3>1 DEF Settled, Starting, Stopping, Asking, Pushing
      <3> QED BY <1>1, <1>2, <2>1, <3>1, <3>2, ThreadMoves DEF TypeOK, Writing
    <2> QED BY <2>1, <2>2, <2>3
  <1>6. CASE Remember(t)
    <2> DEFINE new == [call[t] EXCEPT !.at = "configure", !.on = cfg, !.arg = route]
    <2>1. /\ call[t].at = "remember" /\ UNCHANGED <<ready, lastError>>
          /\ call' = [call EXCEPT ![t] = new]
      BY <1>1, <1>6 DEF Remember, handleVars, TypeOK
    <2>2. new \in Call /\ new.at = "configure" /\ new.op = call[t].op /\ new.on = cfg /\ new.arg = route
      BY <1>1 DEF Call, Starting, TypeOK
    <2>3. WellFormed(new)
      BY <1>1, <2>2 DEF NodeInv, CallsAreWellFormed, WellFormed
    <2> HIDE DEF new
    <2>4. PICK k \in Call : k = new
      BY <2>2
    <2>5. apart => Settled(k)'
      BY <1>1, <1>2, <1>3, <2>1, <2>2, <2>4 DEF Settled, Starting, Stopping, Asking, Pushing
    <2> QED BY <1>1, <1>2, <2>1, <2>3, <2>4, <2>5, ThreadMoves DEF TypeOK, Writing
  <1>7. CASE StopBegins(t)
    <2>1. call[t].at = "stop" /\ UNCHANGED <<ready, lastError>>
      BY <1>7 DEF StopBegins, handleVars
    <2>2. CASE proc = NoChild
      <3>1. PICK k \in Call : call' = [call EXCEPT ![t] = k] /\ WellFormed(k) /\ k.at = "none"
        BY <1>7, <2>2, ReturnsLemma DEF StopBegins
      <3>2. Settled(k)'
        BY <1>3, <2>2, <3>1 DEF Settled, Starting, Asking, Pushing
      <3> QED BY <1>1, <1>2, <2>1, <3>1, <3>2, ThreadMoves DEF TypeOK, Writing
    <2>3. CASE proc # NoChild
      <3> DEFINE at == IF Alive(proc) THEN "shutdown" ELSE "join"
                 new == [call[t] EXCEPT !.at = at, !.on = proc]
      <3>6. call' = [call EXCEPT ![t] = new]
        BY <1>1, <1>7, <2>3 DEF StopBegins, TypeOK
      <3>1. call' = [call EXCEPT ![t] = new] /\ proc \in Children /\ proc \in Nat
        BY <1>1, <2>3, <3>6, NodeAssumption DEF TypeOK, Children
      <3>7. at \in {"shutdown", "join"}
        OBVIOUS
      <3>2. new \in Call /\ new.at = at /\ new.op = call[t].op /\ new.on = proc
        BY <1>1, <3>1 DEF Call, Stopping
      <3>3. WellFormed(new)
        <4> HIDE DEF at, new
        <4> QED BY <1>1, <3>1, <3>2, <3>7 DEF NodeInv, CallsAreWellFormed, WellFormed
      <3> HIDE DEF new
      <3>4. PICK k \in Call : k = new
        BY <3>2
      <3>5. Settled(k)'
        BY <1>1, <1>3, <2>3, <3>2, <3>4 DEF Settled, Starting, Stopping, Asking, Pushing
      <3> QED BY <1>1, <1>2, <2>1, <3>1, <3>3, <3>4, <3>5, ThreadMoves DEF TypeOK, Writing
    <2> QED BY <2>2, <2>3
  <1> QED BY <1>4, <1>5, <1>6, <1>7

\* The child the handle knows, and the line written to it, if it lives.
LEMMA WroteToProc ==
    ASSUME TypeOK, NEW line \in Line, child' = Wrote(proc, line), proc' = proc
    PROVE  /\ Alive(proc)' <=> Alive(proc)
           /\ Alive(proc) => /\ proc \in Children /\ proc # NoChild
                             /\ child[proc].stdin \in Seq(Line)
                             /\ child'[proc].stdin = Append(child[proc].stdin, line)
           /\ proc \in Children => /\ child'[proc].at = child[proc].at
                                   /\ child'[proc].cfg = child[proc].cfg
                                   /\ child'[proc].route = child[proc].route
                                   /\ ~Alive(proc) => child'[proc].stdin = child[proc].stdin
  <1>1. /\ \A c \in Children : Wrote(proc, line)[c].at = child[c].at
        /\ \A c \in Children : Wrote(proc, line)[c].cfg = child[c].cfg
        /\ \A c \in Children : Wrote(proc, line)[c].route = child[c].route
        /\ \A c \in Children : Wrote(proc, line)[c].stdin = IF Alive(proc) /\ c = proc
                                      THEN Append(child[c].stdin, line) ELSE child[c].stdin
    <2>1. proc \in Children \cup {NoChild}
      BY DEF TypeOK
    <2> QED BY <2>1, WroteLemma
  <1>2. Alive(proc) => proc \in Children /\ proc # NoChild
    BY DEF Alive, TypeOK
  <1>3. proc \in Children => child[proc].stdin \in Seq(Line)
    BY DEF TypeOK, Child
  <1>4. proc \in Children => /\ child'[proc].at = child[proc].at
                            /\ child'[proc].cfg = child[proc].cfg
                            /\ child'[proc].route = child[proc].route
    BY <1>1
  <1>5. proc \in Children => (Alive(proc)' <=> Alive(proc))
    BY <1>4 DEF Alive
  <1>6. proc \notin Children => ~Alive(proc) /\ ~Alive(proc)'
    BY DEF TypeOK, Alive
  <1>7. proc \in Children => child'[proc].stdin = IF Alive(proc) THEN Append(child[proc].stdin, line)
                                                                ELSE child[proc].stdin
    BY <1>1
  <1> QED BY <1>2, <1>3, <1>4, <1>5, <1>6, <1>7

\* Whoever writes on behalf of a call writes to the child the handle knows.
LEMMA WritesLemma ==
    ASSUME NodeInv, apart, NEW t \in Callers, NEW line \in Line, Writes(t, line), proc' = proc
    PROVE  /\ Target(t) = proc
           /\ Alive(proc)' <=> Alive(proc)
           /\ Alive(proc) => /\ proc \in Children /\ proc # NoChild
                             /\ child[proc].stdin \in Seq(Line)
                             /\ child'[proc].stdin = Append(child[proc].stdin, line)
           /\ proc \in Children => /\ child'[proc].cfg = child[proc].cfg
                                   /\ child'[proc].route = child[proc].route
  <1>1. Target(t) = proc
    BY DEF NodeInv, WaitsAreWrites, Target
  <1>2. child' = Wrote(proc, line) /\ TypeOK
    BY <1>1 DEF NodeInv, Writes
  <1> QED BY <1>1, <1>2, WroteToProc

\* The settings of a new child, and then its route if there is one.
LEMMA ConfigureKeeps ==
    ASSUME NodeInv, NEW t \in Callers, Configure(t)
    PROVE  NodeInv'
  <1> DEFINE line == Command("configure", call[t].on)
  <1>1. /\ TypeOK /\ call[t] \in Call /\ call[t].at = "configure"
        /\ UNCHANGED <<proc, ready, lastError, cfg, route, apart, asks>> /\ Writes(t, line)
    BY DEF NodeInv, TypeOK, Configure, handleVars, cacheVars
  <1>2. apart => Busy(t) /\ Settled(call[t])
    BY <1>1, OneThread
  <1>3. line \in Line /\ line.cmd = "configure"
    BY <1>1 DEF Command, Line, Call
  <1>4. PICK k \in Call : /\ call' = [call EXCEPT ![t] = k] /\ WellFormed(k)
                          /\ \/ k.at = "none" /\ (~Alive(Target(t)) \/ call[t].arg = Nothing)
                             \/ k.at = "ask" /\ k.arg = call[t].arg
    <2>1. CASE Returns(t) /\ (~Alive(Target(t)) \/ call[t].arg = Nothing)
      BY <2>1, ReturnsLemma
    <2>2. CASE Goes(t, "ask")
      <3>1. "ask" \in Ats \ {"none"}
        BY DEF Ats, Asking
      <3>2. \E k \in Call : /\ call' = [call EXCEPT ![t] = k] /\ WellFormed(k)
                            /\ k.at = "ask" /\ k.on = call[t].on /\ k.arg = call[t].arg
        BY <1>1, <2>2, <3>1, GoesLemma
      <3> QED BY <3>2
    <2> QED BY <2>1, <2>2 DEF Configure
  <1>5. ASSUME apart PROVE Busy(t) /\ Settled(k)'
    <2>1. /\ call[t].on = cfg /\ call[t].arg = route /\ proc # NoChild
          /\ Untold(child[proc].stdin) /\ child[proc].route = Nothing
          /\ Alive(proc) => ready
      BY <1>1, <1>2, <1>5 DEF Settled, Starting, Stopping
    <2>2. /\ Target(t) = proc
          /\ Alive(proc)' <=> Alive(proc)
          /\ Alive(proc) => /\ proc \in Children /\ proc # NoChild
                            /\ child[proc].stdin \in Seq(Line)
                            /\ child'[proc].stdin = Append(child[proc].stdin, line)
          /\ proc \in Children => /\ child'[proc].cfg = child[proc].cfg
                                  /\ child'[proc].route = child[proc].route
      BY <1>1, <1>3, <1>5, WritesLemma
    <2>3. ASSUME Alive(proc) PROVE Ends(child'[proc].stdin, "configure", child'[proc].cfg, cfg)
      BY <2>1, <2>2, <2>3, EndsSame
    <2>4. ASSUME Alive(proc), route = Nothing PROVE Ends(child'[proc].stdin, "route", child'[proc].route, route)
      <3>1. Ends(child[proc].stdin, "route", child[proc].route, route)
        BY <2>1, <2>2, <2>4, UntoldLemma
      <3>2. line.cmd # "route"
        BY <1>3
      <3> HIDE DEF line
      <3>3. Ends(Append(child[proc].stdin, line), "route", child[proc].route, route)
        BY <2>2, <2>4, <3>1, <3>2, EndsOther
      <3> QED BY <2>2, <2>4, <3>3
    <2>5. Settled(k)'
      BY <1>1, <1>4, <2>1, <2>2, <2>3, <2>4 DEF Settled, Starting, Asking, Pushing
    <2> QED BY <1>2, <1>5, <2>5
  <1> HIDE DEF line
  <1> QED BY <1>1, <1>3, <1>4, <1>5, ThreadWrites

\* A node that lives and does not run is not known to run: then nothing is to be written.
LEMMA CheckKeeps ==
    ASSUME NodeInv, NEW t \in Callers, Check(t)
    PROVE  NodeInv'
  <1>1. /\ TypeOK /\ call[t] \in Call /\ call[t].at \in {"ask", "push"}
        /\ UNCHANGED <<proc, ready, lastError, cfg, route, child, apart, asks, waits>>
    BY DEF NodeInv, TypeOK, Check, handleVars, cacheVars, pipeVars
  <1>2. apart => Busy(t) /\ Settled(call[t])
    BY <1>1, OneThread
  <1>3. Alive(proc)' <=> Alive(proc)
    BY <1>1 DEF Alive
  <1>4. CASE Running
    <2> DEFINE at == IF call[t].at = "ask" THEN "request" ELSE "send"
    <2>1. Goes(t, at)
      BY <1>4 DEF Check
    <2>2. at \in Ats \ {"none"} /\ at \notin {"shutdown", "wait exit"}
      BY DEF Ats, Asking, Pushing
    <2>3. PICK k \in Call : /\ call' = [call EXCEPT ![t] = k] /\ WellFormed(k)
                            /\ k.at = at /\ k.on = call[t].on /\ k.arg = call[t].arg
      BY <1>1, <2>1, <2>2, GoesLemma
    <2>4. apart => Settled(k)'
      BY <1>1, <1>2, <1>3, <2>3 DEF Settled, Starting, Stopping, Asking, Pushing
    <2> QED BY <1>1, <1>2, <2>3, <2>4, ThreadMoves DEF TypeOK, Writing
  <1>5. CASE ~Running
    <2>1. PICK k \in Call : call' = [call EXCEPT ![t] = k] /\ WellFormed(k) /\ k.at = "none"
      BY <1>5, ReturnsLemma DEF Check
    <2>2. ASSUME apart PROVE Settled(k)'
      <3>1. ~Alive(proc)'
        BY <1>1, <1>2, <1>3, <1>5, <2>2 DEF Settled, Running, Stopping
      <3> QED BY <2>1, <3>1 DEF Settled, Starting, Asking, Pushing
    <2> QED BY <1>1, <1>2, <2>1, <2>2, ThreadMoves DEF TypeOK, Writing
  <1> QED BY <1>4, <1>5

\* The route is written to the child the handle knows; if it has died meanwhile nothing is
\* settled of it.
LEMMA RequestKeeps ==
    ASSUME NodeInv, NEW t \in Callers, Request(t)
    PROVE  NodeInv'
  <1> DEFINE line == Command("route", call[t].arg)
  <1>1. /\ TypeOK /\ call[t] \in Call /\ call[t].at = "request"
        /\ UNCHANGED <<proc, ready, lastError, cfg, route, apart, asks>>
        /\ Writes(t, line) /\ Goes(t, "reply")
    BY DEF NodeInv, TypeOK, Request, handleVars, cacheVars
  <1>2. apart => Busy(t) /\ Settled(call[t])
    BY <1>1, OneThread
  <1>3. line \in Line /\ line.cmd = "route"
    BY <1>1 DEF Command, Line, Call
  <1>4. PICK k \in Call : call' = [call EXCEPT ![t] = k] /\ WellFormed(k) /\ k.at = "reply"
    <2>1. "reply" \in Ats \ {"none"}
      BY DEF Ats
    <2>2. \E k \in Call : /\ call' = [call EXCEPT ![t] = k] /\ WellFormed(k)
                          /\ k.at = "reply" /\ k.on = call[t].on /\ k.arg = call[t].arg
      BY <1>1, <2>1, GoesLemma
    <2> QED BY <2>2
  <1>5. ASSUME apart PROVE Busy(t) /\ Settled(k)'
    <2>1. /\ Alive(proc)' <=> Alive(proc)
          /\ Alive(proc) => /\ proc \in Children /\ proc # NoChild
                            /\ child[proc].stdin \in Seq(Line)
                            /\ child'[proc].stdin = Append(child[proc].stdin, line)
          /\ proc \in Children => /\ child'[proc].cfg = child[proc].cfg
                                  /\ child'[proc].route = child[proc].route
      BY <1>1, <1>3, <1>5, WritesLemma
    <2>2. /\ call[t].arg = route /\ (Alive(proc) => ready)
          /\ Alive(proc) => Ends(child[proc].stdin, "configure", child[proc].cfg, cfg)
      BY <1>1, <1>2, <1>5 DEF Settled, Starting, Stopping, Asking, Pushing
    <2>3. Alive(proc) => Ends(child'[proc].stdin, "route", child'[proc].route, route)
      BY <2>1, <2>2, EndsSame
    <2>4. line.cmd # "configure"
      BY <1>3
    <2> HIDE DEF line
    <2>5. Alive(proc) => Ends(Append(child[proc].stdin, line), "configure", child[proc].cfg, cfg)
      BY <1>3, <2>1, <2>2, <2>4, EndsOther
    <2>6. Alive(proc) => Ends(child'[proc].stdin, "configure", child'[proc].cfg, cfg)
      BY <2>1, <2>5
    <2>7. Settled(k)'
      BY <1>1, <1>4, <2>1, <2>2, <2>3, <2>6 DEF Settled, Starting, Asking, Pushing
    <2> QED BY <1>2, <1>5, <2>7
  <1> HIDE DEF line
  <1> QED BY <1>1, <1>3, <1>4, <1>5, ThreadWrites

\* The settings, in the same way.
LEMMA SendKeeps ==
    ASSUME NodeInv, NEW t \in Callers, Send(t)
    PROVE  NodeInv'
  <1> DEFINE line == Command("configure", call[t].arg)
  <1>1. /\ TypeOK /\ call[t] \in Call /\ call[t].at = "send"
        /\ UNCHANGED <<proc, ready, lastError, cfg, route, apart, asks>>
        /\ Writes(t, line) /\ Returns(t)
    BY DEF NodeInv, TypeOK, Send, handleVars, cacheVars
  <1>2. apart => Busy(t) /\ Settled(call[t])
    BY <1>1, OneThread
  <1>3. line \in Line /\ line.cmd = "configure"
    BY <1>1 DEF Command, Line, Call
  <1>4. PICK k \in Call : call' = [call EXCEPT ![t] = k] /\ WellFormed(k) /\ k.at = "none"
    BY <1>1, ReturnsLemma
  <1>5. ASSUME apart PROVE Busy(t) /\ Settled(k)'
    <2>1. /\ Alive(proc)' <=> Alive(proc)
          /\ Alive(proc) => /\ proc \in Children /\ proc # NoChild
                            /\ child[proc].stdin \in Seq(Line)
                            /\ child'[proc].stdin = Append(child[proc].stdin, line)
          /\ proc \in Children => /\ child'[proc].cfg = child[proc].cfg
                                  /\ child'[proc].route = child[proc].route
      BY <1>1, <1>3, <1>5, WritesLemma
    <2>2. /\ call[t].arg = cfg /\ (Alive(proc) => ready)
          /\ Alive(proc) => Ends(child[proc].stdin, "route", child[proc].route, route)
      BY <1>1, <1>2, <1>5 DEF Settled, Starting, Stopping, Asking, Pushing
    <2>3. Alive(proc) => Ends(child'[proc].stdin, "configure", child'[proc].cfg, cfg)
      BY <2>1, <2>2, EndsSame
    <2>4. line.cmd # "route"
      BY <1>3
    <2> HIDE DEF line
    <2>5. Alive(proc) => Ends(Append(child[proc].stdin, line), "route", child[proc].route, route)
      BY <1>3, <2>1, <2>2, <2>4, EndsOther
    <2>6. Alive(proc) => Ends(child'[proc].stdin, "route", child'[proc].route, route)
      BY <2>1, <2>5
    <2>7. Settled(k)'
      BY <1>1, <1>4, <2>1, <2>2, <2>3, <2>6 DEF Settled, Starting, Asking, Pushing
    <2> QED BY <1>2, <1>5, <2>7
  <1> HIDE DEF line
  <1> QED BY <1>1, <1>3, <1>4, <1>5, ThreadWrites

\* A reply does not change the node, nor does it when it comes too late.
LEMMA ReplyKeeps ==
    ASSUME NodeInv, NEW t \in Callers, Reply(t)
    PROVE  NodeInv'
  <1>1. /\ TypeOK /\ call[t].at = "reply" /\ Returns(t)
        /\ UNCHANGED <<proc, ready, lastError, cfg, route, child, apart, asks, waits>>
    BY DEF NodeInv, Reply, handleVars, cacheVars, pipeVars
  <1>2. apart => Busy(t) /\ Settled(call[t])
    BY <1>1, OneThread
  <1>3. PICK k \in Call : call' = [call EXCEPT ![t] = k] /\ WellFormed(k) /\ k.at = "none"
    BY <1>1, ReturnsLemma
  <1>4. apart => Settled(k)'
    <2>1. Alive(proc)' <=> Alive(proc)
      BY <1>1 DEF Alive
    <2> QED BY <1>1, <1>2, <1>3, <2>1 DEF Settled, Starting, Stopping, Asking, Pushing
  <1> QED BY <1>1, <1>2, <1>3, <1>4, ThreadMoves DEF TypeOK, Writing

LEMMA ShutdownKeeps ==
    ASSUME NodeInv, NEW t \in Callers, Shutdown(t)
    PROVE  NodeInv'
  <1> DEFINE line == Command("shutdown", Nothing)
  <1>1. /\ TypeOK /\ call[t].at = "shutdown" /\ Goes(t, "wait exit") /\ Writes(t, line)
        /\ UNCHANGED <<proc, ready, lastError, cfg, route, apart, asks>>
    BY DEF NodeInv, Shutdown, handleVars, cacheVars
  <1>2. apart => Busy(t) /\ Settled(call[t])
    BY <1>1, OneThread
  <1>3. call[t].on \in Children
    BY <1>1 DEF NodeInv, CallsAreWellFormed, WellFormed
  <1>4. PICK k \in Call : /\ call' = [call EXCEPT ![t] = k] /\ WellFormed(k)
                          /\ k.at = "wait exit" /\ k.on = call[t].on
    <2>1. "wait exit" \in Ats \ {"none"}
      BY DEF Ats, Stopping
    <2>2. \E k \in Call : /\ call' = [call EXCEPT ![t] = k] /\ WellFormed(k)
                          /\ k.at = "wait exit" /\ k.on = call[t].on /\ k.arg = call[t].arg
      BY <1>1, <1>3, <2>1, GoesLemma
    <2> QED BY <2>2
  <1>5. apart => Settled(k)'
    BY <1>1, <1>2, <1>4 DEF Settled, Starting, Stopping, Asking, Pushing
  <1>6. line \in Line
    BY DEF Command, Line, Nothing
  <1> HIDE DEF line
  <1> QED BY <1>1, <1>2, <1>4, <1>5, <1>6, ThreadWrites

\* Whoever waits for a child kills it when it does not go.
LEMMA WaitExitKeeps ==
    ASSUME NodeInv, NEW t \in Callers, WaitExit(t)
    PROVE  NodeInv'
  <1> DEFINE c == call[t].on
  <1>1. /\ TypeOK /\ call[t].at = "wait exit" /\ Goes(t, "join")
        /\ UNCHANGED <<proc, ready, lastError, cfg, route, apart, asks, waits>>
        /\ child' = IF Alive(c) THEN [child EXCEPT ![c].at = "killed"] ELSE child
    BY DEF NodeInv, WaitExit, handleVars, cacheVars, pipeVars
  <1>2. apart => Busy(t) /\ Settled(call[t])
    BY <1>1, OneThread
  <1>3. c \in Children
    BY <1>1 DEF NodeInv, CallsAreWellFormed, WellFormed
  <1>4. PICK k \in Call : call' = [call EXCEPT ![t] = k] /\ WellFormed(k) /\ k.at = "join"
    <2>1. "join" \in Ats \ {"none"}
      BY DEF Ats, Stopping
    <2>2. \E k \in Call : /\ call' = [call EXCEPT ![t] = k] /\ WellFormed(k)
                          /\ k.at = "join" /\ k.on = call[t].on /\ k.arg = call[t].arg
      BY <1>1, <2>1, GoesLemma
    <2> QED BY <2>2
  <1> HIDE DEF c
  <1>5. /\ child' \in [Children -> Child]
        /\ \A d \in Children : d # c => child'[d] = child[d]
        /\ child'[c].reader = child[c].reader
        /\ IF Alive(c) THEN child'[c].at = "killed" ELSE child'[c] = child[c]
    <2>1. child \in [Children -> Child] /\ child[c] \in Child
      BY <1>1, <1>3 DEF TypeOK
    <2>2. [child[c] EXCEPT !.at = "killed"] \in Child
      BY <2>1 DEF Child
    <2> QED BY <1>1, <1>3, <2>1, <2>2 DEF Child
  <1>6. \A d \in Children : /\ Alive(d)' <=> Alive(d)
                            /\ child'[d].reader = child[d].reader
                            /\ child[d].at = "killed" => child'[d].at = "killed"
                            /\ child'[d].at = "unborn" <=> child[d].at = "unborn"
                            /\ child[d].at = "unborn" => child'[d] = child[d]
    BY <1>3, <1>5 DEF Alive
  <1>7. TypeOK'
    BY <1>1, <1>4, <1>5 DEF TypeOK
  <1>8. SpawnedInOrder' /\ ReadersStay'
    <2>1. PICK n \in 1..MaxChildren + 1 : \A d \in Children : child[d].at = "unborn" <=> n <= d
      BY DEF NodeInv, SpawnedInOrder
    <2>2. \A d \in Children : child'[d].at = "unborn" <=> n <= d
      BY <1>6, <2>1
    <2>3. \A d \in Children : child'[d].at = "unborn" => child'[d] = Unborn
      BY <1>6 DEF NodeInv, SpawnedInOrder
    <2>4. SpawnedInOrder'
      BY <2>1, <2>2, <2>3 DEF SpawnedInOrder
    <2>5. ReadersStay'
      BY <1>6 DEF NodeInv, ReadersStay
    <2> QED BY <2>4, <2>5
  <1>9. ASSUME apart PROVE OneReader' /\ NoOrphan' /\ Settled(k)'
    <2>1. c = proc /\ proc # NoChild
      BY <1>1, <1>2, <1>9 DEF Settled, c
    <2>2. OneReader' /\ NoOrphan'
      BY <1>1, <1>6, <1>9 DEF NodeInv, Apart, OneReader, NoOrphan
    <2>3. ~Alive(proc)' \/ child'[proc].at = "killed"
      BY <1>1, <1>3, <1>5, <1>6, <2>1
    <2>4. Settled(k)'
      BY <1>1, <1>4, <2>3 DEF Settled, Starting, Stopping, Asking, Pushing
    <2> QED BY <2>2, <2>4
  <1> QED BY <1>1, <1>2, <1>4, <1>7, <1>8, <1>9, ThreadStep DEF Released, Writing

\* A node is forgotten when its child has gone or has been killed.
LEMMA ForgetKeeps ==
    ASSUME NodeInv, NEW t \in Callers, Forget(t)
    PROVE  NodeInv'
  <1>1. /\ TypeOK /\ call[t].at = "join" /\ Returns(t) /\ proc' = NoChild /\ ready' = FALSE
        /\ UNCHANGED <<lastError, cfg, route, child, apart, asks, waits>>
    BY DEF NodeInv, Forget, cacheVars, pipeVars
  <1>2. apart => Busy(t) /\ Settled(call[t])
    BY <1>1, OneThread
  <1>3. PICK k \in Call : call' = [call EXCEPT ![t] = k] /\ WellFormed(k) /\ k.at = "none"
    BY <1>1, ReturnsLemma
  <1>4. TypeOK'
    BY <1>1, <1>3 DEF TypeOK
  <1>5. SpawnedInOrder' /\ ReadersStay'
    BY <1>1 DEF NodeInv, SpawnedInOrder, ReadersStay, Alive
  <1>6. ASSUME apart PROVE OneReader' /\ NoOrphan' /\ Settled(k)'
    <2>1. ~Alive(proc) \/ child[proc].at = "killed"
      BY <1>1, <1>2, <1>6 DEF Settled
    <2>2. \A c \in Children : Alive(c) => c = proc \/ child[c].at = "killed"
      BY <1>6 DEF NodeInv, Apart, NoOrphan
    <2>3. \A c \in Children : Alive(c) => child[c].at = "killed"
      BY <2>1, <2>2
    <2>4. \A c \in Children : Alive(c)' => child'[c].at = "killed"
      BY <1>1, <2>3 DEF Alive
    <2>5. OneReader' /\ NoOrphan'
      BY <1>1, <2>4 DEF OneReader, NoOrphan
    <2>6. ~Alive(proc)'
      BY <1>1 DEF Alive
    <2>7. Settled(k)'
      BY <1>3, <2>6 DEF Settled, Starting, Asking, Pushing
    <2> QED BY <2>5, <2>7
  <1> QED BY <1>1, <1>2, <1>3, <1>4, <1>5, <1>6, ThreadStep DEF Released, Writing
-----------------------------------------------------------------------------
(* The theorems *)

LEMMA NextNode == NodeInv /\ [Next]_vars => NodeInv'
  <1> SUFFICES ASSUME NodeInv, [Next]_vars PROVE NodeInv'
    OBVIOUS
  <1>1. ASSUME NEW t \in Callers, Calls(t) PROVE NodeInv'
    BY <1>1, CallsKeep
  <1>2. ASSUME NEW t \in Callers, Step(t) PROVE NodeInv'
    <2>1. CASE call[t].at \in Writing /\ Blocks(t)
      BY <2>1, BlocksKeep DEF Writers
    <2> QED BY <1>2, <2>1, SpawnKeeps, StartKeeps, ConfigureKeeps, CheckKeeps, RequestKeeps,
               SendKeeps, ReplyKeeps, ShutdownKeeps, WaitExitKeeps, ForgetKeeps DEF Step
  <1>3. ASSUME NEW c \in Children, ChildMoves(c) \/ Reads(c) PROVE NodeInv'
    BY <1>3, ChildKeeps, ReaderKeeps
  <1>4. CASE CallPoll \/ PollStep
    BY <1>4, PollKeeps
  <1>5. CASE UNCHANGED vars
    <2>1. UNCHANGED <<proc, ready, lastError, cfg, route, child, call, apart, asks, waits>>
      BY <1>5 DEF vars, handleVars, cacheVars, pipeVars
    <2>2. child' \in [Children -> Child] /\ \A d \in Children : Moved(d)
      BY <2>1 DEF NodeInv, TypeOK, Moved, Alive
    <2>3. asks' \in BOOLEAN /\ waits' \in [Writers -> Children \cup {NoChild}] /\ WaitsAreWrites'
      BY <2>1 DEF NodeInv, TypeOK, WaitsAreWrites
    <2> QED BY <2>1, <2>2, <2>3, MovedKeeps
  <1> QED BY <1>1, <1>2, <1>3, <1>4, <1>5 DEF Next

LEMMA NodeInvHolds == Spec => []NodeInv
  BY InitNode, NextNode, PTL DEF Spec

\* Every reachable state of the handle, its children and its callers is well typed.
THEOREM TypeCorrect == Spec => []TypeOK
  <1>1. NodeInv => TypeOK
    BY DEF NodeInv
  <1> QED BY <1>1, NodeInvHolds, PTL

\* No process is left that nobody stops: as long as calls do not overlap and no earlier
\* reader is left at a spawn, a child that lives is the one the handle knows, or has been
\* killed, whatever crashes, hangs and time-outs there are (process_node.py:98-151).
THEOREM NoOrphanHolds == Spec => []NoOrphan
  <1>1. NodeInv => NoOrphan
    BY DEF NodeInv, Apart, NoOrphan
  <1> QED BY <1>1, NodeInvHolds, PTL

\* A child that is up and has executed its pipe has the settings and the route that the
\* handle remembers, respawns included (process_node.py:17-19, 92-118, 208-252).
THEOREM CachesReachTheChildHolds == Spec => []CachesReachTheChild
  <1>1. ASSUME NodeInv, apart, AtRest, proc # NoChild,
               child[proc].at = "up", child[proc].stdin = <<>>
        PROVE  ready /\ child[proc].cfg = cfg /\ child[proc].route = route
    <2>1. Apart /\ Alive(proc)
      BY <1>1 DEF NodeInv, Alive
    <2>2. \A t \in Callers : call[t].at = "none"
      BY <1>1 DEF NodeInv, CallsAreWellFormed, WellFormed, AtRest
    <2>3. /\ ~Within({"wait ready"} \cup Stopping)
          /\ ~Within(Starting \cup Stopping \cup Pushing)
          /\ ~Within(Starting \cup Stopping \cup Asking)
      BY <2>2 DEF Within, Starting, Stopping, Asking, Pushing
    <2>4. ready
      BY <2>1, <2>3 DEF Apart, ReadyIsKnown
    <2>5. /\ Ends(<<>>, "configure", child[proc].cfg, cfg)
          /\ Ends(<<>>, "route", child[proc].route, route)
      BY <1>1, <2>1, <2>3 DEF Apart, WillHaveTheCaches
    <2> QED BY <2>4, <2>5, EndsEmpty
  <1>2. NodeInv => CachesReachTheChild
    BY <1>1 DEF CachesReachTheChild
  <1> QED BY <1>2, NodeInvHolds, PTL
=============================================================================
