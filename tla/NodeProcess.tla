---------------------------- MODULE NodeProcess ----------------------------
(***************************************************************************)
(* A node of the topology in a process of its own: ProcessHandle of        *)
(* backend/transfer/topology/process_node.py, its reader threads, and the  *)
(* child, node_main.py.                                                    *)
(*                                                                         *)
(* Two threads make calls: one holds the lifecycle lock of the topology    *)
(* manager, the other saves a node's settings (node_config) or patches the *)
(* fault simulation and holds no such lock.  A step runs up to where the   *)
(* handle's lock is let go, a pipe is written or a wait begins.  A child   *)
(* may be slow, hang or be killed at any time, and every wait for it may   *)
(* time out.  A write may not: whoever finds the pipe of a living child    *)
(* full waits for room, and keeps the lock of the pipe meanwhile.  The     *)
(* polls of the page fill the pipe too, with a request for the counters.   *)
(*                                                                         *)
(* The settings of a node are one value, and only its own children want    *)
(* its port.  Nobody looks at the result of a request: tags, replies and   *)
(* the counters that some carry are left out.  A pipe holds so many        *)
(* commands, and one poll asks at a time.                                  *)
(***************************************************************************)
EXTENDS Integers, Sequences, FiniteSets

CONSTANTS
    Callers,      \* the threads that call
    Poll,         \* the thread that asks for the counters
    Configs, Routes,
    PipeSize,     \* commands that fill a pipe
    MaxChildren,  \* children spawned in all
    MaxCalls,     \* calls of each thread
    MaxPolls

Nothing == 0    \* no route, no setting yet
NoChild == 0
Children == 1..MaxChildren

ASSUME NodeAssumption ==
    /\ Poll \notin Callers
    /\ Configs # {} /\ Configs \cup Routes \subseteq Nat \ {Nothing}
    /\ PipeSize \in Nat \ {0}
    /\ MaxChildren \in Nat /\ MaxCalls \in [Callers -> Nat] /\ MaxPolls \in Nat

Writers == Callers \cup {Poll}

VARIABLES
    proc, ready, lastError,               \* _proc, _ready, _last_error
    cfg, route,                           \* what the handle remembers for the next child
    child,                                \* the processes, with their two pipes
    call,                                 \* where each thread is in its call
    asks,                                 \* a poll is about to ask for the counters
    waits,                                \* who holds _io_lock, for room in which child's pipe
    calls, polls,                         \* calls and polls so far
    apart                                 \* history, see Begin

handleVars == <<proc, ready, lastError>>
cacheVars == <<cfg, route>>
pipeVars == <<asks, waits>>
boundVars == <<calls, polls>>
vars == <<handleVars, cacheVars, pipeVars, boundVars, child, call, apart>>

Unborn == [at |-> "unborn", cfg |-> Nothing, route |-> Nothing,
           stdin |-> <<>>, stdout |-> <<>>, reader |-> FALSE]
Idle == [op |-> "none", at |-> "none", on |-> NoChild, arg |-> Nothing]

Command(cmd, arg) == [cmd |-> cmd, arg |-> arg]

Alive(c) == c # NoChild /\ child[c].at \in {"booting", "up", "leaving", "killed"}
Running == Alive(proc) /\ ready

Init ==
    /\ proc = NoChild /\ ready = FALSE /\ lastError = FALSE
    /\ cfg = (CHOOSE v \in Configs : TRUE) /\ route = Nothing
    /\ child = [c \in Children |-> Unborn]
    /\ call = [t \in Callers |-> Idle]
    /\ asks = FALSE /\ waits = [w \in Writers |-> NoChild]
    /\ calls = [t \in Callers |-> 0] /\ polls = 0
    /\ apart = TRUE
-----------------------------------------------------------------------------
\* Calls

Goes(t, at) == call' = [call EXCEPT ![t].at = at]
Returns(t) == call' = [call EXCEPT ![t] = Idle]

Begin(t, op, at, arg) ==
    /\ call[t].op = "none" /\ calls[t] < MaxCalls[t]
    /\ call' = [call EXCEPT ![t] = [Idle EXCEPT !.op = op, !.at = at, !.arg = arg]]
    /\ calls' = [calls EXCEPT ![t] = @ + 1]
    /\ apart' = (apart /\ \A u \in Callers : call[u].op = "none")
    /\ UNCHANGED <<pipeVars, polls>>

\* start() of a node that runs returns at once.
CallStart(t) ==
    /\ ~Running
    /\ Begin(t, "start", "spawn", Nothing)
    /\ UNCHANGED <<handleVars, cacheVars, child>>

\* Nobody stops a node that does not run.
CallStop(t) ==
    /\ Running
    /\ Begin(t, "stop", "stop", Nothing)
    /\ UNCHANGED <<handleVars, cacheVars, child>>

\* set_route and clear_route remember the route and then ask for it.
CallRoute(t) ==
    /\ \E r \in Routes \cup {Nothing} : Begin(t, "route", "ask", r) /\ route' = r
    /\ UNCHANGED <<handleVars, cfg, child>>

\* A setter takes the settings to be written along with what it changes.
CallSet(t) ==
    /\ \E v \in Configs \ {cfg} : Begin(t, "set", "push", v) /\ cfg' = v
    /\ UNCHANGED <<handleVars, route, child>>
-----------------------------------------------------------------------------
\* start

Unspawned == {c \in Children : child[c].at = "unborn"}
NextChild == CHOOSE c \in Unspawned : \A d \in Unspawned : c <= d

\* The new child and its reader; an earlier reader may still be there.
Spawn(t) ==
    /\ call[t].at = "spawn" /\ Unspawned # {}
    /\ lastError' = FALSE /\ ready' = FALSE
    /\ proc' = NextChild
    /\ child' = [child EXCEPT ![NextChild] =
                    [@ EXCEPT !.at = "booting", !.reader = TRUE]]
    /\ apart' = (apart /\ \A c \in Children : ~child[c].reader)
    /\ Goes(t, "wait ready")
    /\ UNCHANGED <<cacheVars, pipeVars, boundVars>>

\* Popen raises, and so does start.
SpawnFails(t) ==
    /\ call[t].at = "spawn"
    /\ ready' = FALSE /\ lastError' = TRUE
    /\ Returns(t)
    /\ UNCHANGED <<proc, cacheVars, child, pipeVars, boundVars, apart>>

\* Not ready in time, or an error and no child any more: it is stopped.
SeeReady(t) ==
    /\ call[t].at = "wait ready"
    /\ Goes(t, IF ready /\ ~(lastError /\ ~Running) THEN "remember" ELSE "stop")
    /\ UNCHANGED <<handleVars, cacheVars, child, pipeVars, boundVars, apart>>

\* Mutant of Remember: a child spawned anew starts without a route.
RememberNoRoute(t) ==
    /\ call[t].at = "remember"
    /\ call' = [call EXCEPT ![t].at = "configure", ![t].on = cfg]
    /\ UNCHANGED <<handleVars, cacheVars, child, pipeVars, boundVars, apart>>

Remember(t) ==
    /\ call[t].at = "remember"
    /\ call' = [call EXCEPT ![t].at = "configure", ![t].on = cfg, ![t].arg = route]
    /\ UNCHANGED <<handleVars, cacheVars, child, pipeVars, boundVars, apart>>
-----------------------------------------------------------------------------
\* The pipe of the child

\* A line in the pipe of a child that is still there; otherwise the write raises.
Wrote(c, command) ==
    IF Alive(c) THEN [child EXCEPT ![c].stdin = Append(@, command)] ELSE child

Full(c) == Alive(c) /\ Len(child[c].stdin) >= PipeSize

\* _io_lock is free, or w holds it.
Has(w) == \A u \in Writers \ {w} : waits[u] = NoChild

\* Whoever waits for room writes to the child it waits for, whatever the handle knows by then.
Target(w) == IF waits[w] # NoChild THEN waits[w] ELSE proc

Writes(w, command) ==
    /\ Has(w) /\ ~Full(Target(w))
    /\ child' = Wrote(Target(w), command)
    /\ waits' = [waits EXCEPT ![w] = NoChild]

Writing == {"configure", "request", "send", "shutdown"}

Blocks(w) ==
    /\ Has(w) /\ Full(Target(w)) /\ waits[w] = NoChild
    /\ waits' = [waits EXCEPT ![w] = proc]
    /\ UNCHANGED <<handleVars, cacheVars, child, call, asks, boundVars, apart>>

Configure(t) ==
    /\ call[t].at = "configure"
    /\ Writes(t, Command("configure", call[t].on))
    /\ IF ~Alive(Target(t)) \/ call[t].arg = Nothing THEN Returns(t) ELSE Goes(t, "ask")
    /\ UNCHANGED <<handleVars, cacheVars, asks, boundVars, apart>>
-----------------------------------------------------------------------------
\* Requests and settings

\* Nothing is written to a node that does not run.
Check(t) ==
    /\ call[t].at \in {"ask", "push"}
    /\ IF Running THEN Goes(t, IF call[t].at = "ask" THEN "request" ELSE "send") ELSE Returns(t)
    /\ UNCHANGED <<handleVars, cacheVars, child, pipeVars, boundVars, apart>>

Request(t) ==
    /\ call[t].at = "request"
    /\ Writes(t, Command("route", call[t].arg)) /\ Goes(t, "reply")
    /\ UNCHANGED <<handleVars, cacheVars, asks, boundVars, apart>>

\* The reply has come, or it comes too late.
Reply(t) ==
    /\ call[t].at = "reply"
    /\ Returns(t)
    /\ UNCHANGED <<handleVars, cacheVars, child, pipeVars, boundVars, apart>>

Send(t) ==
    /\ call[t].at = "send"
    /\ Writes(t, Command("configure", call[t].arg)) /\ Returns(t)
    /\ UNCHANGED <<handleVars, cacheVars, asks, boundVars, apart>>

\* A poll of the page asks a node that runs for its counters; the child may be another by
\* the time of the write.
CallPoll ==
    /\ Running /\ ~asks /\ polls < MaxPolls
    /\ asks' = TRUE /\ polls' = polls + 1
    /\ UNCHANGED <<handleVars, cacheVars, child, call, waits, calls, apart>>

AskCounters ==
    /\ asks /\ asks' = FALSE
    /\ Writes(Poll, Command("stats", Nothing))
    /\ UNCHANGED <<handleVars, cacheVars, call, boundVars, apart>>
-----------------------------------------------------------------------------
\* stop

StopBegins(t) ==
    /\ call[t].at = "stop"
    /\ IF proc = NoChild THEN Returns(t)
       ELSE call' = [call EXCEPT ![t].at = IF Alive(proc) THEN "shutdown" ELSE "join", ![t].on = proc]
    /\ UNCHANGED <<handleVars, cacheVars, child, pipeVars, boundVars, apart>>

Shutdown(t) ==
    /\ call[t].at = "shutdown"
    /\ Writes(t, Command("shutdown", Nothing)) /\ Goes(t, "wait exit")
    /\ UNCHANGED <<handleVars, cacheVars, asks, boundVars, apart>>

\* Mutant of WaitExit: the child is given all the time it wants.
WaitExitForEver(t) ==
    /\ call[t].at = "wait exit" /\ ~Alive(call[t].on)
    /\ Goes(t, "join")
    /\ UNCHANGED <<handleVars, cacheVars, child, pipeVars, boundVars, apart>>

\* Mutant of WaitExit: a child that takes too long is left to itself.
WaitExitLeaves(t) ==
    /\ call[t].at = "wait exit"
    /\ Goes(t, "join")
    /\ UNCHANGED <<handleVars, cacheVars, child, pipeVars, boundVars, apart>>

\* The child has gone, or is made to go.
WaitExit(t) ==
    /\ call[t].at = "wait exit"
    /\ child' = IF Alive(call[t].on) THEN [child EXCEPT ![call[t].on].at = "killed"] ELSE child
    /\ Goes(t, "join")
    /\ UNCHANGED <<handleVars, cacheVars, pipeVars, boundVars, apart>>

\* The reader of the child is joined, for a while.
Forget(t) ==
    /\ call[t].at = "join"
    /\ proc' = NoChild /\ ready' = FALSE
    /\ Returns(t)
    /\ UNCHANGED <<lastError, cacheVars, child, pipeVars, boundVars, apart>>

Step(t) ==
    \/ Spawn(t) \/ SpawnFails(t) \/ SeeReady(t) \/ Remember(t) \/ Configure(t)
    \/ Check(t) \/ Request(t) \/ Reply(t) \/ Send(t)
    \/ (call[t].at \in Writing /\ Blocks(t))
    \/ StopBegins(t) \/ Shutdown(t) \/ WaitExit(t) \/ Forget(t)

Calls(t) == CallStart(t) \/ CallStop(t) \/ CallRoute(t) \/ CallSet(t)

PollStep == AskCounters \/ (asks /\ Blocks(Poll))
-----------------------------------------------------------------------------
\* The child

Says(c, event) == [child EXCEPT ![c].stdout = Append(@, event)]

\* The port is taken while another child is up; one that is leaving may still have it.
Bind(c) ==
    /\ child[c].at = "booting"
    /\ \/ /\ \E d \in Children : child[d].at \in {"up", "leaving", "killed"}
          /\ child' = [Says(c, "error") EXCEPT ![c].at = "leaving"]
       \/ /\ \A d \in Children : child[d].at # "up"
          /\ child' = [Says(c, "ready") EXCEPT ![c].at = "up"]

Executed(s, line) ==
    CASE line.cmd = "configure" -> [s EXCEPT !.cfg = line.arg]
      [] line.cmd = "route" -> [s EXCEPT !.route = line.arg]
      [] line.cmd = "stats" -> s
      [] line.cmd = "shutdown" -> [s EXCEPT !.at = "leaving"]

Execute(c) ==
    /\ child[c].at = "up" /\ child[c].stdin # <<>>
    /\ LET pipe == child[c].stdin
       IN child' = [child EXCEPT ![c] = [Executed(child[c], Head(pipe)) EXCEPT !.stdin = Tail(pipe)]]

\* What is left of a process that has gone is what it said.
Gone(s) == [Unborn EXCEPT !.at = "dead", !.stdout = s.stdout, !.reader = s.reader]

Exit(c) ==
    /\ child[c].at \in {"leaving", "killed"}
    /\ child' = [child EXCEPT ![c] = Gone(@)]

Crash(c) ==
    /\ Alive(c)
    /\ child' = [child EXCEPT ![c] = Gone(@)]

ChildMoves(c) ==
    /\ Bind(c) \/ Execute(c) \/ Exit(c) \/ Crash(c)
    /\ UNCHANGED <<handleVars, cacheVars, call, pipeVars, boundVars, apart>>
-----------------------------------------------------------------------------
\* The reader of a child

Dispatch(c) ==
    /\ child[c].reader /\ child[c].stdout # <<>>
    /\ ready' = TRUE
    /\ lastError' = (lastError \/ Head(child[c].stdout) = "error")
    /\ child' = [child EXCEPT ![c].stdout = Tail(@)]
    /\ UNCHANGED <<proc, cacheVars, call, pipeVars, boundVars, apart>>

\* The pipe is at its end: whoever is the child by now, it is not ready.
ReaderEnds(c) ==
    /\ child[c].reader /\ child[c].stdout = <<>> /\ ~Alive(c)
    /\ ready' = FALSE
    /\ child' = [child EXCEPT ![c].reader = FALSE]
    /\ UNCHANGED <<proc, lastError, cacheVars, call, pipeVars, boundVars, apart>>

Reads(c) == Dispatch(c) \/ ReaderEnds(c)
-----------------------------------------------------------------------------
Next ==
    \/ \E t \in Callers : Calls(t) \/ Step(t)
    \/ CallPoll \/ PollStep
    \/ \E c \in Children : ChildMoves(c) \/ Reads(c)

Spec == Init /\ [][Next]_vars

\* Threads go on, and a process that is killed goes; nothing else is assumed of a child.
FairSpec ==
    /\ Spec
    /\ \A t \in Callers : WF_vars(Step(t))
    /\ WF_vars(PollStep)
    /\ \A c \in Children : WF_vars(Reads(c)) /\ WF_vars(child[c].at = "killed" /\ ChildMoves(c))
-----------------------------------------------------------------------------
\* No process is left that nobody will ever stop: as long as the calls that change the
\* node did not overlap and no reader of an earlier child was left when one was spawned,
\* every child that lives is the one the handle knows, or has been killed
\* (process_node.py:98-151; README.md:359-360).
NoOrphan ==
    apart => \A c \in Children : Alive(c) => c = proc \/ child[c].at = "killed"

AtRest == \A t \in Callers : call[t].op = "none"

\* A child that is up and has done what it was told is known to be up and has the
\* settings and the route that the handle remembers, crashes and respawns included
\* (process_node.py:17-19, 92-118).
CachesReachTheChild ==
    apart /\ AtRest /\ proc # NoChild =>
        LET c == child[proc]
        IN c.at = "up" /\ c.stdin = <<>> => ready /\ c.cfg = cfg /\ c.route = route

\* Someone waits for room in the pipe of a child that does not read and is not killed.
Stuck == \E w \in Writers : waits[w] # NoChild /\ Full(waits[w]) /\ child[waits[w]].at # "killed"

\* Every call returns whatever the child does, unless from some time on it is about to
\* write, and someone, it or another, waits for ever for room in the pipe of a living child
\* that nobody kills: only a write has no timeout (process_node.py:101, 120-151, 185-192,
\* 208; topology/manager.py:370-376).
CallsReturn ==
    \A t \in Callers :
       \/ <>[](Stuck /\ call[t].at \in Writing)
       \/ call[t].op # "none" ~> call[t].op = "none"
-----------------------------------------------------------------------------
\* README.md:359, "isolated children spawn/stop without leaking ports or processes".
\* Refuted by the settings of a node saved while the receiver's start spawns its child.
NoneLeaked == \A c \in Children : Alive(c) => c = proc \/ child[c].at = "killed"

\* topology/process_node.py:12, "stop() shuts it down (shutdown -> terminate -> kill)".
\* Refuted by a child that hangs with its pipe full: stop waits for room at line 128, with
\* the lock of the pipe, and never gets to terminate it.
StopEnds == \A t \in Callers : call[t].at = "stop" ~> call[t].op = "none"

\* topology/process_node.py:13, start "raises OSError like a bind failure does".
\* Refuted by a child that has told of its failure and not yet exited.
BindFailureIsRaised ==
    [][\A t \in Callers :
          call[t].op = "start" /\ call[t].at \in {"configure", "reply"} /\ call'[t].op = "none"
              => child[proc].at # "leaving"]_vars
=============================================================================
