------------------------------- MODULE Server -------------------------------
(***************************************************************************)
(* FalconHTTP::Core::Server: the accept loop hands every connection to a   *)
(* pool of threads, a thread carries one connection from its first read to *)
(* its close, and a request that matches a stream route is upgraded, under *)
(* a cap, to a Server-Sent-Events connection that keeps its thread for as  *)
(* long as the stream handler runs.                                        *)
(*                                                                         *)
(* The bytes of a request are abstracted to its kind.  RequestReader       *)
(* models how the bytes are read, AcceptLoop how run() and stop() meet.    *)
(***************************************************************************)
EXTENDS Naturals, Sequences, FiniteSets

CONSTANTS
    Conns,              \* the connections clients open, each used once
    Threads,            \* the threads of pool_
    ConfiguredStreams,  \* ServerConfig::maxStreamingConnections, 0 for auto
    None                \* "no connection"

ASSUME ServerAssumption ==
    /\ IsFiniteSet(Conns)
    /\ IsFiniteSet(Threads)
    /\ ConfiguredStreams \in Nat
    /\ None \notin Conns

VARIABLES
    request,        \* [Conns -> Requests]: what the client has sent
    gone,           \* [Conns -> BOOLEAN]: the client closed its end
    holder,         \* [Conns -> Holders]: which object owns the socket
    heads,          \* [Conns -> Seq(Statuses)]: response heads written to it
    queue,          \* tasks detached into pool_ that no thread runs yet
    pc,             \* [Threads -> Steps]: where handleConnection() is
    conn,           \* [Threads -> Conns \cup {None}]: the task's connection
    reply,          \* [Threads -> Statuses]: the status of `response`
    alive,          \* [Threads -> BOOLEAN]: SseConnection::alive_
    activeStreams,  \* Server::activeStreams_
    life,           \* "running", "stopped" or "destroying"
    members         \* how many data members are not destroyed yet

clientVars == <<request, gone>>
taskVars == <<pc, conn, reply, alive>>
lifeVars == <<life, members>>
vars == <<clientVars, holder, heads, queue, taskVars, activeStreams, lifeVars>>

-----------------------------------------------------------------------------
(* "bad" stands for what is answered 400, 413 or 431 without being parsed, *)
(* "plain" for what no stream route matches, "stream" for what one does.   *)
Complete == {"bad", "plain", "stream"}
Requests == {"none"} \cup Complete

(* "ok" is whatever status the handlers or the dispatcher chose, "bad" one *)
(* of 400/413/431, "error" 500, "refused" 503 and "stream" the preamble of *)
(* an upgraded connection.                                                 *)
Statuses == {"ok", "bad", "error", "refused", "stream"}

(* "client": not accepted yet.  "task": the Connection of a task.  "sse":  *)
(* the SseConnection it was moved into.                                    *)
Holders == {"client", "task", "sse", "closed"}

Steps == {"idle", "reading", "chain", "claim", "unclaim", "upgrade",
          "streaming", "release", "unwind", "reply", "finish"}

(* Faulty: a counter declared after the pool. *)
MembersPoolNotLast == <<"listener_", "router_", "middleware_", "running_", "maxHeaderSize_",
                        "maxBodySize_", "maxStreamingConnections_", "pool_", "activeStreams_">>

(* Server's data members in declaration order; C++ destroys the last first.*)
Members == <<"listener_", "router_", "middleware_", "running_", "maxHeaderSize_",
             "maxBodySize_", "maxStreamingConnections_", "activeStreams_", "pool_">>

NeededByTasks == {"router_", "middleware_", "maxHeaderSize_", "maxBodySize_",
                  "maxStreamingConnections_", "activeStreams_"}

ThreadCount == Cardinality(Threads)

(* resolveMaxStreamingConnections(): half of the threads, at least one.    *)
MaxStreams ==
    IF ConfiguredStreams # 0 THEN ConfiguredStreams
    ELSE IF ThreadCount \div 2 = 0 THEN 1 ELSE ThreadCount \div 2

(* Between its fetch_add and its fetch_sub a thread weighs on the counter; *)
(* only those past the comparison have been admitted.                      *)
Admitted == {t \in Threads: pc[t] \in {"upgrade", "streaming", "release"}}
Counted == {t \in Threads: pc[t] \in {"unclaim", "upgrade", "streaming", "release"}}

(* A thread moves from `from` to `to` with `status` in `response`.         *)
Move(t, from, to, status) ==
    /\ pc[t] = from
    /\ pc' = [pc EXCEPT ![t] = to]
    /\ reply' = [reply EXCEPT ![t] = status]

-----------------------------------------------------------------------------
(* Faulty variants of the actions below, none of them part of Next: each   *)
(* is a bug this code could have had and some property must notice.        *)

(* `>` where the code compares with `>=`. *)
ClaimOneTooMany(t) ==
    /\ activeStreams' = activeStreams + 1
    /\ Move(t, "claim", IF activeStreams > MaxStreams THEN "unclaim" ELSE "upgrade", "ok")
    /\ UNCHANGED <<clientVars, holder, heads, queue, conn, alive, lifeVars>>

(* The refused request forgets its fetch_sub. *)
UnclaimForgets(t) ==
    /\ Move(t, "unclaim", "unwind", "refused")
    /\ UNCHANGED <<clientVars, holder, heads, queue, conn, alive, activeStreams, lifeVars>>

(* The refusal returns true, as if the connection had been consumed. *)
UnclaimAsConsumed(t) ==
    /\ activeStreams' = activeStreams - 1
    /\ Move(t, "unclaim", "unwind", "ok")
    /\ UNCHANGED <<clientVars, holder, heads, queue, conn, alive, lifeVars>>

(* The SseConnection borrows the task's connection instead of owning it, so*)
(* an exception finds it open.                                             *)
StreamEndBorrowed(t) ==
    /\ \/ Move(t, "streaming", "release", "ok")
       \/ Move(t, "streaming", "release", "error")
    /\ alive' = [alive EXCEPT ![t] = FALSE]
    /\ holder' = [holder EXCEPT ![conn[t]] = IF reply'[t] = "error" THEN "task" ELSE "closed"]
    /\ UNCHANGED <<clientVars, heads, queue, conn, activeStreams, lifeVars>>

(* send() reports a failed write but stays connected. *)
StreamSendFailsUnnoticed(t) ==
    /\ pc[t] = "streaming" /\ alive[t] /\ gone[conn[t]]
    /\ UNCHANGED vars

(* The early return after an empty read closes nothing. *)
ReadEndsOpen(t) ==
    /\ pc[t] = "reading" /\ gone[conn[t]]
    /\ Move(t, "reading", "idle", "ok")
    /\ conn' = [conn EXCEPT ![t] = None]
    /\ UNCHANGED <<clientVars, holder, heads, queue, alive, activeStreams, lifeVars>>


(* The threads take no more tasks once the pool is being destroyed. *)
DequeueUntilDestroyed(t) ==
    /\ pc[t] = "idle" /\ queue # <<>> /\ life # "destroying"
    /\ pc' = [pc EXCEPT ![t] = "reading"]
    /\ conn' = [conn EXCEPT ![t] = Head(queue)]
    /\ queue' = Tail(queue)
    /\ UNCHANGED <<clientVars, holder, heads, reply, alive, activeStreams, lifeVars>>

-----------------------------------------------------------------------------
Init ==
    /\ request = [c \in Conns |-> "none"]
    /\ gone = [c \in Conns |-> FALSE]
    /\ holder = [c \in Conns |-> "client"]
    /\ heads = [c \in Conns |-> <<>>]
    /\ queue = <<>>
    /\ pc = [t \in Threads |-> "idle"]
    /\ conn = [t \in Threads |-> None]
    /\ reply = [t \in Threads |-> "ok"]
    /\ alive = [t \in Threads |-> FALSE]
    /\ activeStreams = 0
    /\ life = "running"
    /\ members = Len(Members)

(* The client's side of a connection.  What it does before its connection *)
(* is accepted waits in the kernel, so it counts from then on.             *)
SendRequest(c) ==
    /\ request[c] = "none" /\ ~gone[c] /\ holder[c] \in {"task", "sse"}
    /\ \E k \in Complete: request' = [request EXCEPT ![c] = k]
    /\ UNCHANGED <<gone, holder, heads, queue, taskVars, activeStreams, lifeVars>>

Hangup(c) ==
    /\ ~gone[c] /\ holder[c] \in {"task", "sse"}
    /\ gone' = [gone EXCEPT ![c] = TRUE]
    /\ UNCHANGED <<request, holder, heads, queue, taskVars, activeStreams, lifeVars>>

(* One turn of run()'s loop: the accepted socket becomes the Connection a  *)
(* task captured by detach() owns.                                         *)
Accept(c) ==
    /\ life = "running"
    /\ holder[c] = "client"
    /\ holder' = [holder EXCEPT ![c] = "task"]
    /\ queue' = Append(queue, c)
    /\ UNCHANGED <<clientVars, heads, taskVars, activeStreams, lifeVars>>

(* stop(), and run() returning because of it.                              *)
Stop ==
    /\ life = "running"
    /\ life' = "stopped"
    /\ UNCHANGED <<clientVars, holder, heads, queue, taskVars, activeStreams, members>>

(* ~Server() begins: run() has returned, tasks may still be in flight.     *)
Destroy ==
    /\ life = "stopped"
    /\ life' = "destroying"
    /\ UNCHANGED <<clientVars, holder, heads, queue, taskVars, activeStreams, members>>

(* ~ThreadPool() returns when every task it did not drop has ended; the    *)
(* destructors of the other members wait for nothing.                      *)
DestroyMember ==
    /\ life = "destroying" /\ members > 0
    /\ Members[members] = "pool_" => queue = <<>> /\ \A t \in Threads: pc[t] = "idle"
    /\ members' = members - 1
    /\ UNCHANGED <<clientVars, holder, heads, queue, taskVars, activeStreams, life>>

(* The pool may drop a task that has not begun; the lambda's Connection is *)
(* destroyed with it, which closes the socket.                             *)
DropTask ==
    /\ life = "destroying" /\ members > 0 /\ Members[members] = "pool_"
    /\ queue # <<>>
    /\ holder' = [holder EXCEPT ![Head(queue)] = "closed"]
    /\ queue' = Tail(queue)
    /\ UNCHANGED <<clientVars, heads, taskVars, activeStreams, lifeVars>>

(* A free thread takes the oldest task and enters handleConnection().      *)
Dequeue(t) ==
    /\ pc[t] = "idle" /\ queue # <<>>
    /\ pc' = [pc EXCEPT ![t] = "reading"]
    /\ conn' = [conn EXCEPT ![t] = Head(queue)]
    /\ queue' = Tail(queue)
    /\ UNCHANGED <<clientVars, holder, heads, reply, alive, activeStreams, lifeVars>>

-----------------------------------------------------------------------------
(* handleConnection(), from its first read to its close.                   *)
ReadRequest(t) ==
    /\ pc[t] = "reading" /\ request[conn[t]] # "none"
    /\ IF request[conn[t]] = "bad"
       THEN Move(t, "reading", "reply", "bad")
       ELSE Move(t, "reading", "chain", "ok")
    /\ UNCHANGED <<clientVars, holder, heads, queue, conn, alive, activeStreams, lifeVars>>

(* A read that returns nothing, at the end of the stream or on an error,   *)
(* closes the connection without an answer.                                *)
ReadEnds(t) ==
    /\ pc[t] = "reading" /\ gone[conn[t]]
    /\ Move(t, "reading", "finish", "ok")
    /\ UNCHANGED <<clientVars, holder, heads, queue, conn, alive, activeStreams, lifeVars>>

(* The parser and runChain() without an upgrade: a middleware answers      *)
(* without calling next, the router dispatches, or one of them throws.     *)
Answer(t) ==
    /\ \/ Move(t, "chain", "reply", "ok")
       \/ Move(t, "chain", "reply", "error")
    /\ UNCHANGED <<clientVars, holder, heads, queue, conn, alive, activeStreams, lifeVars>>

(* The innermost runChain(): matchStream() finds a stream route.           *)
MatchStream(t) ==
    /\ pc[t] = "chain" /\ request[conn[t]] = "stream"
    /\ Move(t, "chain", "claim", "ok")
    /\ UNCHANGED <<clientVars, holder, heads, queue, conn, alive, activeStreams, lifeVars>>

(* activeStreams_.fetch_add(1) >= maxStreamingConnections_                 *)
Claim(t) ==
    /\ activeStreams' = activeStreams + 1
    /\ Move(t, "claim", IF activeStreams >= MaxStreams THEN "unclaim" ELSE "upgrade", "ok")
    /\ UNCHANGED <<clientVars, holder, heads, queue, conn, alive, lifeVars>>

(* The refused request takes its increment back, to be answered 503.       *)
Unclaim(t) ==
    /\ activeStreams' = activeStreams - 1
    /\ Move(t, "unclaim", "unwind", "refused")
    /\ UNCHANGED <<clientVars, holder, heads, queue, conn, alive, lifeVars>>

(* sendPreamble(): a send to a client that left may still succeed.         *)
SendPreamble(t, c, sent) ==
    /\ ~gone[c] => sent
    /\ alive' = [alive EXCEPT ![t] = sent]
    /\ heads' = [heads EXCEPT ![c] = IF sent THEN Append(@, "stream") ELSE @]

(* SseConnection's constructor: the connection moves out of the task and   *)
(* the preamble is sent.                                                   *)
Upgrade(t) ==
    /\ Move(t, "upgrade", "streaming", "ok")
    /\ holder' = [holder EXCEPT ![conn[t]] = "sse"]
    /\ \E sent \in BOOLEAN: SendPreamble(t, conn[t], sent)
    /\ UNCHANGED <<clientVars, queue, conn, activeStreams, lifeVars>>

(* SseConnection::send() finds out that the client left.                   *)
StreamSendFails(t) ==
    /\ pc[t] = "streaming" /\ alive[t] /\ gone[conn[t]]
    /\ alive' = [alive EXCEPT ![t] = FALSE]
    /\ UNCHANGED <<clientVars, holder, heads, queue, pc, conn, reply, activeStreams, lifeVars>>

(* SseConnection::close(), called by the stream handler.                   *)
StreamClose(t) ==
    /\ pc[t] = "streaming" /\ holder[conn[t]] = "sse"
    /\ alive' = [alive EXCEPT ![t] = FALSE]
    /\ holder' = [holder EXCEPT ![conn[t]] = "closed"]
    /\ UNCHANGED <<clientVars, heads, queue, pc, conn, reply, activeStreams, lifeVars>>

(* The stream handler returns or throws: sse, declared after the guard, is *)
(* destroyed before it and closes the socket.  `response` becomes a 500    *)
(* when what was thrown is caught, by Recovery or by handleConnection().   *)
StreamEnd(t) ==
    /\ \/ Move(t, "streaming", "release", "ok")
       \/ Move(t, "streaming", "release", "error")
    /\ alive' = [alive EXCEPT ![t] = FALSE]
    /\ holder' = [holder EXCEPT ![conn[t]] = "closed"]
    /\ UNCHANGED <<clientVars, heads, queue, conn, activeStreams, lifeVars>>

(* ~ActiveStreamGuard(), last of the innermost runChain(), on its return   *)
(* and on an exception.                                                    *)
Release(t) ==
    /\ activeStreams' = activeStreams - 1
    /\ Move(t, "release", "unwind", reply[t])
    /\ UNCHANGED <<clientVars, holder, heads, queue, conn, alive, lifeVars>>

(* The way out through the middlewares.  When nothing is thrown, a refused *)
(* request is answered, and an upgraded one left alone because runChain()  *)
(* returns true; what was thrown, by the stream handler or by a middleware *)
(* after next, leads to an answer, on a moved-from connection perhaps.     *)
Unwind(t) ==
    /\ \/ reply[t] = "refused" /\ Move(t, "unwind", "reply", "refused")
       \/ reply[t] = "ok" /\ Move(t, "unwind", "finish", "ok")
       \/ Move(t, "unwind", "reply", "error")
    /\ UNCHANGED <<clientVars, holder, heads, queue, conn, alive, activeStreams, lifeVars>>

(* sendAll() of the serialized response: it reaches the client when the    *)
(* task still owns the socket and somebody is at the other end.            *)
Reply(t) ==
    LET c == conn[t]
        seen == holder[c] = "task" /\ ~gone[c]
    IN
    /\ Move(t, "reply", "finish", "ok")
    /\ heads' = [heads EXCEPT ![c] = IF seen THEN Append(@, reply[t]) ELSE @]
    /\ UNCHANGED <<clientVars, holder, queue, conn, alive, activeStreams, lifeVars>>

(* connection.close(), a no-op on a moved-from one; the thread is free.    *)
Finish(t) ==
    LET c == conn[t] IN
    /\ Move(t, "finish", "idle", "ok")
    /\ conn' = [conn EXCEPT ![t] = None]
    /\ holder' = [holder EXCEPT ![c] = IF @ = "task" THEN "closed" ELSE @]
    /\ UNCHANGED <<clientVars, heads, queue, alive, activeStreams, lifeVars>>

-----------------------------------------------------------------------------
(* What a thread does by itself, whatever the stream handler decides.      *)
ThreadStep(t) ==
    \/ Dequeue(t) \/ ReadRequest(t) \/ ReadEnds(t) \/ Answer(t) \/ MatchStream(t)
    \/ Claim(t) \/ Unclaim(t) \/ Upgrade(t) \/ Release(t) \/ Unwind(t)
    \/ Reply(t) \/ Finish(t)

(* What depends on the stream handler, the application's code.             *)
HandlerStep(t) == StreamSendFails(t) \/ StreamClose(t) \/ StreamEnd(t)

ClientStep(c) == SendRequest(c) \/ Hangup(c)

Teardown == DestroyMember \/ DropTask

(* After the last member nothing is left to do: the only way to end.       *)
Destroyed == members = 0 /\ UNCHANGED vars

Next ==
    \/ \E c \in Conns: ClientStep(c) \/ Accept(c)
    \/ \E t \in Threads: ThreadStep(t) \/ HandlerStep(t)
    \/ Stop \/ Destroy \/ Teardown \/ Destroyed

Spec == Init /\ [][Next]_vars

(* A thread that can go on does; a client that was accepted speaks or      *)
(* hangs up; a handler keeps sending, so it learns that its client left,   *)
(* and returns once send() has told it so.  Nobody is obliged to end a     *)
(* stream whose client listens, nor to stop the server.                    *)
Fairness ==
    /\ \A t \in Threads:
         /\ WF_vars(ThreadStep(t))
         /\ WF_vars(StreamSendFails(t))
         /\ WF_vars(StreamEnd(t) /\ ~alive[t])
    /\ \A c \in Conns: WF_vars(holder[c] = "task" /\ ClientStep(c))
    /\ WF_vars(DestroyMember)

FairSpec == Spec /\ Fairness

-----------------------------------------------------------------------------
ConnTypeOK ==
    /\ request \in [Conns -> Requests]
    /\ gone \in [Conns -> BOOLEAN]
    /\ holder \in [Conns -> Holders]
    /\ heads \in [Conns -> Seq(Statuses)]

TaskTypeOK ==
    /\ queue \in Seq(Conns)
    /\ pc \in [Threads -> Steps]
    /\ conn \in [Threads -> Conns \cup {None}]
    /\ \A t \in Threads: conn[t] = None <=> pc[t] = "idle"
    /\ reply \in [Threads -> Statuses]
    /\ alive \in [Threads -> BOOLEAN]

LifeTypeOK ==
    /\ life \in {"running", "stopped", "destroying"}
    /\ members \in 0 .. Len(Members)

(* Every variable keeps to its type, a thread has a connection exactly     *)
(* while it runs a task, and the counter stays within the threads: no path *)
(* takes it below zero, where the unsigned counter would wrap.             *)
TypeOK ==
    /\ ConnTypeOK /\ TaskTypeOK /\ LifeTypeOK
    /\ activeStreams \in 0 .. ThreadCount

(* However the fetch_add, the comparison and the fetch_sub of the threads  *)
(* interleave, every increment of activeStreams_ is one thread's, and that *)
(* thread still owes its decrement: none is lost, on no path out of        *)
(* runChain().                                                             *)
SlotsBalance == activeStreams = Cardinality(Counted)

(* At no moment are more connections upgraded than the cap allows, whatever*)
(* the number of requests that race for the last slot.                     *)
StreamCap == Cardinality(Admitted) <= MaxStreams

(* With the default cap and more than one thread, streams never take all   *)
(* the threads: one is always left for other requests.                     *)
ThreadLeft == ConfiguredStreams = 0 /\ ThreadCount > 1 => Admitted # Threads

(* A client sees at most one response head: what runChain() leaves behind  *)
(* after an upgrade, normally or by an exception, writes nothing more.     *)
OneHead == \A c \in Conns: Len(heads[c]) <= 1

(* Every socket the server holds open belongs to one queued task or to one *)
(* busy thread: none is leaked by an early return, none handled twice.     *)
OneOwner ==
    \A c \in Conns: holder[c] \in {"task", "sse"} =>
        Cardinality({i \in DOMAIN queue: queue[i] = c})
          + Cardinality({t \in Threads: conn[t] = c}) = 1

(* Unless the pool dropped its task, a client that sent a whole request and*)
(* stayed has been answered by the time its connection is closed, be it    *)
(* refused, malformed, upgraded or failed.                                 *)
AnsweredBeforeClosed ==
    \A c \in Conns:
        holder[c] = "closed" /\ request[c] # "none" /\ ~gone[c] =>
            heads[c] # <<>> \/ life = "destroying"

(* No task runs, or waits to run, while a member it reads is destroyed:    *)
(* what the declaration order of pool_ is for.                             *)
TasksHaveMembers ==
    queue # <<>> \/ (\E t \in Threads: pc[t] # "idle") =>
        \A m \in NeededByTasks: \E i \in 1 .. members: Members[i] = m

(* Streaming behaves as a set of slots: an upgrade takes one, the guard of *)
(* the upgraded request gives it back.                                     *)
Slots == INSTANCE StreamSlots WITH
            Workers <- Threads, Slots <- MaxStreams, streams <- Admitted
ImplementsSlots == Slots!Spec


(* A stream whose client left ends and gives its thread back, although     *)
(* nothing but a failed send tells the handler.                            *)
DeadStreamsEnd ==
    \A t \in Threads: \A c \in Conns:
        conn[t] = c /\ pc[t] = "streaming" /\ gone[c] ~> conn[t] # c

(* Once every client has left, the destructor comes to its end.            *)
TeardownEnds ==
    life = "destroying" /\ (\A c \in Conns: gone[c] \/ holder[c] \in {"client", "closed"})
        ~> members = 0
=============================================================================
