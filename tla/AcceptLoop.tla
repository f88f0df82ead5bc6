----------------------------- MODULE AcceptLoop -----------------------------
(***************************************************************************)
(* FalconHTTP::Core::Listener and the Socket it wraps, driven by           *)
(* Server::run() on one thread and by Server::stop() on others.            *)
(*                                                                         *)
(* What matters here is the descriptor: fd_ is an atomic integer that run()*)
(* loads and stop() exchanges, and the number behind it belongs to the     *)
(* process, which gives it to somebody else as soon as it is closed.       *)
(***************************************************************************)
EXTENDS Naturals, FiniteSets

CONSTANTS
    Fds,            \* descriptor numbers
    NoFd,           \* Socket::invalidHandle
    Ports,          \* ports start() is called with
    Stoppers,       \* threads that call stop()
    ForeignLimit    \* how many sockets the rest of the process listens on

ASSUME AcceptAssumption ==
    /\ NoFd \notin Fds
    /\ Ports \subseteq Nat \ {0}
    /\ ForeignLimit \in Nat

VARIABLES
    table,      \* [Fds -> Files]: the process's descriptor table
    fd,         \* listener_.socket_.fd_
    port,       \* listener_.port_
    running,    \* Server::running_
    rpc,        \* where the thread that calls start() and run() is
    accFd,      \* the descriptor it passes to ::accept()
    spc,        \* [Stoppers -> StopSteps]: where each stop() is
    stopFd,     \* [Stoppers -> Fds \cup {NoFd}]: what its close() closes
    started,    \* history: the outcome of the last start()
    stopped     \* history: a stop() returned after run() was last called

runVars == <<rpc, accFd>>
stopVars == <<spc, stopFd>>
history == <<started, stopped>>
vars == <<table, fd, port, running, runVars, stopVars, history>>

-----------------------------------------------------------------------------
(* "open": created by start(), not listening.  "shut": after shutdown().   *)
(* "foreign": a listening socket of another part of the process.           *)
Files == {"free", "open", "listening", "shut", "foreign"}

(* run(): "guarded" after its guard, "top" at the loop's condition, "load" *)
(* before handle(), "call" before ::accept(), "blocked" in it, "woken" by a*)
(* shutdown(), "astray" in it on a foreign socket.                         *)
RunSteps == {"out", "guarded", "top", "load", "call", "blocked", "woken", "astray"}
InLoop == RunSteps \ {"out", "guarded"}

(* stop(): before the exchange, shutdown(), ::close() and port_ = 0.       *)
StopSteps == {"idle", "exchange", "shutdown", "close", "port"}

Outcomes == {"listening", "no socket", "no reuse", "no bind", "no listen"}

Quiet == \A s \in Stoppers: spc[s] = "idle"

Init ==
    /\ table = [f \in Fds |-> "free"]
    /\ fd = NoFd
    /\ port = 0
    /\ running = FALSE
    /\ rpc = "out"
    /\ accFd = NoFd
    /\ spc = [s \in Stoppers |-> "idle"]
    /\ stopFd = [s \in Stoppers |-> NoFd]
    /\ started = "no socket"
    /\ stopped = FALSE

-----------------------------------------------------------------------------
(* Faulty variants, none of them part of Next.                             *)

(* The move-assignment overwrites the handle it held. *)
StartLeaks(p, outcome, new) ==
    /\ rpc = "out" /\ Quiet /\ table[new] = "free"
    /\ outcome = "listening"
    /\ table' = [table EXCEPT ![new] = "listening"]
    /\ fd' = new
    /\ port' = p
    /\ started' = outcome
    /\ UNCHANGED <<running, runVars, stopVars, stopped>>

(* close() reads the handle without replacing it. *)
ExchangeKeeps(s) ==
    /\ spc[s] = "exchange"
    /\ stopFd' = [stopFd EXCEPT ![s] = fd]
    /\ spc' = [spc EXCEPT ![s] = IF fd = NoFd THEN "port" ELSE "shutdown"]
    /\ UNCHANGED <<table, fd, port, running, runVars, history>>

(* close() without shutdown(), which alone would wake a blocked accept(). *)
ShutdownOmitted(s) ==
    /\ spc[s] = "shutdown"
    /\ table' = [table EXCEPT ![stopFd[s]] = "shut"]
    /\ spc' = [spc EXCEPT ![s] = "close"]
    /\ UNCHANGED <<fd, port, running, runVars, stopFd, history>>

(* stop() leaves port_ alone. *)
ClearPortOmitted(s) ==
    /\ spc[s] = "port"
    /\ spc' = [spc EXCEPT ![s] = "idle"]
    /\ stopFd' = [stopFd EXCEPT ![s] = NoFd]
    /\ stopped' = TRUE
    /\ UNCHANGED <<table, fd, port, running, runVars, started>>

-----------------------------------------------------------------------------
(* What start() leaves of the socket it created. *)
FileAfter(outcome) ==
    IF outcome = "listening" THEN "listening"
    ELSE IF outcome = "no reuse" THEN "open" ELSE "free"

(* Listener::start(p), called while no other thread is in stop().  The new *)
(* socket is created before the move-assignment closes the one it replaces.*)
Start(p, outcome, new) ==
    /\ rpc = "out" /\ Quiet /\ table[new] = "free"
    /\ table' = [f \in Fds |-> IF f = fd THEN "free"
                               ELSE IF f = new THEN FileAfter(outcome) ELSE table[f]]
    /\ fd' = IF outcome \in {"no reuse", "listening"} THEN new ELSE NoFd
    /\ port' = IF outcome = "listening" THEN p ELSE port
    /\ started' = outcome
    /\ UNCHANGED <<running, runVars, stopVars, stopped>>

(* run()'s guard lets it in; otherwise run() returns with no effect.       *)
EnterRun ==
    /\ rpc = "out" /\ fd # NoFd
    /\ rpc' = "guarded"
    /\ stopped' = FALSE
    /\ UNCHANGED <<table, fd, port, running, accFd, stopVars, started>>

SetRunning ==
    /\ rpc = "guarded"
    /\ rpc' = "top"
    /\ running' = TRUE
    /\ UNCHANGED <<table, fd, port, accFd, stopVars, history>>

LoopTest ==
    /\ rpc = "top"
    /\ rpc' = IF running THEN "load" ELSE "out"
    /\ UNCHANGED <<table, fd, port, running, accFd, stopVars, history>>

(* accept(): the handle is loaded, then passed to the system call.         *)
LoadHandle ==
    /\ rpc = "load"
    /\ accFd' = fd
    /\ rpc' = "call"
    /\ UNCHANGED <<table, fd, port, running, stopVars, history>>

(* The call fails at once on anything that does not listen; run() then     *)
(* goes on to the loop's condition.                                        *)
CallAccept ==
    /\ rpc = "call"
    /\ rpc' = IF accFd = NoFd THEN "top"
              ELSE CASE table[accFd] = "listening" -> "blocked"
                     [] table[accFd] = "foreign" -> "astray"
                     [] OTHER -> "top"
    /\ UNCHANGED <<table, fd, port, running, accFd, stopVars, history>>

(* A shut down accept() fails. *)
AcceptWoken ==
    /\ rpc = "woken"
    /\ rpc' = "top"
    /\ UNCHANGED <<table, fd, port, running, accFd, stopVars, history>>

(* A client connects and is handed to the pool, or accept() fails for a    *)
(* reason of its own; nothing makes either happen.                         *)
AcceptReturns ==
    /\ rpc \in {"blocked", "astray"}
    /\ rpc' = "top"
    /\ UNCHANGED <<table, fd, port, running, accFd, stopVars, history>>

(* Server::stop(). *)
BeginStop(s) ==
    /\ spc[s] = "idle"
    /\ running' = FALSE
    /\ spc' = [spc EXCEPT ![s] = "exchange"]
    /\ UNCHANGED <<table, fd, port, runVars, stopFd, history>>

(* Socket::close(): only the thread whose exchange yields the handle goes  *)
(* on to shut it down and close it.                                        *)
Exchange(s) ==
    /\ spc[s] = "exchange"
    /\ stopFd' = [stopFd EXCEPT ![s] = fd]
    /\ fd' = NoFd
    /\ spc' = [spc EXCEPT ![s] = IF fd = NoFd THEN "port" ELSE "shutdown"]
    /\ UNCHANGED <<table, port, running, runVars, history>>

Shutdown(s) ==
    /\ spc[s] = "shutdown"
    /\ table' = [table EXCEPT ![stopFd[s]] = "shut"]
    /\ rpc' = IF rpc = "blocked" /\ accFd = stopFd[s] THEN "woken" ELSE rpc
    /\ spc' = [spc EXCEPT ![s] = "close"]
    /\ UNCHANGED <<fd, port, running, accFd, stopFd, history>>

CloseFd(s) ==
    /\ spc[s] = "close"
    /\ table' = [table EXCEPT ![stopFd[s]] = "free"]
    /\ spc' = [spc EXCEPT ![s] = "port"]
    /\ UNCHANGED <<fd, port, running, runVars, stopFd, history>>

(* Listener::stop() ends with port_ = 0. *)
ClearPort(s) ==
    /\ spc[s] = "port"
    /\ port' = 0
    /\ spc' = [spc EXCEPT ![s] = "idle"]
    /\ stopFd' = [stopFd EXCEPT ![s] = NoFd]
    /\ stopped' = TRUE
    /\ UNCHANGED <<table, fd, running, runVars, started>>

(* The rest of the process opens and closes listening sockets of its own.  *)
ForeignOpen(f) ==
    /\ table[f] = "free"
    /\ Cardinality({g \in Fds: table[g] = "foreign"}) < ForeignLimit
    /\ table' = [table EXCEPT ![f] = "foreign"]
    /\ UNCHANGED <<fd, port, running, runVars, stopVars, history>>

ForeignClose(f) ==
    /\ table[f] = "foreign"
    /\ ~(rpc = "astray" /\ accFd = f)
    /\ table' = [table EXCEPT ![f] = "free"]
    /\ UNCHANGED <<fd, port, running, runVars, stopVars, history>>

-----------------------------------------------------------------------------
RunStep == SetRunning \/ LoopTest \/ LoadHandle \/ CallAccept \/ AcceptWoken

StopStep(s) == Exchange(s) \/ Shutdown(s) \/ CloseFd(s) \/ ClearPort(s)

Next ==
    \/ \E p \in Ports, outcome \in Outcomes, new \in Fds: Start(p, outcome, new)
    \/ EnterRun \/ RunStep \/ AcceptReturns
    \/ \E s \in Stoppers: BeginStop(s) \/ StopStep(s)
    \/ \E f \in Fds: ForeignOpen(f) \/ ForeignClose(f)

Spec == Init /\ [][Next]_vars

(* A thread in run() or in stop() that can take a step does. *)
FairSpec ==
    /\ Spec
    /\ WF_vars(RunStep)
    /\ \A s \in Stoppers: WF_vars(StopStep(s))

-----------------------------------------------------------------------------
(* Every variable keeps to its type, and no system call is made on the     *)
(* invalid handle: neither accept() by a run() that got past it, nor       *)
(* shutdown() and ::close() by a stop().                                   *)
TypeOK ==
    /\ table \in [Fds -> Files]
    /\ fd \in Fds \cup {NoFd}
    /\ port \in Ports \cup {0}
    /\ running \in BOOLEAN
    /\ rpc \in RunSteps
    /\ accFd \in Fds \cup {NoFd}
    /\ spc \in [Stoppers -> StopSteps]
    /\ stopFd \in [Stoppers -> Fds \cup {NoFd}]
    /\ rpc \in {"blocked", "woken", "astray"} => accFd \in Fds
    /\ \A s \in Stoppers: spc[s] \in {"shutdown", "close"} => stopFd[s] \in Fds
    /\ started \in Outcomes
    /\ stopped \in BOOLEAN

(* However many threads call stop(), each shutdown() and each ::close()    *)
(* hits the listening socket's own descriptor, never one that was already  *)
(* closed and that the process has meanwhile given to somebody else.       *)
NoForeignClose ==
    \A s \in Stoppers:
        /\ spc[s] = "shutdown" => table[stopFd[s]] \in {"open", "listening"}
        /\ spc[s] = "close" => table[stopFd[s]] = "shut"

(* Every socket start() created is held by the listener or about to be     *)
(* closed: none leaks, on no failure of start() and under no race of       *)
(* stop().                                                                 *)
NoLeak ==
    \A f \in Fds: table[f] \in {"open", "listening", "shut"} =>
        f = fd \/ \E s \in Stoppers: stopFd[s] = f /\ spc[s] \in {"shutdown", "close"}

(* Once the listener was started and while no stop() is in progress, port()*)
(* is nonzero exactly when the listener listens, however many threads have *)
(* called stop().                                                          *)
PortTellsListening == Quiet /\ started = "listening" => (port # 0 <=> fd # NoFd)

(* A stop() that finds run() in its loop gets it out of it, wherever in the*)
(* loop it is and whether or not it is blocked in accept(), unless its     *)
(* accept() went to a socket of somebody else.                             *)
StopWakesRun == rpc \in InLoop /\ ~running ~> rpc \in {"out", "astray"}

(* stop() ends run(). *)
StopEndsRun == rpc \in InLoop /\ ~running ~> rpc = "out"

(* isRunning() is false once stop() was called after run(). *)
NotRunningAfterStop == stopped => ~running
=============================================================================
