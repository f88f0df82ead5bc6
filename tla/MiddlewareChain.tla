-------------------------- MODULE MiddlewareChain --------------------------
(***************************************************************************)
(* Server with Server::runChain() in full: each thread that handles a      *)
(* request walks down the registered middlewares, through the router, and  *)
(* back up, normally or by an exception.  The module keeps Server's        *)
(* variables and replaces its one-step outcomes (Answer, Unwind) by the    *)
(* walk that leads to them.                                                *)
(***************************************************************************)
EXTENDS Server

CONSTANT Chains     \* the values middleware_ may have

Middlewares == {"cors", "logger", "recovery", "user"}

ASSUME ChainAssumption == Chains \subseteq Seq(Middlewares)

VARIABLES
    chain,      \* Server::middleware_
    run,        \* [Threads -> Runs]: the request's way through runChain()
    parsed,     \* history, [Conns -> BOOLEAN]: the request reached the chain
    decorated,  \* history, [Conns -> BOOLEAN]: a head with CORS headers was sent
    log         \* history, [Conns -> Seq(Statuses)]: what Logger logged

historyVars == <<parsed, decorated, log>>
chainVars == <<chain, run, historyVars>>
allVars == <<vars, chainVars>>

-----------------------------------------------------------------------------
(* `level` is the frame of runChain() a thread is in, counted from 1, and 0*)
(* outside.  "down": the frame has just been entered; "up": it returns     *)
(* `streamed`; "throw": an exception leaves it.  `status` and `cors` are   *)
(* what `response` holds.                                                  *)
Runs == [level: Nat, mode: {"out", "down", "up", "throw"}, streamed: BOOLEAN,
         options: BOOLEAN, status: Statuses, cors: BOOLEAN]

Outside == [level |-> 0, mode |-> "out", streamed |-> FALSE, options |-> FALSE,
            status |-> "ok", cors |-> FALSE]

ChainInit ==
    /\ Init
    /\ chain \in Chains
    /\ run = [t \in Threads |-> Outside]
    /\ parsed = [c \in Conns |-> FALSE]
    /\ decorated = [c \in Conns |-> FALSE]
    /\ log = [c \in Conns |-> <<>>]

(* The middleware that runs in the current frame, and the one whose call of*)
(* next the current frame is.                                              *)
Entering(t, ws) == pc[t] = "chain" /\ run[t].mode = "down" /\ run[t].level <= Len(chain)
                   /\ chain[run[t].level] \in ws
Innermost(t) == pc[t] = "chain" /\ run[t].mode = "down" /\ run[t].level = Len(chain) + 1
Back(t, mode, ws) == pc[t] \in {"chain", "unwind"} /\ run[t].mode = mode /\ run[t].level > 1
                     /\ chain[run[t].level - 1] \in ws

Only(t, r) == run' = [run EXCEPT ![t] = r] /\ UNCHANGED <<vars, chain, historyVars>>

-----------------------------------------------------------------------------
(* Faulty variants, none of them part of ChainNext.                        *)

(* Recovery registered inside what it should guard: it misses exceptions.  *)
CatchRethrows(t) ==
    /\ Back(t, "throw", {"recovery"})
    /\ Only(t, [run[t] EXCEPT !.level = @ - 1])

(* Recovery answers with a response of its own, without the headers set. *)
CatchFresh(t) ==
    /\ Back(t, "throw", {"recovery"})
    /\ Only(t, [run[t] EXCEPT !.level = @ - 1, !.mode = "up", !.streamed = FALSE,
                              !.status = "error", !.cors = FALSE])

(* runChain() returns false whatever next() said. *)
BackUpForgets(t) ==
    /\ Back(t, "up", Middlewares)
    /\ run' = [run EXCEPT ![t].level = @ - 1, ![t].streamed = FALSE]
    /\ log' = IF chain[run[t].level - 1] = "logger"
              THEN [log EXCEPT ![conn[t]] = Append(@, run[t].status)] ELSE log
    /\ UNCHANGED <<vars, chain, parsed, decorated>>

(* Logger takes the status before it calls next. *)
BackUpStale(t) ==
    /\ Back(t, "up", Middlewares)
    /\ run' = [run EXCEPT ![t].level = @ - 1]
    /\ log' = IF chain[run[t].level - 1] = "logger"
              THEN [log EXCEPT ![conn[t]] = Append(@, "ok")] ELSE log
    /\ UNCHANGED <<vars, chain, parsed, decorated>>

-----------------------------------------------------------------------------
(* HttpParser::parse() yields a request, an OPTIONS one perhaps, or throws,*)
(* which handleConnection() answers with a 500 of its own.                 *)
Parse(t) ==
    /\ pc[t] = "chain" /\ run[t].mode = "out"
    /\ \E o \in BOOLEAN:
        /\ o => request[conn[t]] = "plain"
        /\ run' = [run EXCEPT ![t] = [Outside EXCEPT !.level = 1, !.mode = "down", !.options = o]]
    /\ parsed' = [parsed EXCEPT ![conn[t]] = TRUE]
    /\ UNCHANGED <<vars, chain, decorated, log>>

ParseThrows(t) ==
    /\ run[t].mode = "out"
    /\ Move(t, "chain", "reply", "error")
    /\ UNCHANGED <<clientVars, holder, heads, queue, conn, alive, activeStreams, lifeVars, chainVars>>

(* What a middleware does before it calls next.                            *)
CallNext(t) ==
    /\ Entering(t, {"logger", "recovery", "user"})
    /\ Only(t, [run[t] EXCEPT !.level = @ + 1])

CorsNext(t) ==
    /\ Entering(t, {"cors"})
    /\ Only(t, IF run[t].options THEN [run[t] EXCEPT !.cors = TRUE, !.mode = "up"]
               ELSE [run[t] EXCEPT !.cors = TRUE, !.level = @ + 1])

(* A middleware of the application may answer without next, or throw.      *)
WithoutNext(t) ==
    /\ Entering(t, {"user"})
    /\ \E mode \in {"up", "throw"}: Only(t, [run[t] EXCEPT !.mode = mode])

(* dispatch(): a handler answers, or the router 404 or 405; or it throws.  *)
Dispatch(t) ==
    /\ Innermost(t) /\ request[conn[t]] = "plain"
    /\ \E mode \in {"up", "throw"}: Only(t, [run[t] EXCEPT !.mode = mode])

ChainMatchStream(t) == Innermost(t) /\ MatchStream(t) /\ UNCHANGED chainVars

(* The preamble carries the headers set so far.                            *)
ChainUpgrade(t) ==
    /\ Upgrade(t)
    /\ decorated' = IF heads' = heads THEN decorated
                    ELSE [decorated EXCEPT ![conn[t]] = run[t].cors]
    /\ UNCHANGED <<chain, run, parsed, log>>

ChainUnclaim(t) ==
    /\ Unclaim(t)
    /\ run' = [run EXCEPT ![t].mode = "up", ![t].status = "refused"]
    /\ UNCHANGED <<chain, historyVars>>

ChainRelease(t) ==
    /\ Release(t)
    /\ run' = IF reply[t] = "error" THEN [run EXCEPT ![t].mode = "throw"]
              ELSE [run EXCEPT ![t].mode = "up", ![t].streamed = TRUE]
    /\ UNCHANGED <<chain, historyVars>>

(* next() has returned, and `streamed` with it; the middleware goes on and *)
(* returns, after a line to the log, or throws.                            *)
BackUp(t) ==
    /\ Back(t, "up", Middlewares)
    /\ run' = [run EXCEPT ![t].level = @ - 1]
    /\ log' = IF chain[run[t].level - 1] = "logger"
              THEN [log EXCEPT ![conn[t]] = Append(@, run[t].status)] ELSE log
    /\ UNCHANGED <<vars, chain, parsed, decorated>>

ThrowAfterNext(t) ==
    /\ Back(t, "up", {"user"})
    /\ Only(t, [run[t] EXCEPT !.level = @ - 1, !.mode = "throw"])

(* next() threw: `streamed` of this frame was never assigned.  Recovery    *)
(* turns it into a 500; the others let it pass.                            *)
Catch(t) ==
    /\ Back(t, "throw", {"recovery"})
    /\ Only(t, [run[t] EXCEPT !.level = @ - 1, !.mode = "up", !.streamed = FALSE,
                              !.status = "error"])

PassThrough(t) ==
    /\ Back(t, "throw", Middlewares \ {"recovery"})
    /\ Only(t, [run[t] EXCEPT !.level = @ - 1])

(* handleConnection() after runChain(0): it leaves an upgraded connection  *)
(* alone, sends `response`, or a 500 of its own when an exception came out.*)
Leave(t) ==
    /\ run[t].level = 1
    /\ \/ /\ run[t].mode = "up" /\ run[t].streamed
          /\ Move(t, pc[t], "finish", "ok")
          /\ run' = [run EXCEPT ![t] = Outside]
       \/ /\ run[t].mode = "up" /\ ~run[t].streamed
          /\ Move(t, pc[t], "reply", run[t].status)
          /\ run' = [run EXCEPT ![t] = [Outside EXCEPT !.cors = run[t].cors]]
       \/ /\ run[t].mode = "throw"
          /\ Move(t, pc[t], "reply", "error")
          /\ run' = [run EXCEPT ![t] = Outside]
    /\ UNCHANGED <<clientVars, holder, heads, queue, conn, alive, activeStreams, lifeVars>>
    /\ UNCHANGED <<chain, historyVars>>

ChainReply(t) ==
    /\ Reply(t)
    /\ decorated' = IF heads' = heads THEN decorated
                    ELSE [decorated EXCEPT ![conn[t]] = run[t].cors]
    /\ run' = [run EXCEPT ![t] = Outside]
    /\ UNCHANGED <<chain, parsed, log>>

-----------------------------------------------------------------------------
ChainStep(t) ==
    \/ Parse(t) \/ ParseThrows(t)
    \/ CallNext(t) \/ CorsNext(t) \/ WithoutNext(t)
    \/ Dispatch(t) \/ ChainMatchStream(t)
    \/ ChainUnclaim(t) \/ ChainUpgrade(t) \/ ChainRelease(t)
    \/ BackUp(t) \/ ThrowAfterNext(t) \/ Catch(t) \/ PassThrough(t)
    \/ Leave(t) \/ ChainReply(t)

(* The rest of Server, which the chain has no part in.                     *)
OtherStep ==
    /\ \/ \E c \in Conns: ClientStep(c) \/ Accept(c)
       \/ \E t \in Threads:
            Dequeue(t) \/ ReadRequest(t) \/ ReadEnds(t) \/ Claim(t) \/ HandlerStep(t) \/ Finish(t)
       \/ Stop \/ Destroy \/ Teardown \/ Destroyed
    /\ UNCHANGED chainVars

ChainNext == OtherStep \/ \E t \in Threads: ChainStep(t)

ChainSpec == ChainInit /\ [][ChainNext]_allVars

-----------------------------------------------------------------------------
(* The chain keeps to its types, and a thread is in a frame of runChain()  *)
(* only while Server says it is in the chain or in a stream.               *)
ChainTypeOK ==
    /\ chain \in Chains
    /\ run \in [Threads -> Runs]
    /\ \A t \in Threads:
        /\ run[t].level <= Len(chain) + 1
        /\ run[t].level > 0 => pc[t] \in {"chain", "claim", "unclaim", "upgrade", "streaming",
                                          "release", "unwind"}
        /\ run[t].mode = "out" <=> run[t].level = 0
    /\ parsed \in [Conns -> BOOLEAN]
    /\ decorated \in [Conns -> BOOLEAN]
    /\ log \in [Conns -> Seq(Statuses)]

(* The walk through the middlewares has no other outcomes than Server's:   *)
(* whatever is registered and whoever throws, runChain() returns true only *)
(* for a connection that was upgraded and left in order, and false or an   *)
(* exception leads to one answer.                                          *)
ImplementsServer == Spec

(* Behind a Recovery registered first, no exception of a handler or of     *)
(* another middleware reaches handleConnection().                          *)
RecoveryShields ==
    chain # <<>> /\ chain[1] = "recovery" =>
        \A t \in Threads: ~(run[t].level = 1 /\ run[t].mode = "throw")

Outermost(w, next) == Len(chain) >= 2 /\ chain[1] = w /\ chain[2] = next

(* With Cors first and Recovery next, every head that answers a request    *)
(* that could be parsed carries the CORS headers: those of a preflight, a  *)
(* refusal, a failure and a stream's preamble as well.                     *)
CorsKept ==
    Outermost("cors", "recovery") =>
        \A c \in Conns: parsed[c] /\ heads[c] # <<>> => decorated[c]

(* With Logger first and Recovery next, a request is logged before it is   *)
(* answered, and with the status of that answer.                           *)
LoggedAsAnswered ==
    Outermost("logger", "recovery") =>
        \A t \in Threads: pc[t] = "reply" /\ parsed[conn[t]] =>
            LET lines == log[conn[t]] IN lines # <<>> /\ lines[Len(lines)] = reply[t]
=============================================================================
