-------------------------- MODULE AcceptLoopProofs --------------------------
(***************************************************************************)
(* What holds of AcceptLoop for any number of descriptors and of threads   *)
(* that call stop().  The inductive invariant is ownership: the listener's *)
(* handle and the handles the stop()s have taken out of it are distinct    *)
(* open descriptors of the server, and there are no others.                *)
(***************************************************************************)
EXTENDS AcceptLoop, TLAPS

(* The stop()s that hold a descriptor between their exchange and ::close().*)
Closers == {s \in Stoppers: spc[s] \in {"shutdown", "close"}}

Owned ==
    /\ fd # NoFd => table[fd] \in {"open", "listening"}
    /\ \A s \in Closers: stopFd[s] # NoFd /\ stopFd[s] # fd
    /\ \A s \in Closers, r \in Closers: s # r => stopFd[s] # stopFd[r]

IInv == TypeOK /\ Owned /\ NoForeignClose /\ NoLeak

LEMMA InitInv == Init => IInv
  BY AcceptAssumption DEF Init, IInv, TypeOK, Owned, Closers, NoForeignClose, NoLeak, Files,
                          RunSteps, StopSteps, Outcomes

(* The steps of run() leave the descriptors alone. *)
LEMMA RunInv ==
  ASSUME IInv, EnterRun \/ RunStep \/ AcceptReturns \/ UNCHANGED vars
  PROVE  IInv'
  <1>1. UNCHANGED <<table, fd, port, stopVars, started>>
    BY DEF EnterRun, RunStep, AcceptReturns, SetRunning, LoopTest, LoadHandle, CallAccept,
           AcceptWoken, vars, history, runVars
  <1>2. TypeOK'
    BY <1>1 DEF IInv, TypeOK, EnterRun, RunStep, AcceptReturns, SetRunning, LoopTest,
           LoadHandle, CallAccept, AcceptWoken, vars, history, runVars, stopVars, RunSteps
  <1>3. QED
    BY <1>1, <1>2 DEF IInv, Owned, Closers, NoForeignClose, NoLeak, stopVars

LEMMA StartInv ==
  ASSUME IInv, NEW p \in Ports, NEW outcome \in Outcomes, NEW new \in Fds,
         Start(p, outcome, new)
  PROVE  IInv'
  <1>1. Closers = {} /\ Closers' = {}
    BY DEF Start, Quiet, Closers, stopVars
  <1>2. /\ UNCHANGED <<running, rpc, accFd, spc, stopFd, stopped>>
        /\ fd' = IF outcome \in {"no reuse", "listening"} THEN new ELSE NoFd
        /\ table[new] = "free"
        /\ port' = IF outcome = "listening" THEN p ELSE port
        /\ started' = outcome
    BY DEF Start, runVars, stopVars
  <1>3. table' = [f \in Fds |-> IF f = fd THEN "free"
                                ELSE IF f = new THEN FileAfter(outcome) ELSE table[f]]
    BY DEF Start
  <1>4. new # fd
    BY <1>2, AcceptAssumption DEF IInv, Owned
  <1>5. table' \in [Fds -> Files]
    BY <1>3 DEF IInv, TypeOK, Files, FileAfter
  <1>6. TypeOK'
    BY <1>2, <1>5 DEF IInv, TypeOK
  <1>7. Owned'
    BY <1>1, <1>2, <1>3, <1>4 DEF Owned, FileAfter
  <1>8. NoForeignClose'
    BY <1>1 DEF NoForeignClose, Closers
  <1>9. NoLeak'
    <2> SUFFICES ASSUME NEW f \in Fds, table'[f] \in {"open", "listening", "shut"}
                 PROVE  f = fd'
      BY DEF NoLeak
    <2>1. CASE f = new
      BY <1>2, <1>3, <1>4, <2>1 DEF FileAfter
    <2>2. CASE f # new
      <3>1. table[f] \in {"open", "listening", "shut"} /\ f # fd
        BY <1>3, <2>2
      <3>2. QED
        BY <1>1, <3>1 DEF IInv, NoLeak, Closers
    <2>3. QED
      BY <2>1, <2>2
  <1>10. QED
    BY <1>6, <1>7, <1>8, <1>9 DEF IInv

(* Who holds a descriptor is a matter of spc. *)
LEMMA ClosersKept ==
  ASSUME \A r \in Stoppers: spc'[r] \in {"shutdown", "close"} <=> spc[r] \in {"shutdown", "close"}
  PROVE  Closers' = Closers
  BY DEF Closers

LEMMA StopInv ==
  ASSUME IInv, NEW s \in Stoppers, BeginStop(s) \/ StopStep(s)
  PROVE  IInv'
  <1> USE AcceptAssumption DEF IInv, TypeOK, Owned, Closers, NoForeignClose, NoLeak,
          runVars, stopVars, history
  <1>1. CASE BeginStop(s)
    <2>1. /\ UNCHANGED <<table, fd, port, rpc, accFd, stopFd, started, stopped>>
          /\ spc[s] = "idle" /\ spc' = [spc EXCEPT ![s] = "exchange"] /\ running' = FALSE
      BY <1>1 DEF BeginStop
    <2>2. TypeOK'
      BY <2>1 DEF StopSteps
    <2>3. \A r \in Stoppers: spc'[r] = IF r = s THEN "exchange" ELSE spc[r]
      BY <2>1
    <2>4. Closers' = Closers
      BY <2>1, <2>3, ClosersKept
    <2>5. Owned' /\ NoForeignClose' /\ NoLeak'
      BY <2>1, <2>3, <2>4
    <2>6. QED
      BY <2>2, <2>5
  <1>2. CASE Exchange(s)
    BY <1>2 DEF Exchange, StopSteps
  <1>3. CASE Shutdown(s)
    <2>1. s \in Closers /\ stopFd[s] \in Fds /\ stopFd[s] # fd
      BY <1>3 DEF Shutdown
    <2>2. TypeOK'
      BY <1>3, <2>1 DEF Shutdown, StopSteps, Files, RunSteps
    <2>3. Closers' = Closers
      BY <1>3 DEF Shutdown, StopSteps
    <2>4. Owned'
      BY <1>3, <2>1, <2>3 DEF Shutdown
    <2>5. NoForeignClose' /\ NoLeak'
      BY <1>3, <2>1 DEF Shutdown
    <2>6. QED
      BY <2>2, <2>4, <2>5
  <1>4. CASE CloseFd(s)
    <2>1. s \in Closers /\ stopFd[s] \in Fds /\ stopFd[s] # fd
      BY <1>4 DEF CloseFd
    <2>2. TypeOK'
      BY <1>4, <2>1 DEF CloseFd, StopSteps, Files
    <2>3. Closers' = Closers \ {s}
      BY <1>4 DEF CloseFd, StopSteps
    <2>4. Owned'
      BY <1>4, <2>1, <2>3 DEF CloseFd
    <2>5. NoForeignClose' /\ NoLeak'
      BY <1>4, <2>1 DEF CloseFd
    <2>6. QED
      BY <2>2, <2>4, <2>5
  <1>5. CASE ClearPort(s)
    BY <1>5 DEF ClearPort, StopSteps
  <1>6. QED
    BY <1>1, <1>2, <1>3, <1>4, <1>5 DEF StopStep

(* The rest of the process takes free descriptors and returns its own.     *)
LEMMA ForeignInv ==
  ASSUME IInv, NEW f \in Fds, ForeignOpen(f) \/ ForeignClose(f)
  PROVE  IInv'
  BY AcceptAssumption DEF IInv, TypeOK, Owned, Closers, NoForeignClose, NoLeak, runVars,
     stopVars, history, ForeignOpen, ForeignClose, Files

LEMMA NextInv == IInv /\ [Next]_vars => IInv'
  <1> SUFFICES ASSUME IInv, [Next]_vars PROVE IInv'
    OBVIOUS
  <1>1. CASE \E p \in Ports, outcome \in Outcomes, new \in Fds: Start(p, outcome, new)
    BY <1>1, StartInv
  <1>2. CASE EnterRun \/ RunStep \/ AcceptReturns \/ UNCHANGED vars
    BY <1>2, RunInv
  <1>3. CASE \E s \in Stoppers: BeginStop(s) \/ StopStep(s)
    BY <1>3, StopInv
  <1>4. CASE \E f \in Fds: ForeignOpen(f) \/ ForeignClose(f)
    BY <1>4, ForeignInv
  <1>5. QED
    BY <1>1, <1>2, <1>3, <1>4 DEF Next

LEMMA InvHolds == Spec => []IInv
  BY InitInv, NextInv, PTL DEF Spec

(* Every reachable state is type correct. *)
THEOREM AcceptTypeCorrect == Spec => []TypeOK
  <1>1. IInv => TypeOK
    BY DEF IInv
  <1>2. QED
    BY <1>1, InvHolds, PTL

(* Any number of threads may stop the server: none of them ever shuts down *)
(* or closes a descriptor that is not the listening socket's.              *)
THEOREM ClosesOnlyOwn == Spec => []NoForeignClose
  <1>1. IInv => NoForeignClose
    BY DEF IInv
  <1>2. QED
    BY <1>1, InvHolds, PTL

(* No socket of start() is ever lost.                                      *)
THEOREM NothingLeaks == Spec => []NoLeak
  <1>1. IInv => NoLeak
    BY DEF IInv
  <1>2. QED
    BY <1>1, InvHolds, PTL

-----------------------------------------------------------------------------
(* The port.  Past its exchange and before its port_ = 0, a stop() accounts*)
(* for a port that outlives its socket; while there is one, no start() can *)
(* have put a new socket in the listener.                                  *)
Clearing == {s \in Stoppers: spc[s] \in {"shutdown", "close", "port"}}

PortInv ==
    /\ Clearing # {} => fd = NoFd
    /\ started = "listening" /\ fd # NoFd => port # 0
    /\ started = "listening" /\ port # 0 => fd # NoFd \/ Clearing # {}

LEMMA PortNext ==
  ASSUME TypeOK, PortInv, [Next]_vars
  PROVE  PortInv'
  <1> USE DEF PortInv, Clearing
  <1>1. CASE \E p \in Ports, outcome \in Outcomes, new \in Fds: Start(p, outcome, new)
    <2>1. PICK p \in Ports, outcome \in Outcomes, new \in Fds: Start(p, outcome, new)
      BY <1>1
    <2>2. Clearing = {} /\ Clearing' = {} /\ p # 0 /\ new # NoFd
      BY <2>1, AcceptAssumption DEF Start, Quiet, stopVars
    <2>3. /\ fd' = IF outcome \in {"no reuse", "listening"} THEN new ELSE NoFd
          /\ port' = IF outcome = "listening" THEN p ELSE port
          /\ started' = outcome
      BY <2>1 DEF Start
    <2>4. QED
      BY <2>2, <2>3
  <1>2. CASE \/ EnterRun \/ RunStep \/ AcceptReturns \/ UNCHANGED vars
             \/ \E f \in Fds: ForeignOpen(f) \/ ForeignClose(f)
    BY <1>2 DEF EnterRun, RunStep, SetRunning, LoopTest, LoadHandle, CallAccept, AcceptWoken,
                AcceptReturns, ForeignOpen, ForeignClose, vars, history, stopVars, runVars
  <1>3. ASSUME NEW s \in Stoppers, BeginStop(s) PROVE PortInv'
    <2>1. UNCHANGED <<fd, port, started>> /\ spc[s] = "idle" /\ spc' = [spc EXCEPT ![s] = "exchange"]
      BY <1>3 DEF BeginStop, history
    <2>2. Clearing' = Clearing
      BY <2>1 DEF TypeOK
    <2>3. QED
      BY <2>1, <2>2
  <1>4. ASSUME NEW s \in Stoppers, Exchange(s) PROVE PortInv'
    <2>1. s \in Clearing'
      BY <1>4 DEF Exchange, TypeOK
    <2>2. fd' = NoFd
      BY <1>4 DEF Exchange
    <2>3. QED
      BY <2>1, <2>2
  <1>5. ASSUME NEW s \in Stoppers, Shutdown(s) \/ CloseFd(s) PROVE PortInv'
    <2>1. UNCHANGED <<fd, port, started>>
      BY <1>5 DEF Shutdown, CloseFd, history
    <2>2. s \in Clearing /\ s \in Clearing'
      BY <1>5 DEF Shutdown, CloseFd, TypeOK
    <2>3. QED
      BY <2>1, <2>2
  <1>6. ASSUME NEW s \in Stoppers, ClearPort(s) PROVE PortInv'
    <2>1. s \in Clearing /\ port' = 0 /\ fd' = fd
      BY <1>6 DEF ClearPort
    <2>2. QED
      BY <2>1
  <1>7. QED
    BY <1>1, <1>2, <1>3, <1>4, <1>5, <1>6 DEF Next, StopStep

(* Between the stop()s port() says whether the listener listens, however   *)
(* many of them met, and in whatever order they cleared it.                *)
THEOREM PortToldRight == Spec => []PortTellsListening
  <1>1. Init => PortInv
    BY DEF Init, PortInv, Clearing
  <1>2. TypeOK /\ PortInv /\ [Next]_vars => PortInv'
    BY PortNext
  <1>3. PortInv => PortTellsListening
    BY DEF PortInv, PortTellsListening, Quiet, Clearing
  <1>4. QED
    BY <1>1, <1>2, <1>3, AcceptTypeCorrect, PTL DEF Spec
=============================================================================
