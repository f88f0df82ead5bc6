---------------------------- MODULE ServerProofs ----------------------------
(***************************************************************************)
(* What holds of Server for any number of connections and threads and any  *)
(* configured cap.                                                         *)
(*                                                                         *)
(* First the streaming slots.  The inductive invariant is TypeOK and       *)
(* SlotsBalance together: the balance keeps the counter in its range, and  *)
(* the types make Counted a finite set whose cardinality each step changes *)
(* by one.                                                                 *)
(*                                                                         *)
(* Then who owns a connection: what Server's clients see follows from it.  *)
(* The inductive invariant says of each connection where it is (waiting    *)
(* for accept(), queued, with one thread, closed) and of each thread what  *)
(* its step leaves to be done for its connection.                          *)
(*                                                                         *)
(* Then the walk through runChain(), for any lists of middlewares: it      *)
(* implements Server, so that what holds of Server holds of it, and        *)
(* Recovery, Cors and Logger do their part.                                *)
(***************************************************************************)
EXTENDS MiddlewareChain, FiniteSetTheorems, TLAPS

-----------------------------------------------------------------------------
(* The cap is a positive number, whatever was configured.                  *)
LEMMA MaxStreamsType == MaxStreams \in Nat \ {0}
  <1>1. ThreadCount \in Nat
    BY ServerAssumption, FS_CardinalityType DEF ThreadCount
  <1>2. QED
    BY <1>1, ServerAssumption DEF MaxStreams

(* The threads past the comparison are among those that weigh on the       *)
(* counter, and these among the threads.                                   *)
LEMMA CountedFinite ==
  /\ IsFiniteSet(Counted) /\ IsFiniteSet(Admitted)
  /\ Cardinality(Counted) \in 0 .. ThreadCount
  /\ Cardinality(Admitted) \in 0 .. Cardinality(Counted)
  <1>1. Counted \subseteq Threads /\ Admitted \subseteq Counted
    BY DEF Counted, Admitted
  <1>2. IsFiniteSet(Counted) /\ Cardinality(Counted) <= ThreadCount
    BY <1>1, ServerAssumption, FS_Subset DEF ThreadCount
  <1>3. IsFiniteSet(Admitted) /\ Cardinality(Admitted) <= Cardinality(Counted)
    BY <1>1, <1>2, FS_Subset
  <1>4. QED
    BY <1>2, <1>3, ServerAssumption, FS_CardinalityType DEF ThreadCount

-----------------------------------------------------------------------------
(* Type correctness, the counter's range apart.                            *)
Typed == ConnTypeOK /\ TaskTypeOK /\ LifeTypeOK

LEMMA TypedInit == Init => Typed
  BY DEF Init, Typed, ConnTypeOK, TaskTypeOK, LifeTypeOK, Requests, Holders,
         Steps, Statuses, Members

LEMMA TypedClient ==
  ASSUME Typed, NEW c \in Conns, ClientStep(c) \/ Accept(c)
  PROVE  Typed'
  <1> USE DEF Typed, ConnTypeOK, TaskTypeOK, LifeTypeOK, taskVars, lifeVars, clientVars
  <1>1. CASE SendRequest(c)
    BY <1>1 DEF SendRequest, Requests
  <1>2. CASE Hangup(c)
    BY <1>2 DEF Hangup
  <1>3. CASE Accept(c)
    BY <1>3 DEF Accept, Holders
  <1>4. QED
    BY <1>1, <1>2, <1>3 DEF ClientStep

LEMMA TypedLife ==
  ASSUME Typed, Stop \/ Destroy \/ Teardown \/ Destroyed
  PROVE  Typed'
  <1> USE DEF Typed, ConnTypeOK, TaskTypeOK, LifeTypeOK, taskVars, lifeVars, clientVars
  <1>1. CASE Stop
    BY <1>1 DEF Stop
  <1>2. CASE Destroy
    BY <1>2 DEF Destroy
  <1>3. CASE DestroyMember
    BY <1>3 DEF DestroyMember, Members
  <1>4. CASE DropTask
    BY <1>4 DEF DropTask, Holders
  <1>5. CASE Destroyed
    BY <1>5 DEF Destroyed, vars
  <1>6. QED
    BY <1>1, <1>2, <1>3, <1>4, <1>5 DEF Teardown

(* What a busy thread's connection is. *)
LEMMA BusyConn ==
  ASSUME Typed, NEW t \in Threads, pc[t] # "idle"
  PROVE  conn[t] \in Conns
  BY DEF Typed, TaskTypeOK

LEMMA TypedThread ==
  ASSUME Typed, NEW t \in Threads, ThreadStep(t)
  PROVE  Typed'
  <1> USE DEF Typed, ConnTypeOK, TaskTypeOK, LifeTypeOK, taskVars, lifeVars, clientVars,
              Steps, Statuses
  <1>1. CASE Dequeue(t)
    <2>1. Head(queue) \in Conns /\ Tail(queue) \in Seq(Conns)
      BY <1>1 DEF Dequeue
    <2>2. QED
      BY <1>1, <2>1, ServerAssumption DEF Dequeue
  <1>2. CASE ReadRequest(t)
    BY <1>2 DEF ReadRequest, Move
  <1>3. CASE ReadEnds(t)
    BY <1>3 DEF ReadEnds, Move
  <1>4. CASE Answer(t)
    BY <1>4 DEF Answer, Move
  <1>5. CASE MatchStream(t)
    BY <1>5 DEF MatchStream, Move
  <1>6. CASE Claim(t)
    BY <1>6 DEF Claim, Move
  <1>7. CASE Unclaim(t)
    BY <1>7 DEF Unclaim, Move
  <1>8. CASE Upgrade(t)
    <2>1. PICK sent \in BOOLEAN:
            /\ alive' = [alive EXCEPT ![t] = sent]
            /\ heads' = [heads EXCEPT ![conn[t]] = IF sent THEN Append(@, "stream") ELSE @]
      BY <1>8 DEF Upgrade, SendPreamble
    <2>2. conn[t] \in Conns
      BY <1>8, BusyConn DEF Upgrade, Move
    <2>3. heads' \in [Conns -> Seq(Statuses)]
      BY <2>1, <2>2
    <2>4. holder' \in [Conns -> Holders]
      BY <1>8, <2>2 DEF Upgrade, Holders
    <2>5. TaskTypeOK'
      BY <1>8, <2>1 DEF Upgrade, Move
    <2>6. QED
      BY <1>8, <2>3, <2>4, <2>5 DEF Upgrade
  <1>9. CASE Release(t)
    BY <1>9 DEF Release, Move
  <1>10. CASE Reply(t)
    <2>1. conn[t] \in Conns
      BY <1>10, BusyConn DEF Reply, Move
    <2>2. heads' \in [Conns -> Seq(Statuses)]
      BY <1>10, <2>1 DEF Reply
    <2>3. TaskTypeOK'
      BY <1>10 DEF Reply, Move
    <2>4. QED
      BY <1>10, <2>2, <2>3 DEF Reply
  <1>11. CASE Finish(t)
    <2>1. holder' \in [Conns -> Holders]
      BY <1>11 DEF Finish, Holders
    <2>2. TaskTypeOK'
      BY <1>11, ServerAssumption DEF Finish, Move
    <2>3. QED
      BY <1>11, <2>1, <2>2 DEF Finish
  <1>12. CASE Unwind(t)
    BY <1>12 DEF Unwind, Move
  <1>13. QED
    BY <1>1, <1>2, <1>3, <1>4, <1>5, <1>6, <1>7, <1>8, <1>9, <1>10, <1>11, <1>12 DEF ThreadStep

LEMMA TypedHandler ==
  ASSUME Typed, NEW t \in Threads, HandlerStep(t)
  PROVE  Typed'
  <1> USE DEF Typed, ConnTypeOK, TaskTypeOK, LifeTypeOK, taskVars, lifeVars, clientVars,
              Steps, Statuses, Holders
  <1>1. CASE StreamSendFails(t)
    BY <1>1 DEF StreamSendFails
  <1>2. CASE StreamClose(t)
    BY <1>2 DEF StreamClose
  <1>3. CASE StreamEnd(t)
    BY <1>3 DEF StreamEnd, Move
  <1>4. QED
    BY <1>1, <1>2, <1>3 DEF HandlerStep

LEMMA TypedNext == Typed /\ [Next]_vars => Typed'
  <1> SUFFICES ASSUME Typed, [Next]_vars PROVE Typed'
    OBVIOUS
  <1>1. CASE UNCHANGED vars
    BY <1>1 DEF vars, clientVars, taskVars, lifeVars, Typed, ConnTypeOK, TaskTypeOK, LifeTypeOK
  <1>2. CASE Next
    BY <1>2, TypedClient, TypedLife, TypedThread, TypedHandler DEF Next
  <1>3. QED
    BY <1>1, <1>2

-----------------------------------------------------------------------------
(* The counter.  A step moves at most one thread, so Counted gains it,     *)
(* loses it or stays.                                                      *)
LEMMA CountedMoves ==
  ASSUME Typed, NEW t \in Threads, NEW s \in Steps, pc' = [pc EXCEPT ![t] = s]
  PROVE  /\ s \in {"unclaim", "upgrade", "streaming", "release"} =>
               Counted' = Counted \cup {t}
         /\ s \notin {"unclaim", "upgrade", "streaming", "release"} =>
               Counted' = Counted \ {t}
  BY DEF Typed, TaskTypeOK, Counted

LEMMA AdmittedMoves ==
  ASSUME Typed, NEW t \in Threads, NEW s \in Steps, pc' = [pc EXCEPT ![t] = s]
  PROVE  /\ s \in {"upgrade", "streaming", "release"} => Admitted' = Admitted \cup {t}
         /\ s \notin {"upgrade", "streaming", "release"} => Admitted' = Admitted \ {t}
  BY DEF Typed, TaskTypeOK, Admitted

(* What each step does to the counter and to the two sets.  Only Claim,    *)
(* Unclaim and Release do anything.                                        *)
Claimed(t) ==
  /\ t \notin Counted /\ Counted' = Counted \cup {t}
  /\ activeStreams' = activeStreams + 1
  /\ \/ activeStreams >= MaxStreams /\ Admitted' = Admitted
     \/ ~(activeStreams >= MaxStreams) /\ t \notin Admitted /\ Admitted' = Admitted \cup {t}

Unclaimed(t) ==
  /\ t \in Counted \ Admitted /\ Counted' = Counted \ {t}
  /\ activeStreams' = activeStreams - 1
  /\ Admitted' = Admitted

Released(t) ==
  /\ t \in Counted /\ Counted' = Counted \ {t}
  /\ activeStreams' = activeStreams - 1
  /\ t \in Admitted /\ Admitted' = Admitted \ {t}

Untouched == Counted' = Counted /\ activeStreams' = activeStreams /\ Admitted' = Admitted

LEMMA ThreadCounter ==
  ASSUME Typed, NEW t \in Threads, ThreadStep(t) \/ HandlerStep(t)
  PROVE  Claimed(t) \/ Unclaimed(t) \/ Released(t) \/ Untouched
  <1> DEFINE Weighs == {"unclaim", "upgrade", "streaming", "release"}
             Occupying == {"upgrade", "streaming", "release"}
  <1>1. t \in Counted <=> pc[t] \in Weighs
    BY DEF Counted
  <1>2. t \in Admitted <=> pc[t] \in Occupying
    BY DEF Admitted
  <1> DEFINE Keeps(s) == /\ pc' = [pc EXCEPT ![t] = s]
                         /\ pc[t] \in Weighs <=> s \in Weighs
                         /\ pc[t] \in Occupying <=> s \in Occupying
  <1>3. \A s \in Steps: Keeps(s) => Counted' = Counted /\ Admitted' = Admitted
    <2> SUFFICES ASSUME NEW s \in Steps, Keeps(s)
                 PROVE  Counted' = Counted /\ Admitted' = Admitted
      OBVIOUS
    <2>1. Counted' = Counted
      <3>1. CASE s \in Weighs
        <4>1. Counted' = Counted \cup {t}
          BY <3>1, CountedMoves
        <4>2. QED
          BY <1>1, <3>1, <4>1
      <3>2. CASE s \notin Weighs
        <4>1. Counted' = Counted \ {t}
          BY <3>2, CountedMoves
        <4>2. QED
          BY <1>1, <3>2, <4>1
      <3>3. QED
        BY <3>1, <3>2
    <2>2. CASE s \in Occupying
      <3>1. Admitted' = Admitted \cup {t}
        BY <2>2, AdmittedMoves
      <3>2. t \in Admitted
        BY <1>2, <2>2
      <3>3. QED
        BY <2>1, <3>1, <3>2
    <2>3. CASE s \notin Occupying
      <3>1. Admitted' = Admitted \ {t}
        BY <2>3, AdmittedMoves
      <3>2. t \notin Admitted
        BY <1>2, <2>3
      <3>3. QED
        BY <2>1, <3>1, <3>2
    <2>4. QED
      BY <2>2, <2>3
  <1>4. CASE Claim(t)
    <2>1. CASE activeStreams >= MaxStreams
      <3>1. pc[t] = "claim" /\ pc' = [pc EXCEPT ![t] = "unclaim"] /\ activeStreams' = activeStreams + 1
        BY <1>4, <2>1 DEF Claim, Move
      <3>2. "unclaim" \in Steps
        BY DEF Steps
      <3>3. Counted' = Counted \cup {t}
        BY <3>1, <3>2, CountedMoves
      <3>4. Admitted' = Admitted \ {t}
        BY <3>1, <3>2, AdmittedMoves
      <3>5. t \notin Counted /\ t \notin Admitted
        BY <1>1, <1>2, <3>1
      <3>6. QED
        BY <2>1, <3>1, <3>3, <3>4, <3>5 DEF Claimed
    <2>2. CASE ~(activeStreams >= MaxStreams)
      <3>1. pc[t] = "claim" /\ pc' = [pc EXCEPT ![t] = "upgrade"] /\ activeStreams' = activeStreams + 1
        BY <1>4, <2>2 DEF Claim, Move
      <3>2. "upgrade" \in Steps
        BY DEF Steps
      <3>3. Counted' = Counted \cup {t}
        BY <3>1, <3>2, CountedMoves
      <3>4. Admitted' = Admitted \cup {t}
        BY <3>1, <3>2, AdmittedMoves
      <3>5. t \notin Counted /\ t \notin Admitted
        BY <1>1, <1>2, <3>1
      <3>6. QED
        BY <2>2, <3>1, <3>3, <3>4, <3>5 DEF Claimed
    <2>3. QED
      BY <2>1, <2>2
  <1>5. CASE Unclaim(t)
    <2>1. pc[t] = "unclaim" /\ pc' = [pc EXCEPT ![t] = "unwind"] /\ activeStreams' = activeStreams - 1
      BY <1>5 DEF Unclaim, Move
    <2>2. PICK s \in {"unwind"}: pc' = [pc EXCEPT ![t] = s]
      BY <2>1
    <2>3. s \in Steps
      BY DEF Steps
    <2>4. Counted' = Counted \ {t}
      BY <2>2, <2>3, CountedMoves
    <2>5. Admitted' = Admitted \ {t}
      BY <2>2, <2>3, AdmittedMoves
    <2>6. t \in Counted /\ t \notin Admitted
      BY <1>1, <1>2, <2>1
    <2>7. QED
      BY <2>1, <2>4, <2>5, <2>6 DEF Unclaimed
  <1>6. CASE Release(t)
    <2>1. PICK s \in {"unwind"}: pc' = [pc EXCEPT ![t] = s]
      BY <1>6 DEF Release, Move
    <2>2. pc[t] = "release" /\ activeStreams' = activeStreams - 1
      BY <1>6 DEF Release, Move
    <2>3. s \in Steps
      BY DEF Steps
    <2>4. Counted' = Counted \ {t}
      BY <2>1, <2>3, CountedMoves
    <2>5. Admitted' = Admitted \ {t}
      BY <2>1, <2>3, AdmittedMoves
    <2>6. t \in Counted /\ t \in Admitted
      BY <1>1, <1>2, <2>2
    <2>7. QED
      BY <2>2, <2>4, <2>5, <2>6 DEF Released
  <1>7. CASE Dequeue(t) \/ ReadRequest(t) \/ ReadEnds(t) \/ Answer(t) \/ MatchStream(t)
              \/ Upgrade(t) \/ Unwind(t) \/ Reply(t) \/ Finish(t) \/ StreamEnd(t)
    <2>1. activeStreams' = activeStreams
      BY <1>7 DEF Dequeue, ReadRequest, ReadEnds, Answer, MatchStream, Upgrade, Unwind,
                  Reply, Finish, StreamEnd
    <2>2. \E s \in Steps: Keeps(s)
      BY <1>7 DEF Dequeue, ReadRequest, ReadEnds, Answer, MatchStream, Upgrade, Unwind,
                  Reply, Finish, StreamEnd, Move, Steps
    <2>3. Counted' = Counted /\ Admitted' = Admitted
      <3> HIDE DEF Keeps
      <3> QED BY <1>3, <2>2
    <2>4. QED
      BY <2>1, <2>3 DEF Untouched
  <1>8. CASE StreamSendFails(t) \/ StreamClose(t)
    BY <1>8 DEF StreamSendFails, StreamClose, Untouched, Counted, Admitted
  <1>9. QED
    BY <1>4, <1>5, <1>6, <1>7, <1>8 DEF ThreadStep, HandlerStep

LEMMA StepCounter ==
  ASSUME Typed, [Next]_vars
  PROVE  Untouched \/ \E t \in Threads: Claimed(t) \/ Unclaimed(t) \/ Released(t)
  <1>1. CASE \E t \in Threads: ThreadStep(t) \/ HandlerStep(t)
    BY <1>1, ThreadCounter
  <1>2. CASE UNCHANGED vars \/ Stop \/ Destroy \/ Teardown \/ Destroyed
               \/ \E c \in Conns: ClientStep(c) \/ Accept(c)
    BY <1>2 DEF Stop, Destroy, Teardown, DestroyMember, DropTask, Destroyed, ClientStep,
                SendRequest, Hangup, Accept, vars, taskVars, Untouched, Counted, Admitted
  <1>3. QED
    BY <1>1, <1>2 DEF Next

(* The balance is kept by every step. *)
LEMMA BalanceNext == Typed /\ SlotsBalance /\ [Next]_vars => SlotsBalance'
  <1> SUFFICES ASSUME Typed, SlotsBalance, [Next]_vars PROVE SlotsBalance'
    OBVIOUS
  <1>1. CASE Untouched
    BY <1>1 DEF Untouched, SlotsBalance
  <1>2. ASSUME NEW t \in Threads, Claimed(t)
        PROVE  SlotsBalance'
    <2>1. Cardinality(Counted \cup {t}) = Cardinality(Counted) + 1
      BY <1>2, CountedFinite, FS_AddElement DEF Claimed
    <2>2. QED
      BY <1>2, <2>1 DEF Claimed, SlotsBalance
  <1>3. ASSUME NEW t \in Threads, Unclaimed(t) \/ Released(t)
        PROVE  SlotsBalance'
    <2>1. t \in Counted /\ Counted' = Counted \ {t} /\ activeStreams' = activeStreams - 1
      BY <1>3 DEF Unclaimed, Released
    <2>2. Cardinality(Counted \ {t}) = Cardinality(Counted) - 1
      BY <2>1, CountedFinite, FS_RemoveElement
    <2>3. QED
      BY <2>1, <2>2 DEF SlotsBalance
  <1>4. QED
    BY <1>1, <1>2, <1>3, StepCounter

(* The types with the balance give the counter its range. *)
LEMMA TypedBalance == Typed /\ SlotsBalance => TypeOK
  BY CountedFinite DEF Typed, TypeOK, SlotsBalance

LEMMA BalanceInit == Init => SlotsBalance
  <1> SUFFICES ASSUME Init PROVE SlotsBalance
    OBVIOUS
  <1>1. Counted = {}
    BY DEF Init, Counted
  <1>2. QED
    BY <1>1, FS_EmptySet DEF Init, SlotsBalance

-----------------------------------------------------------------------------
(* Every reachable state is type correct, the counter's range included.    *)
THEOREM TypeCorrect == Spec => []TypeOK
  <1>1. Init => Typed /\ SlotsBalance
    BY TypedInit, BalanceInit
  <1>2. Typed /\ SlotsBalance /\ [Next]_vars => Typed' /\ SlotsBalance'
    BY TypedNext, BalanceNext
  <1>3. QED
    BY <1>1, <1>2, TypedBalance, PTL DEF Spec

(* activeStreams_ is at all times the number of threads that still owe it  *)
(* a decrement, however the threads interleave.                            *)
THEOREM SlotsBalanced == Spec => []SlotsBalance
  <1>1. Init => Typed /\ SlotsBalance
    BY TypedInit, BalanceInit
  <1>2. Typed /\ SlotsBalance /\ [Next]_vars => Typed' /\ SlotsBalance'
    BY TypedNext, BalanceNext
  <1>3. QED
    BY <1>1, <1>2, PTL DEF Spec

(* A step that admits a stream finds a free slot: what the comparison with *)
(* the counter before the increment is worth.                              *)
LEMMA ClaimFindsRoom ==
  ASSUME SlotsBalance, NEW t \in Threads, Claimed(t), Admitted' # Admitted
  PROVE  /\ t \notin Admitted /\ Admitted' = Admitted \cup {t}
         /\ Cardinality(Admitted) < MaxStreams
  BY CountedFinite, MaxStreamsType DEF Claimed, SlotsBalance

LEMMA CapNext == Typed /\ SlotsBalance /\ StreamCap /\ [Next]_vars => StreamCap'
  <1> SUFFICES ASSUME Typed, SlotsBalance, StreamCap, [Next]_vars PROVE StreamCap'
    OBVIOUS
  <1>1. CASE Admitted' = Admitted
    BY <1>1 DEF StreamCap
  <1>2. ASSUME NEW t \in Threads, Claimed(t), Admitted' # Admitted
        PROVE  StreamCap'
    <2>1. /\ t \notin Admitted /\ Admitted' = Admitted \cup {t}
          /\ Cardinality(Admitted) < MaxStreams
      BY <1>2, ClaimFindsRoom
    <2>2. Cardinality(Admitted \cup {t}) = Cardinality(Admitted) + 1
      BY <2>1, CountedFinite, FS_AddElement
    <2>3. MaxStreams' = MaxStreams
      BY DEF MaxStreams, ThreadCount
    <2>4. QED
      BY <2>1, <2>2, <2>3, CountedFinite, MaxStreamsType DEF StreamCap
  <1>3. ASSUME NEW t \in Threads, Released(t)
        PROVE  StreamCap'
    <2>1. t \in Admitted /\ Admitted' = Admitted \ {t}
      BY <1>3 DEF Released
    <2>2. Cardinality(Admitted \ {t}) = Cardinality(Admitted) - 1
      BY <2>1, CountedFinite, FS_RemoveElement
    <2>3. QED
      BY <2>1, <2>2, CountedFinite, MaxStreamsType DEF StreamCap
  <1>4. QED
    BY <1>1, <1>2, <1>3, StepCounter DEF Untouched, Unclaimed

(* Never more streams than the cap, for every number of threads.           *)
THEOREM StreamsCapped == Spec => []StreamCap
  <1>1. Init => StreamCap
    <2> SUFFICES ASSUME Init PROVE StreamCap
      OBVIOUS
    <2>1. Admitted = {}
      BY DEF Init, Admitted
    <2>2. QED
      BY <2>1, FS_EmptySet, MaxStreamsType DEF StreamCap
  <1>2. Init => Typed /\ SlotsBalance
    BY TypedInit, BalanceInit
  <1>3. Typed /\ SlotsBalance /\ [Next]_vars => Typed' /\ SlotsBalance'
    BY TypedNext, BalanceNext
  <1>4. QED
    BY <1>1, <1>2, <1>3, CapNext, PTL DEF Spec

(* The default cap of half the threads always leaves one of them to other  *)
(* requests, as soon as there are two.                                     *)
THEOREM ThreadAlwaysLeft == Spec => []ThreadLeft
  <1>1. StreamCap => ThreadLeft
    <2> SUFFICES ASSUME StreamCap, ConfiguredStreams = 0, ThreadCount > 1, Admitted = Threads
                 PROVE  FALSE
      BY DEF ThreadLeft
    <2>1. ThreadCount \in Nat
      BY ServerAssumption, FS_CardinalityType DEF ThreadCount
    <2>2. Cardinality(Admitted) = ThreadCount
      BY DEF ThreadCount
    <2>3. MaxStreams < ThreadCount
      BY <2>1 DEF MaxStreams
    <2>4. QED
      BY <2>1, <2>2, <2>3, MaxStreamsType DEF StreamCap
  <1>2. QED
    BY <1>1, StreamsCapped, PTL

(* The instance counts as this module does.                                *)
LEMMA SameCardinality == Slots!Cardinality(Admitted) = Cardinality(Admitted)
  BY DEF Slots!Cardinality, Cardinality

(* The server's streaming implements the abstract slots: each step admits  *)
(* one stream into a free slot, ends one, or leaves them as they are.      *)
THEOREM SlotsImplemented == Spec => ImplementsSlots
  <1>1. Init => Slots!Init
    BY DEF Init, Admitted, Slots!Init
  <1>2. Typed /\ SlotsBalance /\ [Next]_vars => [Slots!Next]_Admitted
    <2> SUFFICES ASSUME Typed, SlotsBalance, [Next]_vars, Admitted' # Admitted
                 PROVE  Slots!Next
      OBVIOUS
    <2>1. ASSUME NEW t \in Threads, Claimed(t)
          PROVE  Slots!Next
      <3>1. /\ t \notin Admitted /\ Admitted' = Admitted \cup {t}
            /\ Cardinality(Admitted) < MaxStreams
        BY <2>1, ClaimFindsRoom
      <3>2. Slots!Admit(t)
        BY <3>1, SameCardinality DEF Slots!Admit
      <3>3. QED
        BY <3>2 DEF Slots!Next
    <2>2. ASSUME NEW t \in Threads, Released(t)
          PROVE  Slots!Next
      BY <2>2 DEF Released, Slots!Next, Slots!Leave
    <2>3. QED
      BY <2>1, <2>2, StepCounter DEF Untouched, Unclaimed
  <1>3. Init => Typed /\ SlotsBalance
    BY TypedInit, BalanceInit
  <1>4. Typed /\ SlotsBalance /\ [Next]_vars => Typed' /\ SlotsBalance'
    BY TypedNext, BalanceNext
  <1>5. QED
    BY <1>1, <1>2, <1>3, <1>4, PTL DEF Spec, ImplementsSlots, Slots!Spec

-----------------------------------------------------------------------------
(* Who owns a connection. *)
Queued == {queue[i]: i \in 1 .. Len(queue)}

(* The client has got its answer, or is no longer there to get it.         *)
Answered(c) == heads[c] # <<>> \/ gone[c]
Untold(c) == holder[c] = "task" /\ heads[c] = <<>>
Told(c) == holder[c] = "closed" /\ Answered(c)

(* A connection is in at most one place.                                   *)
Apart ==
    /\ \A i, j \in 1 .. Len(queue): queue[i] = queue[j] => i = j
    /\ \A t \in Threads: conn[t] \notin Queued
    /\ \A t, u \in Threads: conn[t] = conn[u] /\ conn[t] # None => t = u

(* What its holder says of where a connection is.                          *)
Placed ==
    \A c \in Conns:
        /\ holder[c] = "client" => c \notin Queued /\ heads[c] = <<>> /\ \A t \in Threads: conn[t] # c
        /\ c \in Queued => Untold(c)
        /\ holder[c] \in {"task", "sse"} => c \in Queued \/ \E t \in Threads: conn[t] = c

(* What a thread has done for its connection.                              *)
Handled(t) ==
    /\ pc[t] \in {"reading", "chain", "claim", "unclaim", "upgrade"} => Untold(conn[t])
    /\ pc[t] = "streaming" => holder[conn[t]] \in {"sse", "closed"} /\ Answered(conn[t])
    /\ pc[t] = "release" => Told(conn[t]) /\ reply[t] \in {"ok", "error"}
    /\ pc[t] = "unwind" => \/ Untold(conn[t]) /\ reply[t] = "refused"
                           \/ Told(conn[t]) /\ reply[t] \in {"ok", "error"}
    /\ pc[t] = "reply" => Untold(conn[t]) \/ Told(conn[t])
    /\ pc[t] = "finish" => holder[conn[t]] \in {"task", "closed"} /\ Answered(conn[t])

(* The pool is the first member to go, and waits for the tasks.            *)
PoolFirst ==
    members < Len(Members) =>
        life = "destroying" /\ queue = <<>> /\ \A t \in Threads: pc[t] = "idle"

Own ==
    /\ Apart /\ Placed /\ PoolFirst
    /\ \A t \in Threads: Handled(t)
    /\ OneHead /\ AnsweredBeforeClosed

-----------------------------------------------------------------------------
LEMMA OwnInit == Init => Own
  BY ServerAssumption DEF Init, Own, Apart, Placed, PoolFirst, Handled, Queued, OneHead,
     AnsweredBeforeClosed, Members

-----------------------------------------------------------------------------
(* The queue: detach() appends, a thread or the destructor takes the head. *)
LEMMA Detached ==
  ASSUME Typed, NEW c \in Conns, queue' = Append(queue, c)
  PROVE  /\ Queued' = Queued \cup {c}
         /\ Apart /\ c \notin Queued => \A i, j \in 1 .. Len(queue'): queue'[i] = queue'[j] => i = j
  <1> USE DEF Typed, TaskTypeOK
  <1>1. /\ Len(queue') = Len(queue) + 1 /\ Len(queue) \in Nat
        /\ \A i \in 1 .. Len(queue): queue'[i] = queue[i]
        /\ queue'[Len(queue) + 1] = c
    OBVIOUS
  <1>2. Queued' = Queued \cup {c}
    BY <1>1 DEF Queued
  <1>3. QED
    BY <1>1, <1>2 DEF Queued, Apart

LEMMA Taken ==
  ASSUME Typed, Apart, queue # <<>>, queue' = Tail(queue)
  PROVE  /\ Head(queue) \in Conns
         /\ Queued' = Queued \ {Head(queue)}
         /\ Head(queue) \in Queued
         /\ \A i, j \in 1 .. Len(queue'): queue'[i] = queue'[j] => i = j
  <1> USE DEF Typed, TaskTypeOK
  <1>1. /\ Len(queue') = Len(queue) - 1 /\ Len(queue) \in Nat /\ Len(queue) > 0
        /\ \A i \in 1 .. Len(queue'): queue'[i] = queue[i + 1]
        /\ Head(queue) = queue[1]
    OBVIOUS
  <1> HIDE DEF Typed, TaskTypeOK
  <1>2. \A i \in 1 .. Len(queue'): i + 1 \in 1 .. Len(queue) /\ i + 1 # 1
    BY <1>1
  <1>3. \A i \in 1 .. Len(queue) \ {1}: i - 1 \in 1 .. Len(queue') /\ queue'[i - 1] = queue[i]
    BY <1>1
  <1>4. 1 \in 1 .. Len(queue)
    BY <1>1
  <1>5. \A i \in 1 .. Len(queue'): queue'[i] \in Queued /\ queue'[i] # queue[1]
    BY <1>1, <1>2, <1>4 DEF Queued, Apart
  <1>6. ASSUME NEW x \in Queued, x # queue[1] PROVE x \in Queued'
    <2>1. PICK i \in 1 .. Len(queue): x = queue[i]
      BY DEF Queued
    <2>2. i - 1 \in 1 .. Len(queue') /\ queue'[i - 1] = x
      BY <1>3, <1>6, <2>1
    <2>3. QED
      BY <2>2 DEF Queued
  <1>7. Queued' = Queued \ {queue[1]}
    <2>1. \A x \in Queued': x \in Queued \ {queue[1]}
      BY <1>5 DEF Queued
    <2>2. QED
      BY <1>6, <2>1
  <1>8. \A i, j \in 1 .. Len(queue'): queue'[i] = queue'[j] => i = j
    BY <1>1, <1>2 DEF Apart
  <1>9. queue[1] \in Conns /\ queue[1] \in Queued
    BY <1>1, <1>4 DEF Queued, Typed, TaskTypeOK
  <1>10. QED
    BY <1>1, <1>7, <1>8, <1>9

-----------------------------------------------------------------------------
(* A step of one thread that keeps its connection.                         *)
LEMMA OneMoves ==
  ASSUME Typed, Own, NEW t \in Threads, pc[t] # "idle", pc'[t] # "idle",
         UNCHANGED <<clientVars, queue, conn, lifeVars>>,
         \A u \in Threads \ {t}: pc'[u] = pc[u] /\ reply'[u] = reply[u],
         \A d \in Conns \ {conn[t]}: holder'[d] = holder[d] /\ heads'[d] = heads[d],
         holder'[conn[t]] \in {"task", "sse", "closed"}, Len(heads'[conn[t]]) <= 1,
         Handled(t)', holder'[conn[t]] = "closed" => Answered(conn[t])'
  PROVE  Own'
  <1>1. conn[t] \in Conns /\ conn[t] # None /\ conn[t] \notin Queued
    BY ServerAssumption DEF Typed, TaskTypeOK, Own, Apart
  <1>2. UNCHANGED <<request, gone, queue, conn, life, members>> /\ Queued' = Queued
    BY DEF clientVars, lifeVars, Queued
  <1>3. Apart'
    BY <1>2 DEF Own, Apart
  <1>4. Placed'
    BY <1>1, <1>2 DEF Own, Placed, Untold
  <1>5. PoolFirst'
    BY <1>2 DEF Own, PoolFirst
  <1>6. ASSUME NEW u \in Threads PROVE Handled(u)'
    <2>1. CASE u = t
      BY <2>1
    <2>2. CASE u # t
      <3>1. CASE pc[u] = "idle"
        BY <2>2, <3>1 DEF Handled
      <3>2. CASE pc[u] # "idle"
        <4>1. conn[u] \in Conns \ {conn[t]}
          BY <1>1, <2>2, <3>2, ServerAssumption DEF Typed, TaskTypeOK, Own, Apart
        <4>2. /\ holder'[conn[u]] = holder[conn[u]] /\ heads'[conn[u]] = heads[conn[u]]
              /\ gone'[conn[u]] = gone[conn[u]] /\ conn'[u] = conn[u]
              /\ pc'[u] = pc[u] /\ reply'[u] = reply[u]
          BY <1>2, <2>2, <4>1
        <4>3. Handled(u)
          BY DEF Own
        <4>4. QED
          BY <4>2, <4>3 DEF Handled, Untold, Told, Answered
      <3>3. QED
        BY <3>1, <3>2
    <2>3. QED
      BY <2>1, <2>2
  <1>7. OneHead'
    BY <1>1 DEF Own, OneHead
  <1>8. AnsweredBeforeClosed'
    BY <1>1, <1>2 DEF Own, AnsweredBeforeClosed, Answered
  <1>9. QED
    BY <1>3, <1>4, <1>5, <1>6, <1>7, <1>8 DEF Own

LEMMA FirstHead ==
  ASSUME NEW s PROVE Append(<<>>, s) # <<>> /\ Len(Append(<<>>, s)) = 1
  OBVIOUS

(* The thread's own obligation at each of its steps.                       *)
LEMMA OwnThread ==
  ASSUME Typed, Own, NEW t \in Threads,
         \/ ReadRequest(t) \/ ReadEnds(t) \/ Answer(t) \/ MatchStream(t) \/ Claim(t)
         \/ Unclaim(t) \/ Upgrade(t) \/ Release(t) \/ Unwind(t) \/ Reply(t) \/ HandlerStep(t)
  PROVE  Own'
  <1>1. pc[t] # "idle" /\ pc'[t] # "idle" /\ conn[t] \in Conns
    BY DEF ReadRequest, ReadEnds, Answer, MatchStream, Claim, Unclaim, Upgrade, Release, Unwind,
           Reply, HandlerStep, StreamSendFails, StreamClose, StreamEnd, Move, Typed, TaskTypeOK
  <1>2. /\ UNCHANGED <<clientVars, queue, conn, lifeVars>>
        /\ \A u \in Threads \ {t}: pc'[u] = pc[u] /\ reply'[u] = reply[u]
        /\ \A d \in Conns \ {conn[t]}: holder'[d] = holder[d] /\ heads'[d] = heads[d]
    BY DEF ReadRequest, ReadEnds, Answer, MatchStream, Claim, Unclaim, Upgrade, Release, Unwind,
           Reply, HandlerStep, StreamSendFails, StreamClose, StreamEnd, Move, SendPreamble, Typed,
           ConnTypeOK, TaskTypeOK
  <1>3. Handled(t) /\ Len(heads[conn[t]]) <= 1 /\ heads[conn[t]] \in Seq(Statuses)
    BY <1>1 DEF Own, OneHead, Typed, ConnTypeOK
  <1>4. CASE ReadRequest(t) \/ ReadEnds(t) \/ Answer(t) \/ MatchStream(t) \/ Claim(t) \/ Unclaim(t)
    BY <1>1, <1>2, <1>3, <1>4, OneMoves
    DEF ReadRequest, ReadEnds, Answer, MatchStream, Claim, Unclaim, Move, Handled, Untold, Told,
        Answered, Typed, TaskTypeOK, clientVars
  <1>5. CASE Upgrade(t)
    <2>1. Untold(conn[t])
      BY <1>3, <1>5 DEF Upgrade, Move, Handled
    <2>2. PICK sent \in BOOLEAN: SendPreamble(t, conn[t], sent)
      BY <1>5 DEF Upgrade
    <2>3. Len(heads'[conn[t]]) <= 1 /\ (sent => heads'[conn[t]] # <<>>)
      BY <1>1, <2>1, <2>2, FirstHead DEF SendPreamble, Untold, Typed, ConnTypeOK
    <2>4. Answered(conn[t])'
      BY <1>1, <1>2, <2>2, <2>3 DEF SendPreamble, Answered, clientVars
    <2>5. /\ holder'[conn[t]] = "sse" /\ pc'[t] = "streaming" /\ conn'[t] = conn[t]
      BY <1>1, <1>5 DEF Upgrade, Move, Typed, ConnTypeOK, TaskTypeOK
    <2>6. Handled(t)'
      BY <2>4, <2>5 DEF Handled, Answered
    <2>7. QED
      BY <1>1, <1>2, <2>3, <2>5, <2>6, OneMoves
  <1>6. CASE Release(t) \/ Unwind(t)
    BY <1>1, <1>2, <1>3, <1>6, OneMoves
    DEF Release, Unwind, Move, Handled, Untold, Told, Answered, Typed, TaskTypeOK, clientVars
  <1>7. CASE Reply(t)
    <2>1. Untold(conn[t]) \/ Told(conn[t])
      BY <1>3, <1>7 DEF Reply, Move, Handled
    <2>2. /\ pc'[t] = "finish" /\ conn'[t] = conn[t]
          /\ holder' = holder /\ gone' = gone
          /\ heads'[conn[t]] = IF holder[conn[t]] = "task" /\ ~gone[conn[t]]
                               THEN Append(heads[conn[t]], reply[t]) ELSE heads[conn[t]]
      BY <1>1, <1>7 DEF Reply, Move, Typed, ConnTypeOK, TaskTypeOK, clientVars
    <2>3. Len(heads'[conn[t]]) <= 1 /\ Answered(conn[t])'
      <3>1. CASE Untold(conn[t]) /\ ~gone[conn[t]]
        BY <2>2, <3>1, FirstHead DEF Untold, Answered
      <3>2. CASE Untold(conn[t]) /\ gone[conn[t]]
        BY <1>3, <2>2, <3>2 DEF Untold, Answered
      <3>3. CASE Told(conn[t])
        BY <1>3, <2>2, <3>3 DEF Told, Answered
      <3>4. QED
        BY <2>1, <3>1, <3>2, <3>3
    <2>4. holder'[conn[t]] \in {"task", "closed"}
      BY <2>1, <2>2 DEF Untold, Told
    <2>5. Handled(t)'
      BY <2>2, <2>3, <2>4 DEF Handled
    <2>6. QED
      BY <1>1, <1>2, <2>3, <2>4, <2>5, OneMoves
  <1>8. CASE HandlerStep(t)
    <2>1. /\ pc[t] = "streaming" /\ heads' = heads /\ gone' = gone /\ conn' = conn
          /\ holder'[conn[t]] \in {holder[conn[t]], "closed"}
      BY <1>1, <1>8
      DEF HandlerStep, StreamSendFails, StreamClose, StreamEnd, Move, Typed, ConnTypeOK, clientVars
    <2>2. holder[conn[t]] \in {"sse", "closed"} /\ Answered(conn[t])
      BY <1>3, <2>1 DEF Handled
    <2>3. Answered(conn[t])' /\ holder'[conn[t]] \in {"sse", "closed"} /\ Len(heads'[conn[t]]) <= 1
      BY <1>3, <2>1, <2>2 DEF Answered
    <2>4. \/ pc'[t] = "streaming"
          \/ pc'[t] = "release" /\ reply'[t] \in {"ok", "error"} /\ holder'[conn[t]] = "closed"
      BY <1>1, <1>8, <2>1
      DEF HandlerStep, StreamSendFails, StreamClose, StreamEnd, Move, Typed, ConnTypeOK, TaskTypeOK
    <2>5. Handled(t)'
      BY <2>1, <2>3, <2>4 DEF Handled, Told, Answered
    <2>6. QED
      BY <1>1, <1>2, <2>3, <2>5, OneMoves
  <1>9. QED
    BY <1>4, <1>5, <1>6, <1>7, <1>8

LEMMA OwnDequeue ==
  ASSUME Typed, Own, NEW t \in Threads, Dequeue(t)
  PROVE  Own'
  <1> DEFINE c == Head(queue)
  <1>1. /\ queue # <<>> /\ queue' = Tail(queue) /\ pc[t] = "idle" /\ conn[t] = None
        /\ pc' = [pc EXCEPT ![t] = "reading"] /\ conn' = [conn EXCEPT ![t] = c]
        /\ UNCHANGED <<request, gone, holder, heads, reply, life, members>>
    BY DEF Dequeue, clientVars, lifeVars, Typed, TaskTypeOK
  <1>2. /\ c \in Conns /\ c \in Queued /\ Queued' = Queued \ {c}
        /\ \A i, j \in 1 .. Len(queue'): queue'[i] = queue'[j] => i = j
    BY <1>1, Taken DEF Own
  <1>3. Untold(c) /\ \A u \in Threads: conn[u] # c
    BY <1>2 DEF Own, Placed, Apart
  <1> HIDE DEF c
  <1>4. conn'[t] = c /\ \A u \in Threads \ {t}: conn'[u] = conn[u] /\ pc'[u] = pc[u]
    BY <1>1 DEF Typed, TaskTypeOK
  <1>5. Apart'
    BY <1>2, <1>3, <1>4 DEF Own, Apart
  <1>6. Placed'
    <2> SUFFICES ASSUME NEW d \in Conns
                 PROVE  /\ holder[d] = "client" => d \notin Queued' /\ heads[d] = <<>> /\ \A u \in Threads: conn'[u] # d
                        /\ d \in Queued' => Untold(d)
                        /\ holder[d] \in {"task", "sse"} => d \in Queued' \/ \E u \in Threads: conn'[u] = d
      BY <1>1 DEF Placed, Untold
    <2>1. CASE d = c
      BY <1>2, <1>3, <1>4, <2>1 DEF Untold
    <2>2. CASE d # c
      <3>1. conn[t] # d
        BY <1>1, ServerAssumption
      <3>2. QED
        BY <1>2, <1>4, <2>2, <3>1 DEF Own, Placed
    <2>3. QED
      BY <2>1, <2>2
  <1>7. PoolFirst'
    BY <1>1 DEF Own, PoolFirst
  <1>8. \A u \in Threads: Handled(u)'
    <2>1. Handled(t)'
      BY <1>1, <1>3, <1>4 DEF Handled, Untold, Typed, TaskTypeOK
    <2>2. ASSUME NEW u \in Threads \ {t} PROVE Handled(u)'
      BY <1>1, <1>4 DEF Own, Handled, Untold, Told, Answered
    <2>3. QED
      BY <2>1, <2>2
  <1>9. OneHead' /\ AnsweredBeforeClosed'
    BY <1>1 DEF Own, OneHead, AnsweredBeforeClosed
  <1>10. QED
    BY <1>5, <1>6, <1>7, <1>8, <1>9 DEF Own

LEMMA OwnFinish ==
  ASSUME Typed, Own, NEW t \in Threads, Finish(t)
  PROVE  Own'
  <1> DEFINE c == conn[t]
  <1>1. /\ pc[t] = "finish" /\ c \in Conns /\ c # None
        /\ pc' = [pc EXCEPT ![t] = "idle"] /\ conn' = [conn EXCEPT ![t] = None]
        /\ reply' = [reply EXCEPT ![t] = "ok"]
        /\ holder' = [holder EXCEPT ![c] = IF @ = "task" THEN "closed" ELSE @]
        /\ UNCHANGED <<request, gone, heads, queue, life, members>>
    BY ServerAssumption DEF Finish, Move, clientVars, lifeVars, Typed, TaskTypeOK
  <1>2. Queued' = Queued /\ c \notin Queued /\ \A u \in Threads \ {t}: conn[u] # c
    BY <1>1 DEF Own, Apart, Queued
  <1>3. holder[c] \in {"task", "closed"} /\ Answered(c)
    BY <1>1 DEF Own, Handled
  <1> HIDE DEF c
  <1>4. conn'[t] = None /\ pc'[t] = "idle"
        /\ \A u \in Threads \ {t}: conn'[u] = conn[u] /\ pc'[u] = pc[u] /\ reply'[u] = reply[u]
    BY <1>1 DEF Typed, TaskTypeOK
  <1>5. holder'[c] = "closed" /\ \A d \in Conns \ {c}: holder'[d] = holder[d]
    BY <1>1, <1>3 DEF Typed, ConnTypeOK
  <1>6. Apart'
    BY <1>1, <1>2, <1>4, ServerAssumption DEF Own, Apart, Queued, Typed, TaskTypeOK
  <1>7. Placed'
    <2> SUFFICES ASSUME NEW d \in Conns
                 PROVE  /\ holder'[d] = "client" => d \notin Queued /\ heads[d] = <<>> /\ \A u \in Threads: conn'[u] # d
                        /\ d \in Queued => Untold(d)'
                        /\ holder'[d] \in {"task", "sse"} => d \in Queued \/ \E u \in Threads: conn'[u] = d
      BY <1>1, <1>2 DEF Placed
    <2>1. CASE d = c
      BY <1>2, <1>5, <2>1
    <2>2. CASE d # c
      <3>1. d # None /\ conn[t] # d
        BY <2>2, ServerAssumption DEF c
      <3>2. QED
        BY <1>1, <1>4, <1>5, <2>2, <3>1 DEF Own, Placed, Untold
    <2>3. QED
      BY <2>1, <2>2
  <1>8. PoolFirst'
    BY <1>1 DEF Own, PoolFirst
  <1>9. \A u \in Threads: Handled(u)'
    <2>1. Handled(t)'
      BY <1>4 DEF Handled
    <2>2. ASSUME NEW u \in Threads \ {t} PROVE Handled(u)'
      <3>1. CASE pc[u] = "idle"
        BY <1>4, <3>1 DEF Handled
      <3>2. CASE pc[u] # "idle"
        <4>1. conn[u] \in Conns \ {c}
          BY <1>2, <3>2 DEF Typed, TaskTypeOK
        <4>2. Handled(u)
          BY DEF Own
        <4>3. holder'[conn[u]] = holder[conn[u]]
          BY <1>5, <4>1
        <4>4. QED
          BY <1>1, <1>4, <4>2, <4>3 DEF Handled, Untold, Told, Answered
      <3>3. QED
        BY <3>1, <3>2
    <2>3. QED
      BY <2>1, <2>2
  <1>10. OneHead'
    BY <1>1 DEF Own, OneHead
  <1>11. AnsweredBeforeClosed'
    BY <1>1, <1>3, <1>5 DEF Own, AnsweredBeforeClosed, Answered
  <1>12. QED
    BY <1>6, <1>7, <1>8, <1>9, <1>10, <1>11 DEF Own

-----------------------------------------------------------------------------
LEMMA OwnClient ==
  ASSUME Typed, Own, NEW c \in Conns, ClientStep(c)
  PROVE  Own'
  <1>1. /\ UNCHANGED <<holder, heads, queue, pc, conn, reply, life, members>>
        /\ \A d \in Conns: gone[d] => gone'[d]
        /\ \A d \in Conns: holder[d] = "closed" => request'[d] = request[d] /\ gone'[d] = gone[d]
    BY DEF ClientStep, SendRequest, Hangup, taskVars, lifeVars, Typed, ConnTypeOK
  <1>2. Queued' = Queued
    BY <1>1 DEF Queued
  <1>3. Apart' /\ Placed' /\ PoolFirst' /\ OneHead'
    BY <1>1, <1>2 DEF Own, Apart, Placed, Untold, PoolFirst, OneHead
  <1>4. AnsweredBeforeClosed'
    BY <1>1 DEF Own, AnsweredBeforeClosed
  <1>5. ASSUME NEW t \in Threads PROVE Handled(t)'
    <2>1. pc[t] # "idle" => conn[t] \in Conns
      BY DEF Typed, TaskTypeOK
    <2>2. Handled(t)
      BY DEF Own
    <2>3. pc[t] # "idle" /\ Answered(conn[t]) => Answered(conn[t])'
      BY <1>1, <2>1 DEF Answered
    <2>4. QED
      BY <1>1, <2>2, <2>3 DEF Handled, Untold, Told
  <1>6. QED
    BY <1>3, <1>4, <1>5 DEF Own

LEMMA OwnAccept ==
  ASSUME Typed, Own, NEW c \in Conns, Accept(c)
  PROVE  Own'
  <1>1. /\ holder[c] = "client" /\ life = "running" /\ queue' = Append(queue, c)
        /\ holder' = [holder EXCEPT ![c] = "task"]
        /\ UNCHANGED <<request, gone, heads, pc, conn, reply, life, members>>
    BY DEF Accept, clientVars, taskVars, lifeVars
  <1>2. c \notin Queued /\ heads[c] = <<>> /\ \A t \in Threads: conn[t] # c
    BY <1>1 DEF Own, Placed
  <1>3. /\ Queued' = Queued \cup {c}
        /\ \A i, j \in 1 .. Len(queue'): queue'[i] = queue'[j] => i = j
    BY <1>1, <1>2, Detached DEF Own
  <1>4. holder'[c] = "task" /\ \A d \in Conns \ {c}: holder'[d] = holder[d]
    BY <1>1 DEF Typed, ConnTypeOK
  <1>5. Apart'
    BY <1>1, <1>2, <1>3 DEF Own, Apart
  <1>6. Placed'
    BY <1>1, <1>2, <1>3, <1>4 DEF Own, Placed, Untold
  <1>7. PoolFirst' /\ OneHead'
    BY <1>1 DEF Own, PoolFirst, OneHead
  <1>8. AnsweredBeforeClosed'
    BY <1>1, <1>4 DEF Own, AnsweredBeforeClosed
  <1>9. ASSUME NEW t \in Threads PROVE Handled(t)'
    <2>1. pc[t] # "idle" => conn[t] \in Conns \ {c}
      BY <1>2 DEF Typed, TaskTypeOK
    <2>2. Handled(t)
      BY DEF Own
    <2>3. QED
      BY <1>1, <1>4, <2>1, <2>2 DEF Handled, Untold, Told, Answered
  <1>10. QED
    BY <1>5, <1>6, <1>7, <1>8, <1>9 DEF Own

(* A task the pool drops has had no thread. *)
LEMMA OwnDrop ==
  ASSUME Typed, Own, DropTask
  PROVE  Own'
  <1> DEFINE c == Head(queue)
  <1>1. /\ queue # <<>> /\ queue' = Tail(queue) /\ life = "destroying"
        /\ holder' = [holder EXCEPT ![c] = "closed"]
        /\ UNCHANGED <<request, gone, heads, pc, conn, reply, life, members>>
    BY DEF DropTask, clientVars, taskVars, lifeVars
  <1>2. /\ c \in Conns /\ c \in Queued /\ Queued' = Queued \ {c}
        /\ \A i, j \in 1 .. Len(queue'): queue'[i] = queue'[j] => i = j
    BY <1>1, Taken DEF Own
  <1>3. \A t \in Threads: conn[t] # c
    BY <1>2 DEF Own, Apart
  <1> HIDE DEF c
  <1>4. holder'[c] = "closed" /\ \A d \in Conns \ {c}: holder'[d] = holder[d]
    BY <1>1, <1>2 DEF Typed, ConnTypeOK
  <1>5. Apart'
    BY <1>1, <1>2 DEF Own, Apart
  <1>6. Placed'
    BY <1>1, <1>2, <1>4 DEF Own, Placed, Untold
  <1>7. PoolFirst' /\ OneHead'
    BY <1>1 DEF Own, PoolFirst, OneHead
  <1>8. AnsweredBeforeClosed'
    BY <1>1 DEF AnsweredBeforeClosed
  <1>9. ASSUME NEW t \in Threads PROVE Handled(t)'
    <2>1. pc[t] # "idle" => conn[t] \in Conns \ {c}
      BY <1>3 DEF Typed, TaskTypeOK
    <2>2. Handled(t)
      BY DEF Own
    <2>3. QED
      BY <1>1, <1>4, <2>1, <2>2 DEF Handled, Untold, Told, Answered
  <1>10. QED
    BY <1>5, <1>6, <1>7, <1>8, <1>9 DEF Own

(* Steps that touch no connection.                                         *)
LEMMA OwnLife ==
  ASSUME Typed, Own, Stop \/ Destroy \/ DestroyMember \/ UNCHANGED vars
  PROVE  Own'
  <1>1. /\ UNCHANGED <<request, gone, holder, heads, queue, pc, conn, reply>>
        /\ life = "destroying" => life' = "destroying"
    BY DEF Stop, Destroy, DestroyMember, vars, clientVars, taskVars, lifeVars
  <1>2. Queued' = Queued
    BY <1>1 DEF Queued
  <1>3. Apart' /\ Placed' /\ OneHead' /\ AnsweredBeforeClosed' /\ \A t \in Threads: Handled(t)'
    BY <1>1, <1>2 DEF Own, Apart, Placed, OneHead, AnsweredBeforeClosed, Handled, Untold, Told, Answered
  <1>4. PoolFirst'
    <2>1. CASE DestroyMember /\ members = Len(Members)
      <3>1. Len(Members) = 9 /\ Members[9] = "pool_"
        BY DEF Members
      <3>2. life = "destroying" /\ queue = <<>> /\ \A t \in Threads: pc[t] = "idle"
        BY <2>1, <3>1 DEF DestroyMember
      <3>3. QED
        BY <1>1, <3>2 DEF PoolFirst
    <2>2. CASE ~(DestroyMember /\ members = Len(Members))
      <3>1. members' < Len(Members) => members < Len(Members)
        <4>1. Len(Members) = 9
          BY DEF Members
        <4>2. QED
          BY <2>2, <4>1 DEF Stop, Destroy, DestroyMember, vars, lifeVars, Typed, LifeTypeOK
      <3>2. QED
        BY <1>1, <3>1 DEF Own, PoolFirst
    <2>3. QED
      BY <2>1, <2>2
  <1>5. QED
    BY <1>3, <1>4 DEF Own

LEMMA OwnNext == Typed /\ Own /\ [Next]_vars => Own'
  <1> SUFFICES ASSUME Typed, Own, [Next]_vars PROVE Own'
    OBVIOUS
  <1>1. CASE \E c \in Conns: ClientStep(c) \/ Accept(c)
    BY <1>1, OwnClient, OwnAccept
  <1>2. ASSUME NEW t \in Threads, ThreadStep(t) \/ HandlerStep(t)
        PROVE  Own'
    BY <1>2, OwnThread, OwnDequeue, OwnFinish DEF ThreadStep
  <1>3. CASE Stop \/ Destroy \/ Teardown \/ Destroyed \/ UNCHANGED vars
    BY <1>3, OwnLife, OwnDrop DEF Teardown, Destroyed
  <1>4. QED
    BY <1>1, <1>2, <1>3 DEF Next

LEMMA OwnHolds == Spec => [](Typed /\ Own)
  BY TypedInit, TypedNext, OwnInit, OwnNext, PTL DEF Spec

-----------------------------------------------------------------------------
(* No client is written two response heads, whichever of its handler, a    *)
(* refusal, a middleware and the code for exceptions comes first.          *)
THEOREM ClientsHearOnce == Spec => []OneHead
  <1>1. Own => OneHead
    BY DEF Own
  <1>2. QED
    BY <1>1, OwnHolds, PTL

(* Every client that asked and stayed has its answer when its connection   *)
(* is closed, unless the pool dropped the task.                            *)
THEOREM ClientsAnswered == Spec => []AnsweredBeforeClosed
  <1>1. Own => AnsweredBeforeClosed
    BY DEF Own
  <1>2. QED
    BY <1>1, OwnHolds, PTL

(* Every open socket has one owner.                                        *)
LEMMA OwnerUnique == Typed /\ Own => OneOwner
  <1> SUFFICES ASSUME Typed, Own, NEW c \in Conns, holder[c] \in {"task", "sse"}
               PROVE  Cardinality({i \in DOMAIN queue: queue[i] = c})
                        + Cardinality({t \in Threads: conn[t] = c}) = 1
    BY DEF OneOwner
  <1>1. DOMAIN queue = 1 .. Len(queue) /\ c # None
    BY ServerAssumption DEF Typed, TaskTypeOK
  <1>2. CASE c \in Queued
    <2>1. PICK i \in 1 .. Len(queue): queue[i] = c
      BY <1>2 DEF Queued
    <2>2. {j \in DOMAIN queue: queue[j] = c} = {i}
      BY <1>1, <2>1 DEF Own, Apart
    <2>3. {t \in Threads: conn[t] = c} = {}
      BY <1>2 DEF Own, Apart
    <2>4. Cardinality({i}) = 1 /\ Cardinality({}) = 0
      BY FS_Singleton, FS_EmptySet
    <2>5. Cardinality({j \in DOMAIN queue: queue[j] = c}) = 1
      BY <2>2, <2>4, Zenon
    <2>6. Cardinality({t \in Threads: conn[t] = c}) = 0
      BY <2>3, <2>4, Zenon
    <2>7. QED
      BY <2>5, <2>6
  <1>3. CASE c \notin Queued
    <2>1. PICK t \in Threads: conn[t] = c
      BY <1>3 DEF Own, Placed
    <2>2. {u \in Threads: conn[u] = c} = {t}
      BY <1>1, <2>1 DEF Own, Apart
    <2>3. {j \in DOMAIN queue: queue[j] = c} = {}
      BY <1>1, <1>3 DEF Queued
    <2>4. Cardinality({t}) = 1 /\ Cardinality({}) = 0
      BY FS_Singleton, FS_EmptySet
    <2>5. QED
      BY <2>2, <2>3, <2>4
  <1>4. QED
    BY <1>2, <1>3

(* Every socket the server holds open belongs to one queued task or to one *)
(* busy thread: no early return or exception leaks one, none is shared.    *)
THEOREM SocketsOwned == Spec => []OneOwner
  BY OwnHolds, OwnerUnique, PTL

(* No task, queued or running, outlives a member it reads.                 *)
LEMMA MembersOutlive == Typed /\ Own => TasksHaveMembers
  <1> SUFFICES ASSUME Typed, Own, queue # <<>> \/ (\E t \in Threads: pc[t] # "idle"),
                      NEW m \in NeededByTasks
               PROVE  \E i \in 1 .. members: Members[i] = m
    BY DEF TasksHaveMembers
  <1>1. members = 9
    BY DEF Own, PoolFirst, Typed, LifeTypeOK, Members
  <1>2. \E i \in 1 .. 9: Members[i] = m
    BY DEF NeededByTasks, Members
  <1>3. QED
    BY <1>1, <1>2

(* No task runs, or waits to run, while a member of Server it reads is     *)
(* already destroyed.                                                      *)
THEOREM TasksCovered == Spec => []TasksHaveMembers
  BY OwnHolds, MembersOutlive, PTL

-----------------------------------------------------------------------------
(* The walk through runChain().                                            *)

InStream == {"claim", "unclaim", "upgrade", "streaming", "release"}

(* Where runChain() is, and what it will return, agree with Server's pc.   *)
Way(t) ==
    LET r == run[t] IN
    /\ r.mode = "out" => r.streamed = FALSE /\ r.status = "ok" /\ pc[t] \notin InStream \cup {"unwind"}
    /\ r.mode = "down" => pc[t] \in InStream \cup {"chain"} /\ r.streamed = FALSE /\ r.status = "ok"
    /\ r.mode \in {"up", "throw"} => pc[t] \in {"chain", "unwind"}
    /\ pc[t] \in InStream => r.level = Len(chain) + 1
    /\ pc[t] = "chain" => r.streamed = FALSE /\ r.status \in {"ok", "error"}
    /\ pc[t] = "unwind" /\ r.mode = "up" =>
            \/ r.streamed = TRUE /\ reply[t] = "ok"
            \/ r.streamed = FALSE /\ r.status = "error"
            \/ r.streamed = FALSE /\ r.status = "refused" /\ reply[t] = "refused"

ChainTyped ==
    /\ chain \in Chains
    /\ run \in [Threads -> Runs]
    /\ \A t \in Threads: run[t].level <= Len(chain) + 1 /\ (run[t].mode = "out" <=> run[t].level = 0)
    /\ parsed \in [Conns -> BOOLEAN]
    /\ decorated \in [Conns -> BOOLEAN]
    /\ log \in [Conns -> Seq(Statuses)]

Walk == ChainTyped /\ \A t \in Threads: Way(t)

LEMMA ChainLength == chain \in Chains => Len(chain) \in Nat /\ \A k \in 1 .. Len(chain): chain[k] \in Middlewares
  BY ChainAssumption

LEMMA WalkInit == ChainInit => Walk
  BY DEF ChainInit, Init, Walk, ChainTyped, Way, Outside, Runs, InStream, Statuses

LEMMA FrameFields ==
  ASSUME Walk, NEW t \in Threads
  PROVE  /\ run \in [Threads -> Runs] /\ run[t] \in Runs /\ run[t].level \in Nat
         /\ run[t].mode \in {"out", "down", "up", "throw"} /\ run[t].streamed \in BOOLEAN
         /\ run[t].status \in Statuses
         /\ run[t].level <= Len(chain) + 1 /\ (run[t].mode = "out" <=> run[t].level = 0)
         /\ Way(t) /\ Len(chain) \in Nat
  BY ChainLength DEF Walk, ChainTyped, Runs

(* A step of one thread that changes its own frame only.                   *)
LEMMA FrameMoves ==
  ASSUME Typed, Walk, NEW t \in Threads, chain' = chain,
         run' \in [Threads -> Runs], \A u \in Threads \ {t}: run'[u] = run[u],
         \A u \in Threads \ {t}: pc'[u] = pc[u] /\ reply'[u] = reply[u],
         run'[t].level <= Len(chain) + 1, run'[t].mode = "out" <=> run'[t].level = 0, Way(t)',
         parsed' \in [Conns -> BOOLEAN], decorated' \in [Conns -> BOOLEAN],
         log' \in [Conns -> Seq(Statuses)]
  PROVE  Walk'
  <1>1. ChainTyped'
    BY DEF Walk, ChainTyped
  <1>2. ASSUME NEW u \in Threads \ {t} PROVE Way(u)'
    BY DEF Walk, Way
  <1>3. QED
    BY <1>1, <1>2 DEF Walk

-----------------------------------------------------------------------------
(* What each action makes of the thread's frame.                           *)
NewFrame(t, level, mode, streamed, status, cors) ==
    /\ run' \in [Threads -> Runs] /\ \A u \in Threads \ {t}: run'[u] = run[u]
    /\ run'[t].level = level /\ run'[t].mode = mode /\ run'[t].streamed = streamed
    /\ run'[t].status = status /\ run'[t].cors = cors

LEMMA FrameSet ==
  ASSUME Walk, NEW t \in Threads, NEW r \in Runs, run' = [run EXCEPT ![t] = r]
  PROVE  NewFrame(t, r.level, r.mode, r.streamed, r.status, r.cors)
  BY FrameFields DEF NewFrame

(* The actions that leave all of Server's variables alone. *)
LEMMA DownFrames ==
  ASSUME Walk, NEW t \in Threads
  PROVE  LET r == run[t] IN
         /\ Parse(t) => NewFrame(t, 1, "down", FALSE, "ok", FALSE)
         /\ CallNext(t) => NewFrame(t, r.level + 1, "down", r.streamed, r.status, r.cors)
         /\ CorsNext(t) => \/ NewFrame(t, r.level, "up", r.streamed, r.status, TRUE)
                           \/ NewFrame(t, r.level + 1, "down", r.streamed, r.status, TRUE)
         /\ WithoutNext(t) \/ Dispatch(t) =>
                \E mode \in {"up", "throw"}: NewFrame(t, r.level, mode, r.streamed, r.status, r.cors)
  <1>1. run[t] \in Runs /\ run[t].level \in Nat
    BY FrameFields
  <1>2. ASSUME Parse(t) PROVE NewFrame(t, 1, "down", FALSE, "ok", FALSE)
    <2>1. PICK o \in BOOLEAN:
            run' = [run EXCEPT ![t] = [Outside EXCEPT !.level = 1, !.mode = "down", !.options = o]]
      BY <1>2 DEF Parse
    <2> DEFINE q == [Outside EXCEPT !.level = 1, !.mode = "down", !.options = o]
    <2>2. /\ q \in Runs /\ q.level = 1 /\ q.mode = "down" /\ ~q.streamed
          /\ q.status = "ok" /\ q.cors = FALSE /\ q.streamed = FALSE
      BY DEF Outside, Runs, Statuses
    <2> HIDE DEF q
    <2>3. run' = [run EXCEPT ![t] = q]
      BY <2>1 DEF q
    <2>4. QED
      BY <2>2, <2>3, FrameSet
  <1>3. ASSUME CallNext(t)
        PROVE  NewFrame(t, run[t].level + 1, "down", run[t].streamed, run[t].status, run[t].cors)
    <2> DEFINE q == [run[t] EXCEPT !.level = @ + 1]
    <2>1. /\ q \in Runs /\ q.level = run[t].level + 1 /\ q.mode = run[t].mode
          /\ q.streamed = run[t].streamed /\ q.status = run[t].status /\ q.cors = run[t].cors
      BY <1>1 DEF Runs
    <2> HIDE DEF q
    <2>2. run' = [run EXCEPT ![t] = q] /\ run[t].mode = "down"
      BY <1>3 DEF CallNext, Only, Entering, q
    <2>3. QED
      BY <2>1, <2>2, FrameSet
  <1>4. ASSUME CorsNext(t)
        PROVE  \/ NewFrame(t, run[t].level, "up", run[t].streamed, run[t].status, TRUE)
               \/ NewFrame(t, run[t].level + 1, "down", run[t].streamed, run[t].status, TRUE)
    <2> DEFINE q == [run[t] EXCEPT !.cors = TRUE, !.mode = "up"]
               s == [run[t] EXCEPT !.cors = TRUE, !.level = @ + 1]
    <2>1. /\ q \in Runs /\ q.level = run[t].level /\ q.mode = "up"
          /\ q.streamed = run[t].streamed /\ q.status = run[t].status /\ q.cors = TRUE
      BY <1>1 DEF Runs
    <2>2. /\ s \in Runs /\ s.level = run[t].level + 1 /\ s.mode = run[t].mode
          /\ s.streamed = run[t].streamed /\ s.status = run[t].status /\ s.cors = TRUE
      <3>1. run[t].level + 1 \in Nat
        BY <1>1
      <3>2. QED
        BY <1>1, <3>1 DEF Runs
    <2> HIDE DEF q, s
    <2>3. (run' = [run EXCEPT ![t] = q] \/ run' = [run EXCEPT ![t] = s]) /\ run[t].mode = "down"
      BY <1>4 DEF CorsNext, Only, Entering, q, s
    <2>4. QED
      BY <2>1, <2>2, <2>3, FrameSet
  <1>5. ASSUME WithoutNext(t) \/ Dispatch(t)
        PROVE  \E mode \in {"up", "throw"}:
                 NewFrame(t, run[t].level, mode, run[t].streamed, run[t].status, run[t].cors)
    <2>1. PICK mode \in {"up", "throw"}: run' = [run EXCEPT ![t] = [run[t] EXCEPT !.mode = mode]]
      BY <1>5 DEF WithoutNext, Dispatch, Only
    <2> DEFINE q == [run[t] EXCEPT !.mode = mode]
    <2>2. /\ q \in Runs /\ q.level = run[t].level /\ q.mode = mode
          /\ q.streamed = run[t].streamed /\ q.status = run[t].status /\ q.cors = run[t].cors
      BY <1>1 DEF Runs
    <2> HIDE DEF q
    <2>3. run' = [run EXCEPT ![t] = q]
      BY <2>1 DEF q
    <2>4. QED
      BY <2>2, <2>3, FrameSet
  <1>6. QED
    BY <1>2, <1>3, <1>4, <1>5

(* When they may be taken. *)
LEMMA DownGuards ==
  ASSUME NEW t
  PROVE  LET r == run[t] IN
         /\ Parse(t) => pc[t] = "chain" /\ r.mode = "out"
         /\ CallNext(t) => /\ pc[t] = "chain" /\ r.mode = "down" /\ r.level <= Len(chain)
                           /\ chain[r.level] \in {"logger", "recovery", "user"}
         /\ CorsNext(t) => /\ pc[t] = "chain" /\ r.mode = "down" /\ r.level <= Len(chain)
                           /\ chain[r.level] = "cors"
         /\ WithoutNext(t) => /\ pc[t] = "chain" /\ r.mode = "down" /\ r.level <= Len(chain)
                              /\ chain[r.level] = "user"
         /\ Dispatch(t) => pc[t] = "chain" /\ r.mode = "down" /\ r.level = Len(chain) + 1
  BY DEF Parse, CallNext, CorsNext, WithoutNext, Dispatch, Entering, Innermost

LEMMA UpGuards ==
  ASSUME NEW t
  PROVE  LET r == run[t] IN
         /\ BackUp(t) => pc[t] \in {"chain", "unwind"} /\ r.mode = "up" /\ r.level > 1
         /\ ThrowAfterNext(t) => /\ pc[t] \in {"chain", "unwind"} /\ r.mode = "up" /\ r.level > 1
                                 /\ chain[r.level - 1] = "user"
         /\ Catch(t) => /\ pc[t] \in {"chain", "unwind"} /\ r.mode = "throw" /\ r.level > 1
                        /\ chain[r.level - 1] = "recovery"
         /\ PassThrough(t) => /\ pc[t] \in {"chain", "unwind"} /\ r.mode = "throw" /\ r.level > 1
                              /\ chain[r.level - 1] # "recovery"
  BY DEF BackUp, ThrowAfterNext, Catch, PassThrough, Back

LEMMA UpFrames ==
  ASSUME Walk, NEW t \in Threads
  PROVE  LET r == run[t] IN
         /\ BackUp(t) => NewFrame(t, r.level - 1, "up", r.streamed, r.status, r.cors)
         /\ ThrowAfterNext(t) => NewFrame(t, r.level - 1, "throw", r.streamed, r.status, r.cors)
         /\ Catch(t) => NewFrame(t, r.level - 1, "up", FALSE, "error", r.cors)
         /\ PassThrough(t) => NewFrame(t, r.level - 1, "throw", r.streamed, r.status, r.cors)
  <1>1. run[t] \in Runs /\ run[t].level \in Nat
    BY FrameFields
  <1>2. ASSUME BackUp(t) \/ PassThrough(t)
        PROVE  NewFrame(t, run[t].level - 1, run[t].mode, run[t].streamed, run[t].status, run[t].cors)
    <2> DEFINE q == [run[t] EXCEPT !.level = @ - 1]
    <2>1. run[t].level - 1 \in Nat
      BY <1>1, <1>2 DEF BackUp, PassThrough, Back
    <2>2. /\ q \in Runs /\ q.level = run[t].level - 1 /\ q.mode = run[t].mode
          /\ q.streamed = run[t].streamed /\ q.status = run[t].status /\ q.cors = run[t].cors
      BY <1>1, <2>1 DEF Runs
    <2>3. run' = [run EXCEPT ![t] = q]
      BY <1>1, <1>2 DEF BackUp, PassThrough, Only
    <2> HIDE DEF q
    <2>4. QED
      BY <2>2, <2>3, FrameSet
  <1>3. ASSUME ThrowAfterNext(t)
        PROVE  NewFrame(t, run[t].level - 1, "throw", run[t].streamed, run[t].status, run[t].cors)
    <2> DEFINE q == [run[t] EXCEPT !.level = @ - 1, !.mode = "throw"]
    <2>1. run[t].level - 1 \in Nat
      BY <1>1, <1>3 DEF ThrowAfterNext, Back
    <2>2. /\ q \in Runs /\ q.level = run[t].level - 1 /\ q.mode = "throw"
          /\ q.streamed = run[t].streamed /\ q.status = run[t].status /\ q.cors = run[t].cors
      BY <1>1, <2>1 DEF Runs
    <2>3. run' = [run EXCEPT ![t] = q]
      BY <1>3 DEF ThrowAfterNext, Only
    <2> HIDE DEF q
    <2>4. QED
      BY <2>2, <2>3, FrameSet
  <1>4. ASSUME Catch(t)
        PROVE  NewFrame(t, run[t].level - 1, "up", FALSE, "error", run[t].cors)
    <2> DEFINE q == [run[t] EXCEPT !.level = @ - 1, !.mode = "up", !.streamed = FALSE, !.status = "error"]
    <2>1. run[t].level - 1 \in Nat
      BY <1>1, <1>4 DEF Catch, Back
    <2>2. /\ q \in Runs /\ q.level = run[t].level - 1 /\ q.mode = "up"
          /\ q.streamed = FALSE /\ q.status = "error" /\ q.cors = run[t].cors
      BY <1>1, <2>1 DEF Runs, Statuses
    <2>3. run' = [run EXCEPT ![t] = q]
      BY <1>4 DEF Catch, Only
    <2> HIDE DEF q
    <2>4. QED
      BY <2>2, <2>3, FrameSet
  <1>5. QED
    BY <1>2, <1>3, <1>4 DEF BackUp, PassThrough, Back

-----------------------------------------------------------------------------
(* Walk is kept where Server's variables are left alone.                   *)
LEMMA WalkFrames ==
  ASSUME Typed, Walk, NEW t \in Threads,
         \/ Parse(t) \/ CallNext(t) \/ CorsNext(t) \/ WithoutNext(t) \/ Dispatch(t)
         \/ BackUp(t) \/ ThrowAfterNext(t) \/ Catch(t) \/ PassThrough(t)
  PROVE  Walk' /\ UNCHANGED vars
  <1>1. UNCHANGED vars /\ chain' = chain /\ decorated' = decorated
    BY DEF Parse, CallNext, CorsNext, WithoutNext, Dispatch, BackUp, ThrowAfterNext, Catch,
           PassThrough, Only, historyVars
  <1>2. pc' = pc /\ reply' = reply /\ conn' = conn
    BY <1>1 DEF vars, taskVars
  <1>3. /\ run[t] \in Runs /\ run[t].level \in Nat /\ run[t].level <= Len(chain) + 1
        /\ (run[t].mode = "out" <=> run[t].level = 0) /\ Way(t) /\ Len(chain) \in Nat
        /\ run[t].status \in Statuses
    BY FrameFields
  <1>4. parsed' \in [Conns -> BOOLEAN] /\ decorated' \in [Conns -> BOOLEAN]
    BY <1>1 DEF Parse, CallNext, CorsNext, WithoutNext, Dispatch, BackUp, ThrowAfterNext, Catch,
           PassThrough, Only, historyVars, Walk, ChainTyped
  <1>5. log' \in [Conns -> Seq(Statuses)]
    <2>1. log \in [Conns -> Seq(Statuses)]
      BY DEF Walk, ChainTyped
    <2>2. CASE BackUp(t) /\ chain[run[t].level - 1] = "logger"
      <3>1. log' = [log EXCEPT ![conn[t]] = Append(log[conn[t]], run[t].status)]
        BY <2>2 DEF BackUp
      <3>2. \A c \in Conns: Append(log[c], run[t].status) \in Seq(Statuses)
        BY <1>3, <2>1
      <3>3. QED
        BY <2>1, <3>1, <3>2
    <2>3. CASE ~(BackUp(t) /\ chain[run[t].level - 1] = "logger")
      BY <2>1, <2>3 DEF Parse, CallNext, CorsNext, WithoutNext, Dispatch, BackUp, ThrowAfterNext,
                        Catch, PassThrough, Only, historyVars
    <2>4. QED
      BY <2>2, <2>3
  <1>6. \/ Parse(t) \/ CallNext(t) \/ CorsNext(t) \/ WithoutNext(t) \/ Dispatch(t)
        => /\ run' \in [Threads -> Runs] /\ \A u \in Threads \ {t}: run'[u] = run[u]
           /\ pc[t] = "chain" /\ run'[t].level \in 1 .. Len(chain) + 1
           /\ run'[t].mode \in {"down", "up", "throw"} /\ run'[t].streamed = FALSE
           /\ run'[t].status = "ok"
    <2>1. CASE Parse(t)
      <3>1. NewFrame(t, 1, "down", FALSE, "ok", FALSE) /\ pc[t] = "chain"
        BY <2>1, DownFrames, DownGuards
      <3>2. QED
        BY <1>3, <3>1 DEF NewFrame
    <2>2. CASE CallNext(t)
      <3>1. /\ NewFrame(t, run[t].level + 1, "down", run[t].streamed, run[t].status, run[t].cors)
            /\ pc[t] = "chain" /\ run[t].mode = "down" /\ run[t].level <= Len(chain)
        BY <2>2, DownFrames, DownGuards
      <3>2. run[t].streamed = FALSE /\ run[t].status = "ok"
        BY <1>3, <3>1 DEF Way
      <3>3. QED
        BY <1>3, <3>1, <3>2 DEF NewFrame
    <2>3. CASE CorsNext(t)
      <3>1. /\ \/ NewFrame(t, run[t].level, "up", run[t].streamed, run[t].status, TRUE)
               \/ NewFrame(t, run[t].level + 1, "down", run[t].streamed, run[t].status, TRUE)
            /\ pc[t] = "chain" /\ run[t].mode = "down" /\ run[t].level <= Len(chain)
        BY <2>3, DownFrames, DownGuards
      <3>2. run[t].streamed = FALSE /\ run[t].status = "ok" /\ run[t].level > 0
        BY <1>3, <3>1 DEF Way
      <3>3. QED
        BY <1>3, <3>1, <3>2 DEF NewFrame
    <2>4. CASE WithoutNext(t) \/ Dispatch(t)
      <3>1. PICK mode \in {"up", "throw"}:
              NewFrame(t, run[t].level, mode, run[t].streamed, run[t].status, run[t].cors)
        BY <2>4, DownFrames
      <3>2. pc[t] = "chain" /\ run[t].mode = "down"
        BY <2>4, DownGuards
      <3>3. run[t].streamed = FALSE /\ run[t].status = "ok" /\ run[t].level > 0
        BY <1>3, <3>2 DEF Way
      <3>4. QED
        BY <1>3, <3>1, <3>2, <3>3 DEF NewFrame
    <2>5. QED
      BY <2>1, <2>2, <2>3, <2>4
  <1>7. BackUp(t) \/ ThrowAfterNext(t) \/ Catch(t) \/ PassThrough(t)
        => /\ run' \in [Threads -> Runs] /\ \A u \in Threads \ {t}: run'[u] = run[u]
           /\ pc[t] \in {"chain", "unwind"} /\ run'[t].level \in 1 .. Len(chain) + 1
           /\ \/ run'[t].mode = "throw" /\ run'[t].streamed = run[t].streamed
                 /\ run'[t].status = run[t].status
              \/ run'[t].mode = "up" /\ run[t].mode = "up" /\ run'[t].streamed = run[t].streamed
                 /\ run'[t].status = run[t].status
              \/ run'[t].mode = "up" /\ run'[t].streamed = FALSE /\ run'[t].status = "error"
    <2>1. BackUp(t) \/ ThrowAfterNext(t) \/ Catch(t) \/ PassThrough(t)
          => pc[t] \in {"chain", "unwind"} /\ run[t].level > 1 /\ run[t].level - 1 \in 1 .. Len(chain) + 1
      BY <1>3, UpGuards
    <2>2. BackUp(t) => run[t].mode = "up"
      BY UpGuards
    <2>3. QED
      BY <2>1, <2>2, UpFrames DEF NewFrame
  <1>8. Way(t)'
    <2>1. CASE \/ Parse(t) \/ CallNext(t) \/ CorsNext(t) \/ WithoutNext(t) \/ Dispatch(t)
      BY <1>2, <1>6, <2>1 DEF Way, InStream
    <2>2. CASE BackUp(t) \/ ThrowAfterNext(t) \/ Catch(t) \/ PassThrough(t)
      BY <1>2, <1>3, <1>7, <2>2 DEF Way, InStream
    <2>3. QED
      BY <2>1, <2>2
  <1>9. /\ run' \in [Threads -> Runs] /\ \A u \in Threads \ {t}: run'[u] = run[u]
        /\ run'[t].level <= Len(chain) + 1 /\ (run'[t].mode = "out" <=> run'[t].level = 0)
    BY <1>3, <1>6, <1>7
  <1>10. QED
    BY <1>1, <1>2, <1>4, <1>5, <1>8, <1>9, FrameMoves

(* What the steps of a stream make of the frame. *)
LEMMA StreamFrames ==
  ASSUME Walk, NEW t \in Threads
  PROVE  LET r == run[t] IN
         /\ ChainUnclaim(t) => NewFrame(t, r.level, "up", r.streamed, "refused", r.cors)
         /\ ChainRelease(t) => \/ reply[t] = "error" /\ NewFrame(t, r.level, "throw", r.streamed, r.status, r.cors)
                               \/ reply[t] # "error" /\ NewFrame(t, r.level, "up", TRUE, r.status, r.cors)
         /\ ChainReply(t) => NewFrame(t, 0, "out", FALSE, "ok", FALSE)
         /\ Leave(t) => NewFrame(t, 0, "out", FALSE, "ok",
                                 IF r.mode = "up" /\ ~r.streamed THEN r.cors ELSE FALSE)
  <1>1. run[t] \in Runs /\ run \in [Threads -> Runs]
    BY FrameFields
  <1>2. ASSUME ChainUnclaim(t)
        PROVE  NewFrame(t, run[t].level, "up", run[t].streamed, "refused", run[t].cors)
    <2> DEFINE q == [run[t] EXCEPT !.mode = "up", !.status = "refused"]
    <2>1. /\ q \in Runs /\ q.level = run[t].level /\ q.mode = "up"
          /\ q.streamed = run[t].streamed /\ q.status = "refused" /\ q.cors = run[t].cors
      BY <1>1 DEF Runs, Statuses
    <2>2. run' = [run EXCEPT ![t] = q]
      BY <1>1, <1>2 DEF ChainUnclaim, Runs
    <2> HIDE DEF q
    <2>3. QED
      BY <2>1, <2>2, FrameSet
  <1>3. ASSUME ChainRelease(t)
        PROVE  \/ /\ reply[t] = "error"
                  /\ NewFrame(t, run[t].level, "throw", run[t].streamed, run[t].status, run[t].cors)
               \/ /\ reply[t] # "error"
                  /\ NewFrame(t, run[t].level, "up", TRUE, run[t].status, run[t].cors)
    <2> DEFINE q == [run[t] EXCEPT !.mode = "throw"]
               s == [run[t] EXCEPT !.mode = "up", !.streamed = TRUE]
    <2>1. /\ q \in Runs /\ q.level = run[t].level /\ q.mode = "throw"
          /\ q.streamed = run[t].streamed /\ q.status = run[t].status /\ q.cors = run[t].cors
      BY <1>1 DEF Runs
    <2>2. /\ s \in Runs /\ s.level = run[t].level /\ s.mode = "up"
          /\ s.streamed = TRUE /\ s.status = run[t].status /\ s.cors = run[t].cors
      BY <1>1 DEF Runs
    <2>3. CASE reply[t] = "error"
      <3>1. run' = [run EXCEPT ![t] = q]
        BY <1>1, <1>3, <2>3 DEF ChainRelease, Runs
      <3> HIDE DEF q
      <3>2. QED
        BY <2>1, <2>3, <3>1, FrameSet
    <2>4. CASE reply[t] # "error"
      <3>1. run' = [run EXCEPT ![t] = s]
        BY <1>1, <1>3, <2>4 DEF ChainRelease, Runs
      <3> HIDE DEF s
      <3>2. QED
        BY <2>2, <2>4, <3>1, FrameSet
    <2>5. QED
      BY <2>3, <2>4
  <1> DEFINE out(c) == [Outside EXCEPT !.cors = c]
  <1>4. /\ Outside \in Runs /\ Outside.level = 0 /\ Outside.mode = "out" /\ Outside.streamed = FALSE
        /\ Outside.status = "ok" /\ Outside.cors = FALSE
    BY DEF Outside, Runs, Statuses
  <1>5. ASSUME ChainReply(t) PROVE NewFrame(t, 0, "out", FALSE, "ok", FALSE)
    <2>1. run' = [run EXCEPT ![t] = Outside]
      BY <1>5 DEF ChainReply
    <2>2. QED
      BY <1>4, <2>1, FrameSet
  <1>6. ASSUME Leave(t)
        PROVE  NewFrame(t, 0, "out", FALSE, "ok",
                        IF run[t].mode = "up" /\ ~run[t].streamed THEN run[t].cors ELSE FALSE)
    <2>1. CASE run[t].mode = "up" /\ ~run[t].streamed
      <3>1. run[t].cors \in BOOLEAN
        BY <1>1 DEF Runs
      <3>2. /\ out(run[t].cors) \in Runs /\ out(run[t].cors).level = 0 /\ out(run[t].cors).mode = "out"
            /\ out(run[t].cors).streamed = FALSE /\ out(run[t].cors).status = "ok"
            /\ out(run[t].cors).cors = run[t].cors
        BY <3>1, <1>4 DEF Runs, Outside
      <3>3. run' = [run EXCEPT ![t] = out(run[t].cors)]
        BY <1>6, <2>1 DEF Leave
      <3> HIDE DEF out
      <3>4. QED
        BY <2>1, <3>2, <3>3, FrameSet
    <2>2. CASE ~(run[t].mode = "up" /\ ~run[t].streamed)
      <3>1. run' = [run EXCEPT ![t] = Outside]
        BY <1>6, <2>2 DEF Leave
      <3>2. QED
        BY <1>4, <2>2, <3>1, FrameSet
    <2>3. QED
      BY <2>1, <2>2
  <1>7. QED
    BY <1>2, <1>3, <1>5, <1>6

-----------------------------------------------------------------------------
(* The other steps of a thread in the chain are steps of Server's.         *)
LEMMA ChainIsServer ==
  ASSUME Typed, Own, Walk, NEW t \in Threads,
         \/ ParseThrows(t) \/ ChainMatchStream(t) \/ ChainUnclaim(t) \/ ChainUpgrade(t)
         \/ ChainRelease(t) \/ Leave(t) \/ ChainReply(t)
  PROVE  /\ \/ Answer(t) \/ MatchStream(t) \/ Unclaim(t) \/ Upgrade(t) \/ Release(t)
            \/ Unwind(t) \/ Reply(t)
         /\ \A u \in Threads \ {t}: pc'[u] = pc[u] /\ reply'[u] = reply[u]
         /\ conn' = conn /\ chain' = chain
  <1>1. \/ Answer(t) \/ MatchStream(t) \/ Unclaim(t) \/ Upgrade(t) \/ Release(t)
        \/ Unwind(t) \/ Reply(t)
    <2>1. CASE ParseThrows(t)
      BY <2>1 DEF ParseThrows, Answer, chainVars
    <2>2. CASE ChainMatchStream(t) \/ ChainUnclaim(t) \/ ChainUpgrade(t) \/ ChainRelease(t) \/ ChainReply(t)
      BY <2>2 DEF ChainMatchStream, ChainUnclaim, ChainUpgrade, ChainRelease, ChainReply
    <2>3. CASE Leave(t)
      <3>1. Way(t) /\ run[t].streamed \in BOOLEAN
        BY FrameFields
      <3>2. UNCHANGED <<clientVars, holder, heads, queue, conn, alive, activeStreams, lifeVars>>
        BY <2>3 DEF Leave
      <3>3. CASE run[t].mode = "up" /\ run[t].streamed
        <4>1. Move(t, pc[t], "finish", "ok")
          BY <2>3, <3>3 DEF Leave
        <4>2. pc[t] = "unwind" /\ reply[t] = "ok"
          BY <3>1, <3>3 DEF Way
        <4>3. QED
          BY <3>2, <4>1, <4>2 DEF Unwind
      <3>4. CASE run[t].mode = "up" /\ ~run[t].streamed
        <4>1. Move(t, pc[t], "reply", run[t].status)
          BY <2>3, <3>4 DEF Leave
        <4>2. \/ pc[t] = "chain" /\ run[t].status \in {"ok", "error"}
              \/ pc[t] = "unwind" /\ run[t].status = "error"
              \/ pc[t] = "unwind" /\ run[t].status = "refused" /\ reply[t] = "refused"
          BY <3>1, <3>4 DEF Way
        <4>3. QED
          BY <3>2, <4>1, <4>2 DEF Unwind, Answer
      <3>5. CASE run[t].mode = "throw"
        <4>1. Move(t, pc[t], "reply", "error") /\ pc[t] \in {"chain", "unwind"}
          BY <2>3, <3>1, <3>5 DEF Leave, Way
        <4>2. QED
          BY <3>2, <4>1 DEF Unwind, Answer
      <3>6. QED
        BY <2>3, <3>3, <3>4, <3>5 DEF Leave
    <2>4. QED
      BY <2>1, <2>2, <2>3
  <1>2. \A u \in Threads \ {t}: pc'[u] = pc[u] /\ reply'[u] = reply[u]
    BY <1>1 DEF Answer, MatchStream, Unclaim, Upgrade, Release, Unwind, Reply, Move, Typed, TaskTypeOK
  <1>3. conn' = conn /\ chain' = chain
    BY DEF ParseThrows, ChainMatchStream, ChainUnclaim, ChainUpgrade, ChainRelease, Leave, ChainReply,
           MatchStream, Unclaim, Upgrade, Release, Reply, chainVars
  <1>4. QED
    BY <1>1, <1>2, <1>3

(* Where these steps take the thread. *)
LEMMA StreamGuards ==
  ASSUME Typed, Own, NEW t \in Threads
  PROVE  /\ ParseThrows(t) => /\ pc[t] = "chain" /\ pc'[t] = "reply" /\ run[t].mode = "out"
                              /\ reply'[t] = "error" /\ run' = run
         /\ ChainMatchStream(t) => /\ pc[t] = "chain" /\ pc'[t] = "claim" /\ run[t].mode = "down"
                                   /\ run[t].level = Len(chain) + 1 /\ run' = run
         /\ ChainUnclaim(t) => pc[t] = "unclaim" /\ pc'[t] = "unwind" /\ reply'[t] = "refused"
         /\ ChainUpgrade(t) => pc[t] = "upgrade" /\ pc'[t] = "streaming" /\ run' = run
         /\ ChainRelease(t) => /\ pc[t] = "release" /\ pc'[t] = "unwind" /\ reply'[t] = reply[t]
                               /\ reply[t] \in {"ok", "error"}
         /\ Leave(t) => run[t].level = 1 /\ pc'[t] \in {"finish", "reply"}
         /\ ChainReply(t) => pc[t] = "reply" /\ pc'[t] = "finish"
  BY DEF ParseThrows, ChainMatchStream, Innermost, MatchStream, ChainUnclaim, Unclaim, ChainUpgrade,
         Upgrade, ChainRelease, Release, Leave, ChainReply, Reply, Move, chainVars, Typed, TaskTypeOK,
         Own, Handled

LEMMA WalkStream ==
  ASSUME Typed, Own, Walk, NEW t \in Threads,
         \/ ParseThrows(t) \/ ChainMatchStream(t) \/ ChainUnclaim(t) \/ ChainUpgrade(t)
         \/ ChainRelease(t) \/ Leave(t) \/ ChainReply(t)
  PROVE  Walk'
  <1>1. /\ \A u \in Threads \ {t}: pc'[u] = pc[u] /\ reply'[u] = reply[u]
        /\ chain' = chain
    BY ChainIsServer
  <1>2. /\ run[t] \in Runs /\ run[t].level \in Nat /\ run[t].level <= Len(chain) + 1
        /\ (run[t].mode = "out" <=> run[t].level = 0) /\ Way(t) /\ Len(chain) \in Nat
        /\ run \in [Threads -> Runs]
    BY FrameFields
  <1>3. /\ parsed' \in [Conns -> BOOLEAN] /\ log' \in [Conns -> Seq(Statuses)]
        /\ decorated' \in [Conns -> BOOLEAN]
    <2>1. parsed' = parsed /\ log' = log
      BY DEF ParseThrows, ChainMatchStream, ChainUnclaim, ChainUpgrade, ChainRelease, Leave,
             ChainReply, chainVars, historyVars
    <2>2. decorated' = decorated \/ decorated' = [decorated EXCEPT ![conn[t]] = run[t].cors]
      BY DEF ParseThrows, ChainMatchStream, ChainUnclaim, ChainUpgrade, ChainRelease, Leave,
             ChainReply, chainVars, historyVars
    <2>3. run[t].cors \in BOOLEAN
      BY <1>2 DEF Runs
    <2>4. QED
      BY <2>1, <2>2, <2>3 DEF Walk, ChainTyped
  <1>4. /\ run' \in [Threads -> Runs] /\ \A u \in Threads \ {t}: run'[u] = run[u]
        /\ run'[t].level <= Len(chain) + 1 /\ (run'[t].mode = "out" <=> run'[t].level = 0)
        /\ Way(t)'
    <2>1. CASE ParseThrows(t)
      <3>1. pc[t] = "chain" /\ pc'[t] = "reply" /\ run[t].mode = "out" /\ run' = run
        BY <2>1, StreamGuards
      <3>2. QED
        BY <1>1, <1>2, <3>1 DEF Way, InStream
    <2>2. CASE ChainMatchStream(t)
      <3>1. /\ pc[t] = "chain" /\ pc'[t] = "claim" /\ run[t].mode = "down" /\ run' = run
            /\ run[t].level = Len(chain) + 1
        BY <2>2, StreamGuards
      <3>2. QED
        BY <1>1, <1>2, <3>1 DEF Way, InStream
    <2>3. CASE ChainUnclaim(t)
      <3>1. /\ NewFrame(t, run[t].level, "up", run[t].streamed, "refused", run[t].cors)
            /\ pc[t] = "unclaim" /\ pc'[t] = "unwind" /\ reply'[t] = "refused"
        BY <2>3, StreamFrames, StreamGuards
      <3>2. run[t].level = Len(chain) + 1 /\ run[t].streamed = FALSE
        BY <1>2, <3>1 DEF Way, InStream, Runs
      <3>3. QED
        BY <1>1, <1>2, <3>1, <3>2 DEF Way, InStream, NewFrame
    <2>4. CASE ChainUpgrade(t)
      <3>1. pc[t] = "upgrade" /\ pc'[t] = "streaming" /\ run' = run
        BY <2>4, StreamGuards
      <3>2. QED
        BY <1>1, <1>2, <3>1 DEF Way, InStream, Runs
    <2>5. CASE ChainRelease(t)
      <3>1. /\ \/ NewFrame(t, run[t].level, "throw", run[t].streamed, run[t].status, run[t].cors)
               \/ /\ reply[t] = "ok"
                  /\ NewFrame(t, run[t].level, "up", TRUE, run[t].status, run[t].cors)
            /\ pc[t] = "release" /\ pc'[t] = "unwind" /\ reply'[t] = reply[t]
        BY <2>5, StreamFrames, StreamGuards
      <3>2. run[t].level = Len(chain) + 1
        BY <1>2, <3>1 DEF Way, InStream
      <3>3. QED
        BY <1>1, <1>2, <3>1, <3>2 DEF Way, InStream, NewFrame
    <2>6. CASE Leave(t) \/ ChainReply(t)
      <3>1. PICK c: NewFrame(t, 0, "out", FALSE, "ok", c)
        BY <2>6, StreamFrames
      <3>2. pc'[t] \in {"finish", "reply"}
        BY <2>6, StreamGuards
      <3>3. QED
        BY <1>2, <3>1, <3>2 DEF Way, InStream, NewFrame
    <2>7. QED
      BY <2>1, <2>2, <2>3, <2>4, <2>5, <2>6
  <1>5. QED
    BY <1>1, <1>3, <1>4, FrameMoves

(* Where the chain has no part, a thread in it stays there.                *)
LEMMA WalkOther ==
  ASSUME Typed, Walk, OtherStep
  PROVE  Walk'
  <1>1. UNCHANGED <<chain, run, parsed, decorated, log>>
    BY DEF OtherStep, chainVars, historyVars
  <1>2. \A t \in Threads:
          \/ pc'[t] = pc[t] /\ reply'[t] = reply[t]
          \/ pc[t] \in {"idle", "reading", "finish"} /\ pc'[t] \notin InStream \cup {"unwind"}
          \/ pc[t] \in {"claim", "streaming"} /\ pc'[t] \in InStream
    <2>1. ASSUME NEW c \in Conns, ClientStep(c) \/ Accept(c) PROVE pc' = pc /\ reply' = reply
      BY <2>1 DEF ClientStep, SendRequest, Hangup, Accept, taskVars
    <2>2. ASSUME Stop \/ Destroy \/ Teardown \/ Destroyed PROVE pc' = pc /\ reply' = reply
      BY <2>2 DEF Stop, Destroy, Teardown, DestroyMember, DropTask, Destroyed, taskVars, vars
    <2>3. ASSUME NEW u \in Threads,
                 Dequeue(u) \/ ReadRequest(u) \/ ReadEnds(u) \/ Claim(u) \/ HandlerStep(u) \/ Finish(u)
          PROVE  /\ \A t \in Threads \ {u}: pc'[t] = pc[t] /\ reply'[t] = reply[t]
                 /\ \/ pc'[u] = pc[u] /\ reply'[u] = reply[u]
                    \/ pc[u] \in {"idle", "reading", "finish"} /\ pc'[u] \notin InStream \cup {"unwind"}
                    \/ pc[u] \in {"claim", "streaming"} /\ pc'[u] \in InStream
      BY <2>3 DEF Dequeue, ReadRequest, ReadEnds, Claim, HandlerStep, StreamSendFails, StreamClose,
                  StreamEnd, Finish, Move, InStream, Typed, TaskTypeOK
    <2>4. QED
      BY <2>1, <2>2, <2>3 DEF OtherStep
  <1>3. ASSUME NEW t \in Threads PROVE Way(t)'
    <2>1. run[t] \in Runs /\ Way(t)
      BY FrameFields
    <2>2. QED
      BY <1>1, <1>2, <2>1 DEF Way, InStream, Runs
  <1>4. QED
    BY <1>1, <1>3 DEF Walk, ChainTyped

LEMMA OtherIsServer == OtherStep => Next
  BY DEF OtherStep, Next, ThreadStep

LEMMA WalkNext ==
  ASSUME Typed, Own, Walk, [ChainNext]_allVars
  PROVE  Walk' /\ [Next]_vars
  <1>1. CASE UNCHANGED allVars
    BY <1>1 DEF allVars, chainVars, historyVars, vars, taskVars, Walk, ChainTyped, Way
  <1>2. CASE OtherStep
    BY <1>2, WalkOther, OtherIsServer
  <1>3. ASSUME NEW t \in Threads, ChainStep(t) PROVE Walk' /\ [Next]_vars
    <2>1. CASE \/ Parse(t) \/ CallNext(t) \/ CorsNext(t) \/ WithoutNext(t) \/ Dispatch(t)
               \/ BackUp(t) \/ ThrowAfterNext(t) \/ Catch(t) \/ PassThrough(t)
      BY <2>1, WalkFrames
    <2>2. CASE \/ ParseThrows(t) \/ ChainMatchStream(t) \/ ChainUnclaim(t) \/ ChainUpgrade(t)
               \/ ChainRelease(t) \/ Leave(t) \/ ChainReply(t)
      BY <2>2, WalkStream, ChainIsServer DEF Next, ThreadStep
    <2>3. QED
      BY <1>3, <2>1, <2>2 DEF ChainStep
  <1>4. QED
    BY <1>1, <1>2, <1>3 DEF ChainNext

-----------------------------------------------------------------------------
LEMMA WalkHolds == ChainSpec => [](Typed /\ Own /\ Walk)
  <1>1. ChainInit => Typed /\ Own /\ Walk
    BY TypedInit, OwnInit, WalkInit DEF ChainInit
  <1>2. Typed /\ Own /\ Walk /\ [ChainNext]_allVars => (Typed /\ Own /\ Walk)'
    BY WalkNext, TypedNext, OwnNext
  <1>3. QED
    BY <1>1, <1>2, PTL DEF ChainSpec

(* The walk through the middlewares has Server's outcomes and no others:   *)
(* whatever is registered and whoever throws, runChain() returns true only *)
(* for a connection upgraded and left in order, and leads to one answer    *)
(* otherwise.  All that is proved of Server holds of the chain by this.    *)
THEOREM ChainImplementsServer == ChainSpec => ImplementsServer
  <1>1. ChainInit => Init
    BY DEF ChainInit
  <1>2. Typed /\ Own /\ Walk /\ [ChainNext]_allVars => [Next]_vars
    BY WalkNext
  <1>3. QED
    BY <1>1, <1>2, WalkHolds, PTL DEF ChainSpec, ImplementsServer, Spec

-----------------------------------------------------------------------------
(* No exception leaves a Recovery, nor what surrounds one without throwing *)
(* anything itself.                                                        *)
Shields(k) ==
    \/ chain[k] = "recovery"
    \/ chain[k] \in {"cors", "logger"} /\ k + 1 \in 1 .. Len(chain) /\ chain[k + 1] = "recovery"

Shielded ==
    \A k \in 1 .. Len(chain): Shields(k) =>
        \A t \in Threads: ~(run[t].level = k /\ run[t].mode = "throw")

(* A request is parsed once, by the thread that took its connection.       *)
ParsedLate ==
    /\ \A c \in Conns: holder[c] = "client" \/ c \in Queued => ~parsed[c]
    /\ \A t \in Threads:
         pc[t] = "reading" \/ (pc[t] = "chain" /\ run[t].mode = "out") => ~parsed[conn[t]]

(* Cors first: whatever comes back to it, and leaves it, has its headers.  *)
CorsSet(t) ==
    /\ run[t].level >= 2 \/ (run[t].level = 1 /\ run[t].mode = "up") => run[t].cors = TRUE
    /\ pc[t] = "reply" /\ parsed[conn[t]] /\ Untold(conn[t]) => run[t].cors = TRUE

(* Logger first: what it returns is what it logged last.                   *)
LastLine(c, status) == log[c] # <<>> /\ log[c][Len(log[c])] = status

Logged(t) ==
    /\ run[t].level = 1 /\ run[t].mode = "up" => LastLine(conn[t], run[t].status)
    /\ pc[t] = "reply" /\ parsed[conn[t]] => LastLine(conn[t], reply[t])

History ==
    /\ Shielded /\ ParsedLate
    /\ Outermost("cors", "recovery") => CorsKept /\ \A t \in Threads: CorsSet(t)
    /\ Outermost("logger", "recovery") => \A t \in Threads: Logged(t)

LEMMA HistoryInit == ChainInit => History
  <1> SUFFICES ASSUME ChainInit PROVE History
    OBVIOUS
  <1>1. /\ run = [t \in Threads |-> Outside] /\ pc = [t \in Threads |-> "idle"]
        /\ parsed = [c \in Conns |-> FALSE] /\ heads = [c \in Conns |-> <<>>]
    BY DEF ChainInit, Init
  <1>2. \A t \in Threads: run[t].level = 0 /\ pc[t] = "idle"
    BY <1>1 DEF Outside
  <1>3. Len(chain) \in Nat
    BY WalkInit, ChainLength DEF Walk, ChainTyped
  <1>4. Shielded
    BY <1>2, <1>3 DEF Shielded
  <1>5. ParsedLate /\ CorsKept
    BY <1>1, <1>2 DEF ParsedLate, CorsKept
  <1>6. \A t \in Threads: CorsSet(t) /\ Logged(t)
    BY <1>2 DEF CorsSet, Logged
  <1>7. QED
    BY <1>4, <1>5, <1>6 DEF History

(* What a thread in the chain leaves alone. *)
LEMMA ChainOnly ==
  ASSUME Typed, Own, Walk, NEW t \in Threads, ChainStep(t)
  PROVE  /\ UNCHANGED <<chain, conn, queue>> /\ pc[t] # "idle" /\ conn[t] \in Conns
         /\ run' \in [Threads -> Runs]
         /\ \A u \in Threads \ {t}: run'[u] = run[u] /\ pc'[u] = pc[u] /\ reply'[u] = reply[u]
         /\ \A c \in Conns: holder'[c] = holder[c] \/ holder'[c] = "sse"
         /\ \A c \in Conns: heads'[c] = <<>> => heads[c] = <<>>
         /\ \A c \in Conns \ {conn[t]}: /\ heads'[c] = heads[c] /\ log'[c] = log[c]
                                        /\ parsed'[c] = parsed[c] /\ decorated'[c] = decorated[c]
  <1>1. CASE \/ Parse(t) \/ CallNext(t) \/ CorsNext(t) \/ WithoutNext(t) \/ Dispatch(t)
             \/ BackUp(t) \/ ThrowAfterNext(t) \/ Catch(t) \/ PassThrough(t)
    <2>1. UNCHANGED vars
      BY <1>1, WalkFrames
    <2>2. UNCHANGED <<chain, decorated>>
      BY <1>1 DEF Parse, CallNext, CorsNext, WithoutNext, Dispatch, BackUp, ThrowAfterNext, Catch,
             PassThrough, Only, historyVars
    <2>3. pc[t] # "idle"
      BY <1>1, DownGuards, UpGuards
    <2>4. run' \in [Threads -> Runs] /\ \A u \in Threads \ {t}: run'[u] = run[u]
      BY <1>1, DownFrames, UpFrames DEF NewFrame
    <2>5. \A c \in Conns \ {conn[t]}: log'[c] = log[c] /\ parsed'[c] = parsed[c]
      BY <1>1 DEF Parse, CallNext, CorsNext, WithoutNext, Dispatch, BackUp, ThrowAfterNext, Catch,
             PassThrough, Only, historyVars, Walk, ChainTyped
    <2>6. conn[t] \in Conns
      BY <2>3, BusyConn
    <2>7. UNCHANGED <<conn, queue, pc, reply, holder, heads>>
      BY <2>1 DEF vars, taskVars
    <2>8. QED
      BY <2>2, <2>3, <2>4, <2>5, <2>6, <2>7
  <1>2. CASE \/ ParseThrows(t) \/ ChainMatchStream(t) \/ ChainUnclaim(t) \/ ChainUpgrade(t)
             \/ ChainRelease(t) \/ Leave(t) \/ ChainReply(t)
    <2>1. \/ Answer(t) \/ MatchStream(t) \/ Unclaim(t) \/ Upgrade(t) \/ Release(t)
          \/ Unwind(t) \/ Reply(t)
      BY <1>2, ChainIsServer
    <2>2. /\ \A u \in Threads \ {t}: pc'[u] = pc[u] /\ reply'[u] = reply[u]
          /\ conn' = conn /\ chain' = chain
      BY <1>2, ChainIsServer
    <2>3. pc[t] # "idle" /\ queue' = queue
      BY <2>1 DEF Answer, MatchStream, Unclaim, Upgrade, Release, Unwind, Reply, Move
    <2>4. conn[t] \in Conns
      BY <2>3, BusyConn
    <2>5. run' \in [Threads -> Runs] /\ \A u \in Threads \ {t}: run'[u] = run[u]
      BY <1>2, StreamFrames, StreamGuards, FrameFields DEF NewFrame
    <2>6. \A c \in Conns \ {conn[t]}: log'[c] = log[c] /\ parsed'[c] = parsed[c] /\ decorated'[c] = decorated[c]
      BY <1>2 DEF ParseThrows, ChainMatchStream, ChainUnclaim, ChainUpgrade, ChainRelease, Leave,
             ChainReply, chainVars, historyVars, Walk, ChainTyped
    <2>7. \A c \in Conns: holder'[c] = holder[c] \/ holder'[c] = "sse"
      BY <2>1 DEF Answer, MatchStream, Unclaim, Upgrade, Release, Unwind, Reply, Typed, ConnTypeOK
    <2>8. \A c \in Conns: /\ heads'[c] = <<>> => heads[c] = <<>>
                          /\ c # conn[t] => heads'[c] = heads[c]
      <3>1. \/ heads' = heads
            \/ \E s \in Statuses: heads' = [heads EXCEPT ![conn[t]] = Append(@, s)]
        BY <2>1 DEF Answer, MatchStream, Unclaim, Upgrade, SendPreamble, Release, Unwind, Reply,
                    Typed, ConnTypeOK, TaskTypeOK, Statuses
      <3>2. \A c \in Conns: heads[c] \in Seq(Statuses)
        BY DEF Typed, ConnTypeOK
      <3>3. QED
        BY <2>4, <3>1, <3>2 DEF Typed, ConnTypeOK
    <2>9. QED
      BY <2>2, <2>3, <2>4, <2>5, <2>6, <2>7, <2>8
  <1>3. QED
    BY <1>1, <1>2 DEF ChainStep

(* What the rest of Server may do to a thread. *)
LEMMA OtherOnly ==
  ASSUME Typed, Own, OtherStep
  PROVE  /\ UNCHANGED <<chain, run, parsed, decorated, log, heads>>
         /\ \A u \in Threads:
              \/ pc'[u] = pc[u] /\ conn'[u] = conn[u] /\ reply'[u] = reply[u]
              \/ pc[u] = "reading" /\ conn'[u] = conn[u] /\ pc'[u] \in {"chain", "reply", "finish"}
              \/ pc[u] = "idle" /\ pc'[u] = "reading" /\ conn'[u] \in Queued
              \/ pc[u] \in {"claim", "streaming", "finish"} /\ pc'[u] \in {"idle", "unclaim", "upgrade", "release"}
         /\ \A u \in Threads: pc'[u] \notin {"idle", "reading"} => conn'[u] = conn[u] /\ pc[u] # "idle"
         /\ \A c \in Conns: holder'[c] = "client" \/ c \in Queued' => holder[c] = "client" \/ c \in Queued
         /\ \A c \in Conns: holder'[c] = "task" => holder[c] \in {"task", "client"}
  <1>1. UNCHANGED <<chain, run, parsed, decorated, log>>
    BY DEF OtherStep, chainVars, historyVars
  <1>2. ASSUME NEW c \in Conns, ClientStep(c)
        PROVE  UNCHANGED <<pc, conn, reply, heads, holder, queue>>
    BY <1>2 DEF ClientStep, SendRequest, Hangup, taskVars
  <1>3. ASSUME NEW c \in Conns, Accept(c)
        PROVE  /\ UNCHANGED <<pc, conn, reply, heads>> /\ Queued' = Queued \cup {c}
               /\ holder[c] = "client" /\ holder' = [holder EXCEPT ![c] = "task"]
    BY <1>3, Detached DEF Accept, taskVars
  <1>4. ASSUME Stop \/ Destroy \/ DestroyMember \/ Destroyed
        PROVE  UNCHANGED <<pc, conn, reply, heads, holder, queue>>
    BY <1>4 DEF Stop, Destroy, DestroyMember, Destroyed, taskVars, vars
  <1>5. ASSUME DropTask
        PROVE  /\ UNCHANGED <<pc, conn, reply, heads>> /\ Queued' \subseteq Queued
               /\ \A c \in Conns: holder'[c] = holder[c] \/ holder'[c] = "closed"
    <2>1. queue # <<>> /\ queue' = Tail(queue) /\ holder' = [holder EXCEPT ![Head(queue)] = "closed"]
          /\ UNCHANGED <<pc, conn, reply, heads>>
      BY <1>5 DEF DropTask, taskVars
    <2>2. QED
      BY <2>1, Taken DEF Own, Typed, ConnTypeOK
  <1>6. ASSUME NEW t \in Threads, Dequeue(t)
        PROVE  /\ UNCHANGED <<reply, heads, holder>> /\ Queued' \subseteq Queued
               /\ \A u \in Threads \ {t}: pc'[u] = pc[u] /\ conn'[u] = conn[u]
               /\ pc[t] = "idle" /\ pc'[t] = "reading" /\ conn'[t] \in Queued
    <2>1. /\ queue # <<>> /\ queue' = Tail(queue) /\ pc[t] = "idle" /\ pc' = [pc EXCEPT ![t] = "reading"]
          /\ conn' = [conn EXCEPT ![t] = Head(queue)] /\ UNCHANGED <<reply, heads, holder>>
      BY <1>6 DEF Dequeue
    <2>2. QED
      BY <2>1, Taken DEF Own, Typed, TaskTypeOK
  <1>7. ASSUME NEW t \in Threads, ReadRequest(t) \/ ReadEnds(t) \/ Claim(t) \/ HandlerStep(t)
        PROVE  /\ UNCHANGED <<conn, heads, queue>>
               /\ \A c \in Conns: holder'[c] = holder[c] \/ holder'[c] = "closed"
               /\ \A u \in Threads \ {t}: pc'[u] = pc[u] /\ reply'[u] = reply[u]
               /\ pc[t] # "idle"
               /\ \/ pc[t] = "reading" /\ pc'[t] \in {"chain", "reply", "finish"}
                  \/ pc[t] \in {"claim", "streaming"} /\ pc'[t] \in {"unclaim", "upgrade", "release"}
                  \/ pc'[t] = pc[t] /\ reply'[t] = reply[t]
    BY <1>7 DEF ReadRequest, ReadEnds, Claim, HandlerStep, StreamSendFails, StreamClose, StreamEnd, Move,
                Typed, TaskTypeOK, ConnTypeOK
  <1>8. ASSUME NEW t \in Threads, Finish(t)
        PROVE  /\ UNCHANGED <<heads, queue>>
               /\ \A c \in Conns: holder'[c] = holder[c] \/ holder'[c] = "closed"
               /\ \A u \in Threads \ {t}: pc'[u] = pc[u] /\ reply'[u] = reply[u] /\ conn'[u] = conn[u]
               /\ pc[t] = "finish" /\ pc'[t] = "idle"
    BY <1>8 DEF Finish, Move, Typed, TaskTypeOK, ConnTypeOK
  <1>9. queue' = queue => Queued' = Queued
    BY DEF Queued
  <1>10. \A u \in Threads: pc[u] = "idle" => conn[u] = None
    BY DEF Typed, TaskTypeOK
  <1>11. CASE \E c \in Conns: ClientStep(c)
    BY <1>1, <1>2, <1>9, <1>11
  <1>12. CASE \E c \in Conns: Accept(c)
    BY <1>1, <1>3, <1>12 DEF Typed, ConnTypeOK
  <1>13. CASE Stop \/ Destroy \/ DestroyMember \/ Destroyed
    BY <1>1, <1>4, <1>9, <1>13
  <1>14. CASE DropTask
    BY <1>1, <1>5, <1>14
  <1>15. CASE \E t \in Threads: Dequeue(t)
    BY <1>1, <1>6, <1>15
  <1>16. CASE \E t \in Threads: ReadRequest(t) \/ ReadEnds(t) \/ Claim(t) \/ HandlerStep(t)
    BY <1>1, <1>7, <1>9, <1>16
  <1>17. CASE \E t \in Threads: Finish(t)
    BY <1>1, <1>8, <1>9, <1>17
  <1>18. QED
    BY <1>11, <1>12, <1>13, <1>14, <1>15, <1>16, <1>17 DEF OtherStep, Teardown

-----------------------------------------------------------------------------
(* Recovery.  A frame is left by an exception in the innermost frame, in   *)
(* that of an application's middleware, or when one comes from below.      *)
LEMMA ThrownFrom ==
  ASSUME Typed, Own, Walk, NEW t \in Threads, ChainStep(t), run'[t].mode = "throw"
  PROVE  LET k == run'[t].level IN
         \/ run[t].mode = "throw" /\ run[t].level = k
         \/ k = Len(chain) + 1
         \/ chain[k] = "user"
         \/ chain[k] # "recovery" /\ run[t].mode = "throw" /\ run[t].level = k + 1
  <1>1. run[t] \in Runs /\ run[t].level \in Nat /\ Way(t) /\ Len(chain) \in Nat
    BY FrameFields
  <1>2. CASE Parse(t) \/ CallNext(t) \/ CorsNext(t)
    BY <1>2, DownFrames DEF NewFrame
  <1>3. CASE WithoutNext(t) \/ Dispatch(t)
    <2>1. run'[t].level = run[t].level
      BY <1>3, DownFrames DEF NewFrame
    <2>2. QED
      BY <1>3, <2>1, DownGuards
  <1>4. CASE BackUp(t) \/ Catch(t)
    BY <1>4, UpFrames DEF NewFrame
  <1>5. CASE ThrowAfterNext(t) \/ PassThrough(t)
    <2>1. run'[t].level = run[t].level - 1
      BY <1>5, UpFrames DEF NewFrame
    <2>2. run[t].level = run'[t].level + 1
      BY <1>1, <2>1
    <2>3. QED
      BY <1>5, <2>1, <2>2, UpGuards
  <1>6. CASE ParseThrows(t) \/ ChainMatchStream(t) \/ ChainUpgrade(t)
    BY <1>6, StreamGuards
  <1>7. CASE ChainRelease(t)
    <2>1. pc[t] = "release" /\ run'[t].level = run[t].level
      BY <1>7, StreamGuards, StreamFrames DEF NewFrame
    <2>2. QED
      BY <1>1, <2>1 DEF Way, InStream
  <1>8. CASE ChainUnclaim(t) \/ Leave(t) \/ ChainReply(t)
    BY <1>8, StreamFrames DEF NewFrame
  <1>9. QED
    BY <1>2, <1>3, <1>4, <1>5, <1>6, <1>7, <1>8 DEF ChainStep

LEMMA ShieldedStep ==
  ASSUME Typed, Own, Walk, Shielded, NEW t \in Threads, ChainStep(t)
  PROVE  Shielded'
  <1>1. chain' = chain /\ \A u \in Threads \ {t}: run'[u] = run[u]
    BY ChainOnly
  <1>2. SUFFICES ASSUME NEW k \in 1 .. Len(chain), Shields(k), run'[t].level = k, run'[t].mode = "throw"
                 PROVE  FALSE
    BY <1>1 DEF Shielded, Shields
  <1>3. Len(chain) \in Nat
    BY FrameFields
  <1>4. k # Len(chain) + 1 /\ chain[k] # "user"
    BY <1>2, <1>3 DEF Shields
  <1>5. \/ run[t].mode = "throw" /\ run[t].level = k
        \/ chain[k] # "recovery" /\ run[t].mode = "throw" /\ run[t].level = k + 1
    BY <1>2, <1>4, ThrownFrom
  <1>6. CASE run[t].mode = "throw" /\ run[t].level = k
    BY <1>2, <1>6 DEF Shielded
  <1>7. CASE chain[k] # "recovery" /\ run[t].mode = "throw" /\ run[t].level = k + 1
    <2>1. k + 1 \in 1 .. Len(chain) /\ Shields(k + 1)
      BY <1>2, <1>7 DEF Shields
    <2>2. QED
      BY <1>7, <2>1 DEF Shielded
  <1>8. QED
    BY <1>5, <1>6, <1>7

-----------------------------------------------------------------------------
(* When a request counts as parsed.                                        *)
LEMMA ParsedStep ==
  ASSUME Typed, Own, Walk, ParsedLate, NEW t \in Threads, ChainStep(t)
  PROVE  ParsedLate'
  <1>1. /\ UNCHANGED <<chain, conn, queue>> /\ pc[t] # "idle" /\ conn[t] \in Conns
        /\ \A u \in Threads \ {t}: run'[u] = run[u] /\ pc'[u] = pc[u]
        /\ \A c \in Conns: holder'[c] = holder[c] \/ holder'[c] = "sse"
        /\ \A c \in Conns \ {conn[t]}: parsed'[c] = parsed[c]
    BY ChainOnly
  <1>2. Queued' = Queued /\ conn[t] \notin Queued /\ holder[conn[t]] # "client"
    BY <1>1 DEF Queued, Own, Apart, Placed
  <1>3. \A c \in Conns: holder'[c] = "client" \/ c \in Queued' => ~parsed'[c]
    BY <1>1, <1>2 DEF ParsedLate
  <1>4. ASSUME NEW u \in Threads \ {t}, pc'[u] = "reading" \/ (pc'[u] = "chain" /\ run'[u].mode = "out")
        PROVE  ~parsed'[conn'[u]]
    <2>1. pc[u] # "idle" /\ ~parsed[conn[u]]
      BY <1>1, <1>4 DEF ParsedLate
    <2>2. conn[u] \in Conns /\ conn[u] # None
      BY <2>1, BusyConn, ServerAssumption
    <2>3. conn[u] # conn[t]
      BY <2>2 DEF Own, Apart
    <2>4. QED
      BY <1>1, <2>1, <2>2, <2>3
  <1>5. ~(pc'[t] = "reading" \/ (pc'[t] = "chain" /\ run'[t].mode = "out"))
    <2>1. CASE Parse(t) \/ CallNext(t) \/ CorsNext(t) \/ WithoutNext(t) \/ Dispatch(t)
      <3>1. pc[t] = "chain" /\ run'[t].mode # "out"
        BY <2>1, DownGuards, DownFrames DEF NewFrame
      <3>2. pc' = pc
        BY <2>1, WalkFrames DEF vars, taskVars
      <3>3. QED
        BY <3>1, <3>2
    <2>2. CASE BackUp(t) \/ ThrowAfterNext(t) \/ Catch(t) \/ PassThrough(t)
      <3>1. pc[t] \in {"chain", "unwind"} /\ run'[t].mode # "out"
        BY <2>2, UpGuards, UpFrames DEF NewFrame
      <3>2. pc' = pc
        BY <2>2, WalkFrames DEF vars, taskVars
      <3>3. QED
        BY <3>1, <3>2
    <2>3. CASE \/ ParseThrows(t) \/ ChainMatchStream(t) \/ ChainUnclaim(t) \/ ChainUpgrade(t)
               \/ ChainRelease(t) \/ Leave(t) \/ ChainReply(t)
      BY <2>3, StreamGuards
    <2>4. QED
      BY <2>1, <2>2, <2>3 DEF ChainStep
  <1>6. QED
    BY <1>3, <1>4, <1>5 DEF ParsedLate

LEMMA ParsedOther ==
  ASSUME Typed, Own, ParsedLate, OtherStep
  PROVE  ParsedLate'
  <1>1. parsed' = parsed /\ run' = run
    BY OtherOnly
  <1>2. \A c \in Conns: holder'[c] = "client" \/ c \in Queued' => ~parsed'[c]
    BY <1>1, OtherOnly DEF ParsedLate
  <1>3. ASSUME NEW u \in Threads, pc'[u] = "reading" \/ (pc'[u] = "chain" /\ run'[u].mode = "out")
        PROVE  ~parsed'[conn'[u]]
    <2>1. \/ pc'[u] = pc[u] /\ conn'[u] = conn[u]
          \/ pc[u] = "reading" /\ conn'[u] = conn[u]
          \/ conn'[u] \in Queued
      BY <1>3, OtherOnly
    <2>2. Queued \subseteq Conns
      BY DEF Queued, Typed, TaskTypeOK
    <2>3. QED
      BY <1>1, <1>3, <2>1, <2>2 DEF ParsedLate
  <1>4. QED
    BY <1>2, <1>3 DEF ParsedLate

-----------------------------------------------------------------------------
(* Cors.  The thread's own frame keeps the headers on every way back.      *)
LEMMA CorsFrame ==
  ASSUME Typed, Own, Walk, Shielded, Outermost("cors", "recovery"), NEW t \in Threads,
         CorsSet(t), ChainStep(t)
  PROVE  /\ run'[t].level >= 2 \/ (run'[t].level = 1 /\ run'[t].mode = "up") => run'[t].cors = TRUE
         /\ Leave(t) /\ pc'[t] = "reply" => run'[t].cors = TRUE
  <1>1. /\ run[t] \in Runs /\ run[t].level \in Nat /\ Len(chain) \in Nat /\ Way(t)
        /\ (run[t].mode = "out" <=> run[t].level = 0)
        /\ Len(chain) >= 2 /\ chain[1] = "cors" /\ chain[2] = "recovery"
    BY FrameFields DEF Outermost
  <1>2. run[t].level >= 2 \/ (run[t].level = 1 /\ run[t].mode = "up") => run[t].cors = TRUE
    BY DEF CorsSet
  <1> DEFINE Goal == run'[t].level >= 2 \/ (run'[t].level = 1 /\ run'[t].mode = "up") => run'[t].cors = TRUE
  <1>3. ASSUME Parse(t) PROVE Goal
    <2>1. run'[t].level = 1 /\ run'[t].mode = "down"
      BY <1>3, DownFrames DEF NewFrame
    <2>2. QED
      BY <2>1
  <1>4. ASSUME CallNext(t) \/ WithoutNext(t) \/ Dispatch(t) PROVE Goal
    <2>1. run[t].level >= 2
      <3>1. run[t].level # 0 /\ run[t].level # 1
        BY <1>1, <1>4, DownGuards
      <3>2. QED
        BY <1>1, <3>1
    <2>2. run'[t].cors = run[t].cors
      BY <1>4, DownFrames DEF NewFrame
    <2>3. QED
      BY <1>2, <2>1, <2>2
  <1>5. ASSUME CorsNext(t) PROVE Goal
    BY <1>5, DownFrames DEF NewFrame
  <1>6. ASSUME BackUp(t) \/ ThrowAfterNext(t) \/ Catch(t) \/ PassThrough(t) PROVE Goal
    <2>1. run[t].level > 1 /\ run'[t].cors = run[t].cors
      BY <1>6, UpGuards, UpFrames DEF NewFrame
    <2>2. run[t].level >= 2
      BY <1>1, <2>1
    <2>3. QED
      BY <1>2, <2>1, <2>2
  <1>7. ASSUME ParseThrows(t) \/ ChainMatchStream(t) \/ ChainUpgrade(t) PROVE Goal
    <2>1. run' = run
      BY <1>7, StreamGuards
    <2>2. QED
      BY <1>2, <2>1
  <1>8. ASSUME ChainUnclaim(t) \/ ChainRelease(t) PROVE Goal
    <2>1. pc[t] \in InStream
      BY <1>8, StreamGuards DEF InStream
    <2>2. run'[t].cors = run[t].cors
      BY <1>8, StreamFrames DEF NewFrame
    <2>3. run[t].level >= 2
      BY <1>1, <2>1 DEF Way
    <2>4. QED
      BY <1>2, <2>2, <2>3
  <1>9. ASSUME ChainReply(t) \/ Leave(t) PROVE Goal
    <2>1. run'[t].level = 0
      BY <1>9, StreamFrames DEF NewFrame
    <2>2. QED
      BY <2>1
  <1>10. ASSUME Leave(t), pc'[t] = "reply" PROVE run'[t].cors = TRUE
    <2>1. run[t].level = 1
      BY <1>10, StreamGuards
    <2>2. run[t].mode # "throw"
      <3>1. 1 \in 1 .. Len(chain) /\ Shields(1)
        BY <1>1 DEF Shields
      <3>2. QED
        BY <2>1, <3>1 DEF Shielded
    <2>3. run[t].mode = "up" /\ ~run[t].streamed
      BY <1>10, <2>2 DEF Leave, Move, Typed, TaskTypeOK
    <2>4. run'[t].cors = run[t].cors
      BY <1>10, <2>3, StreamFrames DEF NewFrame
    <2>5. QED
      BY <1>2, <2>1, <2>3, <2>4
  <1>11. QED
    BY <1>3, <1>4, <1>5, <1>6, <1>7, <1>8, <1>9, <1>10 DEF ChainStep

(* What a step writes of its connection's history. *)
LEMMA ChainHistory ==
  ASSUME Typed, Own, Walk, ParsedLate, NEW t \in Threads, ChainStep(t)
  PROVE  LET c == conn[t] IN
         /\ parsed'[c] = parsed[c] \/ heads'[c] = <<>>
         /\ pc'[t] = "reply" /\ parsed'[c] => Leave(t) /\ parsed[c]
         /\ heads'[c] = heads[c] => decorated'[c] = decorated[c]
         /\ heads'[c] # heads[c] =>
                /\ pc[t] = "upgrade" \/ (pc[t] = "reply" /\ Untold(c))
                /\ decorated'[c] = run[t].cors
  <1>1. Handled(t) /\ Way(t) /\ conn[t] \in Conns /\ pc[t] # "idle"
    BY FrameFields, ChainOnly DEF Own
  <1>2. /\ parsed \in [Conns -> BOOLEAN] /\ decorated \in [Conns -> BOOLEAN] /\ heads \in [Conns -> Seq(Statuses)]
    BY DEF Walk, ChainTyped, Typed, ConnTypeOK
  <1>3. CASE \/ Parse(t) \/ CallNext(t) \/ CorsNext(t) \/ WithoutNext(t) \/ Dispatch(t)
             \/ BackUp(t) \/ ThrowAfterNext(t) \/ Catch(t) \/ PassThrough(t)
    <2>1. UNCHANGED <<pc, heads>>
      BY <1>3, WalkFrames DEF vars, taskVars
    <2>2. pc[t] \in {"chain", "unwind"}
      BY <1>3, DownGuards, UpGuards
    <2>3. decorated' = decorated
      BY <1>3 DEF Parse, CallNext, CorsNext, WithoutNext, Dispatch, BackUp, ThrowAfterNext, Catch,
             PassThrough, Only, historyVars
    <2>4. CASE Parse(t)
      <3>1. heads[conn[t]] = <<>>
        BY <1>1, <2>4, DownGuards DEF Handled, Untold
      <3>2. QED
        BY <2>1, <2>2, <2>3, <3>1
    <2>5. CASE ~Parse(t)
      <3>1. parsed' = parsed
        BY <1>3, <2>5 DEF CallNext, CorsNext, WithoutNext, Dispatch, BackUp, ThrowAfterNext, Catch,
             PassThrough, Only, historyVars
      <3>2. QED
        BY <2>1, <2>2, <2>3, <3>1
    <2>6. QED
      BY <2>4, <2>5
  <1>4. CASE ParseThrows(t)
    <2>1. /\ UNCHANGED <<heads, parsed, decorated>>
      BY <1>4 DEF ParseThrows, chainVars, historyVars
    <2>2. ~parsed[conn[t]]
      BY <1>4, StreamGuards DEF ParsedLate
    <2>3. QED
      BY <2>1, <2>2
  <1>5. CASE ChainMatchStream(t) \/ ChainUnclaim(t) \/ ChainRelease(t) \/ Leave(t)
    <2>1. /\ UNCHANGED <<heads, parsed, decorated>>
      BY <1>5 DEF ChainMatchStream, MatchStream, ChainUnclaim, Unclaim, ChainRelease, Release, Leave,
                  chainVars, historyVars
    <2>2. pc'[t] = "reply" => Leave(t)
      BY <1>5, StreamGuards
    <2>3. QED
      BY <2>1, <2>2
  <1>6. CASE ChainUpgrade(t) \/ ChainReply(t)
    <2>1. /\ parsed' = parsed /\ pc'[t] # "reply"
          /\ decorated' = IF heads' = heads THEN decorated
                          ELSE [decorated EXCEPT ![conn[t]] = run[t].cors]
      BY <1>6, StreamGuards DEF ChainUpgrade, ChainReply
    <2>2. heads' \in [Conns -> Seq(Statuses)] /\ \A c \in Conns \ {conn[t]}: heads'[c] = heads[c]
      <3>1. heads' \in [Conns -> Seq(Statuses)]
        BY <1>6, TypedThread DEF ChainUpgrade, ChainReply, ThreadStep, Typed, ConnTypeOK
      <3>2. QED
        BY <3>1, ChainOnly
    <2>3. heads'[conn[t]] = heads[conn[t]] => heads' = heads
      BY <1>2, <2>2
    <2>4. heads'[conn[t]] # heads[conn[t]] => decorated'[conn[t]] = run[t].cors
      BY <1>1, <1>2, <2>1
    <2>5. heads'[conn[t]] # heads[conn[t]] =>
            pc[t] = "upgrade" \/ (pc[t] = "reply" /\ holder[conn[t]] = "task")
      <3>1. CASE ChainUpgrade(t)
        BY <3>1, StreamGuards
      <3>2. CASE ChainReply(t)
        BY <1>1, <1>2, <3>2, StreamGuards DEF ChainReply, Reply
      <3>3. QED
        BY <1>6, <3>1, <3>2
    <2>6. pc[t] = "reply" /\ holder[conn[t]] = "task" => Untold(conn[t])
      BY <1>1 DEF Handled, Told, Untold
    <2>7. QED
      BY <2>1, <2>3, <2>4, <2>5, <2>6
  <1>7. QED
    BY <1>3, <1>4, <1>5, <1>6 DEF ChainStep

LEMMA CorsStep ==
  ASSUME Typed, Own, Walk, Shielded, ParsedLate, Outermost("cors", "recovery"),
         CorsKept, \A u \in Threads: CorsSet(u), NEW t \in Threads, ChainStep(t)
  PROVE  CorsKept' /\ \A u \in Threads: CorsSet(u)'
  <1>1. /\ UNCHANGED <<chain, conn>> /\ pc[t] # "idle" /\ conn[t] \in Conns
        /\ \A u \in Threads \ {t}: run'[u] = run[u] /\ pc'[u] = pc[u]
        /\ \A c \in Conns: holder'[c] = holder[c] \/ holder'[c] = "sse"
        /\ \A c \in Conns: heads'[c] = <<>> => heads[c] = <<>>
        /\ \A c \in Conns \ {conn[t]}: /\ heads'[c] = heads[c] /\ parsed'[c] = parsed[c]
                                       /\ decorated'[c] = decorated[c]
    BY ChainOnly
  <1>2. Way(t) /\ run[t].level \in Nat /\ Len(chain) \in Nat /\ Len(chain) >= 2
    BY FrameFields DEF Outermost
  <1>3. CorsSet(t)'
    <2>1. CorsSet(t)
      OBVIOUS
    <2>2. pc'[t] = "reply" /\ parsed'[conn[t]] => Leave(t)
      BY ChainHistory
    <2>3. QED
      BY <1>1, <2>1, <2>2, CorsFrame DEF CorsSet
  <1>4. ASSUME NEW u \in Threads \ {t} PROVE CorsSet(u)'
    <2>1. CorsSet(u)
      OBVIOUS
    <2>2. CASE pc[u] = "reply"
      <3>1. conn[u] \in Conns /\ conn[u] # None
        BY <2>2, BusyConn, ServerAssumption
      <3>2. conn[u] # conn[t]
        BY <3>1 DEF Own, Apart
      <3>3. Untold(conn[u])' => Untold(conn[u])
        BY <1>1, <3>1 DEF Untold
      <3>4. parsed'[conn[u]] = parsed[conn[u]] /\ run'[u] = run[u] /\ conn'[u] = conn[u]
        BY <1>1, <3>1, <3>2
      <3>5. QED
        BY <2>1, <2>2, <3>3, <3>4 DEF CorsSet
    <2>3. CASE pc[u] # "reply"
      BY <1>1, <2>1, <2>3 DEF CorsSet
    <2>4. QED
      BY <2>2, <2>3
  <1>5. ASSUME NEW c \in Conns, parsed'[c], heads'[c] # <<>> PROVE decorated'[c]
    <2>1. CASE c # conn[t]
      BY <1>1, <1>5, <2>1 DEF CorsKept
    <2>2. CASE c = conn[t] /\ heads'[c] = heads[c]
      <3>1. parsed[c] /\ decorated'[c] = decorated[c]
        BY <1>5, <2>2, ChainHistory
      <3>2. QED
        BY <1>5, <2>2, <3>1 DEF CorsKept
    <2>3. CASE c = conn[t] /\ heads'[c] # heads[c]
      <3>1. /\ pc[t] = "upgrade" \/ (pc[t] = "reply" /\ Untold(c))
            /\ decorated'[c] = run[t].cors /\ parsed[c]
        BY <1>5, <2>3, ChainHistory
      <3>2. pc[t] = "upgrade" => run[t].level >= 2
        BY <1>2 DEF Way, InStream
      <3>3. run[t].cors = TRUE
        BY <2>3, <3>1, <3>2 DEF CorsSet
      <3>4. QED
        BY <3>1, <3>3
    <2>4. QED
      BY <2>1, <2>2, <2>3
  <1>6. QED
    BY <1>1, <1>3, <1>4, <1>5 DEF CorsKept

LEMMA CorsOther ==
  ASSUME Typed, Own, Walk, ParsedLate, Outermost("cors", "recovery"), CorsKept,
         \A u \in Threads: CorsSet(u), OtherStep
  PROVE  CorsKept' /\ \A u \in Threads: CorsSet(u)'
  <1>1. UNCHANGED <<run, parsed, decorated, heads>>
    BY OtherOnly
  <1>2. ASSUME NEW u \in Threads PROVE CorsSet(u)'
    <2>1. CorsSet(u)
      OBVIOUS
    <2>2. CASE pc'[u] = "reply"
      <3>1. conn'[u] = conn[u] /\ pc[u] # "idle" /\ (pc[u] = "reply" \/ pc[u] = "reading")
        BY <2>2, OtherOnly
      <3>2. conn[u] \in Conns
        BY <3>1, BusyConn
      <3>3. pc[u] = "reading" => ~parsed[conn[u]]
        BY DEF ParsedLate
      <3>4. Untold(conn[u])' => Untold(conn[u])
        <4>1. holder[conn[u]] # "client"
          BY <3>2 DEF Own, Placed
        <4>2. holder'[conn[u]] = "task" => holder[conn[u]] = "task"
          BY <3>2, <4>1, OtherOnly
        <4>3. QED
          BY <1>1, <3>1, <4>2 DEF Untold
      <3>5. QED
        BY <1>1, <2>1, <3>1, <3>3, <3>4 DEF CorsSet
    <2>3. CASE pc'[u] # "reply"
      BY <1>1, <2>1, <2>3 DEF CorsSet
    <2>4. QED
      BY <2>2, <2>3
  <1>3. QED
    BY <1>1, <1>2 DEF CorsKept

-----------------------------------------------------------------------------
(* Logger.  Its own frame returns with the line just written.              *)
LEMMA LogFrame ==
  ASSUME Typed, Own, Walk, Outermost("logger", "recovery"), NEW t \in Threads, Logged(t),
         ChainStep(t), run'[t].level = 1, run'[t].mode = "up"
  PROVE  LastLine(conn[t], run[t].status)'
  <1>1. /\ run[t] \in Runs /\ run[t].level \in Nat /\ Len(chain) \in Nat /\ Way(t)
        /\ Len(chain) >= 2 /\ chain[1] = "logger" /\ conn[t] \in Conns
        /\ run[t].status \in Statuses
    BY FrameFields, ChainOnly DEF Outermost
  <1>2. conn' = conn
    BY ChainOnly
  <1>3. CASE Parse(t) \/ ThrowAfterNext(t) \/ PassThrough(t)
    <2>1. run'[t].mode # "up"
      BY <1>3, DownFrames, UpFrames DEF NewFrame
    <2>2. QED
      BY <2>1
  <1>4. CASE CallNext(t)
    <2>1. run'[t].mode # "up"
      BY <1>4, DownFrames DEF NewFrame
    <2>2. QED
      BY <2>1
  <1>5. CASE CorsNext(t) \/ WithoutNext(t) \/ Dispatch(t)
    <2>1. CASE run'[t].level = run[t].level
      <3>1. run[t].level = 1
        BY <2>1
      <3>2. chain[1] # "cors" /\ chain[1] # "user" /\ 1 # Len(chain) + 1
        BY <1>1
      <3>3. QED
        BY <1>5, <3>1, <3>2, DownGuards
    <2>2. CASE run'[t].level # run[t].level
      <3>1. run'[t].mode = "down"
        BY <1>5, <2>2, DownFrames DEF NewFrame
      <3>2. QED
        BY <3>1
    <2>3. QED
      BY <2>1, <2>2
  <1>6. CASE BackUp(t) \/ Catch(t)
    <2>1. run'[t].level = run[t].level - 1 /\ (BackUp(t) => run'[t].status = run[t].status)
      BY <1>6, UpFrames DEF NewFrame
    <2>2. run[t].level - 1 = 1
      BY <2>1
    <2>3. BackUp(t)
      BY <1>1, <1>6, <2>2, UpGuards
    <2>4. log'[conn[t]] = Append(log[conn[t]], run[t].status)
      BY <1>1, <2>2, <2>3 DEF BackUp, Walk, ChainTyped
    <2>5. log[conn[t]] \in Seq(Statuses)
      BY <1>1 DEF Walk, ChainTyped
    <2>6. /\ Append(log[conn[t]], run[t].status) # <<>>
          /\ LET s == Append(log[conn[t]], run[t].status) IN s[Len(s)] = run[t].status
      BY <1>1, <2>5
    <2>7. QED
      BY <1>2, <2>1, <2>3, <2>4, <2>6 DEF LastLine
  <1>7. CASE ParseThrows(t) \/ ChainMatchStream(t) \/ ChainUpgrade(t)
    <2>1. run' = run /\ log' = log
      BY <1>7, StreamGuards DEF ParseThrows, ChainMatchStream, ChainUpgrade, chainVars, historyVars
    <2>2. QED
      BY <1>2, <2>1 DEF Logged, LastLine
  <1>8. CASE ChainUnclaim(t) \/ ChainRelease(t)
    <2>1. pc[t] \in InStream
      BY <1>8, StreamGuards DEF InStream
    <2>2. run'[t].level = run[t].level
      BY <1>8, StreamFrames DEF NewFrame
    <2>3. QED
      BY <1>1, <2>1, <2>2 DEF Way
  <1>9. CASE Leave(t) \/ ChainReply(t)
    <2>1. run'[t].level = 0
      BY <1>9, StreamFrames DEF NewFrame
    <2>2. QED
      BY <2>1
  <1>10. QED
    BY <1>3, <1>4, <1>5, <1>6, <1>7, <1>8, <1>9 DEF ChainStep

LEMMA LogStep ==
  ASSUME Typed, Own, Walk, Shielded, ParsedLate, Outermost("logger", "recovery"),
         \A u \in Threads: Logged(u), NEW t \in Threads, ChainStep(t)
  PROVE  \A u \in Threads: Logged(u)'
  <1>1. /\ conn' = conn /\ pc[t] # "idle" /\ conn[t] \in Conns
        /\ \A u \in Threads \ {t}: run'[u] = run[u] /\ pc'[u] = pc[u] /\ reply'[u] = reply[u]
        /\ \A c \in Conns \ {conn[t]}: log'[c] = log[c] /\ parsed'[c] = parsed[c]
    BY ChainOnly
  <1>2. Len(chain) \in Nat /\ Len(chain) >= 2 /\ chain[1] = "logger" /\ chain[2] = "recovery"
    BY FrameFields DEF Outermost
  <1>3. ASSUME pc'[t] = "reply", parsed'[conn[t]] PROVE LastLine(conn[t], reply[t])'
    <2>1. Leave(t)
      BY <1>3, ChainHistory
    <2>2. run[t].level = 1
      BY <2>1, StreamGuards
    <2>3. run[t].mode # "throw"
      <3>1. 1 \in 1 .. Len(chain) /\ Shields(1)
        BY <1>2 DEF Shields
      <3>2. QED
        BY <2>2, <3>1 DEF Shielded
    <2>4. run[t].mode = "up" /\ reply'[t] = run[t].status /\ log' = log
      BY <1>3, <2>1, <2>3 DEF Leave, Move, historyVars, Typed, TaskTypeOK
    <2>5. LastLine(conn[t], run[t].status)
      BY <2>2, <2>4 DEF Logged
    <2>6. QED
      BY <1>1, <2>4, <2>5 DEF LastLine
  <1>4. Logged(t)'
    BY <1>1, <1>3, LogFrame DEF Logged
  <1>5. ASSUME NEW u \in Threads \ {t} PROVE Logged(u)'
    <2>1. Logged(u)
      OBVIOUS
    <2>2. CASE pc[u] = "idle"
      <3>1. Way(u) /\ run[u].mode # "up"
        BY <2>2, FrameFields DEF Way
      <3>2. QED
        BY <1>1, <2>2, <3>1 DEF Logged
    <2>3. CASE pc[u] # "idle"
      <3>1. conn[u] \in Conns /\ conn[u] # None
        BY <2>3, BusyConn, ServerAssumption
      <3>2. conn[u] # conn[t]
        BY <3>1 DEF Own, Apart
      <3>3. /\ parsed'[conn[u]] = parsed[conn[u]] /\ log'[conn[u]] = log[conn[u]] /\ conn'[u] = conn[u]
            /\ run'[u] = run[u] /\ pc'[u] = pc[u] /\ reply'[u] = reply[u]
        BY <1>1, <3>1, <3>2
      <3>4. QED
        BY <2>1, <3>3 DEF Logged, LastLine
    <2>4. QED
      BY <2>2, <2>3
  <1>6. QED
    BY <1>4, <1>5

LEMMA LogOther ==
  ASSUME Typed, Own, Walk, ParsedLate, \A u \in Threads: Logged(u), OtherStep
  PROVE  \A u \in Threads: Logged(u)'
  <1>1. UNCHANGED <<run, parsed, log>>
    BY OtherOnly
  <1>2. ASSUME NEW u \in Threads PROVE Logged(u)'
    <2>1. Logged(u)
      OBVIOUS
    <2>2. ASSUME run[u].mode = "up" PROVE conn'[u] = conn[u]
      <3>1. pc[u] \in {"chain", "unwind"}
        BY <2>2, FrameFields DEF Way
      <3>2. QED
        BY <3>1, OtherOnly
    <2>3. ASSUME pc'[u] = "reply", parsed[conn'[u]]
          PROVE  pc[u] = "reply" /\ conn'[u] = conn[u] /\ reply'[u] = reply[u]
      <3>1. \/ pc'[u] = pc[u] /\ conn'[u] = conn[u] /\ reply'[u] = reply[u]
            \/ pc[u] = "reading" /\ conn'[u] = conn[u]
        BY <2>3, OtherOnly
      <3>2. QED
        BY <2>3, <3>1 DEF ParsedLate
    <2>4. QED
      BY <1>1, <2>1, <2>2, <2>3 DEF Logged, LastLine
  <1>3. QED
    BY <1>2

-----------------------------------------------------------------------------
LEMMA HistoryNext ==
  ASSUME Typed, Own, Walk, History, [ChainNext]_allVars
  PROVE  History'
  <1> USE DEF History
  <1>1. CASE UNCHANGED allVars
    <2>1. UNCHANGED <<chain, run, parsed, decorated, log, holder, heads, queue, pc, conn, reply>>
      BY <1>1 DEF allVars, chainVars, historyVars, vars, taskVars
    <2>2. Shielded' /\ ParsedLate'
      BY <2>1 DEF Shielded, Shields, ParsedLate, Queued
    <2>3. Outermost("cors", "recovery")' => CorsKept' /\ \A t \in Threads: CorsSet(t)'
      BY <2>1 DEF Outermost, CorsKept, CorsSet, Untold
    <2>4. Outermost("logger", "recovery")' => \A t \in Threads: Logged(t)'
      BY <2>1 DEF Outermost, Logged, LastLine
    <2>5. QED
      BY <2>2, <2>3, <2>4
  <1>2. CASE OtherStep
    <2>1. UNCHANGED <<chain, run>>
      BY <1>2, OtherOnly
    <2>2. Shielded' /\ ParsedLate'
      BY <1>2, <2>1, ParsedOther DEF Shielded, Shields
    <2>3. Outermost("cors", "recovery")' => CorsKept' /\ \A t \in Threads: CorsSet(t)'
      BY <1>2, <2>1, CorsOther DEF Outermost
    <2>4. Outermost("logger", "recovery")' => \A t \in Threads: Logged(t)'
      BY <1>2, <2>1, LogOther DEF Outermost
    <2>5. QED
      BY <2>2, <2>3, <2>4
  <1>3. ASSUME NEW t \in Threads, ChainStep(t) PROVE History'
    <2>1. chain' = chain
      BY <1>3, ChainOnly
    <2>2. Shielded' /\ ParsedLate'
      BY <1>3, ShieldedStep, ParsedStep
    <2>3. Outermost("cors", "recovery")' => CorsKept' /\ \A u \in Threads: CorsSet(u)'
      BY <1>3, <2>1, CorsStep DEF Outermost
    <2>4. Outermost("logger", "recovery")' => \A u \in Threads: Logged(u)'
      BY <1>3, <2>1, LogStep DEF Outermost
    <2>5. QED
      BY <2>2, <2>3, <2>4
  <1>4. QED
    BY <1>1, <1>2, <1>3 DEF ChainNext

LEMMA HistoryHolds == ChainSpec => [](Walk /\ History)
  <1>1. ChainInit => Walk /\ History
    BY WalkInit, HistoryInit
  <1>2. Typed /\ Own /\ Walk /\ History /\ [ChainNext]_allVars => (Walk /\ History)'
    BY WalkNext, HistoryNext
  <1>3. QED
    BY <1>1, <1>2, WalkHolds, PTL DEF ChainSpec

(* The chain keeps to its types, and a thread is in a frame of runChain()  *)
(* only while it handles a request in the chain or a stream.               *)
THEOREM ChainTypeCorrect == ChainSpec => []ChainTypeOK
  <1>1. Walk => ChainTypeOK
    <2> SUFFICES ASSUME Walk PROVE ChainTypeOK
      OBVIOUS
    <2>1. ASSUME NEW t \in Threads
          PROVE  /\ run[t].level <= Len(chain) + 1
                 /\ run[t].level > 0 => pc[t] \in InStream \cup {"chain", "unwind"}
                 /\ run[t].mode = "out" <=> run[t].level = 0
      <3>1. Way(t) /\ run[t].mode \in {"out", "down", "up", "throw"} /\ run[t].level <= Len(chain) + 1
            /\ (run[t].mode = "out" <=> run[t].level = 0) /\ run[t].level \in Nat
        BY FrameFields
      <3>2. run[t].level > 0 => run[t].mode # "out"
        BY <3>1
      <3>3. run[t].mode # "out" => pc[t] \in InStream \cup {"chain", "unwind"}
        BY <3>1 DEF Way
      <3>4. QED
        BY <3>1, <3>2, <3>3
    <2>2. QED
      BY <2>1 DEF Walk, ChainTyped, ChainTypeOK, InStream
  <1>2. QED
    BY <1>1, WalkHolds, PTL

(* Behind a Recovery registered first, no exception of a handler or of     *)
(* another middleware reaches handleConnection().                          *)
THEOREM RecoveryHolds == ChainSpec => []RecoveryShields
  <1>1. Walk /\ History => RecoveryShields
    <2> SUFFICES ASSUME Walk, Shielded, chain # <<>>, chain[1] = "recovery"
                 PROVE  \A t \in Threads: ~(run[t].level = 1 /\ run[t].mode = "throw")
      BY DEF History, RecoveryShields
    <2>1. 1 \in 1 .. Len(chain) /\ Shields(1)
      BY ChainAssumption DEF Walk, ChainTyped, Shields
    <2>2. QED
      BY <2>1 DEF Shielded
  <1>2. QED
    BY <1>1, HistoryHolds, PTL

(* With Cors first and Recovery next, every head that answers a request    *)
(* that could be parsed carries the CORS headers, those of a preflight, a  *)
(* refusal, a failure and a stream's preamble included.                    *)
THEOREM HeadersKept == ChainSpec => []CorsKept
  <1>1. History => CorsKept
    BY DEF History, CorsKept
  <1>2. QED
    BY <1>1, HistoryHolds, PTL

(* With Logger first and Recovery next, a request is logged before it is   *)
(* answered, and with the status of that answer.                           *)
THEOREM LogTellsTruth == ChainSpec => []LoggedAsAnswered
  <1>1. History => LoggedAsAnswered
    BY DEF History, LoggedAsAnswered, Logged, LastLine
  <1>2. QED
    BY <1>1, HistoryHolds, PTL
=============================================================================
