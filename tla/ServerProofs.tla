---------------------------- MODULE ServerProofs ----------------------------
(***************************************************************************)
(* Proofs about the server.                                                *)
(*                                                                         *)
(* Hub: type correctness and the cause of sessions that outlive their      *)
(* connection, for every value of the constants, and, for connections that *)
(* join once, the lifecycle invariant, session uniqueness and the          *)
(* refinement of Sessions.                                                 *)
(*                                                                         *)
(* Locks, for any number of goroutines and all calls: they wait for each   *)
(* other in a circle only where the load of a room's messages waits for    *)
(* itself, inside its nested read lock.                                    *)
(***************************************************************************)
EXTENDS Hub, Locks, TLAPS


-----------------------------------------------------------------------------
(* Queues                                                                  *)

\* Appending adds one element.
LEMMA ElemsAppend ==
  ASSUME NEW S, NEW q \in Seq(S), NEW x \in S
  PROVE  Elems(Append(q, x)) = Elems(q) \cup {x}
<1>1. /\ Len(Append(q, x)) = Len(q) + 1
      /\ \A i \in 1..Len(q) : Append(q, x)[i] = q[i]
      /\ Append(q, x)[Len(q) + 1] = x
  OBVIOUS
<1>2. 1..(Len(q) + 1) = (1..Len(q)) \cup {Len(q) + 1}
  <2>1. Len(q) \in Nat
    OBVIOUS
  <2> QED BY <2>1
<1> QED BY <1>1, <1>2 DEF Elems

\* A nonempty queue is its head and its tail.
LEMMA ElemsHeadTail ==
  ASSUME NEW S, NEW q \in Seq(S), q # <<>>
  PROVE  /\ Head(q) \in S /\ Tail(q) \in Seq(S)
         /\ Head(q) \in Elems(q)
         /\ Elems(Tail(q)) \subseteq Elems(q)
<1>1. /\ Len(q) \in Nat \ {0} /\ Head(q) = q[1]
      /\ Len(Tail(q)) = Len(q) - 1
      /\ \A i \in 1..Len(Tail(q)) : Tail(q)[i] = q[i + 1]
  OBVIOUS
<1> QED BY <1>1 DEF Elems

\* The elements of a queue are of its type.
LEMMA ElemsType ==
  ASSUME NEW S, NEW q \in Seq(S)
  PROVE  Elems(q) \subseteq S
BY DEF Elems

-----------------------------------------------------------------------------
(* Type correctness                                                        *)

LEMMA AtMostType ==
  ASSUME NEW n \in Nat, NEW cap \in Nat
  PROVE  AtMost(n, cap) \in 0..cap
BY DEF AtMost

LEMMA OfferedType ==
  ASSUME TypeOK, HubAssumption, NEW to, NEW n \in Nat
  PROVE  Offered(to, n) \in [Clients -> 0..SendCap]
<1>1. ASSUME NEW c \in Clients
      PROVE  AtMost(buf[c] + n, SendCap) \in 0..SendCap /\ buf[c] \in 0..SendCap
  <2>1. buf[c] + n \in Nat /\ buf[c] \in 0..SendCap
    BY DEF TypeOK
  <2> QED BY <2>1, AtMostType DEF HubAssumption
<1> QED BY <1>1 DEF Offered

LEMMA TrySendType ==
  ASSUME TypeOK, HubAssumption, NEW to, NEW n \in Nat,
         NEW who \in {"loop", "guarded", "handler"}, TrySend(to, n, who)
  PROVE  buf' \in [Clients -> 0..SendCap] /\ crash' \in {"no", "loop", "guarded", "handler", "main"}
BY OfferedType DEF TrySend, TypeOK

LEMMA PublishedType ==
  ASSUME TypeOK, HubAssumption, NEW n \in Nat
  PROVE  Published(n) \in 0..ChanCap
BY AtMostType, broadcastQ + n \in Nat DEF Published, TypeOK, HubAssumption

LEMMA InitType == Init => TypeOK
BY HubAssumption DEF Init, TypeOK, HubAssumption, ReaderStates, WriterStates

\* The steps of a connection's two pumps keep the types.
LEMMA ConnectionType ==
  ASSUME TypeOK, NEW c \in Clients, ConnectionNext(c)
  PROVE  TypeOK'
<1> USE HubAssumption DEF HubAssumption
<1> USE DEF pumps, chans, ReaderStep, ReaderStates, WriterStates
<1>1. CASE HandleWebSocket(c)
  BY <1>1 DEF HandleWebSocket, TypeOK
<1>2. CASE PeerGone(c)
  BY <1>2 DEF PeerGone, TypeOK
<1>3. CASE Reuse(c)
  BY <1>3 DEF Reuse, TypeOK
<1>4. CASE BeginJoin(c)
  BY <1>4 DEF BeginJoin, TypeOK
<1>5. CASE \E u \in Users : SetUsername(c, u)
  BY <1>5 DEF SetUsername, TypeOK
<1>6. CASE Register(c)
  BY <1>6 DEF Register, TypeOK
<1>7. CASE DirectSend(c)
  <2>1. TrySend({c}, 1, "handler")
    BY <1>7 DEF DirectSend
  <2>2. /\ buf' \in [Clients -> 0..SendCap]
        /\ crash' \in {"no", "loop", "guarded", "handler", "main"}
    BY <2>1, TrySendType
  <2> QED BY <1>7, <2>2 DEF DirectSend, TypeOK
<1>8. CASE Announce(c)
  <2>1. broadcastQ' \in 0..ChanCap
    BY <1>8, PublishedType DEF Announce
  <2> QED BY <1>8, <2>1 DEF Announce, TypeOK
<1>9. CASE Publish(c)
  <2>1. broadcastQ' \in 0..ChanCap
    BY <1>9, PublishedType DEF Publish
  <2> QED BY <1>9, <2>1 DEF Publish, TypeOK
<1>10. CASE BeginPublishBlocking(c)
  BY <1>10 DEF BeginPublishBlocking, TypeOK
<1>11. CASE PublishBlocking(c)
  BY <1>11 DEF PublishBlocking, TypeOK
<1>12. CASE ReadError(c)
  BY <1>12 DEF ReadError, TypeOK
<1>13. CASE ReaderExit(c)
  BY <1>13 DEF ReaderExit, ReaderLeaves, TypeOK
<1>14. CASE WriteMessage(c)
  BY <1>14 DEF WriteMessage, TypeOK
<1>15. CASE WriterStop(c)
  BY <1>15 DEF WriterStop, TypeOK
<1>16. CASE WriterExit(c)
  BY <1>16 DEF WriterExit, OfferedToUnregister, TypeOK
<1>17. CASE SpawnedUnregister(c)
  BY <1>17 DEF SpawnedUnregister, TypeOK
<1> QED
  BY <1>1, <1>2, <1>3, <1>4, <1>5, <1>6, <1>7, <1>8, <1>9, <1>10, <1>11, <1>12,
     <1>13, <1>14, <1>15, <1>16, <1>17 DEF ConnectionNext

\* The steps of Run keep the types.
LEMMA RunType ==
  ASSUME TypeOK, HubNext
  PROVE  TypeOK'
<1> USE HubAssumption DEF HubAssumption
<1> USE DEF pumps, chans
<1>1. CASE HubEnter
  BY <1>1, ElemsHeadTail DEF HubEnter, TypeOK
<1>2. ASSUME NEW c \in Clients, HubTakeover(c)
      PROVE  TypeOK'
  <2>1. Head(registerQ) \in Clients /\ Tail(registerQ) \in Seq(Clients)
    BY <1>2, ElemsHeadTail DEF HubTakeover, TypeOK
  <2>2. Offered({c}, 1) \in [Clients -> 0..SendCap]
    BY OfferedType
  <2>3. c \in clients
    BY <1>2 DEF HubTakeover, MaybeRivals
  <2>4. CASE ~open[c]
    BY <1>2, <2>1, <2>4 DEF HubTakeover, TypeOK
  <2>5. CASE open[c]
    <3>1. kick' \in [old : Clients, new : Clients]
      BY <1>2, <2>1, <2>5 DEF HubTakeover
    <3>2. told' \in [Clients -> {"no", "queued", "told", "lost"}]
      BY <1>2, <2>5 DEF HubTakeover, TypeOK
    <3> QED BY <1>2, <2>1, <2>2, <2>5, <3>1, <3>2 DEF HubTakeover, TypeOK, Without
  <2> QED BY <2>4, <2>5
<1>3. CASE HubFinishTakeover
  BY <1>3 DEF HubFinishTakeover, TypeOK, LockFree
<1>4. CASE HubUnregister
  <2> DEFINE c == Head(unregisterQ)
  <2>1. c \in Clients /\ Tail(unregisterQ) \in Seq(Clients)
    BY <1>4, ElemsHeadTail DEF HubUnregister, TypeOK
  <2>2. /\ buf' \in [Clients -> 0..SendCap]
        /\ crash' \in {"no", "loop", "guarded", "handler", "main"}
    <3>1. CASE c \in clients /\ ~open[c]
      BY <1>4, <3>1 DEF HubUnregister, TypeOK
    <3>2. CASE ~(c \in clients /\ ~open[c])
      <4>1. PICK n \in Nat : TrySend(Without(c), n, "loop")
        BY <1>4, <3>2 DEF HubUnregister
      <4> QED BY <4>1, TrySendType
    <3> QED BY <3>1, <3>2
  <2> QED BY <1>4, <2>1, <2>2 DEF HubUnregister, TypeOK, Without
<1>5. CASE HubBroadcast
  <2>1. TrySend(clients, 1, "loop")
    BY <1>5 DEF HubBroadcast
  <2>2. /\ buf' \in [Clients -> 0..SendCap]
        /\ crash' \in {"no", "loop", "guarded", "handler", "main"}
    BY <2>1, TrySendType
  <2> QED BY <1>5, <2>2 DEF HubBroadcast, TypeOK
<1>6. CASE HubTick
  <2>1. TrySend(clients, 1, "loop")
    BY <1>6 DEF HubTick
  <2>2. /\ buf' \in [Clients -> 0..SendCap]
        /\ crash' \in {"no", "loop", "guarded", "handler", "main"}
    BY <2>1, TrySendType
  <2> QED BY <1>6, <2>2 DEF HubTick, TypeOK
<1>7. CASE HubReturn
  BY <1>7 DEF HubReturn, TypeOK
<1> QED BY <1>1, <1>2, <1>3, <1>4, <1>5, <1>6, <1>7 DEF HubNext

\* Every step keeps the types.
LEMMA NextType ==
  ASSUME TypeOK, [Next]_vars
  PROVE  TypeOK'
<1> USE HubAssumption DEF HubAssumption
<1> USE DEF pumps, chans
<1>1. CASE \E c \in Clients : ConnectionNext(c)
  BY <1>1, ConnectionType
<1>2. ASSUME NEW to \in SUBSET Clients, GuardedSend(to)
      PROVE  TypeOK'
  <2>1. TrySend(to, 1, "guarded")
    BY <1>2 DEF GuardedSend
  <2>2. /\ buf' \in [Clients -> 0..SendCap]
        /\ crash' \in {"no", "loop", "guarded", "handler", "main"}
    BY <2>1, TrySendType
  <2> QED BY <1>2, <2>2 DEF GuardedSend, TypeOK
<1>3. CASE HubNext
  BY <1>3, RunType
<1>4. CASE BeginShutdown
  BY <1>4 DEF BeginShutdown, TypeOK
<1>5. CASE Stop
  BY <1>5 DEF Stop, TypeOK
<1>6. CASE CloseAll
  BY <1>6 DEF CloseAll, TypeOK
<1>7. CASE Ended \/ UNCHANGED vars
  BY <1>7 DEF Ended, vars, TypeOK
<1> QED BY <1>1, <1>2, <1>3, <1>4, <1>5, <1>6, <1>7 DEF Next

\* The hub's state is well typed whatever the capacities, the number of
\* connections and of join frames: no buffer and no channel exceeds its capacity.
THEOREM TypeCorrect == Spec => []TypeOK
BY InitType, NextType, PTL DEF Spec

-----------------------------------------------------------------------------
(* The lifecycle of a connection that joins once                           *)

LEMMA InitLifecycle == Init => LifecycleInv
<1> SUFFICES ASSUME Init PROVE LifecycleInv
  OBVIOUS
<1>1. Elems(registerQ) = {}
  BY DEF Init, Elems
<1> QED
  BY <1>1 DEF Init, LifecycleInv, Staged, OneStage, ClosedIsSpent, JoinFrames,
     TakeoverInv, SessionUnique, LoopSafe, Entering, Joining, LockFree

\* Steps that move ReadPump outside the join, or not at all, keep the invariant.
LEMMA LifecycleFrame ==
  ASSUME TypeOK, LifecycleInv,
         UNCHANGED <<clients, registerQ, kick, open, name, joins>>,
         \A c \in Clients :
           reader'[c] # reader[c] =>
             reader'[c] \notin {"none", "naming", "registering"},
         LoopSafe'
  PROVE  LifecycleInv'
<1>1. Joining' \subseteq Joining
  BY DEF Joining
<1>2. Entering' = Entering /\ LockFree' = LockFree
  BY DEF Entering, LockFree
<1>3. Entering \subseteq Clients /\ Elems(registerQ) \subseteq Clients
  BY ElemsType DEF Entering, TypeOK, LockFree
<1>4. Elems(registerQ') = Elems(registerQ)
  OBVIOUS
<1>5. Staged'
  BY <1>1, <1>2, <1>4 DEF LifecycleInv, Staged
<1>6. OneStage'
  BY <1>2, <1>4 DEF LifecycleInv, OneStage
<1>7. ClosedIsSpent'
  BY <1>1 DEF LifecycleInv, ClosedIsSpent
<1>8. JoinFrames'
  BY <1>1 DEF LifecycleInv, JoinFrames
<1>9. TakeoverInv' /\ SessionUnique'
  BY <1>2 DEF LifecycleInv, TakeoverInv, SessionUnique
<1> QED BY <1>5, <1>6, <1>7, <1>8, <1>9 DEF LifecycleInv

\* A send to registered connections, made under h.mu, does not panic.
LEMMA SendToRegistered ==
  ASSUME LifecycleInv, NEW to \in SUBSET clients, NEW n, NEW who,
         TrySend(to, n, who)
  PROVE  UNCHANGED crash
BY DEF LifecycleInv, Staged, TrySend

\* The steps of a connection's pumps keep the invariant.
LEMMA ConnectionLifecycle ==
  ASSUME MaxJoins = 1, TypeOK, LifecycleInv, NEW c \in Clients, ConnectionNext(c)
  PROVE  LifecycleInv'
<1> USE DEF pumps, chans, ReaderStep
<1>0. Entering \subseteq Clients /\ Elems(registerQ) \subseteq Clients
  BY ElemsType DEF Entering, TypeOK, LockFree
<1>1. CASE HandleWebSocket(c)
  BY <1>1, LifecycleFrame DEF HandleWebSocket, TypeOK, LoopSafe, LifecycleInv
<1>2. CASE PeerGone(c)
  BY <1>2, LifecycleFrame DEF PeerGone, LoopSafe, LifecycleInv
<1>3. CASE Reuse(c)
  BY <1>3, <1>0 DEF Reuse, TypeOK, LifecycleInv, Staged, OneStage, ClosedIsSpent,
     JoinFrames, TakeoverInv, SessionUnique, LoopSafe, Entering, Joining, LockFree
<1>4. CASE BeginJoin(c)
  <2>1. joins[c] = 0 /\ c \notin Elems(registerQ) \cup Entering \cup clients
    BY <1>4 DEF BeginJoin, TypeOK, LifecycleInv, Staged
  <2> QED
    BY <1>4, <2>1, <1>0 DEF BeginJoin, TypeOK, LifecycleInv, Staged, OneStage,
       ClosedIsSpent, JoinFrames, TakeoverInv, SessionUnique, LoopSafe, Entering,
       Joining, LockFree
<1>5. ASSUME NEW u \in Users, SetUsername(c, u)
      PROVE  LifecycleInv'
  <2>1. c \notin Elems(registerQ) \cup Entering \cup clients
    BY <1>5 DEF SetUsername, LifecycleInv, Staged, Joining
  <2> QED
    BY <1>5, <2>1, <1>0 DEF SetUsername, TypeOK, LifecycleInv, Staged, OneStage,
       ClosedIsSpent, JoinFrames, TakeoverInv, SessionUnique, LoopSafe, Entering,
       Joining, LockFree
<1>6. CASE Register(c)
  <2>1. c \notin Elems(registerQ) \cup Entering \cup clients
    BY <1>6 DEF Register, LifecycleInv, Staged, Joining
  <2>2. Elems(registerQ') = Elems(registerQ) \cup {c}
    BY <1>6, ElemsAppend DEF Register, TypeOK
  <2>3. \A i, j \in 1..Len(registerQ') : registerQ'[i] = registerQ'[j] => i = j
    BY <1>6, <2>1 DEF Register, TypeOK, LifecycleInv, OneStage, Elems
  <2> QED
    BY <1>6, <2>1, <2>2, <2>3, <1>0 DEF Register, TypeOK, LifecycleInv, Staged,
       OneStage, ClosedIsSpent, JoinFrames, TakeoverInv, SessionUnique, LoopSafe,
       Entering, Joining, LockFree
<1>7. CASE DirectSend(c)
  BY <1>7, LifecycleFrame DEF DirectSend, TrySend, LoopSafe, LifecycleInv
<1>8. CASE Announce(c)
  BY <1>8, LifecycleFrame DEF Announce, TypeOK, LoopSafe, LifecycleInv
<1>9. CASE Publish(c)
  BY <1>9, LifecycleFrame DEF Publish, LoopSafe, LifecycleInv
<1>10. CASE BeginPublishBlocking(c)
  BY <1>10, LifecycleFrame DEF BeginPublishBlocking, TypeOK, LoopSafe, LifecycleInv
<1>11. CASE PublishBlocking(c)
  BY <1>11, LifecycleFrame DEF PublishBlocking, TypeOK, LoopSafe, LifecycleInv
<1>12. CASE ReadError(c)
  BY <1>12, LifecycleFrame DEF ReadError, TypeOK, LoopSafe, LifecycleInv
<1>13. CASE ReaderExit(c)
  BY <1>13, LifecycleFrame
     DEF ReaderExit, ReaderLeaves, TypeOK, LoopSafe, LifecycleInv
<1>14. CASE WriteMessage(c) \/ WriterStop(c) \/ WriterExit(c) \/ SpawnedUnregister(c)
  BY <1>14, LifecycleFrame
     DEF WriteMessage, WriterStop, WriterExit, SpawnedUnregister, LoopSafe,
         LifecycleInv
<1> QED
  BY <1>1, <1>2, <1>3, <1>4, <1>5, <1>6, <1>7, <1>8, <1>9, <1>10, <1>11, <1>12,
     <1>13, <1>14 DEF ConnectionNext

\* The steps of Run keep the invariant.
LEMMA RunLifecycle ==
  ASSUME MaxJoins = 1, TypeOK, LifecycleInv, HubNext
  PROVE  LifecycleInv'
<1> USE DEF pumps, chans
<1> DEFINE h == Head(registerQ)
<1>0. Entering \subseteq Clients /\ Elems(registerQ) \subseteq Clients
  BY ElemsType DEF Entering, TypeOK, LockFree
<1>1. ASSUME registerQ # <<>>, registerQ' = Tail(registerQ)
      PROVE  /\ h \in Clients /\ h \notin clients \cup Entering
             /\ open[h] /\ joins[h] # 0 /\ h \notin Joining /\ name[h] \in Users
             /\ Elems(registerQ') \subseteq Elems(registerQ) \ {h}
             /\ \A i, j \in 1..Len(registerQ') : registerQ'[i] = registerQ'[j] => i = j
  <2>1. /\ Len(registerQ) \in Nat \ {0} /\ h = registerQ[1]
        /\ Len(registerQ') = Len(registerQ) - 1
        /\ \A i \in 1..Len(registerQ') : registerQ'[i] = registerQ[i + 1]
    BY <1>1 DEF TypeOK
  <2>2. h \in Elems(registerQ)
    BY <2>1 DEF Elems
  <2>3. /\ \A i \in 1..Len(registerQ') : i + 1 \in 1..Len(registerQ) /\ i + 1 # 1
        /\ \A i, j \in 1..Len(registerQ') : i + 1 = j + 1 => i = j
        /\ 1 \in 1..Len(registerQ)
    BY <2>1
  <2>4. Elems(registerQ') \subseteq Elems(registerQ) \ {h}
    BY <2>1, <2>3 DEF Elems, LifecycleInv, OneStage
  <2>5. \A i, j \in 1..Len(registerQ') : registerQ'[i] = registerQ'[j] => i = j
    BY <2>1, <2>3 DEF LifecycleInv, OneStage
  <2> QED BY <2>2, <2>4, <2>5, <1>0 DEF LifecycleInv, Staged, OneStage
<1>2. CASE HubEnter
  <2>1. \A d \in clients : name[d] # name[h]
    BY <1>1, <1>2, HubAssumption DEF HubEnter, Rivals, HubAssumption
  <2> QED
    BY <1>1, <1>2, <2>1, <1>0 DEF HubEnter, TypeOK, LifecycleInv, Staged, OneStage,
       ClosedIsSpent, JoinFrames, TakeoverInv, SessionUnique, LoopSafe, Entering,
       Joining, LockFree
<1>3. ASSUME NEW old \in Clients, HubTakeover(old)
      PROVE  LifecycleInv'
  <2>1. old \in clients /\ name[old] = name[h] /\ open[old]
    BY <1>1, <1>3, HubAssumption
       DEF HubTakeover, MaybeRivals, LifecycleInv, Staged, HubAssumption
  <2>2. \A d \in clients \ {old} : name[d] # name[h]
    BY <2>1 DEF LifecycleInv, SessionUnique
  <2>3. kick' = [old |-> old, new |-> h] /\ ~LockFree' /\ Entering' = {h}
    <3>1. kick' = [old |-> old, new |-> h]
      BY <1>3, <2>1 DEF HubTakeover
    <3>2. kick'.new = h /\ kick' # NoKick
      BY <3>1, <1>1, <1>3, HubAssumption DEF HubTakeover, NoKick, HubAssumption
    <3> QED BY <3>1, <3>2 DEF LockFree, Entering
  <2>4. /\ registerQ' = Tail(registerQ) /\ clients' = clients \ {old}
        /\ open' = [open EXCEPT ![old] = FALSE]
        /\ UNCHANGED <<name, joins, reader, crash>> /\ LockFree
        /\ Joining' = Joining
    BY <1>3, <2>1 DEF HubTakeover, Without, Joining
  <2>5. /\ h \in Clients /\ h # old /\ h \notin clients
        /\ open[h] /\ joins[h] # 0 /\ h \notin Joining /\ name[h] \in Users
        /\ Elems(registerQ') \subseteq Elems(registerQ) \ {h}
    BY <1>1, <1>3, <2>1 DEF HubTakeover
  <2>6. old \notin Elems(registerQ) /\ joins[old] # 0 /\ old \notin Joining
    BY <2>1 DEF LifecycleInv, OneStage, Staged
  <2>7. Staged'
    BY <2>3, <2>4, <2>5, <2>6, <1>0 DEF LifecycleInv, Staged, TypeOK
  <2>8. OneStage'
    <3>1. \A i, j \in 1..Len(registerQ') : registerQ'[i] = registerQ'[j] => i = j
      BY <1>1, <1>3 DEF HubTakeover
    <3> QED BY <3>1, <2>3, <2>4, <2>5 DEF LifecycleInv, OneStage
  <2>9. ClosedIsSpent' /\ JoinFrames'
    BY <2>4, <2>6 DEF LifecycleInv, ClosedIsSpent, JoinFrames, TypeOK
  <2>10. TakeoverInv' /\ SessionUnique' /\ LoopSafe'
    BY <2>1, <2>2, <2>3, <2>4
       DEF LifecycleInv, TakeoverInv, SessionUnique, LoopSafe, TypeOK
  <2> QED BY <2>7, <2>8, <2>9, <2>10 DEF LifecycleInv
<1>4. CASE HubFinishTakeover
  BY <1>4, <1>0 DEF HubFinishTakeover, TypeOK, LifecycleInv, Staged, OneStage,
     ClosedIsSpent, JoinFrames, TakeoverInv, SessionUnique, LoopSafe, Entering,
     Joining, LockFree
<1>5. CASE HubUnregister
  <2> DEFINE c == Head(unregisterQ)
  <2>1. c \in Clients
    BY <1>5, ElemsHeadTail DEF HubUnregister, TypeOK
  <2>2. ~(c \in clients /\ ~open[c])
    BY DEF LifecycleInv, Staged
  <2>3. PICK n : TrySend(Without(c), n, "loop")
    BY <1>5, <2>2 DEF HubUnregister
  <2>4. UNCHANGED crash
    BY <2>3, SendToRegistered DEF Without
  <2> QED
    BY <1>5, <2>1, <2>4, <1>0 DEF HubUnregister, Without, TypeOK, LifecycleInv,
       Staged, OneStage, ClosedIsSpent, JoinFrames, TakeoverInv, SessionUnique,
       LoopSafe, Entering, Joining, LockFree
<1>6. CASE HubBroadcast \/ HubTick
  <2>1. TrySend(clients, 1, "loop")
    BY <1>6 DEF HubBroadcast, HubTick
  <2>2. UNCHANGED crash
    BY <2>1, SendToRegistered
  <2> QED
    BY <1>6, <2>2, LifecycleFrame DEF HubBroadcast, HubTick, LoopSafe, LifecycleInv
<1>7. CASE HubReturn
  BY <1>7, LifecycleFrame DEF HubReturn, LoopSafe, LifecycleInv
<1> QED BY <1>2, <1>3, <1>4, <1>5, <1>6, <1>7 DEF HubNext

\* Every step keeps the invariant.
LEMMA NextLifecycle ==
  ASSUME MaxJoins = 1, TypeOK, LifecycleInv, [Next]_vars
  PROVE  LifecycleInv'
<1> USE DEF pumps, chans
<1>1. CASE \E c \in Clients : ConnectionNext(c)
  BY <1>1, ConnectionLifecycle
<1>2. ASSUME NEW to \in SUBSET Clients, GuardedSend(to)
      PROVE  LifecycleInv'
  <2>1. UNCHANGED crash
    BY <1>2, SendToRegistered DEF GuardedSend
  <2> QED BY <1>2, <2>1, LifecycleFrame DEF GuardedSend, LoopSafe, LifecycleInv
<1>3. CASE HubNext
  BY <1>3, RunLifecycle
<1>4. CASE BeginShutdown \/ Stop
  BY <1>4, LifecycleFrame DEF BeginShutdown, Stop, LoopSafe, LifecycleInv
<1>5. CASE CloseAll
  <2>1. /\ \A c \in clients : open[c]
        /\ Elems(registerQ) \subseteq Clients
    BY ElemsType DEF LifecycleInv, Staged, TypeOK
  <2> QED
    BY <1>5, <2>1 DEF CloseAll, TypeOK, LifecycleInv, Staged, OneStage,
       ClosedIsSpent, JoinFrames, TakeoverInv, SessionUnique, LoopSafe, Entering,
       Joining, LockFree
<1>6. CASE Ended \/ UNCHANGED vars
  BY <1>6, LifecycleFrame DEF Ended, vars, LoopSafe, LifecycleInv
<1> QED BY <1>1, <1>2, <1>3, <1>4, <1>5, <1>6 DEF Next

\* When a connection joins once - the web client sends one join frame per socket -
\* the lifecycle invariant holds for every number of connections and users and
\* every capacity.
THEOREM Lifecycle ==
  ASSUME MaxJoins = 1
  PROVE  Spec => []LifecycleInv
<1>1. Init => TypeOK /\ LifecycleInv
  BY InitType, InitLifecycle
<1>2. TypeOK /\ LifecycleInv /\ [Next]_vars => (TypeOK /\ LifecycleInv)'
  BY NextType, NextLifecycle
<1> QED BY <1>1, <1>2, PTL DEF Spec

\* Then a username has at most one registered session ...
THEOREM SessionsUnique ==
  ASSUME MaxJoins = 1
  PROVE  Spec => []SessionUnique
<1>1. LifecycleInv => SessionUnique
  BY DEF LifecycleInv
<1> QED BY Lifecycle, <1>1, PTL

\* ... the channel of a registered connection is open ...
THEOREM RegisteredAreOpen ==
  ASSUME MaxJoins = 1
  PROVE  Spec => []RegisteredOpen
<1>1. LifecycleInv => RegisteredOpen
  BY DEF LifecycleInv, Staged, RegisteredOpen
<1> QED BY Lifecycle, <1>1, PTL

\* ... and neither Run, nor a send under h.mu, nor Shutdown panics on a channel.
THEOREM LoopsAreSafe ==
  ASSUME MaxJoins = 1
  PROVE  Spec => []LoopSafe
<1>1. LifecycleInv => LoopSafe
  BY DEF LifecycleInv
<1> QED BY Lifecycle, <1>1, PTL

-----------------------------------------------------------------------------
(* The hub implements Sessions                                             *)

LEMMA InitRefines == Init => Registry!Init
BY DEF Init, Registry!Init, SessionOf, Held, LockFree

\* Steps that change neither who holds a session nor a holder's name are stutters.
LEMMA SessionFrame ==
  ASSUME Held' = Held, \A c \in Held : name'[c] = name[c]
  PROVE  UNCHANGED SessionOf
<1>1. \A u : {c \in Held' : name'[c] = u} = {c \in Held : name[c] = u}
  OBVIOUS
<1> QED BY <1>1 DEF SessionOf

LEMMA HeldType ==
  ASSUME TypeOK
  PROVE  Held \subseteq Clients
BY DEF TypeOK, Held, LockFree

LEMMA ConnectionRefines ==
  ASSUME MaxJoins = 1, TypeOK, LifecycleInv, NEW c \in Clients, ConnectionNext(c)
  PROVE  UNCHANGED SessionOf
<1> USE DEF pumps, chans, ReaderStep
<1>0. /\ Held \subseteq Clients
      /\ \A d \in Held : joins[d] # 0 /\ d \notin Joining
  BY HeldType DEF Held, LifecycleInv, Staged, ClosedIsSpent, TakeoverInv, TypeOK, LockFree
<1>1. /\ UNCHANGED <<clients, kick>>
      /\ UNCHANGED name \/ Reuse(c) \/ BeginJoin(c) \/ \E u \in Users : SetUsername(c, u)
  BY DEF ConnectionNext, HandleWebSocket, PeerGone, Reuse, BeginJoin, SetUsername,
     Register, DirectSend, Announce, Publish, BeginPublishBlocking, PublishBlocking,
     ReadError, ReaderExit, ReaderLeaves, WriteMessage, WriterStop, WriterExit,
     SpawnedUnregister
<1>2. Held' = Held
  BY <1>1 DEF Held, LockFree
<1>3. CASE UNCHANGED name
  BY <1>2, <1>3, SessionFrame
<1>4. ASSUME c \notin Held, name' = [name EXCEPT ![c] = name'[c]]
      PROVE  UNCHANGED SessionOf
  BY <1>0, <1>2, <1>4, SessionFrame DEF TypeOK
<1>5. CASE Reuse(c)
  <2>1. c \notin Held
    BY <1>5 DEF Reuse, Held
  <2> QED BY <1>4, <1>5, <2>1 DEF Reuse, TypeOK
<1>6. CASE BeginJoin(c)
  <2>1. c \notin Held
    BY <1>0, <1>6 DEF BeginJoin, TypeOK
  <2> QED BY <1>4, <1>6, <2>1 DEF BeginJoin, TypeOK
<1>7. ASSUME NEW u \in Users, SetUsername(c, u)
      PROVE  UNCHANGED SessionOf
  <2>1. c \notin Held
    BY <1>0, <1>7 DEF SetUsername, Joining
  <2> QED BY <1>4, <1>7, <2>1 DEF SetUsername, TypeOK
<1> QED BY <1>1, <1>3, <1>5, <1>6, <1>7

\* The steps of Run log users in and out, one session at a time.
LEMMA RunRefines ==
  ASSUME MaxJoins = 1, TypeOK, LifecycleInv, HubNext
  PROVE  [Registry!Next]_SessionOf
<1> USE DEF pumps, chans
<1> DEFINE h == Head(registerQ)
<1>0. Held \subseteq Clients
  BY HeldType
<1>1. CASE HubEnter
  <2>1. /\ h \in Clients /\ h \notin clients /\ name[h] \in Users
        /\ LockFree /\ clients' = clients \cup {h}
        /\ UNCHANGED <<name, kick>>
    BY <1>1, ElemsHeadTail DEF HubEnter, TypeOK, LifecycleInv, Staged, OneStage
  <2>2. \A d \in clients : name[d] # name[h]
    BY <1>1, <2>1, HubAssumption DEF HubEnter, Rivals, HubAssumption
  <2>3. Held = clients /\ Held' = clients \cup {h}
    BY <2>1 DEF Held, LockFree
  <2>4. SessionOf' = [SessionOf EXCEPT ![name[h]] = {h}]
    BY <2>1, <2>2, <2>3 DEF SessionOf
  <2>5. \A v \in Users : h \notin SessionOf[v]
    BY <2>1, <2>3 DEF SessionOf
  <2> QED BY <2>1, <2>4, <2>5 DEF Registry!Next, Registry!Login
<1>2. ASSUME NEW old \in Clients, HubTakeover(old)
      PROVE  UNCHANGED SessionOf
  <2>1. old \in clients /\ open[old] /\ LockFree
    BY <1>2 DEF HubTakeover, MaybeRivals, LifecycleInv, Staged
  <2>2. /\ kick' = [old |-> old, new |-> h] /\ clients' = clients \ {old}
        /\ UNCHANGED name
    BY <1>2, <2>1 DEF HubTakeover, Without
  <2>3. old # NoName
    BY HubAssumption DEF HubAssumption
  <2>4. ~LockFree' /\ kick'.old = old
    BY <2>2, <2>3 DEF LockFree, NoKick
  <2>5. Held' = Held
    BY <2>1, <2>2, <2>4 DEF Held
  <2> QED BY <2>2, <2>5, SessionFrame
<1>3. CASE HubFinishTakeover
  <2> DEFINE o == kick.old
             n == kick.new
  <2>1. /\ o \in Clients /\ n \in Clients /\ n \notin clients /\ o \notin clients
        /\ n # o /\ name[n] \in Users /\ name[o] = name[n]
        /\ \A d \in clients : name[d] # name[n]
    BY <1>3 DEF HubFinishTakeover, LockFree, TypeOK, LifecycleInv, Staged, OneStage,
       TakeoverInv, Entering
  <2>2. /\ Held = clients \cup {o} /\ Held' = clients \cup {n} /\ UNCHANGED name
    BY <1>3 DEF HubFinishTakeover, Held, LockFree
  <2>3. SessionOf' = [SessionOf EXCEPT ![name[n]] = {n}]
    BY <2>1, <2>2 DEF SessionOf
  <2>4. \A v \in Users : n \notin SessionOf[v]
    BY <2>1, <2>2 DEF SessionOf
  <2> QED BY <2>1, <2>3, <2>4 DEF Registry!Next, Registry!Login
<1>4. CASE HubUnregister
  <2> DEFINE c == Head(unregisterQ)
  <2>1. /\ clients' = clients \ {c} /\ LockFree /\ UNCHANGED <<name, kick>>
    BY <1>4 DEF HubUnregister, Without
  <2>2. Held = clients /\ Held' = clients \ {c}
    BY <2>1 DEF Held, LockFree
  <2>3. CASE c \in clients
    <3>1. name[c] \in Users /\ \A d \in clients : name[d] = name[c] => d = c
      BY <2>3 DEF LifecycleInv, Staged, SessionUnique
    <3>2. SessionOf' = [SessionOf EXCEPT ![name[c]] = {}]
      BY <2>1, <2>2, <2>3, <3>1 DEF SessionOf
    <3> QED BY <3>1, <3>2 DEF Registry!Next, Registry!Logout
  <2>4. CASE c \notin clients
    BY <2>1, <2>2, <2>4, SessionFrame
  <2> QED BY <2>3, <2>4
<1>5. CASE HubBroadcast \/ HubTick \/ HubReturn
  BY <1>5, SessionFrame DEF HubBroadcast, HubTick, HubReturn, Held, LockFree
<1> QED BY <1>1, <1>2, <1>3, <1>4, <1>5 DEF HubNext

LEMMA NextRefines ==
  ASSUME MaxJoins = 1, TypeOK, LifecycleInv, [Next]_vars
  PROVE  [Registry!Next]_SessionOf
<1> USE DEF pumps, chans
<1>1. CASE \E c \in Clients : ConnectionNext(c)
  BY <1>1, ConnectionRefines
<1>2. CASE HubNext
  BY <1>2, RunRefines
<1>3. CASE CloseAll
  <2>1. Held = clients /\ Held' = {} /\ UNCHANGED name
    BY <1>3 DEF CloseAll, Held, LockFree, LifecycleInv, Staged
  <2>2. SessionOf' = [u \in Users |-> {}]
    BY <2>1 DEF SessionOf
  <2> QED BY <2>2 DEF Registry!Next, Registry!CloseAll
<1>4. CASE \/ \E to \in SUBSET Clients : GuardedSend(to)
           \/ BeginShutdown \/ Stop \/ Ended \/ UNCHANGED vars
  BY <1>4, SessionFrame
     DEF GuardedSend, BeginShutdown, Stop, Ended, vars, Held, LockFree
<1> QED BY <1>1, <1>2, <1>3, <1>4 DEF Next

\* When a connection joins once, the hub implements Sessions: every step of its
\* goroutines is a login, a logout, the closing of all sessions, or no step, and
\* no login or logout touches another user's session.
THEOREM HubImplementsSessions ==
  ASSUME MaxJoins = 1
  PROVE  Spec => ImplementsSessions
<1>1. Init => Registry!Init
  BY InitRefines
<1>2. TypeOK /\ LifecycleInv /\ [Next]_vars => [Registry!Next]_SessionOf
  BY NextRefines
<1> QED
  BY <1>1, <1>2, TypeCorrect, Lifecycle, PTL
     DEF Spec, ImplementsSessions, Registry!Spec

-----------------------------------------------------------------------------
(* Sessions that outlive their connection                                  *)

\* What a queue holds, its head or the rest of it holds.
LEMMA ElemsSplit ==
  ASSUME NEW S, NEW q \in Seq(S), q # <<>>
  PROVE  Elems(q) \subseteq {Head(q)} \cup Elems(Tail(q))
<1>1. /\ Len(q) \in Nat \ {0} /\ Head(q) = q[1]
      /\ Len(Tail(q)) = Len(q) - 1
      /\ \A i \in 1..Len(Tail(q)) : Tail(q)[i] = q[i + 1]
  OBVIOUS
<1>2. ASSUME NEW i \in 1..Len(q)
      PROVE  q[i] \in {Head(q)} \cup Elems(Tail(q))
  <2>1. CASE i = 1
    BY <1>1, <2>1
  <2>2. CASE i # 1
    <3>1. i - 1 \in 1..Len(Tail(q)) /\ Tail(q)[i - 1] = q[i]
      BY <1>1, <2>2
    <3> QED BY <3>1 DEF Elems
  <2> QED BY <2>1, <2>2
<1> QED BY <1>2 DEF Elems

\* Whatever is registered, being entered or waiting to be, and has no ReadPump
\* left, still has its unregister before it or was overtaken by it.  ZombieCause
\* is the part about registered connections; the rest is needed since a
\* connection can end before Run gets to its register.
OnItsWay == Elems(registerQ) \cup Entering \cup clients
Excused == Elems(unregisterQ) \cup overtaken
ZombieInv == \A c \in OnItsWay : reader[c] = "done" => c \in Excused

\* Steps that put nothing on its way, end no ReadPump and withdraw no unregister.
LEMMA ZombieFrame ==
  ASSUME ZombieInv, OnItsWay' \subseteq OnItsWay, Excused \subseteq Excused',
         \A c \in OnItsWay' : reader'[c] = "done" => reader[c] = "done"
  PROVE  ZombieInv'
BY DEF ZombieInv

\* The steps of a connection's pumps keep it.
LEMMA ConnectionZombie ==
  ASSUME TypeOK, ZombieInv, NEW c \in Clients, ConnectionNext(c)
  PROVE  ZombieInv'
<1> USE DEF pumps, chans, ReaderStep
<1>0. OnItsWay \subseteq Clients
  BY ElemsType DEF OnItsWay, Entering, TypeOK, LockFree
<1>1. ASSUME UNCHANGED <<clients, registerQ, kick, overtaken>>,
             Elems(unregisterQ) \subseteq Elems(unregisterQ'),
             \A d \in Clients : reader'[d] = "done" => reader[d] = "done"
      PROVE  ZombieInv'
  <2>1. OnItsWay' = OnItsWay /\ Excused \subseteq Excused'
    BY <1>1 DEF OnItsWay, Excused, Entering, LockFree
  <2> QED BY <1>0, <1>1, <2>1, ZombieFrame
<1>2. CASE \/ HandleWebSocket(c) \/ PeerGone(c) \/ BeginJoin(c)
           \/ (\E u \in Users : SetUsername(c, u)) \/ DirectSend(c) \/ Announce(c)
           \/ Publish(c) \/ BeginPublishBlocking(c) \/ PublishBlocking(c)
           \/ ReadError(c) \/ WriteMessage(c) \/ WriterStop(c)
  BY <1>1, <1>2 DEF HandleWebSocket, PeerGone, BeginJoin, SetUsername, DirectSend,
     Announce, Publish, BeginPublishBlocking, PublishBlocking, ReadError,
     WriteMessage, WriterStop, TypeOK
<1>3. CASE WriterExit(c) \/ SpawnedUnregister(c)
  <2>1. unregisterQ' \in {unregisterQ, Append(unregisterQ, c)}
    BY <1>3 DEF WriterExit, OfferedToUnregister, SpawnedUnregister
  <2>2. Elems(Append(unregisterQ, c)) = Elems(unregisterQ) \cup {c}
    BY ElemsAppend DEF TypeOK
  <2>3. Elems(unregisterQ) \subseteq Elems(unregisterQ')
    BY <2>1, <2>2 DEF Elems
  <2> QED BY <1>1, <1>3, <2>3 DEF WriterExit, SpawnedUnregister
<1>4. CASE Reuse(c)
  <2>1. OnItsWay' = OnItsWay /\ c \notin OnItsWay
    BY <1>4 DEF Reuse, OnItsWay, Entering, LockFree
  <2>2. Excused \subseteq Excused' \cup {c}
    BY <1>4 DEF Reuse, Excused
  <2>3. \A d \in Clients : d # c => reader'[d] = reader[d]
    BY <1>4 DEF Reuse, TypeOK
  <2> QED BY <1>0, <2>1, <2>2, <2>3 DEF ZombieInv
<1>5. CASE Register(c)
  <2>1. OnItsWay' = OnItsWay \cup {c} /\ Excused' = Excused
    BY <1>5, ElemsAppend DEF Register, OnItsWay, Excused, Entering, LockFree, TypeOK
  <2>2. reader'[c] # "done" /\ \A d \in Clients : d # c => reader'[d] = reader[d]
    BY <1>5 DEF Register, TypeOK
  <2> QED BY <1>0, <2>1, <2>2 DEF ZombieInv
<1>6. CASE ReaderExit(c)
  <2>1. OnItsWay' = OnItsWay
    BY <1>6 DEF ReaderExit, ReaderLeaves, OnItsWay, Entering, LockFree
  <2>2. Excused' = Excused \cup {c}
    BY <1>6, ElemsAppend DEF ReaderExit, ReaderLeaves, Excused, TypeOK
  <2>3. \A d \in Clients : d # c => reader'[d] = reader[d]
    BY <1>6 DEF ReaderExit, ReaderLeaves, TypeOK
  <2> QED BY <1>0, <2>1, <2>2, <2>3 DEF ZombieInv
<1> QED BY <1>2, <1>3, <1>4, <1>5, <1>6 DEF ConnectionNext

\* The steps of Run keep it.
LEMMA RunZombie ==
  ASSUME TypeOK, ZombieInv, HubNext
  PROVE  ZombieInv'
<1> USE DEF pumps, chans
<1>1. CASE HubEnter
  <2>1. /\ Head(registerQ) \in Elems(registerQ)
        /\ Elems(registerQ') \subseteq Elems(registerQ)
    BY <1>1, ElemsHeadTail DEF HubEnter, TypeOK
  <2>2. OnItsWay' \subseteq OnItsWay /\ Excused' = Excused
    BY <1>1, <2>1 DEF HubEnter, OnItsWay, Excused, Entering, LockFree
  <2> QED BY <1>1, <2>2, ZombieFrame DEF HubEnter
<1>2. ASSUME NEW old \in Clients, HubTakeover(old)
      PROVE  ZombieInv'
  <2>1. /\ Head(registerQ) \in Elems(registerQ)
        /\ Elems(registerQ') \subseteq Elems(registerQ)
    BY <1>2, ElemsHeadTail DEF HubTakeover, TypeOK
  <2>2. clients' \subseteq clients /\ Entering' \subseteq {Head(registerQ)}
    BY <1>2 DEF HubTakeover, Without, Entering, LockFree
  <2>3. OnItsWay' \subseteq OnItsWay /\ Excused' = Excused
    BY <1>2, <2>1, <2>2 DEF HubTakeover, OnItsWay, Excused
  <2> QED BY <1>2, <2>3, ZombieFrame DEF HubTakeover
<1>3. CASE HubFinishTakeover
  <2>1. OnItsWay' = OnItsWay /\ Excused' = Excused
    BY <1>3 DEF HubFinishTakeover, OnItsWay, Excused, Entering, LockFree
  <2> QED BY <1>3, <2>1, ZombieFrame DEF HubFinishTakeover
<1>4. CASE HubUnregister
  <2> DEFINE c == Head(unregisterQ)
  <2>1. Elems(unregisterQ) \subseteq {c} \cup Elems(unregisterQ')
    BY <1>4, ElemsSplit DEF HubUnregister, TypeOK
  <2>2. /\ OnItsWay' \subseteq OnItsWay
        /\ c \in OnItsWay' => c \in Elems(registerQ)
    BY <1>4 DEF HubUnregister, Without, OnItsWay, Entering, LockFree
  <2>3. Excused \subseteq {c} \cup Excused'
    BY <1>4, <2>1 DEF HubUnregister, Excused
  <2>4. c \in Elems(registerQ) => c \in Excused'
    BY <1>4 DEF HubUnregister, Excused
  <2> QED BY <1>4, <2>2, <2>3, <2>4 DEF HubUnregister, ZombieInv
<1>5. CASE HubBroadcast \/ HubTick \/ HubReturn
  <2>1. OnItsWay' = OnItsWay /\ Excused' = Excused
    BY <1>5 DEF HubBroadcast, HubTick, HubReturn, OnItsWay, Excused, Entering, LockFree
  <2> QED BY <1>5, <2>1, ZombieFrame DEF HubBroadcast, HubTick, HubReturn
<1> QED BY <1>1, <1>2, <1>3, <1>4, <1>5 DEF HubNext

LEMMA NextZombie ==
  ASSUME TypeOK, ZombieInv, [Next]_vars
  PROVE  ZombieInv'
<1> USE DEF pumps, chans
<1>1. CASE \E c \in Clients : ConnectionNext(c)
  BY <1>1, ConnectionZombie
<1>2. CASE HubNext
  BY <1>2, RunZombie
<1>3. CASE \/ \E to \in SUBSET Clients : GuardedSend(to)
           \/ BeginShutdown \/ Stop \/ CloseAll \/ Ended \/ UNCHANGED vars
  <2>1. OnItsWay' \subseteq OnItsWay /\ Excused' = Excused
    BY <1>3 DEF GuardedSend, BeginShutdown, Stop, CloseAll, Ended, vars, OnItsWay,
       Excused, Entering, LockFree
  <2>2. reader' = reader
    BY <1>3 DEF GuardedSend, BeginShutdown, Stop, CloseAll, Ended, vars
  <2> QED BY <2>1, <2>2, ZombieFrame
<1> QED BY <1>1, <1>2, <1>3 DEF Next

\* A session that outlives its connection has one cause, however many join frames
\* a connection sends: Run received from unregister what register still held.
THEOREM ZombiesHaveOneCause == Spec => []ZombieCause
<1>1. Init => ZombieInv
  BY DEF Init, ZombieInv, OnItsWay, Entering, LockFree, Elems
<1>2. TypeOK /\ ZombieInv /\ [Next]_vars => ZombieInv'
  BY NextZombie
<1>3. ZombieInv => ZombieCause
  BY DEF ZombieInv, ZombieCause, OnItsWay, Excused
<1> QED BY <1>1, <1>2, <1>3, TypeCorrect, PTL DEF Spec

-----------------------------------------------------------------------------
(***************************************************************************)
(*                                                                         *)
(* The mutexes                                                             *)
(*                                                                         *)
(***************************************************************************)

Operation == [kind : {"rlock", "runlock", "lock", "unlock"}, mutex : Mutexes]

\* The order in which the calls take mutexes: inside a read lock only reads of
\* mutexes of a higher rank.
Rank == [hub |-> 1, seen |-> 2, store |-> 3]

ReadsAbove(s, i, j, m) ==
  \A k \in i..j : s[k].kind \in {"rlock", "runlock"} /\ Rank[s[k].mutex] > Rank[m]

\* A goroutine with the rest s of its call to go holds a read lock on m.
Holds(s, m) ==
  \E j \in 1..Len(s) : s[j] = RUnlock(m) /\ ReadsAbove(s, 1, j - 1, m)

\* What is left of a call: read locks are given up after nothing but reads of a
\* higher rank, and a write lock is given up at once.
Disciplined(s) ==
  \A i \in 1..Len(s), m \in Mutexes :
    /\ s[i] = RLock(m) =>
         \E j \in (i + 1)..Len(s) : s[j] = RUnlock(m) /\ ReadsAbove(s, i + 1, j - 1, m)
    /\ s[i] = RUnlock(m) =>
         \/ ReadsAbove(s, 1, i - 1, m)
         \/ \E j \in 1..(i - 1) : s[j] = RLock(m) /\ ReadsAbove(s, j + 1, i - 1, m)
    /\ s[i] = Lock(m) => i < Len(s) /\ s[i + 1] = Unlock(m)
    /\ s[i] = Unlock(m) /\ i > 1 => s[i - 1] = Lock(m)

-----------------------------------------------------------------------------
(* Calls                                                                   *)

LEMMA RankType == \A m \in Mutexes : Rank[m] \in Nat
BY DEF Rank, Mutexes

\* A nonempty rest of a call is its head and its tail.
LEMMA HeadTail ==
  ASSUME NEW s \in Seq(Operation), s # <<>>
  PROVE  /\ Tail(s) \in Seq(Operation) /\ Head(s) = s[1] /\ Head(s) \in Operation
         /\ Len(s) \in Nat /\ Len(s) > 0 /\ Len(Tail(s)) = Len(s) - 1
         /\ \A i \in 1..(Len(s) - 1) : Tail(s)[i] = s[i + 1]
         /\ \A i \in 1..Len(s) : s[i] \in Operation
OBVIOUS

\* Reads above m in the tail are those of the call, one place further on.
LEMMA ReadsTail ==
  ASSUME NEW s \in Seq(Operation), s # <<>>, NEW m \in Mutexes,
         NEW i \in 1..Len(s), NEW j \in 0..(Len(s) - 1)
  PROVE  ReadsAbove(Tail(s), i, j, m) <=> ReadsAbove(s, i + 1, j + 1, m)
<1>1. ASSUME ReadsAbove(Tail(s), i, j, m), NEW k \in (i + 1)..(j + 1)
      PROVE  s[k].kind \in {"rlock", "runlock"} /\ Rank[s[k].mutex] > Rank[m]
  <2>1. k - 1 \in i..j /\ k - 1 \in 1..(Len(s) - 1)
    BY HeadTail
  <2>2. Tail(s)[k - 1] = s[(k - 1) + 1] /\ (k - 1) + 1 = k
    BY <2>1, HeadTail
  <2> QED BY <1>1, <2>1, <2>2 DEF ReadsAbove
<1>2. ASSUME ReadsAbove(s, i + 1, j + 1, m), NEW k \in i..j
      PROVE  Tail(s)[k].kind \in {"rlock", "runlock"} /\ Rank[Tail(s)[k].mutex] > Rank[m]
  <2>1. k + 1 \in (i + 1)..(j + 1) /\ k \in 1..(Len(s) - 1)
    BY HeadTail
  <2> QED BY <1>2, <2>1, HeadTail DEF ReadsAbove
<1> QED BY <1>1, <1>2 DEF ReadsAbove

\* What is left of a disciplined call after its first operation is disciplined.
LEMMA DisciplinedTail ==
  ASSUME NEW s \in Seq(Operation), s # <<>>, Disciplined(s)
  PROVE  Disciplined(Tail(s))
<1> SUFFICES ASSUME NEW i \in 1..Len(Tail(s)), NEW m \in Mutexes
             PROVE
    /\ Tail(s)[i] = RLock(m) =>
         \E j \in (i + 1)..Len(Tail(s)) :
           Tail(s)[j] = RUnlock(m) /\ ReadsAbove(Tail(s), i + 1, j - 1, m)
    /\ Tail(s)[i] = RUnlock(m) =>
         \/ ReadsAbove(Tail(s), 1, i - 1, m)
         \/ \E j \in 1..(i - 1) :
              Tail(s)[j] = RLock(m) /\ ReadsAbove(Tail(s), j + 1, i - 1, m)
    /\ Tail(s)[i] = Lock(m) => i < Len(Tail(s)) /\ Tail(s)[i + 1] = Unlock(m)
    /\ Tail(s)[i] = Unlock(m) /\ i > 1 => Tail(s)[i - 1] = Lock(m)
  BY DEF Disciplined
<1>0. i \in 1..(Len(s) - 1) /\ i + 1 \in 1..Len(s) /\ Tail(s)[i] = s[i + 1]
  BY HeadTail
<1>1. ASSUME Tail(s)[i] = RLock(m)
      PROVE  \E j \in (i + 1)..Len(Tail(s)) :
               Tail(s)[j] = RUnlock(m) /\ ReadsAbove(Tail(s), i + 1, j - 1, m)
  <2>1. PICK j \in (i + 2)..Len(s) :
          s[j] = RUnlock(m) /\ ReadsAbove(s, i + 2, j - 1, m)
    <3>1. (i + 1) + 1 = i + 2
      BY <1>0
    <3> QED BY <1>0, <1>1, <3>1 DEF Disciplined
  <2>2. /\ j - 1 \in (i + 1)..Len(Tail(s)) /\ Tail(s)[j - 1] = s[j]
        /\ i + 1 \in 1..Len(s) /\ j - 2 \in 0..(Len(s) - 1)
        /\ (j - 2) + 1 = j - 1 /\ (i + 1) + 1 = i + 2 /\ (j - 1) - 1 = j - 2
    <3>1. j - 1 \in 1..(Len(s) - 1) /\ (j - 1) + 1 = j
      BY <1>0, HeadTail
    <3> QED BY <1>0, <3>1, HeadTail
  <2>3. ReadsAbove(Tail(s), i + 1, j - 2, m)
    BY <2>1, <2>2, ReadsTail
  <2> QED BY <2>1, <2>2, <2>3
<1>2. ASSUME Tail(s)[i] = RUnlock(m)
      PROVE  \/ ReadsAbove(Tail(s), 1, i - 1, m)
             \/ \E j \in 1..(i - 1) :
                  Tail(s)[j] = RLock(m) /\ ReadsAbove(Tail(s), j + 1, i - 1, m)
  <2>0. i - 1 \in 0..(Len(s) - 1) /\ (i - 1) + 1 = i /\ (i + 1) - 1 = i /\ 1 \in 1..Len(s)
    BY <1>0, HeadTail
  <2>1. \/ ReadsAbove(s, 1, i, m)
        \/ \E j \in 1..i : s[j] = RLock(m) /\ ReadsAbove(s, j + 1, i, m)
    BY <1>0, <1>2, <2>0 DEF Disciplined
  <2>2. CASE ReadsAbove(s, 1, i, m)
    <3>1. ReadsAbove(s, 1 + 1, (i - 1) + 1, m)
      BY <1>0, <2>2 DEF ReadsAbove
    <3> QED BY <2>0, <3>1, ReadsTail
  <2>3. ASSUME NEW j \in 1..i, s[j] = RLock(m), ReadsAbove(s, j + 1, i, m)
        PROVE  \/ ReadsAbove(Tail(s), 1, i - 1, m)
               \/ \E l \in 1..(i - 1) :
                    Tail(s)[l] = RLock(m) /\ ReadsAbove(Tail(s), l + 1, i - 1, m)
    <3>1. CASE j = 1
      BY <2>0, <2>3, <3>1, ReadsTail
    <3>2. CASE j > 1
      <4>1. /\ j - 1 \in 1..(i - 1) /\ Tail(s)[j - 1] = s[j] /\ j \in 1..Len(s)
            /\ (j - 1) + 1 = j
        <5>1. j - 1 \in 1..(Len(s) - 1) /\ (j - 1) + 1 = j
          BY <1>0, <3>2, HeadTail
        <5> QED BY <1>0, <3>2, <5>1, HeadTail
      <4>2. ReadsAbove(Tail(s), j, i - 1, m)
        BY <2>0, <2>3, <4>1, ReadsTail
      <4> QED BY <2>3, <4>1, <4>2
    <3> QED BY <3>1, <3>2
  <2> QED BY <2>1, <2>2, <2>3
<1>3. ASSUME Tail(s)[i] = Lock(m)
      PROVE  i < Len(Tail(s)) /\ Tail(s)[i + 1] = Unlock(m)
  <2>1. i + 1 < Len(s) /\ s[(i + 1) + 1] = Unlock(m)
    BY <1>0, <1>3 DEF Disciplined
  <2>2. i + 1 \in 1..(Len(s) - 1)
    BY <1>0, <2>1, HeadTail
  <2> QED BY <1>0, <2>1, <2>2, HeadTail
<1>4. ASSUME Tail(s)[i] = Unlock(m), i > 1
      PROVE  Tail(s)[i - 1] = Lock(m)
  <2>1. s[(i + 1) - 1] = Lock(m) /\ (i + 1) - 1 = i /\ i - 1 \in 1..(Len(s) - 1)
        /\ (i - 1) + 1 = i
    BY <1>0, <1>4, HeadTail DEF Disciplined
  <2> QED BY <2>1, HeadTail
<1> QED BY <1>1, <1>2, <1>3, <1>4

\* A read lock that is held lets its goroutine do nothing but reads of higher rank
\* and the unlock.
LEMMA HoldsHead ==
  ASSUME NEW s \in Seq(Operation), NEW m \in Mutexes, Holds(s, m)
  PROVE  /\ s # <<>>
         /\ \/ Head(s) = RUnlock(m)
            \/ Head(s).kind \in {"rlock", "runlock"} /\ Rank[Head(s).mutex] > Rank[m]
<1>1. PICK j \in 1..Len(s) : s[j] = RUnlock(m) /\ ReadsAbove(s, 1, j - 1, m)
  BY DEF Holds
<1>2. s # <<>>
  OBVIOUS
<1>3. CASE j = 1
  BY <1>1, <1>2, <1>3, HeadTail
<1>4. CASE j > 1
  <2>1. 1 \in 1..(j - 1)
    BY <1>4
  <2> QED BY <1>1, <1>2, <2>1, HeadTail DEF ReadsAbove
<1> QED BY <1>2, <1>3, <1>4

\* What an operation does to the read locks held: taking one adds it, giving one up
\* takes it away, and a write lock is taken and given up while none is held.
LEMMA HoldsStep ==
  ASSUME NEW s \in Seq(Operation), s # <<>>, Disciplined(s), NEW m \in Mutexes
  PROVE  /\ Head(s) = RLock(m) => ~Holds(s, m) /\ Holds(Tail(s), m)
         /\ Head(s) = RUnlock(m) => Holds(s, m) /\ ~Holds(Tail(s), m)
         /\ Head(s) \notin {RLock(m), RUnlock(m)} => (Holds(s, m) <=> Holds(Tail(s), m))
         /\ Head(s).kind \in {"lock", "unlock"} => ~Holds(s, m) /\ ~Holds(Tail(s), m)
<1>0. /\ 1 \in 1..Len(s) /\ Head(s) = s[1] /\ Rank[m] \in Nat
      /\ RLock(m).mutex = m /\ RUnlock(m).mutex = m
      /\ RLock(m).kind = "rlock" /\ RUnlock(m).kind = "runlock"
  BY HeadTail, RankType DEF RLock, RUnlock
\* An unlock in the tail that is not the end of a lock held in s has its lock at
\* the head.
<1>1. ASSUME Holds(Tail(s), m)
      PROVE  Holds(s, m) \/ Head(s) = RLock(m)
  <2>1. PICK j \in 1..Len(Tail(s)) :
          Tail(s)[j] = RUnlock(m) /\ ReadsAbove(Tail(s), 1, j - 1, m)
    BY <1>1 DEF Holds
  <2>2. /\ j + 1 \in 1..Len(s) /\ s[j + 1] = RUnlock(m)
        /\ j - 1 \in 0..(Len(s) - 1) /\ (j - 1) + 1 = j /\ (j + 1) - 1 = j
    BY <2>1, HeadTail
  <2>3. ReadsAbove(s, 2, j, m)
    <3>1. ReadsAbove(s, 1 + 1, (j - 1) + 1, m)
      BY <1>0, <2>1, <2>2, ReadsTail
    <3> QED BY <2>2, <3>1
  <2>4. CASE ReadsAbove(s, 1, j, m)
    BY <2>2, <2>4 DEF Holds
  <2>5. ASSUME NEW i \in 1..j, s[i] = RLock(m)
        PROVE  i = 1
    BY <1>0, <2>3, <2>5 DEF ReadsAbove
  <2> QED BY <1>0, <2>2, <2>4, <2>5 DEF Disciplined
\* A lock held in s is still held in the tail, unless the head gives it up.
<1>2. ASSUME Holds(s, m)
      PROVE  Holds(Tail(s), m) \/ Head(s) = RUnlock(m)
  <2>1. PICK j \in 1..Len(s) : s[j] = RUnlock(m) /\ ReadsAbove(s, 1, j - 1, m)
    BY <1>2 DEF Holds
  <2>2. CASE j = 1
    BY <1>0, <2>1, <2>2
  <2>3. CASE j > 1
    <3>1. /\ j - 1 \in 1..Len(Tail(s)) /\ Tail(s)[j - 1] = RUnlock(m)
          /\ j - 2 \in 0..(Len(s) - 1) /\ (j - 2) + 1 = j - 1 /\ (j - 1) - 1 = j - 2
      <4>1. j - 1 \in 1..(Len(s) - 1) /\ (j - 1) + 1 = j
        BY <2>3, HeadTail
      <4> QED BY <2>1, <2>3, <4>1, HeadTail
    <3>2. ReadsAbove(s, 2, j - 1, m)
      BY <2>1 DEF ReadsAbove
    <3>3. ReadsAbove(Tail(s), 1, j - 2, m)
      <4>1. 1 + 1 = 2
        OBVIOUS
      <4> QED BY <1>0, <3>1, <3>2, <4>1, ReadsTail
    <3> QED BY <3>1, <3>3 DEF Holds
  <2> QED BY <2>2, <2>3
\* A lock is not held twice.
<1>3. ASSUME Head(s) = RLock(m)
      PROVE  ~Holds(s, m) /\ Holds(Tail(s), m)
  <2>1. ~Holds(s, m)
    BY <1>0, <1>3, HoldsHead DEF RLock, RUnlock
  <2>2. PICK j \in 2..Len(s) : s[j] = RUnlock(m) /\ ReadsAbove(s, 2, j - 1, m)
    <3>1. 1 + 1 = 2
      OBVIOUS
    <3> QED BY <1>0, <1>3, <3>1 DEF Disciplined
  <2>3. /\ j - 1 \in 1..Len(Tail(s)) /\ Tail(s)[j - 1] = RUnlock(m)
        /\ j - 2 \in 0..(Len(s) - 1) /\ (j - 2) + 1 = j - 1 /\ (j - 1) - 1 = j - 2
    <3>1. j - 1 \in 1..(Len(s) - 1) /\ (j - 1) + 1 = j
      BY <2>2, HeadTail
    <3> QED BY <2>2, <3>1, HeadTail
  <2>4. ReadsAbove(Tail(s), 1, j - 2, m)
    <3>1. 1 + 1 = 2
      OBVIOUS
    <3> QED BY <1>0, <2>2, <2>3, <3>1, ReadsTail
  <2> QED BY <2>1, <2>3, <2>4 DEF Holds
<1>4. ASSUME Head(s) = RUnlock(m)
      PROVE  Holds(s, m) /\ ~Holds(Tail(s), m)
  <2>1. Holds(s, m)
    <3>1. ReadsAbove(s, 1, 1 - 1, m)
      BY DEF ReadsAbove
    <3> QED BY <1>0, <1>4, <3>1 DEF Holds
  <2>2. ASSUME Holds(Tail(s), m) PROVE FALSE
    <3>1. PICK j \in 1..Len(Tail(s)) :
            Tail(s)[j] = RUnlock(m) /\ ReadsAbove(Tail(s), 1, j - 1, m)
      BY <2>2 DEF Holds
    <3>2. /\ j + 1 \in 1..Len(s) /\ s[j + 1] = RUnlock(m)
          /\ j - 1 \in 0..(Len(s) - 1) /\ (j - 1) + 1 = j /\ (j + 1) - 1 = j
      BY <3>1, HeadTail
    <3>3. ReadsAbove(s, 2, j, m)
      <4>1. ReadsAbove(s, 1 + 1, (j - 1) + 1, m)
        BY <1>0, <3>1, <3>2, ReadsTail
      <4> QED BY <3>2, <4>1
    <3>4. ~ReadsAbove(s, 1, j, m)
      BY <1>0, <1>4, <3>1 DEF ReadsAbove
    <3>5. PICK i \in 1..j : s[i] = RLock(m)
      BY <3>2, <3>4 DEF Disciplined
    <3>6. i \in 2..j
      BY <1>0, <1>4, <3>5 DEF RLock, RUnlock
    <3> QED BY <1>0, <3>3, <3>5, <3>6 DEF ReadsAbove
  <2> QED BY <2>1, <2>2
<1>5. ASSUME Head(s).kind \in {"lock", "unlock"}
      PROVE  ~Holds(s, m) /\ ~Holds(Tail(s), m)
  <2>1. ~Holds(s, m)
    BY <1>0, <1>5, HoldsHead
  <2> QED BY <1>0, <1>1, <1>5, <2>1
<1> QED BY <1>1, <1>2, <1>3, <1>4, <1>5

\* After a write lock its unlock comes, and after nothing else.
LEMMA UnlockNext ==
  ASSUME NEW s \in Seq(Operation), s # <<>>, Disciplined(s), NEW m \in Mutexes
  PROVE  /\ Head(s) = Lock(m) => Tail(s) # <<>> /\ Head(Tail(s)) = Unlock(m)
         /\ Tail(s) # <<>> /\ Head(Tail(s)) = Unlock(m) => Head(s) = Lock(m)
<1>1. ASSUME Head(s) = Lock(m)
      PROVE  Tail(s) # <<>> /\ Head(Tail(s)) = Unlock(m)
  <2>1. 1 < Len(s) /\ s[2] = Unlock(m)
    <3>1. 1 \in 1..Len(s) /\ s[1] = Lock(m) /\ 1 + 1 = 2
      BY <1>1, HeadTail
    <3> QED BY <3>1 DEF Disciplined
  <2>2. Tail(s) # <<>> /\ Tail(s)[1] = s[2]
    <3>1. 1 \in 1..(Len(s) - 1) /\ 1 + 1 = 2
      BY <2>1, HeadTail
    <3>2. Tail(s)[1] = s[1 + 1]
      BY <3>1, HeadTail
    <3>3. Tail(s) # <<>>
      <4>1. Len(Tail(s)) = Len(s) - 1 /\ Len(s) \in Nat
        BY HeadTail
      <4>2. Len(Tail(s)) # 0
        BY <2>1, <4>1
      <4>3. Len(<<>>) = 0
        OBVIOUS
      <4> QED BY <4>2, <4>3, Zenon
    <3> QED BY <3>1, <3>2, <3>3
  <2> QED BY <2>1, <2>2, HeadTail
<1>2. ASSUME Tail(s) # <<>>, Head(Tail(s)) = Unlock(m)
      PROVE  Head(s) = Lock(m)
  <2>1. 1 \in 1..(Len(s) - 1) /\ 2 \in 1..Len(s) /\ s[2] = Unlock(m)
    <3>1. Tail(s) \in Seq(Operation) /\ Tail(s)[1] = Unlock(m) /\ Len(Tail(s)) > 0
      BY <1>2, HeadTail
    <3>2. 1 \in 1..(Len(s) - 1) /\ 1 + 1 = 2
      BY <3>1, HeadTail
    <3> QED BY <3>1, <3>2, HeadTail
  <2>2. 2 > 1 /\ 2 - 1 = 1
    OBVIOUS
  <2>3. s[2 - 1] = Lock(m)
    BY <2>1, <2>2 DEF Disciplined
  <2> QED BY <2>2, <2>3, HeadTail
<1> QED BY <1>1, <1>2

-----------------------------------------------------------------------------
(* The program                                                             *)

\* A call takes its first lock and holds none before.
Fresh(s) ==
  /\ s \in Seq(Operation) /\ Disciplined(s) /\ s # <<>>
  /\ \A m \in Mutexes : ~Holds(s, m) /\ s[1] # Unlock(m)

\* A read lock given up at once, and a write lock.
LEMMA PairsFresh ==
  ASSUME NEW l \in Mutexes
  PROVE  Fresh(ReadLocked(l)) /\ Fresh(WriteLocked(l))
<1>1. ASSUME NEW s \in Seq(Operation), Len(s) = 2, s[1] = RLock(l), s[2] = RUnlock(l)
      PROVE  Fresh(s)
  <2>1. Disciplined(s)
    BY <1>1 DEF Disciplined, ReadsAbove, RLock, RUnlock, Lock, Unlock
  <2>2. s # <<>> /\ Head(s) = RLock(l)
    BY <1>1
  <2>3. ASSUME NEW m \in Mutexes PROVE ~Holds(s, m)
    <3>1. CASE m = l
      BY <2>1, <2>2, <3>1, HoldsStep
    <3>2. CASE m # l
      BY <1>1, <3>2 DEF Holds, RLock, RUnlock
    <3> QED BY <3>1, <3>2
  <2> QED BY <1>1, <2>1, <2>2, <2>3 DEF Fresh, RLock, Unlock
<1>2. ASSUME NEW s \in Seq(Operation), Len(s) = 2, s[1] = Lock(l), s[2] = Unlock(l)
      PROVE  Fresh(s)
  <2>1. Disciplined(s)
    BY <1>2 DEF Disciplined, ReadsAbove, RLock, RUnlock, Lock, Unlock
  <2>2. s # <<>> /\ Head(s) = Lock(l)
    BY <1>2
  <2>3. ASSUME NEW m \in Mutexes PROVE ~Holds(s, m)
    BY <2>1, <2>2, HoldsStep DEF Lock
  <2> QED BY <1>2, <2>1, <2>2, <2>3 DEF Fresh, Lock, Unlock
<1>3. /\ ReadLocked(l) \in Seq(Operation) /\ Len(ReadLocked(l)) = 2
      /\ ReadLocked(l)[1] = RLock(l) /\ ReadLocked(l)[2] = RUnlock(l)
  BY DEF ReadLocked, Operation, RLock, RUnlock
<1>4. /\ WriteLocked(l) \in Seq(Operation) /\ Len(WriteLocked(l)) = 2
      /\ WriteLocked(l)[1] = Lock(l) /\ WriteLocked(l)[2] = Unlock(l)
  BY DEF WriteLocked, Operation, Lock, Unlock
<1> QED BY <1>1, <1>2, <1>3, <1>4

LEMMA VerifyUserFresh == Fresh(VerifyUser)
<1> DEFINE s == VerifyUser
<1>1. /\ s \in Seq(Operation) /\ Len(s) = 6 /\ s # <<>>
      /\ s[1] = RLock("store") /\ s[2] = RUnlock("store")
      /\ s[3] = Lock("store") /\ s[4] = Unlock("store")
      /\ s[5] = RLock("store") /\ s[6] = RUnlock("store")
  BY DEF VerifyUser, Operation, Mutexes, RLock, RUnlock, Lock, Unlock
<1> HIDE DEF s
<1>2. Disciplined(s)
  BY <1>1 DEF Disciplined, ReadsAbove, RLock, RUnlock, Lock, Unlock
<1>3. ASSUME NEW m \in Mutexes, Holds(s, m) PROVE FALSE
  <2>1. m = "store"
    BY <1>1, <1>3 DEF Holds, RLock, RUnlock, Lock, Unlock
  <2> QED BY <1>1, <1>2, <1>3, <2>1, HoldsStep, HeadTail
<1>4. Fresh(s)
  BY <1>1, <1>2, <1>3 DEF Fresh, RLock, Unlock
<1> QED BY <1>4 DEF s

LEMMA AllUserStatusFresh == Fresh(AllUserStatus)
<1> DEFINE s == AllUserStatus
<1>1. /\ s \in Seq(Operation) /\ Len(s) = 6 /\ s # <<>>
      /\ s[1] = RLock("hub") /\ s[2] = RUnlock("hub")
      /\ s[3] = RLock("seen") /\ s[4] = RLock("store")
      /\ s[5] = RUnlock("store") /\ s[6] = RUnlock("seen")
  BY DEF AllUserStatus, Operation, Mutexes, RLock, RUnlock
<1> HIDE DEF s
<1>2. ASSUME NEW i \in 1..6, NEW m \in Mutexes
      PROVE  /\ s[i] = RLock(m) =>
                  \E j \in (i + 1)..6 : s[j] = RUnlock(m) /\ ReadsAbove(s, i + 1, j - 1, m)
             /\ s[i] = RUnlock(m) =>
                  \E j \in 1..(i - 1) : s[j] = RLock(m) /\ ReadsAbove(s, j + 1, i - 1, m)
             /\ s[i] # Lock(m) /\ s[i] # Unlock(m)
  <2> USE DEF ReadsAbove, RLock, RUnlock, Lock, Unlock
  <2>1. ReadsAbove(s, 4, 5, "seen")
    BY <1>1 DEF Rank
  <2>2. CASE i = 1
    BY <1>1, <2>2
  <2>3. CASE i = 2
    BY <1>1, <2>3
  <2>4. CASE i = 3
    BY <1>1, <2>1, <2>4
  <2>5. CASE i = 4
    BY <1>1, <2>5
  <2>6. CASE i = 5
    BY <1>1, <2>6
  <2>7. CASE i = 6
    BY <1>1, <2>1, <2>7
  <2> QED BY <2>2, <2>3, <2>4, <2>5, <2>6, <2>7
<1>3. Disciplined(s)
  BY <1>1, <1>2 DEF Disciplined
<1>4. ASSUME NEW m \in Mutexes, Holds(s, m) PROVE FALSE
  <2>1. Head(s) = RLock("hub") /\ "hub" \in Mutexes
    BY <1>1, HeadTail DEF Mutexes
  <2>2. m # "hub"
    BY <1>1, <1>3, <1>4, <2>1, HoldsStep
  <2>3. Rank["hub"] > Rank[m]
    BY <1>1, <1>4, <2>1, HoldsHead DEF RLock, RUnlock
  <2> QED BY <2>3 DEF Rank, Mutexes
<1>5. Fresh(s)
  BY <1>1, <1>3, <1>4 DEF Fresh, RLock, Unlock
<1> QED BY <1>5 DEF s

\* Every call but roomMessages is disciplined, and starts without a lock.
LEMMA CallsFresh ==
  ASSUME NEW c \in DOMAIN Program, c # "roomMessages"
  PROVE  Fresh(Program[c])
<1>1. CASE c = "storeRead"
  BY <1>1, PairsFresh DEF Program, StoreRead, Mutexes
<1>2. CASE c = "storeWrite"
  BY <1>2, PairsFresh DEF Program, StoreWrite, Mutexes
<1>3. CASE c = "verifyUser"
  BY <1>3, VerifyUserFresh DEF Program
<1>4. CASE c = "allUserStatus"
  BY <1>4, AllUserStatusFresh DEF Program
<1>5. CASE c = "setLastSeen"
  BY <1>5, PairsFresh DEF Program, SetLastSeen, Mutexes
<1>6. CASE c = "broadcast"
  BY <1>6, PairsFresh DEF Program, Broadcast, Mutexes
<1>7. CASE c = "register"
  BY <1>7, PairsFresh DEF Program, RegisterClient, Mutexes
<1>8. c \in {"storeRead", "storeWrite", "roomMessages", "verifyUser", "allUserStatus",
             "setLastSeen", "broadcast", "register"}
  BY DEF Program
<1> QED BY <1>1, <1>2, <1>3, <1>4, <1>5, <1>6, <1>7, <1>8

-----------------------------------------------------------------------------
(* The nested load                                                         *)

\* What is left of the load of a room's messages until it gives its second lock up, and
\* how often it holds s.mu.
NestedLoad(s, n) ==
  \/ s = RoomMessages /\ n = 0
  \/ s = <<RLock("store"), RUnlock("store"), RUnlock("store")>> /\ n = 1
  \/ s = <<RUnlock("store"), RUnlock("store")>> /\ n = 2

\* The rest of a call and the read locks its goroutine holds on each mutex fit together.
Fits(s, r) ==
  \/ Disciplined(s) /\ \A m \in Mutexes : r[m] = IF Holds(s, m) THEN 1 ELSE 0
  \/ r["hub"] = 0 /\ r["seen"] = 0 /\ NestedLoad(s, r["store"])

\* When the nested load has given its second lock up, it is the rest of a plain read.
LEMMA LastUnlock ==
  LET s == <<RUnlock("store")>> IN
  s \in Seq(Operation) /\ Disciplined(s) /\ Holds(s, "store") /\ ~Holds(s, "hub") /\ ~Holds(s, "seen")
<1> DEFINE r == ReadLocked("store")
<1>1. r \in Seq(Operation) /\ r # <<>> /\ Head(r) = RLock("store") /\ Tail(r) = <<RUnlock("store")>>
  BY DEF ReadLocked, Operation, Mutexes, RLock, RUnlock
<1>2. Disciplined(r) /\ \A m \in Mutexes : ~Holds(r, m)
  BY PairsFresh DEF Fresh, Mutexes
<1> HIDE DEF r
<1>3. Head(r) \notin {RLock("hub"), RUnlock("hub"), RLock("seen"), RUnlock("seen")}
  BY <1>1 DEF RLock, RUnlock
<1>4. Tail(r) \in Seq(Operation) /\ Disciplined(Tail(r))
  BY <1>1, <1>2, DisciplinedTail, HeadTail
<1>5. "store" \in Mutexes /\ "hub" \in Mutexes /\ "seen" \in Mutexes
  BY DEF Mutexes
<1>6. Holds(Tail(r), "store")
  BY <1>1, <1>2, <1>5, HoldsStep
<1>7. ~Holds(Tail(r), "hub") /\ ~Holds(Tail(r), "seen")
  BY <1>1, <1>2, <1>3, <1>5, HoldsStep
<1> QED BY <1>1, <1>4, <1>6, <1>7

\* Each operation of a call that fits changes the read locks as the mutex does.
LEMMA FitsStep ==
  ASSUME NEW s \in Seq(Operation), s # <<>>, NEW r \in [Mutexes -> 0..2], Fits(s, r), NEW m \in Mutexes
  PROVE  /\ Head(s) = RLock(m) => r[m] \in {0, 1} /\ Fits(Tail(s), [r EXCEPT ![m] = @ + 1])
         /\ Head(s) = RUnlock(m) => r[m] \in {1, 2} /\ Fits(Tail(s), [r EXCEPT ![m] = @ - 1])
         /\ Head(s).kind \in {"lock", "unlock"} => Fits(Tail(s), r)
         /\ Head(s) = Lock(m) => Tail(s) # <<>> /\ Head(Tail(s)) = Unlock(m)
         /\ Tail(s) # <<>> /\ Head(Tail(s)) = Unlock(m) => Head(s) = Lock(m)
<1>1. CASE Disciplined(s) /\ \A l \in Mutexes : r[l] = IF Holds(s, l) THEN 1 ELSE 0
  <2>1. Disciplined(Tail(s))
    BY <1>1, DisciplinedTail
  <2>2. \A l \in Mutexes :
          /\ Head(s) = RLock(l) => ~Holds(s, l) /\ Holds(Tail(s), l)
          /\ Head(s) = RUnlock(l) => Holds(s, l) /\ ~Holds(Tail(s), l)
          /\ Head(s) \notin {RLock(l), RUnlock(l)} => (Holds(s, l) <=> Holds(Tail(s), l))
    BY <1>1, HoldsStep
  <2>3. \A l \in Mutexes : l # m => RLock(l) # RLock(m) /\ RUnlock(l) # RUnlock(m) /\ RLock(l) # RUnlock(m)
                                      /\ RUnlock(l) # RLock(m)
    BY DEF RLock, RUnlock
  <2>4. ASSUME Head(s) = RLock(m) PROVE r[m] \in {0, 1} /\ Fits(Tail(s), [r EXCEPT ![m] = @ + 1])
    <3>1. \A l \in Mutexes : [r EXCEPT ![m] = @ + 1][l] = IF Holds(Tail(s), l) THEN 1 ELSE 0
      BY <1>1, <2>2, <2>3, <2>4
    <3> QED BY <1>1, <2>1, <2>2, <2>4, <3>1 DEF Fits
  <2>5. ASSUME Head(s) = RUnlock(m) PROVE r[m] \in {1, 2} /\ Fits(Tail(s), [r EXCEPT ![m] = @ - 1])
    <3>1. \A l \in Mutexes : [r EXCEPT ![m] = @ - 1][l] = IF Holds(Tail(s), l) THEN 1 ELSE 0
      BY <1>1, <2>2, <2>3, <2>5
    <3> QED BY <1>1, <2>1, <2>2, <2>5, <3>1 DEF Fits
  <2>6. ASSUME Head(s).kind \in {"lock", "unlock"} PROVE Fits(Tail(s), r)
    <3>1. \A l \in Mutexes : Head(s) \notin {RLock(l), RUnlock(l)}
      BY <2>6 DEF RLock, RUnlock
    <3> QED BY <1>1, <2>1, <2>2, <3>1 DEF Fits
  <2> QED BY <1>1, <2>4, <2>5, <2>6, UnlockNext
<1>2. ASSUME r["hub"] = 0, r["seen"] = 0, NestedLoad(s, r["store"])
      PROVE  /\ Head(s) = RLock(m) => r[m] \in {0, 1} /\ Fits(Tail(s), [r EXCEPT ![m] = @ + 1])
             /\ Head(s) = RUnlock(m) => r[m] \in {1, 2} /\ Fits(Tail(s), [r EXCEPT ![m] = @ - 1])
             /\ Head(s).kind \in {"rlock", "runlock"} /\ Head(s) # Lock(m)
             /\ Tail(s) # <<>> => Head(Tail(s)) # Unlock(m)
  <2> DEFINE three == <<RLock("store"), RUnlock("store"), RUnlock("store")>>
             two == <<RUnlock("store"), RUnlock("store")>>
  <2>1. CASE s = RoomMessages /\ r["store"] = 0
    <3>1. Head(s) = RLock("store") /\ Tail(s) = three /\ Head(Tail(s)) = RLock("store")
      BY <2>1 DEF RoomMessages
    <3>2. NestedLoad(three, 1)
      BY DEF NestedLoad
    <3>3. Head(s) = RLock(m) => m = "store"
      BY <3>1 DEF RLock
    <3>4. [r EXCEPT !["store"] = @ + 1]["store"] = 1 /\ [r EXCEPT !["store"] = @ + 1]["hub"] = 0
          /\ [r EXCEPT !["store"] = @ + 1]["seen"] = 0
      BY <1>2, <2>1 DEF Mutexes
    <3>5. Fits(Tail(s), [r EXCEPT !["store"] = @ + 1])
      BY <3>1, <3>2, <3>4 DEF Fits
    <3>6. Head(s) = RLock(m) => r[m] \in {0, 1} /\ Fits(Tail(s), [r EXCEPT ![m] = @ + 1])
      BY <2>1, <3>3, <3>5
    <3>7. /\ Head(s) # RUnlock(m) /\ Head(s).kind \in {"rlock", "runlock"} /\ Head(s) # Lock(m)
          /\ Head(Tail(s)) # Unlock(m)
      BY <3>1 DEF RLock, RUnlock, Lock, Unlock
    <3> QED BY <3>6, <3>7
  <2>2. CASE s = three /\ r["store"] = 1
    <3>1. Head(s) = RLock("store") /\ Tail(s) = two /\ Head(Tail(s)) = RUnlock("store")
      BY <2>2
    <3>2. NestedLoad(two, 2)
      BY DEF NestedLoad
    <3>3. Head(s) = RLock(m) => m = "store"
      BY <3>1 DEF RLock
    <3>4. [r EXCEPT !["store"] = @ + 1]["store"] = 2 /\ [r EXCEPT !["store"] = @ + 1]["hub"] = 0
          /\ [r EXCEPT !["store"] = @ + 1]["seen"] = 0
      BY <1>2, <2>2 DEF Mutexes
    <3>5. Fits(Tail(s), [r EXCEPT !["store"] = @ + 1])
      BY <3>1, <3>2, <3>4 DEF Fits
    <3>6. Head(s) = RLock(m) => r[m] \in {0, 1} /\ Fits(Tail(s), [r EXCEPT ![m] = @ + 1])
      BY <2>2, <3>3, <3>5
    <3>7. /\ Head(s) # RUnlock(m) /\ Head(s).kind \in {"rlock", "runlock"} /\ Head(s) # Lock(m)
          /\ Head(Tail(s)) # Unlock(m)
      BY <3>1 DEF RLock, RUnlock, Lock, Unlock
    <3> QED BY <3>6, <3>7
  <2>3. CASE s = two /\ r["store"] = 2
    <3>1. Head(s) = RUnlock("store") /\ Tail(s) = <<RUnlock("store")>> /\ Head(Tail(s)) = RUnlock("store")
      BY <2>3
    <3>2. Head(s) = RUnlock(m) => m = "store"
      BY <3>1 DEF RUnlock
    <3>3. [r EXCEPT !["store"] = @ - 1]["store"] = 1 /\ [r EXCEPT !["store"] = @ - 1]["hub"] = 0
          /\ [r EXCEPT !["store"] = @ - 1]["seen"] = 0
      BY <1>2, <2>3 DEF Mutexes
    <3>4. Fits(Tail(s), [r EXCEPT !["store"] = @ - 1])
      BY <3>1, <3>3, LastUnlock DEF Fits, Mutexes
    <3>5. Head(s) = RUnlock(m) => r[m] \in {1, 2} /\ Fits(Tail(s), [r EXCEPT ![m] = @ - 1])
      BY <2>3, <3>2, <3>4
    <3>6. /\ Head(s) # RLock(m) /\ Head(s).kind \in {"rlock", "runlock"} /\ Head(s) # Lock(m)
          /\ Head(Tail(s)) # Unlock(m)
      BY <3>1 DEF RLock, RUnlock, Lock, Unlock
    <3> QED BY <3>5, <3>6
  <2> QED BY <1>2, <2>1, <2>2, <2>3 DEF NestedLoad
<1>3. Head(s).kind \in {"rlock", "runlock"} => Head(s).kind \notin {"lock", "unlock"}
  OBVIOUS
<1> QED BY <1>1, <1>2, <1>3 DEF Fits

\* Who holds a read lock gives it up next, reads a mutex of higher rank, or is the nested
\* load at its second lock.
LEMMA FitsHead ==
  ASSUME NEW s \in Seq(Operation), NEW r, Fits(s, r), NEW m \in Mutexes, r[m] # 0
  PROVE  /\ s # <<>>
         /\ \/ \E l \in Mutexes : Head(s) = RUnlock(l)
            \/ Head(s).kind \in {"rlock", "runlock"} /\ Rank[Head(s).mutex] > Rank[m]
            \/ m = "store" /\ Head(s) = RLock("store")
<1>1. CASE Disciplined(s) /\ \A l \in Mutexes : r[l] = IF Holds(s, l) THEN 1 ELSE 0
  BY <1>1, HoldsHead
<1>2. CASE r["hub"] = 0 /\ r["seen"] = 0 /\ NestedLoad(s, r["store"])
  <2>1. m = "store"
    BY <1>2 DEF Mutexes
  <2>2. s # <<>> /\ (Head(s) = RUnlock("store") \/ Head(s) = RLock("store"))
    <3>1. CASE s = RoomMessages /\ r["store"] = 0
      BY <2>1, <3>1
    <3>2. CASE s = <<RLock("store"), RUnlock("store"), RUnlock("store")>>
      BY <3>2
    <3>3. CASE s = <<RUnlock("store"), RUnlock("store")>>
      BY <3>3
    <3> QED BY <1>2, <3>1, <3>2, <3>3 DEF NestedLoad
  <2> QED BY <2>1, <2>2
<1> QED BY <1>1, <1>2 DEF Fits

\* A call fits no read locks when it starts, and when it is over.
LEMMA FitsNone ==
  ASSUME NEW r, Fits(<<>>, r)
  PROVE  \A m \in Mutexes : r[m] = 0
<1>1. <<>> \in Seq(Operation) /\ \A m \in Mutexes : ~Holds(<<>>, m)
  BY DEF Holds
<1>2. ~NestedLoad(<<>>, r["store"])
  BY DEF NestedLoad, RoomMessages
<1> QED BY <1>1, <1>2 DEF Fits

LEMMA CallFits ==
  ASSUME NEW c \in DOMAIN Program, NEW r, \A m \in Mutexes : r[m] = 0
  PROVE  /\ Program[c] \in Seq(Operation) /\ Program[c] # <<>> /\ Fits(Program[c], r)
         /\ \A m \in Mutexes : Program[c][1] # Unlock(m)
<1>1. CASE c = "roomMessages"
  <2>1. Program[c] = RoomMessages
    BY <1>1 DEF Program
  <2>2. RoomMessages \in Seq(Operation) /\ RoomMessages # <<>> /\ RoomMessages[1] = RLock("store")
    BY DEF RoomMessages, Operation, Mutexes, RLock, RUnlock
  <2>3. Fits(RoomMessages, r)
    BY DEF Fits, NestedLoad, Mutexes
  <2> QED BY <2>1, <2>2, <2>3 DEF RLock, Unlock
<1>2. CASE c # "roomMessages"
  BY <1>2, CallsFresh DEF Fresh, Fits
<1> QED BY <1>1, <1>2

-----------------------------------------------------------------------------
(* The invariant                                                           *)

\* Goroutine t is where the mutex m has it: as its writer, or blocked by the writer.
WriterAt(t, m) ==
  /\ announced[m] = t => IF writing[m] THEN At(t, "unlock", m) ELSE At(t, "lock", m)
  /\ At(t, "unlock", m) => announced[m] = t
  /\ t \in blocked[m] => At(t, "rlock", m) /\ announced[m] # Nobody

\* The read locks that t holds.
Reads(t) == [m \in Mutexes |-> readers[m][t]]

\* The mutexes agree with where the goroutines are: a goroutine holds the read
\* locks its call still has to give up, the announced writer is at its lock or its
\* unlock, and what is blocked is blocked by a writer.
LocksIInv ==
  /\ code \in [Threads -> Seq(Operation)]
  /\ readers \in [Mutexes -> [Threads -> 0..2]]
  /\ announced \in [Mutexes -> Threads \cup {Nobody}]
  /\ writing \in [Mutexes -> BOOLEAN]
  /\ blocked \in [Mutexes -> SUBSET Threads]
  /\ \A t \in Threads : Fits(code[t], Reads(t))
  /\ \A m \in Mutexes : writing[m] => announced[m] # Nobody
  /\ \A t \in Threads, m \in Mutexes : WriterAt(t, m)

LEMMA LocksIInvType ==
  ASSUME LocksIInv
  PROVE  LocksTypeOK
<1>1. readers \in [Mutexes -> [Threads -> 0..2]]
  BY DEF LocksIInv
<1>2. code \in [Threads -> Seq([kind : {"rlock", "runlock", "lock", "unlock"},
                                mutex : Mutexes])]
  BY DEF LocksIInv, Operation
<1> QED BY <1>1, <1>2 DEF LocksIInv, LocksTypeOK

\* The writer of a mutex, the reader it waits for, or, if that one is blocked inside its
\* read lock, somebody at a mutex of higher rank can go on, unless that one is the nested
\* load.
LEMMA WriterOrAbove ==
  ASSUME LocksIInv, LocksAssumption, NEW m \in Mutexes, announced[m] # Nobody,
         \A l \in Mutexes : Rank[l] > Rank[m] /\ announced[l] # Nobody =>
           \E t \in Threads : Busy(t) /\ (Stuck(t) => NestedWait(t))
  PROVE  \E t \in Threads : Busy(t) /\ (Stuck(t) => NestedWait(t))
<1> DEFINE w == announced[m]
<1>1. w \in Threads /\ IF writing[m] THEN At(w, "unlock", m) ELSE At(w, "lock", m)
  BY DEF LocksIInv, WriterAt
<1>2. ASSUME NEW t \in Threads, NEW l \in Mutexes, At(t, "unlock", l) \/ At(t, "runlock", l)
      PROVE  Busy(t) /\ ~Stuck(t)
  <2>1. \A k \in Mutexes : ~At(t, "rlock", k) /\ ~At(t, "lock", k)
    BY <1>2 DEF At
  <2>2. \A k \in Mutexes : t \notin blocked[k]
    BY <2>1 DEF LocksIInv, WriterAt
  <2> QED BY <1>2, <2>1, <2>2 DEF Stuck, At
<1>3. CASE writing[m]
  BY <1>1, <1>2, <1>3
<1>4. CASE ~writing[m] /\ Unread(m)
  <2>1. At(w, "lock", m)
    BY <1>1, <1>4
  <2>2. \A k \in Mutexes : ~At(w, "rlock", k) /\ (At(w, "lock", k) => k = m)
    BY <2>1 DEF At
  <2>3. \A k \in Mutexes : w \notin blocked[k]
    BY <1>1, <2>2 DEF LocksIInv, WriterAt
  <2>4. ~Stuck(w)
    BY <1>4, <2>2, <2>3 DEF Stuck
  <2> QED BY <1>1, <2>1, <2>4 DEF At
<1>5. CASE ~Unread(m)
  <2>1. PICK r \in Threads : readers[m][r] # 0
    BY <1>5 DEF Unread
  <2>2. code[r] \in Seq(Operation) /\ Fits(code[r], Reads(r)) /\ Reads(r)[m] # 0
    BY <2>1 DEF LocksIInv, Reads
  <2>3. /\ code[r] # <<>>
        /\ \/ \E l \in Mutexes : Head(code[r]) = RUnlock(l)
           \/ Head(code[r]).kind \in {"rlock", "runlock"} /\ Rank[Head(code[r]).mutex] > Rank[m]
           \/ m = "store" /\ Head(code[r]) = RLock("store")
    BY <2>2, FitsHead
  <2>4. Head(code[r]) \in Operation
    BY <2>2, <2>3, HeadTail
  <2>5. PICK l \in Mutexes : \/ At(r, "runlock", l)
                             \/ At(r, "rlock", l) /\ Rank[l] > Rank[m]
                             \/ At(r, "rlock", l) /\ l = m /\ m = "store"
    <3>1. CASE \E l \in Mutexes : Head(code[r]) = RUnlock(l)
      BY <2>3, <3>1 DEF At, Busy, RUnlock
    <3>2. CASE /\ Head(code[r]).kind \in {"rlock", "runlock"}
               /\ Rank[Head(code[r]).mutex] > Rank[m]
      <4>1. Head(code[r]).mutex \in Mutexes
            /\ Head(code[r]) = [kind |-> Head(code[r]).kind, mutex |-> Head(code[r]).mutex]
        BY <2>4 DEF Operation
      <4> QED BY <2>3, <3>2, <4>1 DEF At, Busy
    <3>3. CASE m = "store" /\ Head(code[r]) = RLock("store")
      BY <2>3, <3>3 DEF At, Busy, RLock
    <3> QED BY <2>3, <3>1, <3>2, <3>3
  <2>6. CASE At(r, "runlock", l)
    BY <1>2, <2>6
  <2>7. CASE At(r, "rlock", l) /\ (Rank[l] > Rank[m] \/ (l = m /\ m = "store"))
    <3>1. CASE r \in blocked[l]
      <4>1. announced[l] # Nobody
        BY <3>1 DEF LocksIInv, WriterAt
      <4>2. CASE Rank[l] > Rank[m]
        BY <4>1, <4>2
      <4>3. CASE l = m /\ m = "store"
        <5>1. readers["store"][r] > 0
          BY <2>1, <4>3 DEF LocksIInv
        <5>2. Busy(r) /\ NestedWait(r)
          BY <2>7, <3>1, <4>3, <5>1 DEF NestedWait, At
        <5> QED BY <5>2
      <4> QED BY <2>7, <4>2, <4>3
    <3>2. CASE r \notin blocked[l]
      <4>1. \A k \in Mutexes : (At(r, "rlock", k) => k = l) /\ ~At(r, "lock", k)
        BY <2>7 DEF At
      <4>2. \A k \in Mutexes : r \notin blocked[k]
        BY <3>2, <4>1 DEF LocksIInv, WriterAt
      <4>3. ~Stuck(r)
        BY <4>1, <4>2 DEF Stuck
      <4> QED BY <2>7, <4>3 DEF At
    <3> QED BY <3>1, <3>2
  <2> QED BY <2>5, <2>6, <2>7
<1> QED BY <1>3, <1>4, <1>5

\* Where a mutex has a writer, somebody can go on: for s.mu first, which nothing but the
\* nested load is inside of when it takes a lock, then for the mutexes below it.
LEMMA LocksIInvNoDeadlock ==
  ASSUME LocksIInv, LocksAssumption
  PROVE  NoDeadlock
<1> DEFINE Some == \E t \in Threads : Busy(t) /\ (Stuck(t) => NestedWait(t))
<1>1. announced["store"] # Nobody => Some
  BY WriterOrAbove DEF Rank, Mutexes
<1>2. announced["seen"] # Nobody => Some
  BY <1>1, WriterOrAbove DEF Rank, Mutexes
<1>3. announced["hub"] # Nobody => Some
  BY <1>1, <1>2, WriterOrAbove DEF Rank, Mutexes
<1>4. ASSUME NEW t \in Threads, Busy(t), Stuck(t)
      PROVE  Some
  <2>1. PICK m \in Mutexes : announced[m] # Nobody
    BY <1>4 DEF Stuck, LocksIInv, WriterAt, LocksAssumption
  <2> QED BY <1>1, <1>2, <1>3, <2>1 DEF Mutexes
<1> QED BY <1>4 DEF NoDeadlock

-----------------------------------------------------------------------------
(* Steps                                                                   *)

LEMMA LocksIInvInit ==
  ASSUME LocksInit, LocksAssumption
  PROVE  LocksIInv
<1>1. /\ <<>> \in Seq(Operation) /\ Disciplined(<<>>)
      /\ \A m \in Mutexes : ~Holds(<<>>, m)
  BY DEF Disciplined, Holds
<1>2. ASSUME NEW t \in Threads PROVE Fits(code[t], Reads(t))
  BY <1>1 DEF LocksInit, Fits, Reads
<1> QED BY <1>1, <1>2 DEF LocksInit, LocksIInv, WriterAt, LocksAssumption, At, Busy

\* The operation at the head of a call is done: what the new head may be, and
\* which read locks are held.
LEMMA Advanced ==
  ASSUME LocksIInv, NEW t \in Threads, Busy(t)
  PROVE  /\ Tail(code[t]) \in Seq(Operation)
         /\ \A m \in Mutexes :
              /\ At(t, "rlock", m) => readers[m][t] \in {0, 1} /\ Fits(Tail(code[t]), [Reads(t) EXCEPT ![m] = @ + 1])
              /\ At(t, "runlock", m) => readers[m][t] \in {1, 2} /\ Fits(Tail(code[t]), [Reads(t) EXCEPT ![m] = @ - 1])
              /\ At(t, "lock", m) \/ At(t, "unlock", m) => Fits(Tail(code[t]), Reads(t))
              /\ At(t, "lock", m) =>
                   Tail(code[t]) # <<>> /\ Head(Tail(code[t])) = Unlock(m)
              /\ Tail(code[t]) # <<>> /\ Head(Tail(code[t])) = Unlock(m) =>
                   At(t, "lock", m)
<1>1. code[t] \in Seq(Operation) /\ code[t] # <<>> /\ Fits(code[t], Reads(t)) /\ Reads(t) \in [Mutexes -> 0..2]
  BY DEF LocksIInv, Busy, Reads
<1>2. Tail(code[t]) \in Seq(Operation)
  BY <1>1, HeadTail
<1>3. ASSUME NEW m \in Mutexes
      PROVE  /\ At(t, "rlock", m) <=> Head(code[t]) = RLock(m)
             /\ At(t, "runlock", m) <=> Head(code[t]) = RUnlock(m)
             /\ At(t, "lock", m) <=> Head(code[t]) = Lock(m)
             /\ At(t, "unlock", m) <=> Head(code[t]) = Unlock(m)
  BY DEF At, RLock, RUnlock, Lock, Unlock
<1>4. ASSUME NEW m \in Mutexes
      PROVE  /\ At(t, "rlock", m) => Reads(t)[m] \in {0, 1} /\ Fits(Tail(code[t]), [Reads(t) EXCEPT ![m] = @ + 1])
             /\ At(t, "runlock", m) => Reads(t)[m] \in {1, 2} /\ Fits(Tail(code[t]), [Reads(t) EXCEPT ![m] = @ - 1])
             /\ At(t, "lock", m) => Tail(code[t]) # <<>> /\ Head(Tail(code[t])) = Unlock(m)
             /\ Tail(code[t]) # <<>> /\ Head(Tail(code[t])) = Unlock(m) => At(t, "lock", m)
  BY <1>1, <1>3, FitsStep
<1>5. ASSUME NEW m \in Mutexes, At(t, "lock", m) \/ At(t, "unlock", m)
      PROVE  Fits(Tail(code[t]), Reads(t))
  <2>1. Head(code[t]).kind \in {"lock", "unlock"}
    BY <1>5 DEF At
  <2> QED BY <1>1, <1>5, <2>1, FitsStep
<1>6. \A m \in Mutexes : Reads(t)[m] = readers[m][t]
  BY DEF Reads
<1> QED BY <1>2, <1>4, <1>5, <1>6

\* A goroutine that makes a call held no read lock.
LEMMA CallStep ==
  ASSUME LocksIInv, LocksAssumption, NEW t \in Threads, NEW c \in Calls, Call(t, c)
  PROVE  LocksIInv'
<1>1. /\ ~Busy(t) /\ code' = [code EXCEPT ![t] = Program[c]]
      /\ code \in [Threads -> Seq(Operation)] /\ c \in DOMAIN Program
      /\ UNCHANGED <<readers, announced, writing, blocked>>
  BY DEF Call, LocksIInv, LocksAssumption
<1>2. \A m \in Mutexes : Reads(t)[m] = 0
  BY <1>1, FitsNone DEF Busy, LocksIInv
<1>3. /\ Program[c] \in Seq(Operation) /\ Program[c] # <<>> /\ Fits(Program[c], Reads(t))
      /\ \A m \in Mutexes : Program[c][1] # Unlock(m)
  BY <1>1, <1>2, CallFits
<1>4. \A u \in Threads : code'[u] = IF u = t THEN Program[c] ELSE code[u]
  BY <1>1
<1>5. code' \in [Threads -> Seq(Operation)]
  BY <1>1, <1>3
<1>6. ASSUME NEW u \in Threads PROVE Fits(code'[u], Reads(u)')
  <2>1. Reads(u)' = Reads(u)
    BY <1>1 DEF Reads
  <2> QED BY <1>3, <1>4, <2>1 DEF LocksIInv
<1>7. \A k, m : ~At(t, k, m)
  BY <1>1 DEF At
<1>8. \A m \in Mutexes : ~At(t, "unlock", m)'
  <2>1. Head(Program[c]) = Program[c][1]
    BY <1>3, HeadTail
  <2> QED BY <1>3, <1>4, <2>1 DEF At, Busy, Unlock
<1>9. ASSUME NEW u \in Threads, NEW m \in Mutexes
       PROVE  WriterAt(u, m)'
  BY <1>1, <1>4, <1>7, <1>8 DEF LocksIInv, WriterAt, At, Busy
<1> QED BY <1>1, <1>5, <1>6, <1>9 DEF LocksIInv

\* Where the calls are after the goroutines in ts have done their operation.
LEMMA AdvanceCode ==
  ASSUME LocksIInv, NEW ts \in SUBSET Threads, \A t \in ts : Busy(t), Advance(ts)
  PROVE  /\ code' \in [Threads -> Seq(Operation)]
         /\ \A u \in Threads : code'[u] = IF u \in ts THEN Tail(code[u]) ELSE code[u]
<1>1. \A u \in Threads : code'[u] = IF u \in ts THEN Tail(code[u]) ELSE code[u]
  BY DEF Advance
<1>2. \A u \in ts : Tail(code[u]) \in Seq(Operation)
  BY Advanced
<1>3. \A u \in Threads : code[u] \in Seq(Operation)
  BY DEF LocksIInv
<1>4. code' \in [Threads -> Seq(Operation)]
  BY <1>2, <1>3 DEF Advance
<1> QED BY <1>1, <1>4

LEMMA TakeReadStep ==
  ASSUME LocksIInv, LocksAssumption, NEW t \in Threads, NEW m \in Mutexes, TakeRead(t, m)
  PROVE  LocksIInv'
<1>1. At(t, "rlock", m) /\ Busy(t) /\ UNCHANGED <<announced, writing>>
  BY DEF TakeRead, At
<1>2. \A k \in Mutexes : ~At(t, "lock", k) /\ ~At(t, "unlock", k) /\ announced[k] # t
  <2>1. \A k \in Mutexes : ~At(t, "lock", k) /\ ~At(t, "unlock", k)
    BY <1>1 DEF At
  <2>2. \A k \in Mutexes : WriterAt(t, k)
    BY DEF LocksIInv
  <2> QED BY <2>1, <2>2 DEF WriterAt
<1>3. CASE announced[m] = Nobody
  <2>1. /\ readers' = [readers EXCEPT ![m][t] = @ + 1] /\ Advance({t})
        /\ UNCHANGED <<blocked, announced, writing>>
    BY <1>3 DEF TakeRead
  <2>2. /\ code' \in [Threads -> Seq(Operation)]
        /\ \A u \in Threads : code'[u] = IF u = t THEN Tail(code[u]) ELSE code[u]
    BY <1>1, <2>1, AdvanceCode
  <2>3. readers[m][t] \in {0, 1} /\ Fits(Tail(code[t]), [Reads(t) EXCEPT ![m] = @ + 1])
    BY <1>1, Advanced
  <2>4. readers' \in [Mutexes -> [Threads -> 0..2]]
    BY <2>1, <2>3 DEF LocksIInv
  <2>5. ASSUME NEW u \in Threads PROVE Fits(code'[u], Reads(u)')
    <3>1. CASE u = t
      <4>1. Reads(t)' = [Reads(t) EXCEPT ![m] = @ + 1]
        BY <2>1 DEF LocksIInv, Reads
      <4> QED BY <2>2, <2>3, <3>1, <4>1
    <3>2. CASE u # t
      <4>1. Reads(u)' = Reads(u)
        BY <2>1, <3>2 DEF LocksIInv, Reads
      <4> QED BY <2>2, <3>2, <4>1 DEF LocksIInv
    <3> QED BY <3>1, <3>2
  <2>6. ASSUME NEW u \in Threads, NEW k \in Mutexes
        PROVE  WriterAt(u, k)'
    <3>1. WriterAt(u, k)
      BY DEF LocksIInv
    <3>2. CASE u = t
      <4>1. ~(Tail(code[t]) # <<>> /\ Head(Tail(code[t])) = Unlock(k))
        BY <1>1, <1>2, Advanced
      <4>2. t \notin blocked[k]
        BY <1>1, <1>3, <3>1, <3>2 DEF WriterAt, At
      <4> QED BY <1>2, <2>1, <2>2, <3>2, <4>1, <4>2 DEF WriterAt, At, Busy, Unlock
    <3>3. CASE u # t
      BY <2>1, <2>2, <3>1, <3>3 DEF WriterAt, At, Busy
    <3> QED BY <3>2, <3>3
  <2> QED BY <2>1, <2>2, <2>4, <2>5, <2>6 DEF LocksIInv
<1>4. CASE announced[m] # Nobody
  <2>1. /\ blocked' = [blocked EXCEPT ![m] = @ \cup {t}]
        /\ UNCHANGED <<readers, code, announced, writing>>
    BY <1>4 DEF TakeRead
  <2>2. blocked' \in [Mutexes -> SUBSET Threads] /\ \A u \in Threads : Fits(code'[u], Reads(u)')
    BY <2>1 DEF LocksIInv, Reads
  <2>3. ASSUME NEW u \in Threads, NEW k \in Mutexes
        PROVE  WriterAt(u, k)'
    <3>1. u \in blocked'[k] => u \in blocked[k] \/ (u = t /\ k = m)
      BY <2>1 DEF LocksIInv
    <3> QED BY <1>1, <1>4, <2>1, <3>1 DEF LocksIInv, WriterAt, At, Busy
  <2> QED BY <2>1, <2>2, <2>3 DEF LocksIInv
<1> QED BY <1>3, <1>4

LEMMA DropReadStep ==
  ASSUME LocksIInv, LocksAssumption, NEW t \in Threads, NEW m \in Mutexes, DropRead(t, m)
  PROVE  LocksIInv'
<1>1. /\ At(t, "runlock", m) /\ Busy(t) /\ Advance({t})
      /\ readers' = [readers EXCEPT ![m][t] = @ - 1]
      /\ UNCHANGED <<announced, writing, blocked>>
  BY DEF DropRead, At
<1>2. \A k \in Mutexes : /\ ~At(t, "lock", k) /\ ~At(t, "unlock", k) /\ ~At(t, "rlock", k)
                         /\ announced[k] # t /\ t \notin blocked[k]
  <2>1. \A k \in Mutexes : ~At(t, "lock", k) /\ ~At(t, "unlock", k) /\ ~At(t, "rlock", k)
    BY <1>1 DEF At
  <2>2. \A k \in Mutexes : WriterAt(t, k)
    BY DEF LocksIInv
  <2> QED BY <2>1, <2>2 DEF WriterAt
<1>3. /\ code' \in [Threads -> Seq(Operation)]
      /\ \A u \in Threads : code'[u] = IF u = t THEN Tail(code[u]) ELSE code[u]
  BY <1>1, AdvanceCode
<1>4. readers[m][t] \in {1, 2} /\ Fits(Tail(code[t]), [Reads(t) EXCEPT ![m] = @ - 1])
  BY <1>1, Advanced
<1>6. readers' \in [Mutexes -> [Threads -> 0..2]]
  BY <1>1, <1>4 DEF LocksIInv
<1>7. ASSUME NEW u \in Threads PROVE Fits(code'[u], Reads(u)')
  <2>1. CASE u = t
    <3>1. Reads(t)' = [Reads(t) EXCEPT ![m] = @ - 1]
      BY <1>1 DEF LocksIInv, Reads
    <3> QED BY <1>3, <1>4, <2>1, <3>1
  <2>2. CASE u # t
    <3>1. Reads(u)' = Reads(u)
      BY <1>1, <2>2 DEF LocksIInv, Reads
    <3> QED BY <1>3, <2>2, <3>1 DEF LocksIInv
  <2> QED BY <2>1, <2>2
<1>8. ASSUME NEW u \in Threads, NEW k \in Mutexes
      PROVE  WriterAt(u, k)'
  <2>1. WriterAt(u, k)
    BY DEF LocksIInv
  <2>2. CASE u = t
    <3>1. ~(Tail(code[t]) # <<>> /\ Head(Tail(code[t])) = Unlock(k))
      BY <1>1, <1>2, Advanced
    <3> QED BY <1>1, <1>2, <1>3, <2>2, <3>1 DEF WriterAt, At, Busy, Unlock
  <2>3. CASE u # t
    BY <1>1, <1>3, <2>1, <2>3 DEF WriterAt, At, Busy
  <2> QED BY <2>2, <2>3
<1> QED BY <1>1, <1>3, <1>6, <1>7, <1>8 DEF LocksIInv

LEMMA AnnounceStep ==
  ASSUME LocksIInv, LocksAssumption, NEW t \in Threads, NEW m \in Mutexes, AnnounceWrite(t, m)
  PROVE  LocksIInv'
<1>1. /\ At(t, "lock", m) /\ announced[m] = Nobody /\ announced' = [announced EXCEPT ![m] = t]
      /\ UNCHANGED <<code, readers, writing, blocked>>
  BY DEF AnnounceWrite
<1>2. ~writing[m] /\ t # Nobody
  BY <1>1 DEF LocksIInv, LocksAssumption
<1>3. /\ announced' \in [Mutexes -> Threads \cup {Nobody}]
      /\ \A k \in Mutexes : announced'[k] = IF k = m THEN t ELSE announced[k]
  BY <1>1 DEF LocksIInv
<1>4. ASSUME NEW u \in Threads, NEW k \in Mutexes
      PROVE  WriterAt(u, k)'
  <2>1. WriterAt(u, k)
    BY DEF LocksIInv
  <2>2. ~(k = m /\ At(u, "unlock", k))
    BY <1>1, <2>1 DEF WriterAt, LocksAssumption
  <2> QED BY <1>1, <1>2, <1>3, <2>1, <2>2 DEF WriterAt, At, Busy
<1>5. \A u \in Threads : Fits(code'[u], Reads(u)')
  BY <1>1 DEF LocksIInv, Reads
<1> QED BY <1>1, <1>2, <1>3, <1>4, <1>5 DEF LocksIInv

LEMMA TakeWriteStep ==
  ASSUME LocksIInv, LocksAssumption, NEW t \in Threads, NEW m \in Mutexes, TakeWrite(t, m)
  PROVE  LocksIInv'
<1>1. /\ At(t, "lock", m) /\ Busy(t) /\ Advance({t}) /\ announced[m] = t
      /\ writing' = [writing EXCEPT ![m] = TRUE]
      /\ UNCHANGED <<readers, announced, blocked>>
  BY DEF TakeWrite, At
<1>2. /\ code' \in [Threads -> Seq(Operation)]
      /\ \A u \in Threads : code'[u] = IF u = t THEN Tail(code[u]) ELSE code[u]
  BY <1>1, AdvanceCode
<1>3. \A k \in Mutexes : /\ ~At(t, "rlock", k) /\ ~At(t, "runlock", k)
                         /\ ~At(t, "unlock", k) /\ (At(t, "lock", k) => k = m)
                         /\ t \notin blocked[k] /\ (announced[k] = t => k = m)
  <2>1. \A k \in Mutexes : /\ ~At(t, "rlock", k) /\ ~At(t, "runlock", k)
                           /\ ~At(t, "unlock", k) /\ (At(t, "lock", k) => k = m)
    BY <1>1 DEF At
  <2>2. \A k \in Mutexes : WriterAt(t, k)
    BY DEF LocksIInv
  <2> QED BY <2>1, <2>2 DEF WriterAt
<1>4. ASSUME NEW u \in Threads PROVE Fits(code'[u], Reads(u)')
  <2>1. Reads(u)' = Reads(u)
    BY <1>1 DEF Reads
  <2>2. Fits(Tail(code[t]), Reads(t))
    BY <1>1, Advanced
  <2> QED BY <1>2, <2>1, <2>2 DEF LocksIInv
<1>5. /\ writing' \in [Mutexes -> BOOLEAN]
      /\ \A k \in Mutexes : writing'[k] = IF k = m THEN TRUE ELSE writing[k]
  BY <1>1 DEF LocksIInv
<1>6. announced[m] # Nobody
  BY <1>1 DEF LocksAssumption
<1>7. ASSUME NEW u \in Threads, NEW k \in Mutexes
      PROVE  WriterAt(u, k)'
  <2>1. WriterAt(u, k)
    BY DEF LocksIInv
  <2>2. CASE u = t
    <3>1. /\ Tail(code[t]) # <<>> /\ Head(Tail(code[t])) = Unlock(m)
          /\ (Head(Tail(code[t])) = Unlock(k) => k = m)
      <4>1. Tail(code[t]) # <<>> /\ Head(Tail(code[t])) = Unlock(m)
        BY <1>1, Advanced
      <4> QED BY <4>1 DEF Unlock
    <3> QED BY <1>1, <1>2, <1>3, <1>5, <2>2, <3>1 DEF WriterAt, At, Busy, Unlock
  <2>3. CASE u # t
    BY <1>1, <1>2, <1>5, <2>1, <2>3 DEF WriterAt, At, Busy
  <2> QED BY <2>2, <2>3
<1> QED BY <1>1, <1>2, <1>4, <1>5, <1>6, <1>7 DEF LocksIInv

LEMMA DropWriteStep ==
  ASSUME LocksIInv, LocksAssumption, NEW t \in Threads, NEW m \in Mutexes, DropWrite(t, m)
  PROVE  LocksIInv'
<1> DEFINE ts == {t} \cup blocked[m]
<1>1. /\ At(t, "unlock", m) /\ announced' = [announced EXCEPT ![m] = Nobody]
      /\ writing' = [writing EXCEPT ![m] = FALSE]
      /\ readers' = [readers EXCEPT ![m] =
                       [u \in Threads |-> @[u] + IF u \in blocked[m] THEN 1 ELSE 0]]
      /\ Advance(ts) /\ blocked' = [blocked EXCEPT ![m] = {}]
  BY DEF DropWrite
<1>2. blocked[m] \in SUBSET Threads /\ \A u \in blocked[m] : At(u, "rlock", m)
  BY DEF LocksIInv, WriterAt
<1>3. ts \in SUBSET Threads /\ \A u \in ts : Busy(u)
  BY <1>1, <1>2 DEF At
<1>4. /\ code' \in [Threads -> Seq(Operation)]
      /\ \A u \in Threads : code'[u] = IF u \in ts THEN Tail(code[u]) ELSE code[u]
  BY <1>1, <1>3, AdvanceCode
<1>5. t \notin blocked[m]
  BY <1>1, <1>2 DEF At
<1>6. \A u \in blocked[m] : readers[m][u] \in {0, 1} /\ Fits(Tail(code[u]), [Reads(u) EXCEPT ![m] = @ + 1])
  BY <1>2, <1>3, Advanced
<1>7. readers' \in [Mutexes -> [Threads -> 0..2]]
  <2>1. readers \in [Mutexes -> [Threads -> 0..2]]
    BY DEF LocksIInv
  <2>2. ASSUME NEW u \in Threads PROVE readers[m][u] + (IF u \in blocked[m] THEN 1 ELSE 0) \in 0..2
    <3>1. CASE u \in blocked[m]
      <4>1. readers[m][u] \in {0, 1}
        BY <1>6, <3>1
      <4> QED BY <3>1, <4>1
    <3>2. CASE u \notin blocked[m]
      <4>1. readers[m][u] \in 0..2
        BY <2>1
      <4> QED BY <3>2, <4>1
    <3> QED BY <3>1, <3>2
  <2> DEFINE new == [u \in Threads |-> readers[m][u] + IF u \in blocked[m] THEN 1 ELSE 0]
  <2>3. new \in [Threads -> 0..2]
    BY <2>2
  <2>4. readers' = [readers EXCEPT ![m] = new]
    BY <1>1, <2>1
  <2> HIDE DEF new
  <2> QED BY <2>1, <2>3, <2>4
<1>8. ASSUME NEW u \in Threads PROVE Fits(code'[u], Reads(u)')
  <2>1. CASE u \in blocked[m]
    <3>1. Reads(u)' = [Reads(u) EXCEPT ![m] = @ + 1]
      BY <1>1, <2>1 DEF LocksIInv, Reads
    <3> QED BY <1>4, <1>6, <2>1, <3>1
  <2>2. CASE u \notin blocked[m]
    <3>1. Reads(u)' = Reads(u)
      BY <1>1, <2>2 DEF LocksIInv, Reads
    <3>2. CASE u = t
      <4>1. Fits(Tail(code[t]), Reads(t))
        BY <1>1, <1>3, Advanced
      <4> QED BY <1>4, <3>1, <3>2, <4>1
    <3>3. CASE u # t
      BY <1>4, <2>2, <3>1, <3>3 DEF LocksIInv
    <3> QED BY <3>2, <3>3
  <2> QED BY <2>1, <2>2
<1>9. /\ announced' \in [Mutexes -> Threads \cup {Nobody}]
      /\ writing' \in [Mutexes -> BOOLEAN] /\ blocked' \in [Mutexes -> SUBSET Threads]
      /\ \A k \in Mutexes : /\ announced'[k] = IF k = m THEN Nobody ELSE announced[k]
                            /\ writing'[k] = IF k = m THEN FALSE ELSE writing[k]
                            /\ blocked'[k] = IF k = m THEN {} ELSE blocked[k]
  BY <1>1 DEF LocksIInv
<1>10. announced[m] = t
  BY <1>1 DEF LocksIInv, WriterAt
<1>11. ASSUME NEW u \in Threads, NEW k \in Mutexes
       PROVE  WriterAt(u, k)'
  <2>1. WriterAt(u, k) /\ WriterAt(u, m) /\ u # Nobody
    BY DEF LocksIInv, LocksAssumption
  <2>2. CASE u \in ts
    <3>1. At(u, "rlock", m) \/ At(u, "unlock", m)
      BY <1>1, <1>2, <2>2
    <3>2. ~At(u, "lock", k) /\ (At(u, "rlock", k) \/ At(u, "unlock", k) => k = m)
      BY <3>1 DEF At
    <3>3. ~(Tail(code[u]) # <<>> /\ Head(Tail(code[u])) = Unlock(k))
      BY <1>3, <2>2, <3>2, Advanced
    <3>4. announced'[k] # u /\ u \notin blocked'[k]
      BY <1>9, <2>1, <3>2 DEF WriterAt
    <3> QED BY <1>4, <2>2, <3>3, <3>4 DEF WriterAt, At, Busy, Unlock
  <2>3. CASE u \notin ts
    <3>1. k = m => ~At(u, "unlock", k)
      BY <1>10, <2>1, <2>3 DEF WriterAt
    <3> QED BY <1>4, <1>9, <2>1, <2>3, <3>1 DEF WriterAt, At, Busy
  <2> QED BY <2>2, <2>3
<1>12. \A k \in Mutexes : writing'[k] => announced'[k] # Nobody
  BY <1>9 DEF LocksIInv
<1> QED BY <1>4, <1>7, <1>8, <1>9, <1>11, <1>12 DEF LocksIInv

LEMMA LocksIInvStep ==
  ASSUME LocksIInv, LocksAssumption, [LocksNext]_lockVars
  PROVE  LocksIInv'
<1>1. CASE UNCHANGED lockVars
  BY <1>1 DEF lockVars, LocksIInv, WriterAt, At, Busy, Reads
<1>2. ASSUME NEW t \in Threads, NEW c \in Calls, Call(t, c)
      PROVE  LocksIInv'
  BY <1>2, CallStep
<1>3. ASSUME NEW t \in Threads, Run(t)
      PROVE  LocksIInv'
  BY <1>3, TakeReadStep, DropReadStep, AnnounceStep, TakeWriteStep, DropWriteStep DEF Run
<1> QED BY <1>1, <1>2, <1>3 DEF LocksNext

\* For any number of goroutines that make any of the calls, some call in progress can
\* always go on (store.go 109, hub.go 287, 304 and 710: AllUserStatus reads the store
\* inside lastSeenMu), unless a load of a room's messages waits to take the store's mutex
\* a second time (store.go 498): that is the only circle there is.
THEOREM CallsNeverDeadlock == LocksSpec => []LocksInv
<1>1. LocksInit => LocksIInv
  BY LocksAssumption, LocksIInvInit
<1>2. LocksIInv /\ [LocksNext]_lockVars => LocksIInv'
  BY LocksAssumption, LocksIInvStep
<1>3. LocksIInv => LocksInv
  BY LocksAssumption, LocksIInvType, LocksIInvNoDeadlock DEF LocksInv
<1> QED BY <1>1, <1>2, <1>3, PTL DEF LocksSpec
=============================================================================
