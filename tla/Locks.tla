-------------------------------- MODULE Locks --------------------------------
(***************************************************************************)
(* The read-write mutexes shared by the goroutines of the server: h.mu and *)
(* h.lastSeenMu of the hub, s.mu of the store.  A call is the sequence of  *)
(* lock operations it performs; what it does in between is left out.       *)
(*                                                                         *)
(* A sync.RWMutex: a writer first announces itself and then waits for the  *)
(* readers to leave; a reader that comes after the announcement blocks     *)
(* until that writer unlocks, and then gets the lock before the next       *)
(* writer.                                                                 *)
(***************************************************************************)
EXTENDS Naturals, Sequences

CONSTANTS
  Threads,  \* goroutines
  Nobody,   \* no goroutine
  Calls     \* calls the goroutines make

Mutexes == {"hub", "seen", "store"}

RLock(m) == [kind |-> "rlock", mutex |-> m]
RUnlock(m) == [kind |-> "runlock", mutex |-> m]
Lock(m) == [kind |-> "lock", mutex |-> m]
Unlock(m) == [kind |-> "unlock", mutex |-> m]

ReadLocked(m) == <<RLock(m), RUnlock(m)>>
WriteLocked(m) == <<Lock(m), Unlock(m)>>

\* Rooms, single messages, profiles, preferences, accounts ... are read under
\* s.mu.RLock and written under s.mu.Lock.
StoreRead == ReadLocked("store")
StoreWrite == WriteLocked("store")

\* GetRoomMessages, GetMessagesBetween, GetThreadMessages and ExportMessages call
\* GetReactionsForMessages, which takes the read lock again.
RoomMessages ==
  <<RLock("store"), RLock("store"), RUnlock("store"), RUnlock("store")>>

\* Mutant: the upgraded hash is stored before the read lock is given up.
VerifyUserUpgrade == <<RLock("store"), Lock("store"), Unlock("store"), RUnlock("store")>>

\* VerifyUser gives the read lock up to store an upgraded hash.
VerifyUser ==
  <<RLock("store"), RUnlock("store"), Lock("store"), Unlock("store"),
    RLock("store"), RUnlock("store")>>

\* AllUserStatus reads the profiles while it holds lastSeenMu.
AllUserStatus ==
  <<RLock("hub"), RUnlock("hub"),
    RLock("seen"), RLock("store"), RUnlock("store"), RUnlock("seen")>>

SetLastSeen == WriteLocked("seen")

\* Fan-out to the registered clients, and changes of the client table.
Broadcast == ReadLocked("hub")
RegisterClient == WriteLocked("hub")

Program ==
  [storeRead |-> StoreRead, storeWrite |-> StoreWrite,
   roomMessages |-> RoomMessages, verifyUser |-> VerifyUser,
   allUserStatus |-> AllUserStatus, setLastSeen |-> SetLastSeen,
   broadcast |-> Broadcast, register |-> RegisterClient]

ASSUME LocksAssumption ==
  /\ Nobody \notin Threads
  /\ Calls \subseteq DOMAIN Program

VARIABLES
  code,       \* what is left of each goroutine's call
  readers,    \* read locks each goroutine holds on each mutex
  announced,  \* the goroutine that has announced a write lock, or holds it
  writing,    \* the announced writer holds the mutex
  blocked     \* goroutines blocked in RLock

lockVars == <<code, readers, announced, writing, blocked>>

LocksTypeOK ==
  /\ code \in [Threads -> Seq([kind : {"rlock", "runlock", "lock", "unlock"},
                               mutex : Mutexes])]
  /\ readers \in [Mutexes -> [Threads -> 0..2]]
  /\ announced \in [Mutexes -> Threads \cup {Nobody}]
  /\ writing \in [Mutexes -> BOOLEAN]
  /\ blocked \in [Mutexes -> SUBSET Threads]

LocksInit ==
  /\ code = [t \in Threads |-> <<>>]
  /\ readers = [m \in Mutexes |-> [t \in Threads |-> 0]]
  /\ announced = [m \in Mutexes |-> Nobody]
  /\ writing = [m \in Mutexes |-> FALSE]
  /\ blocked = [m \in Mutexes |-> {}]

-----------------------------------------------------------------------------

Busy(t) == code[t] # <<>>

At(t, kind, m) == Busy(t) /\ Head(code[t]) = [kind |-> kind, mutex |-> m]

\* The lock operation that the goroutines of the set are at is done.
Advance(ts) == code' = [t \in Threads |-> IF t \in ts THEN Tail(code[t]) ELSE code[t]]

Unread(m) == \A t \in Threads : readers[m][t] = 0

Call(t, c) ==
  /\ ~Busy(t)
  /\ code' = [code EXCEPT ![t] = Program[c]]
  /\ UNCHANGED <<readers, announced, writing, blocked>>

\* Mutant: a reader overtakes a writer that waits.
TakeReadOvertaking(t, m) ==
  /\ At(t, "rlock", m) /\ ~writing[m]
  /\ readers' = [readers EXCEPT ![m][t] = @ + 1]
  /\ Advance({t})
  /\ UNCHANGED <<blocked, announced, writing>>

TakeRead(t, m) ==
  /\ At(t, "rlock", m) /\ t \notin blocked[m]
  /\ IF announced[m] = Nobody
     THEN /\ readers' = [readers EXCEPT ![m][t] = @ + 1]
          /\ Advance({t})
          /\ UNCHANGED blocked
     ELSE /\ blocked' = [blocked EXCEPT ![m] = @ \cup {t}]
          /\ UNCHANGED <<readers, code>>
  /\ UNCHANGED <<announced, writing>>

DropRead(t, m) ==
  /\ At(t, "runlock", m)
  /\ readers' = [readers EXCEPT ![m][t] = @ - 1]
  /\ Advance({t})
  /\ UNCHANGED <<announced, writing, blocked>>

AnnounceWrite(t, m) ==
  /\ At(t, "lock", m) /\ announced[m] = Nobody
  /\ announced' = [announced EXCEPT ![m] = t]
  /\ UNCHANGED <<code, readers, writing, blocked>>

TakeWrite(t, m) ==
  /\ At(t, "lock", m) /\ announced[m] = t /\ Unread(m)
  /\ writing' = [writing EXCEPT ![m] = TRUE]
  /\ Advance({t})
  /\ UNCHANGED <<readers, announced, blocked>>

\* The blocked readers get the mutex.
DropWrite(t, m) ==
  /\ At(t, "unlock", m)
  /\ announced' = [announced EXCEPT ![m] = Nobody]
  /\ writing' = [writing EXCEPT ![m] = FALSE]
  /\ readers' = [readers EXCEPT ![m] =
                   [u \in Threads |-> @[u] + IF u \in blocked[m] THEN 1 ELSE 0]]
  /\ Advance({t} \cup blocked[m])
  /\ blocked' = [blocked EXCEPT ![m] = {}]

Run(t) ==
  \E m \in Mutexes :
    \/ TakeRead(t, m) \/ DropRead(t, m)
    \/ AnnounceWrite(t, m) \/ TakeWrite(t, m) \/ DropWrite(t, m)

LocksNext == \E t \in Threads : Run(t) \/ \E c \in Calls : Call(t, c)

LocksSpec == LocksInit /\ [][LocksNext]_lockVars

\* A goroutine that can go on does; those that wait to announce a write lock are
\* served in turn (sync.Mutex does not starve).  Nobody has to make a call.
LocksFairSpec ==
  LocksSpec /\ \A t \in Threads :
            WF_lockVars(Run(t)) /\ \A m \in Mutexes : SF_lockVars(AnnounceWrite(t, m))

-----------------------------------------------------------------------------
(* Properties                                                              *)

\* t cannot go on by itself.
Stuck(t) ==
  \E m \in Mutexes :
    \/ t \in blocked[m]
    \/ At(t, "lock", m) /\ announced[m] = t /\ ~Unread(m)
    \/ At(t, "lock", m) /\ announced[m] \notin {t, Nobody}

\* t holds s.mu for reading and waits to read it again, behind a writer that waits for t:
\* the load of a room's messages (store.go 498).
NestedWait(t) == t \in blocked["store"] /\ readers["store"][t] > 0

\* Some call in progress can always go on, unless a nested load waits for itself: there is
\* no other circle among the calls on s.mu, lastSeenMu and h.mu.
NoDeadlock ==
  (\E t \in Threads : Busy(t)) => \E t \in Threads : Busy(t) /\ (Stuck(t) => NestedWait(t))

\* The locks are in states a RWMutex can have, and the calls wait for each other in a
\* circle only where a nested load does (store.go 109, hub.go 287 and 304: three mutexes,
\* of which AllUserStatus holds one while it takes another).
LocksInv == LocksTypeOK /\ NoDeadlock

\* Every call returns, however many others keep reading and writing, until a nested load
\* waits for itself: no writer is starved by readers, no reader by writers.
CallsReturn == \A t \in Threads : Busy(t) ~> ~Busy(t) \/ \E u \in Threads : NestedWait(u)

-----------------------------------------------------------------------------
(* A statement the code does not keep                                      *)

\* Some call in progress can always go on (e2e_test.go 598: after concurrent messages a
\* new connection is still served).
NeverDeadlocked == (\E t \in Threads : Busy(t)) => \E t \in Threads : Busy(t) /\ ~Stuck(t)
=============================================================================
