------------------------- MODULE ServerLocksProofs -------------------------
(***************************************************************************)
(* Which handlers can write to a peer's websocket at the same time, for any *)
(* number of requests, however full the connections are.                   *)
(***************************************************************************)
EXTENDS ServerLocks, TLAPS

-----------------------------------------------------------------------------
\* A process runs on a server, and readers are no handlers.
LEMMA ProcessOnServer ==
  /\ \A p \in Process : p[1] \in Server /\ p # Free
  /\ \A p \in Handler : p \in Process \ Readers /\ Requests[p] \subseteq Messages \cup Quiet
  /\ \A s \in Server : PeerOf(s) \in Server
<1>1. \A p \in Handler :
        p \in Server \X {p[2]} /\ p[2] # Reader /\ Requests[p] \subseteq Messages \cup Quiet
  BY LocksAssumption DEF LocksAssumption
<1>2. \A p \in Readers : p \in Server \X {Reader} /\ p[1] \in Server /\ p[2] = Reader
  BY DEF Readers
<1>3. \A S, T : \A p \in S \X T : p # <<>>
  OBVIOUS
<1>4. \A s \in Server : PeerOf(s) \in Server
  BY LocksAssumption DEF LocksAssumption, PeerOf
<1> QED BY <1>1, <1>2, <1>3, <1>4 DEF Process, Free

\* Who writes, and what it holds while it does.
Holds(p) ==
  /\ pc[p] \in {"peer", "write", "writing"} => p \notin Readers /\ request[p] \in Messages
  /\ pc[p] \in {"peer", "write", "writing"} /\ ~Uploads(p) => sourceLock[p[1]] = p
  /\ pc[p] = "body" => sourceLock[p[1]] = p
  /\ pc[p] \in {"write", "writing"} /\ request[p] \notin Bare => peerLock[p[1]] = p

Locking == TypeOK /\ \A p \in Process : Holds(p)

\* A step of one process that takes no lock anybody else holds leaves what the
\* others hold as it was.
LEMMA OneLocks ==
  ASSUME Locking, TypeOK', NEW p \in Process,
         \A q \in Process : q # p => pc'[q] = pc[q] /\ request'[q] = request[q],
         \A q \in Process : q # p /\ sourceLock[q[1]] = q => sourceLock'[q[1]] = q,
         \A q \in Process : q # p /\ peerLock[q[1]] = q => peerLock'[q[1]] = q,
         Holds(p)'
  PROVE  Locking'
<1>1. ASSUME NEW q \in Process, q # p PROVE Holds(q)'
  BY <1>1 DEF Locking, Holds, Uploads
<1> QED BY <1>1 DEF Locking

-----------------------------------------------------------------------------
\* A request begins: the handler holds nothing yet.
LEMMA BeginLocks ==
  ASSUME Locking, NEW p \in Handler, NEW r \in Requests[p], Begin(p, r)
  PROVE  Locking'
<1>1. p \in Process /\ p \notin Readers /\ r \in Messages \cup Quiet
  BY ProcessOnServer
<1>2. TypeOK'
  BY <1>1 DEF Begin, Locking, TypeOK, locks
<1>3. Holds(p)'
  BY <1>1 DEF Begin, Locking, TypeOK, Holds, Uploads, Messages, UnderPeerLock
<1> QED BY <1>1, <1>2, <1>3, OneLocks DEF Begin, Locking, TypeOK, locks

\* The reading goroutine takes a message, and the lock its handling needs.
LEMMA ReadLocks ==
  ASSUME Locking, NEW p \in Process, Read(p)
  PROVE  Locking'
<1>1. PICK from \in Server :
        /\ pipe[from] # <<>>
        /\ pipe' = [pipe EXCEPT ![from] = Tail(@)]
        /\ UNCHANGED locks /\ pc[p] = "idle"
        /\ \/ UNCHANGED <<pc, request>>
           \/ /\ pc' = [pc EXCEPT ![p] = "source"]
              /\ request' = [request EXCEPT ![p] = Head(pipe[from])]
  BY ProcessOnServer DEF Read
<1>2. pipe[from] \in Seq(Messages) /\ Len(pipe[from]) <= Capacity
  BY DEF Locking, TypeOK
<1>3. /\ Head(pipe[from]) \in Messages /\ Tail(pipe[from]) \in Seq(Messages)
      /\ Len(Tail(pipe[from])) <= Capacity
  BY <1>1, <1>2, LocksAssumption DEF LocksAssumption
<1>4. pipe' \in [Server -> Seq(Messages)] /\ \A s \in Server : Len(pipe'[s]) <= Capacity
  BY <1>1, <1>3 DEF Locking, TypeOK
<1>5. /\ pc' \in [Process -> {"idle", "source", "peer", "write", "writing", "body", "dead"}]
      /\ request' \in [Process -> Messages \cup Quiet \cup {"none"}]
  BY <1>1, <1>3 DEF Locking, TypeOK
<1>6. TypeOK'
  BY <1>1, <1>4, <1>5 DEF Locking, TypeOK, locks
<1>7. Holds(p)'
  BY <1>1 DEF Locking, TypeOK, Holds, Uploads
<1> QED BY <1>1, <1>6, <1>7, OneLocks DEF Locking, TypeOK, locks

\* A handler takes a lock that is free.
LEMMA LockLocks ==
  ASSUME Locking, NEW p \in Process, LockSource(p) \/ LockPeer(p)
  PROVE  Locking'
<1>1. TypeOK'
  <2>1. /\ sourceLock' \in [Server -> Process \cup {Free}]
        /\ peerLock' \in [Server -> Process \cup {Free}]
    <3>1. CASE LockSource(p)
      BY <3>1 DEF LockSource, Locking, TypeOK
    <3>2. CASE LockPeer(p)
      BY <3>2 DEF LockPeer, Locking, TypeOK
    <3> QED BY <3>1, <3>2
  <2>2. pc' \in [Process -> {"idle", "source", "peer", "write", "writing", "body", "dead"}]
    BY DEF LockSource, LockPeer, Goes, Locking, TypeOK
  <2>3. UNCHANGED <<request, pipe>>
    BY DEF LockSource, LockPeer, Goes
  <2> QED BY <2>1, <2>2, <2>3 DEF Locking, TypeOK
<1>2. Holds(p)'
  <2>1. CASE LockSource(p)
    BY <2>1, ProcessOnServer
    DEF LockSource, Goes, Locking, TypeOK, Holds, Uploads, Messages, Bare, Quiet,
        UnderPeerLock
  <2>2. CASE LockPeer(p)
    BY <2>2, ProcessOnServer DEF LockPeer, Goes, Locking, TypeOK, Holds, Uploads
  <2> QED BY <2>1, <2>2
<1> QED BY <1>1, <1>2, OneLocks, ProcessOnServer
  DEF LockSource, LockPeer, Goes, Locking, TypeOK

\* A write begins or ends; the locks stay as they are.
LEMMA WriteLocks ==
  ASSUME Locking, NEW p \in Process, StartWrite(p) \/ EndWrite(p)
  PROVE  Locking'
<1> DEFINE s == p[1]
<1>1. s \in Server /\ request[p] \in Messages
  BY ProcessOnServer DEF StartWrite, EndWrite, Locking, Holds
<1>2. TypeOK'
  <2>1. CASE StartWrite(p)
    BY <2>1 DEF StartWrite, Goes, Locking, TypeOK, locks
  <2>2. CASE EndWrite(p)
    <3>1. pipe[s] \in Seq(Messages) /\ Len(pipe[s]) < Capacity
      BY <1>1, <2>2 DEF EndWrite, Locking, TypeOK
    <3>2. /\ Append(pipe[s], request[p]) \in Seq(Messages)
          /\ Len(Append(pipe[s], request[p])) <= Capacity
      BY <1>1, <3>1, LocksAssumption DEF LocksAssumption
    <3>3. pipe' \in [Server -> Seq(Messages)] /\ \A t \in Server : Len(pipe'[t]) <= Capacity
      BY <1>1, <2>2, <3>2 DEF EndWrite, Locking, TypeOK
    <3> QED BY <2>2, <3>3 DEF EndWrite, Goes, Locking, TypeOK
  <2> QED BY <2>1, <2>2
<1>3. Holds(p)'
  BY <1>1 DEF StartWrite, EndWrite, Goes, Locking, TypeOK, Holds, Uploads, locks
<1> QED BY <1>1, <1>2, <1>3, OneLocks, ProcessOnServer
  DEF StartWrite, EndWrite, Goes, Locking, TypeOK, locks

\* A handler lets go of what it holds, or keeps Source.Lock for good.
LEMMA UnlockLocks ==
  ASSUME Locking, NEW p \in Process, UnlockSource(p) \/ NeverUnlocks(p) \/ Clash(p)
  PROVE  Locking'
<1>1. TypeOK'
  <2>1. /\ sourceLock' \in [Server -> Process \cup {Free}]
        /\ UNCHANGED <<peerLock, pipe>>
    BY ProcessOnServer DEF UnlockSource, NeverUnlocks, Clash, Locking, TypeOK, locks
  <2>2. Ends(p) \/ Goes(p, "dead")
    BY DEF UnlockSource, NeverUnlocks, Clash
  <2>3. /\ pc' \in [Process -> {"idle", "source", "peer", "write", "writing", "body", "dead"}]
        /\ request' \in [Process -> Messages \cup Quiet \cup {"none"}]
    BY <2>2 DEF Ends, Goes, Locking, TypeOK
  <2> QED BY <2>1, <2>3 DEF Locking, TypeOK
<1>2. pc'[p] \in {"idle", "dead"}
  BY DEF UnlockSource, NeverUnlocks, Clash, Ends, Goes, Locking, TypeOK
<1>3. Holds(p)'
  BY <1>2 DEF Holds
<1>4. \A q \in Process : q # p => pc'[q] = pc[q] /\ request'[q] = request[q]
  BY DEF UnlockSource, NeverUnlocks, Clash, Ends, Goes, Locking, TypeOK
<1>5. peerLock' = peerLock
  BY DEF UnlockSource, NeverUnlocks, Clash, locks
<1>6. UnlockSource(p) => sourceLock[p[1]] = p
  BY DEF UnlockSource, Locking, Holds
<1>7. \A q \in Process : q # p /\ sourceLock[q[1]] = q => sourceLock'[q[1]] = q
  BY <1>6, ProcessOnServer DEF UnlockSource, NeverUnlocks, Clash, locks, Locking, TypeOK
<1> QED BY <1>1, <1>3, <1>4, <1>5, <1>7, OneLocks

\* At the start nobody holds a lock.
LEMMA InitLocks == Init => Locking
BY ProcessOnServer, LocksAssumption DEF LocksAssumption, Init, Locking, TypeOK, Holds

\* Every step keeps what the locks say about writers.
LEMMA StepLocks == Locking /\ [Next]_vars => Locking'
<1> SUFFICES ASSUME Locking, [Next]_vars PROVE Locking'
  OBVIOUS
<1>1. CASE UNCHANGED vars
  BY <1>1 DEF vars, locks, Locking, TypeOK, Holds, Uploads
<1> QED BY <1>1, BeginLocks, ReadLocks, LockLocks, WriteLocks, UnlockLocks DEF Next, Proceeds

-----------------------------------------------------------------------------
\* Every process and every lock keeps its type, and no connection holds more
\* than it can.
THEOREM LocksTypeCorrect == Spec => []TypeOK
<1>1. Locking => TypeOK
  BY DEF Locking
<1> QED BY <1>1, InitLocks, StepLocks, PTL DEF Spec

\* Two handlers of one server write to its peer at the same time only if one of
\* them forwards a block and the other leaves the peer's Lock out.
THEOREM ClashesAreUploads == Spec => []OnlyUploadsClash
<1>1. Locking => OnlyUploadsClash
  <2> SUFFICES ASSUME Locking, NEW p \in Process, NEW q \in Process,
                      p # q, p[1] = q[1], pc[p] = "writing", pc[q] = "writing"
               PROVE  \/ Uploads(p) /\ request[q] \in Bare
                      \/ Uploads(q) /\ request[p] \in Bare
    BY DEF OnlyUploadsClash
  <2>1. Holds(p) /\ Holds(q)
    BY DEF Locking
  <2>2. Uploads(p) \/ Uploads(q)
    BY <2>1 DEF Holds
  <2>3. Uploads(p) => request[p] \notin Bare
    BY DEF Uploads, Bare
  <2>4. Uploads(q) => request[q] \notin Bare
    BY DEF Uploads, Bare
  <2> QED BY <2>1, <2>2, <2>3, <2>4 DEF Holds
<1> QED BY <1>1, InitLocks, StepLocks, PTL DEF Spec
=============================================================================
