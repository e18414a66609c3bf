----------------------------- MODULE ServerLocks -----------------------------
(***************************************************************************)
(* What the other modules take for granted when they make a handler one    *)
(* step: how the requests of two connected servers take structure.Source's *)
(* Lock and the Lock of the peer's Server record, write to the peer's      *)
(* websocket, and let go again; and how the goroutine that reads the       *)
(* peer's messages takes Source.Lock in between.  What the handlers        *)
(* compute is left out; that CollectRoot may meet a nil Client, a reader a *)
(* block of somebody who is not its Winner, is left open.                  *)
(***************************************************************************)
EXTENDS Integers, Sequences

CONSTANTS
  Server,     \* the two servers
  Handler,    \* pairs <<server, slot>>: bound, requests served at a time
  Requests,   \* bound: for each of them, the requests clients may make
  Capacity,   \* messages a connection holds before a write to it blocks
  Reader      \* the slot of the goroutine main starts

VARIABLES
  sourceLock,   \* per server, who holds structure.Source.Lock
  peerLock,     \* per server, who holds the Lock of its peer's record
  pc,           \* where each process is
  request,      \* what it serves
  pipe          \* per server, what it wrote and its peer has not read

locks == <<sourceLock, peerLock>>
vars  == <<locks, pc, request, pipe>>

-----------------------------------------------------------------------------
\* Handlers that take the peer's Lock around their write, and those that leave
\* it out.
UnderPeerLock ==
  {"AssignShardNum", "RegisterCommunication", "WitnessTx", "CollectRoot",
   "AppendBlock"}

Bare == {"PackTransaction", "PackValidTx", "MultiCastBlock", "SendVote"}

\* Handlers that need not write to the peer: every shard is full, the leader is
\* this server's own client, or there is nothing to tell.
Quiet == {"AssignShardNum", "SendVote", "PackAccount"}

\* Handlers that defer the Unlock of Source.Lock.  None defers the peer's.
Deferred ==
  {"AssignShardNum", "RegisterCommunication", "MultiCastBlock", "SendVote",
   "PackAccount"}

Messages == UnderPeerLock \cup Bare

Readers == Server \X {Reader}
Process == Handler \cup Readers
Free    == <<>>

ASSUME LocksAssumption ==
  /\ Capacity \in Nat \ {0}
  /\ \A s \in Server : \E t \in Server : t # s
  /\ \A p \in Handler : p \in Server \X {p[2]} /\ p[2] # Reader
  /\ \A p \in Handler : Requests[p] \subseteq Messages \cup Quiet

TypeOK ==
  /\ sourceLock \in [Server -> Process \cup {Free}]
  /\ peerLock \in [Server -> Process \cup {Free}]
  /\ pc \in [Process -> {"idle", "source", "peer", "write", "writing", "body", "dead"}]
  /\ request \in [Process -> Messages \cup Quiet \cup {"none"}]
  /\ pipe \in [Server -> Seq(Messages)]
  /\ \A s \in Server : Len(pipe[s]) <= Capacity

Init ==
  /\ sourceLock = [s \in Server |-> Free]
  /\ peerLock = [s \in Server |-> Free]
  /\ pc = [p \in Process |-> "idle"]
  /\ request = [p \in Process |-> "none"]
  /\ pipe = [s \in Server |-> <<>>]

Goes(p, to) == pc' = [pc EXCEPT ![p] = to] /\ UNCHANGED request

\* The request is answered, or the message dealt with.
Ends(p) ==
  /\ pc' = [pc EXCEPT ![p] = "idle"]
  /\ request' = [request EXCEPT ![p] = "none"]

-----------------------------------------------------------------------------
\* A request arrives.  AppendBlock forwards the block before anything else.
Begin(p, r) ==
  /\ pc[p] = "idle"
  /\ request' = [request EXCEPT ![p] = r]
  /\ pc' = [pc EXCEPT ![p] = IF r = "AppendBlock" THEN "peer" ELSE "source"]
  /\ UNCHANGED <<locks, pipe>>

\* structure.Source.Lock.Lock(), and what comes next.
LockSource(p) ==
  /\ pc[p] = "source"
  /\ sourceLock[p[1]] = Free
  /\ sourceLock' = [sourceLock EXCEPT ![p[1]] = p]
  /\ \/ /\ p \in Readers \/ request[p] \in Quiet \cup {"AppendBlock"}
        /\ Goes(p, "body")
     \/ /\ p \notin Readers /\ request[p] \in UnderPeerLock \ {"AppendBlock"}
        /\ Goes(p, "peer")
     \/ /\ p \notin Readers /\ request[p] \in Bare
        /\ Goes(p, "write")
  /\ UNCHANGED <<peerLock, pipe>>

\* Mutant: nobody takes the peer's Lock.
LockPeerNot(p) ==
  /\ pc[p] = "peer"
  /\ Goes(p, "write")
  /\ UNCHANGED <<locks, pipe>>

\* value.Lock.Lock() of the peer's record.
LockPeer(p) ==
  /\ pc[p] = "peer"
  /\ peerLock[p[1]] = Free
  /\ peerLock' = [peerLock EXCEPT ![p[1]] = p]
  /\ Goes(p, "write")
  /\ UNCHANGED <<sourceLock, pipe>>

\* value.Socket.WriteJSON begins.
StartWrite(p) ==
  /\ pc[p] = "write"
  /\ Goes(p, "writing")
  /\ UNCHANGED <<locks, pipe>>

\* The websocket library panics when it notices that somebody else is writing
\* to the connection.  gin recovers: a deferred Unlock is made up for, every
\* other lock the handler holds stays held.
Clash(p) ==
  LET s    == p[1]
      kept == {l \in {"source"} : sourceLock[s] = p /\ request[p] \notin Deferred}
                \cup {l \in {"peer"} : peerLock[s] = p}
  IN  /\ pc[p] = "write"
      /\ \E q \in Process \ {p} : q[1] = s /\ pc[q] = "writing"
      /\ sourceLock' = [sourceLock EXCEPT ![s] =
           IF @ = p /\ "source" \notin kept THEN Free ELSE @]
      /\ IF kept = {} THEN Ends(p) ELSE Goes(p, "dead")
      /\ UNCHANGED <<peerLock, pipe>>

\* Mutant: a write never waits for the peer.
EndWriteAtOnce(p) ==
  /\ pc[p] = "writing"
  /\ pipe' = [pipe EXCEPT ![p[1]] = Append(@, request[p])]
  /\ peerLock' = [peerLock EXCEPT ![p[1]] = IF @ = p THEN Free ELSE @]
  /\ Goes(p, IF request[p] = "AppendBlock" THEN "source" ELSE "body")
  /\ UNCHANGED sourceLock

\* WriteJSON returns when the connection has taken the message, and the peer's
\* Lock is released.
EndWrite(p) ==
  /\ pc[p] = "writing"
  /\ Len(pipe[p[1]]) < Capacity
  /\ pipe' = [pipe EXCEPT ![p[1]] = Append(@, request[p])]
  /\ peerLock' = [peerLock EXCEPT ![p[1]] = IF @ = p THEN Free ELSE @]
  /\ Goes(p, IF request[p] = "AppendBlock" THEN "source" ELSE "body")
  /\ UNCHANGED sourceLock

\* Mutant: a handler that does not defer the Unlock leaves it out.
UnlockSourceDeferred(p) ==
  /\ pc[p] = "body"
  /\ sourceLock' = [sourceLock EXCEPT ![p[1]] =
       IF p \in Readers \/ request[p] \in Deferred THEN Free ELSE @]
  /\ Ends(p)
  /\ UNCHANGED <<peerLock, pipe>>

\* The rest of the handler, and structure.Source.Lock.Unlock().
UnlockSource(p) ==
  /\ pc[p] = "body"
  /\ sourceLock' = [sourceLock EXCEPT ![p[1]] = Free]
  /\ Ends(p)
  /\ UNCHANGED <<peerLock, pipe>>

\* CollectRoot panics on a nil Client; a reader does so too, in an election, or
\* on a vote for a leader it does not know, or returns for a block that is not
\* its Winner's.  Source.Lock stays held.
NeverUnlocks(p) ==
  /\ pc[p] = "body"
  /\ \/ request[p] = "CollectRoot"
     \/ p \in Readers /\ request[p] \in {"RegisterCommunication", "SendVote", "AppendBlock"}
  /\ Goes(p, "dead")
  /\ UNCHANGED <<locks, pipe>>

-----------------------------------------------------------------------------
PeerOf(s) == CHOOSE t \in Server : t # s

\* comm1.ReadJSON(&metamessage).  A leader's block is passed on to clients
\* without Source.Lock, everything else waits for it.
Read(p) ==
  LET from == PeerOf(p[1])
  IN  /\ p \in Readers /\ pc[p] = "idle"
      /\ pipe[from] # <<>>
      /\ pipe' = [pipe EXCEPT ![from] = Tail(@)]
      /\ IF Head(pipe[from]) = "MultiCastBlock"
           THEN UNCHANGED <<pc, request>>
           ELSE /\ pc' = [pc EXCEPT ![p] = "source"]
                /\ request' = [request EXCEPT ![p] = Head(pipe[from])]
      /\ UNCHANGED locks

Proceeds(p) ==
  \/ Read(p)
  \/ LockSource(p)
  \/ LockPeer(p)
  \/ StartWrite(p)
  \/ EndWrite(p)
  \/ UnlockSource(p)

Next ==
  \/ \E p \in Handler : \E r \in Requests[p] : Begin(p, r)
  \/ \E p \in Process : Proceeds(p) \/ Clash(p) \/ NeverUnlocks(p)

\* A sync.Mutex is handed to whoever has waited for a millisecond, and so is a
\* connection's write: nobody is overtaken for ever.
Fairness == \A p \in Process : SF_vars(Proceeds(p))

Spec == Init /\ [][Next]_vars /\ Fairness

-----------------------------------------------------------------------------
(***************************************************************************)
(* Properties                                                              *)
(***************************************************************************)
Uploads(p) == request[p] = "AppendBlock"

\* Only a block that is being forwarded, which AppendBlock does before it takes
\* Source.Lock, ever meets another write on the peer's connection, and then
\* one by a handler that leaves the peer's Lock out: no other handlers write at
\* a time, not even two uploads.
OnlyUploadsClash ==
  \A p, q \in Process :
    (p # q /\ p[1] = q[1] /\ pc[p] = "writing" /\ pc[q] = "writing") =>
      \/ Uploads(p) /\ request[q] \in Bare
      \/ Uploads(q) /\ request[p] \in Bare

\* Both servers wait for each other: each one's lock is held by a handler that
\* cannot write, since the other's reader waits for the other's lock.
Jammed ==
  \A s \in Server :
    /\ Len(pipe[s]) = Capacity
    /\ pc[<<s, Reader>>] = "source"
    /\ sourceLock[s] # Free /\ pc[sourceLock[s]] \in {"peer", "write", "writing"}

Broken == \E p \in Process : pc[p] = "dead"

\* Every request is answered and every message handled, unless somebody panicked
\* or returned with a lock held, or both connections are full while both locks
\* are held by writers: the locks of the two servers jam in no other way.
RequestsEnd ==
  \A p \in Process :
    pc[p] # "idle" ~> pc[p] = "idle" \/ Broken \/ Jammed
=============================================================================
