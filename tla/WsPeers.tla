------------------------------ MODULE WsPeers -------------------------------
(***************************************************************************)
(* The connections of the message server (common/msg_server/ws_server.go):  *)
(* the goroutine of handlePeer of every connection, the goroutine of every  *)
(* wsPeer that writes to it, the map from users to peers they share, and    *)
(* the goroutine that hands messages to peers.                              *)
(*                                                                         *)
(* A step is what a goroutine does between two accesses to shared state: an *)
(* operation of sync.Map or of the counter, a channel operation, an access  *)
(* to wsPeer.stopChan, which goroutines read and write without a lock.      *)
(***************************************************************************)
EXTENDS Integers, FiniteSets, Sequences

CONSTANTS Conns,            \* the connections clients make
          Users,
          UserOf,           \* the user whose token a connection presents
          None,
          MaxPeers,         \* maxPeerCount
          SendCache,        \* sendMsgChanCache, of one peer
          Messages          \* the types of message the rooms send

ASSUME WsPeersAssumption ==
  /\ IsFiniteSet(Conns) /\ IsFiniteSet(Users)
  /\ UserOf \in [Conns -> Users]
  /\ None \notin Conns
  /\ MaxPeers \in Nat \ {0} /\ SendCache \in Nat \ {0}
  /\ Messages \subseteq {"binary", "room"}

VARIABLES pc,          \* where handlePeer of each connection is
          other,       \* the peer addPeer or removePeer has got from the map
          peers,       \* wsPeerSet.peers
          peerCount,   \* wsPeerSet.peerCount
          stopChan,    \* wsPeer.stopChan: nil, open or closed
          signalled,   \* the channel start made for the peer has been closed
          writer,      \* the goroutine of the peer: none, enter, select, done, or the
                       \* message it is about to write
          watch,       \* its select waits on stopChan (not on nil)
          box,         \* the messages in wsPeer.sendChan
          receiver,    \* the peer WsServer.send has got from the map for its message
          open         \* the websocket is open on the server's side

handler == <<pc, other>>
map     == <<peers, peerCount>>
peer    == <<stopChan, signalled, writer, watch, box>>
vars    == <<handler, map, peer, receiver, open>>

\* A message is of the type WriteMessage takes for a binary frame, or of one of
\* the types of the rooms (0x12 and up), which it refuses: doSend passes it on.

Init ==
  /\ pc = [c \in Conns |-> "new"] /\ other = [c \in Conns |-> None]
  /\ peers = [u \in Users |-> None] /\ peerCount = 0
  /\ stopChan = [c \in Conns |-> "nil"] /\ signalled = [c \in Conns |-> FALSE]
  /\ writer = [c \in Conns |-> "none"] /\ watch = [c \in Conns |-> FALSE]
  /\ box = [c \in Conns |-> <<>>] /\ receiver = None
  /\ open = [c \in Conns |-> FALSE]

Goto(c, from, to) == pc[c] = from /\ pc' = [pc EXCEPT ![c] = to]

-----------------------------------------------------------------------------
(* handlePeer, and addPeer and removePeer in it                             *)

\* The check of peerCount, then the upgrade; or too many peers.
Accept(c) ==
  /\ IF peerCount < MaxPeers
     THEN Goto(c, "new", "shake") /\ open' = [open EXCEPT ![c] = TRUE]
     ELSE Goto(c, "new", "done") /\ UNCHANGED open
  /\ UNCHANGED <<other, map, peer, receiver>>

\* handleShake: the token is that of a user, or the connection is closed.
Shake(c) ==
  /\ \/ Goto(c, "shake", "addGet") /\ UNCHANGED open
     \/ Goto(c, "shake", "done") /\ open' = [open EXCEPT ![c] = FALSE]
  /\ UNCHANGED <<other, map, peer, receiver>>

\* addPeer looks for a peer of the same user ...
AddGet(c) ==
  LET pre == peers[UserOf[c]]
  IN  /\ Goto(c, "addGet", IF pre = None THEN "addCount" ELSE "addStop")
      /\ other' = [other EXCEPT ![c] = pre]
      /\ UNCHANGED <<map, peer, receiver, open>>

\* wsPeer.stop is three accesses to stopChan: the test for nil, the close (of
\* what is then in the field) and the assignment.  The close of a closed or nil
\* channel panics; net/http, which called handlePeer, recovers it, so this handler
\* ends with its deferred c.Close and leaves undone what comes after the stop.
StopCheck(c, from, close, next) ==
  /\ Goto(c, from, IF stopChan[other[c]] = "nil" THEN next ELSE close)
  /\ UNCHANGED <<other, map, peer, receiver, open>>

StopClose(c, close, forget) ==
  LET p == other[c]
  IN  /\ pc[c] = close
      /\ IF stopChan[p] = "open"
         THEN /\ Goto(c, close, forget)
              /\ stopChan' = [stopChan EXCEPT ![p] = "closed"]
              /\ signalled' = [signalled EXCEPT ![p] = TRUE]
         ELSE Goto(c, close, "close") /\ UNCHANGED <<stopChan, signalled>>
      /\ UNCHANGED <<other, map, writer, watch, box, receiver, open>>

StopForget(c, forget, next) ==
  /\ Goto(c, forget, next)
  /\ stopChan' = [stopChan EXCEPT ![other[c]] = "nil"]
  /\ UNCHANGED <<other, map, signalled, writer, watch, box, receiver, open>>

\* ... stops it and sleeps 10 ms, which guarantees nothing, ...
StopPrevious(c) == \/ StopCheck(c, "addStop", "addClose", "addCount")
                   \/ StopClose(c, "addClose", "addForget")
                   \/ StopForget(c, "addForget", "addCount")

\* (an error to look for: a user who had a peer is counted already)
AddCountOfUser(c) ==
  /\ Goto(c, "addCount", "addStore")
  /\ peerCount' = IF other[c] = None THEN peerCount + 1 ELSE peerCount
  /\ UNCHANGED <<other, peers, peer, receiver, open>>

\* ... counts the new peer and puts it in the place of whatever is there.
AddCount(c) ==
  /\ Goto(c, "addCount", "addStore")
  /\ peerCount' = peerCount + 1
  /\ UNCHANGED <<other, peers, peer, receiver, open>>

\* (an error to look for: a peer that is there stays)
AddStoreIfAbsent(c) ==
  /\ Goto(c, "addStore", "start")
  /\ peers' = [peers EXCEPT ![UserOf[c]] = IF @ = None THEN c ELSE @]
  /\ UNCHANGED <<other, peerCount, peer, receiver, open>>

AddStore(c) ==
  /\ Goto(c, "addStore", "start")
  /\ peers' = [peers EXCEPT ![UserOf[c]] = c]
  /\ UNCHANGED <<other, peerCount, peer, receiver, open>>

\* wsPeer.start
StartPeer(c) ==
  /\ Goto(c, "start", "read")
  /\ stopChan' = [stopChan EXCEPT ![c] = "open"]
  /\ writer' = [writer EXCEPT ![c] = "enter"]
  /\ UNCHANGED <<other, map, signalled, watch, box, receiver, open>>

\* ReadMessage fails: the websocket has been closed on this side, or the client
\* has gone, is silent for pongWait, or its message was not handled.
ReadClosed(c) ==
  /\ ~open[c]
  /\ Goto(c, "read", "removeGet")
  /\ UNCHANGED <<other, map, peer, receiver, open>>

ClientGone(c) ==
  /\ open[c]
  /\ Goto(c, "read", "removeGet")
  /\ UNCHANGED <<other, map, peer, receiver, open>>

\* The deferred removePeer goes by the user, not by the peer.
RemoveGet(c) ==
  LET p == peers[UserOf[c]]
  IN  /\ Goto(c, "removeGet", IF p = None THEN "close" ELSE "removeStop")
      /\ other' = [other EXCEPT ![c] = p]
      /\ UNCHANGED <<map, peer, receiver, open>>

StopRemoved(c) == \/ StopCheck(c, "removeStop", "removeClose", "removeDelete")
                  \/ StopClose(c, "removeClose", "removeForget")
                  \/ StopForget(c, "removeForget", "removeDelete")

RemoveDelete(c) ==
  /\ Goto(c, "removeDelete", "removeCount")
  /\ peers' = [peers EXCEPT ![UserOf[c]] = None]
  /\ UNCHANGED <<other, peerCount, peer, receiver, open>>

RemoveCount(c) ==
  /\ Goto(c, "removeCount", "close")
  /\ peerCount' = peerCount - 1
  /\ UNCHANGED <<other, peers, peer, receiver, open>>

\* (an error to look for: the goroutine that writes is left to close the websocket)
NoClose(c) ==
  /\ Goto(c, "close", "done")
  /\ UNCHANGED <<other, map, peer, receiver, open>>

\* The deferred c.Close
CloseConn(c) ==
  /\ Goto(c, "close", "done")
  /\ open' = [open EXCEPT ![c] = FALSE]
  /\ UNCHANGED <<other, map, peer, receiver>>

HandlePeer(c) == \/ Accept(c) \/ Shake(c)
                 \/ AddGet(c) \/ StopPrevious(c) \/ AddCount(c) \/ AddStore(c) \/ StartPeer(c)
                 \/ ReadClosed(c)
                 \/ RemoveGet(c) \/ StopRemoved(c) \/ RemoveDelete(c) \/ RemoveCount(c)
                 \/ CloseConn(c)

-----------------------------------------------------------------------------
(* wsPeer.loop                                                              *)

\* Its end closes the websocket.
Leave(c) == /\ writer' = [writer EXCEPT ![c] = "done"]
            /\ open' = [open EXCEPT ![c] = FALSE]

\* Entering the select evaluates stopChan, which stop sets to nil.
EnterSelect(c) ==
  /\ writer[c] = "enter"
  /\ writer' = [writer EXCEPT ![c] = "select"]
  /\ watch' = [watch EXCEPT ![c] = stopChan[c] # "nil"]
  /\ UNCHANGED <<handler, map, stopChan, signalled, box, receiver, open>>

\* The place of a message is free once it is taken.
TakeMessage(c) ==
  /\ writer[c] = "select" /\ box[c] # <<>>
  /\ writer' = [writer EXCEPT ![c] = Head(box[c])]
  /\ box' = [box EXCEPT ![c] = Tail(@)]
  /\ UNCHANGED <<handler, map, stopChan, signalled, watch, receiver, open>>

\* doSend: the write fails on a closed websocket and for a type that is no frame.
WriteMessage(c) ==
  /\ writer[c] \in Messages
  /\ IF open[c] /\ writer[c] = "binary"
     THEN writer' = [writer EXCEPT ![c] = "enter"] /\ UNCHANGED open
     ELSE Leave(c)
  /\ UNCHANGED <<handler, map, stopChan, signalled, watch, box, receiver>>

Ping(c) ==
  /\ writer[c] = "select"
  /\ IF open[c]
     THEN writer' = [writer EXCEPT ![c] = "enter"] /\ UNCHANGED open
     ELSE Leave(c)
  /\ UNCHANGED <<handler, map, stopChan, signalled, watch, box, receiver>>

SeeStop(c) ==
  /\ writer[c] = "select" /\ watch[c] /\ signalled[c]
  /\ Leave(c)
  /\ UNCHANGED <<handler, map, stopChan, signalled, watch, box, receiver>>

Writer(c) == EnterSelect(c) \/ TakeMessage(c) \/ WriteMessage(c) \/ Ping(c) \/ SeeStop(c)

\* WsServer.loop takes a message, if there are any, and looks for the peer of its
\* user; without one it drops the message.
FindPeer(u) ==
  /\ Messages # {} /\ receiver = None /\ peers[u] # None
  /\ receiver' = peers[u]
  /\ UNCHANGED <<handler, map, peer, open>>

\* (an error to look for: the channel has one place more)
HandOverPastFull(m) ==
  /\ receiver # None /\ receiver' = None
  /\ box' = IF Len(box[receiver]) <= SendCache
            THEN [box EXCEPT ![receiver] = Append(@, m)]
            ELSE box
  /\ UNCHANGED <<handler, map, stopChan, signalled, writer, watch, open>>

\* wsPeer.send drops it as well when the channel is full.
HandOver(m) ==
  /\ receiver # None /\ receiver' = None
  /\ box' = IF Len(box[receiver]) < SendCache
            THEN [box EXCEPT ![receiver] = Append(@, m)]
            ELSE box
  /\ UNCHANGED <<handler, map, stopChan, signalled, writer, watch, open>>

-----------------------------------------------------------------------------
Next == \/ \E c \in Conns : HandlePeer(c) \/ ClientGone(c) \/ Writer(c)
        \/ (\E u \in Users : FindPeer(u)) \/ (\E m \in Messages : HandOver(m))

Spec == Init /\ [][Next]_vars

\* Goroutines that can run do, pings included; a client that is there stays, and
\* nobody has to send.
FairSpec ==
  /\ Spec
  /\ \A c \in Conns : WF_vars(HandlePeer(c)) /\ WF_vars(Writer(c)) /\ SF_vars(SeeStop(c))

-----------------------------------------------------------------------------
Steps == {"new", "shake", "addGet", "addStop", "addClose", "addForget", "addCount",
          "addStore", "start", "read", "removeGet", "removeStop", "removeClose",
          "removeForget", "removeDelete", "removeCount", "close", "done"}

\* Every variable has its type.
TypeOK ==
  /\ pc \in [Conns -> Steps]
  /\ other \in [Conns -> Conns \cup {None}]
  /\ peers \in [Users -> Conns \cup {None}]
  /\ peerCount \in Nat
  /\ stopChan \in [Conns -> {"nil", "open", "closed"}]
  /\ signalled \in [Conns -> BOOLEAN]
  /\ writer \in [Conns -> {"none", "enter", "select", "done"} \cup Messages]
  /\ watch \in [Conns -> BOOLEAN]
  /\ box \in [Conns -> Seq(Messages)] /\ \A c \in Conns : Len(box[c]) <= SendCache
  /\ receiver \in Conns \cup {None}
  /\ open \in [Conns -> BOOLEAN]

Connected == {u \in Users : peers[u] # None}

\* The counter never falls below the peers in the map, though a connection may
\* remove the peer of another one, two may remove the same, and one whose stop
\* panics neither deletes nor counts down: the limit on the number of peers can
\* refuse too early, and the map cannot grow behind it.
CountCovers == Cardinality(Connected) <= peerCount

\* A connection that has stopped this peer, or found it stopped, and is about to
\* delete it or to put its own peer in its place.
Succeeds(d, p) ==
  other[d] = p /\ pc[d] \in {"addForget", "addCount", "addStore", "removeForget", "removeDelete"}

\* The peer of a connection whose handlePeer has ended stays in the map only as
\* long as some other connection is about to take it out: a handler that dies of
\* the second stop of its peer leaves the map to the one that came first, and no
\* message is handed to a peer nobody will remove.
NoDeadEntry ==
  \A u \in Users : LET p == peers[u] IN
    p # None => /\ UserOf[p] = u
                /\ pc[p] \in {"close", "done"} => \E d \in Conns \ {p} : Succeeds(d, p)

\* When a connection is done so is, in time, the goroutine that writes to it,
\* though the stop of its peer may have hit another peer, died half way or come at
\* a moment when the goroutine was not waiting for it.
WriterEnds == \A c \in Conns : pc[c] = "done" ~> writer[c] \in {"none", "done"}

-----------------------------------------------------------------------------
\* What the comments and tests of the code say, and the code does not do.

Settled == \A c \in Conns : pc[c] \in {"new", "read", "done"}

\* "The close triggers the remove, which counts down once" (comment of addPeer;
\* the tests expect 1 after a reconnect): at rest the counter is right.
CountRight == Settled => peerCount = Cardinality(Connected)

\* "Wait for the previous connection to be deleted from the set" (comment of
\* addPeer); "the new peer sends and receives" (comment of TestNormalSeen): the
\* only connection a user has left is the one in the map.
NewPeerStays ==
  Settled => \A c \in Conns :
    /\ pc[c] = "read" /\ open[c]
    /\ \A d \in Conns \ {c} : UserOf[d] = UserOf[c] => pc[d] \in {"new", "done"}
    => peers[UserOf[c]] = c

\* "After a peer is replaced the loop of the previous handlePeer ends" (comment
\* of TestNormalSeen).
ReplacedEnds ==
  \A c \in Conns : (signalled[c] /\ pc[c] = "read") ~> pc[c] # "read"

\* "can't receive new peer, too many peers" (handlePeer)
NeverTooMany == peerCount <= MaxPeers

\* "s - c" (comments of abstracts/types.go): a message of a room to a client does
\* not end the connection.
WritesGoOut ==
  [][\A c \in Conns : writer[c] \in Messages /\ open[c] => writer'[c] # "done"]_vars
=============================================================================
