--------------------------- MODULE WsPeersProofs ----------------------------
(***************************************************************************)
(* The counter of peers covers the map, the map holds no dead peer for     *)
(* good and no channel overflows, for every number of connections, users   *)
(* and messages.                                                           *)
(*                                                                         *)
(* The first two are not inductive: a connection may remove the peer of    *)
(* another one, and a handler may die of the second stop of its peer, so   *)
(* that what is in the map says nothing of who will still count down.  The *)
(* strengthening counts connections instead: those between their increment *)
(* and their decrement, and those that died while their peer was in the    *)
(* map, are at most peerCount, and every peer in the map is that of such a *)
(* connection, of the user it is filed under.  That a handler dies only of *)
(* a peer somebody else has stopped and is about to take out follows from  *)
(* what is known of the channel of a peer at each step.                    *)
(***************************************************************************)
EXTENDS WsPeers, FiniteSetTheorems, SequenceTheorems, TLAPS

\* The steps at which the map may hold the peer of a living connection ...
Filed == {"start", "read", "removeGet", "removeStop", "removeClose", "removeForget",
          "removeDelete"}

\* ... and those between its increment of the counter and its decrement.
Due == Filed \cup {"addStore", "removeCount"}

\* The handler is over but for the deferred c.Close.
Ended == {"close", "done"}

\* The steps at which the goroutine of the peer has not been started ...
Early == {"new", "shake", "addGet", "addStop", "addClose", "addForget", "addCount",
          "addStore", "start"}

\* ... and those at which wsPeer.stop runs, and a connection removes a peer.
Stopping == {"addStop", "addClose", "addForget", "removeStop", "removeClose", "removeForget"}
Removing == {"removeStop", "removeClose", "removeForget", "removeDelete"}
Succeeding == {"addForget", "addCount", "addStore", "removeForget", "removeDelete"}

Owing == {c \in Conns : pc[c] \in Due \/ (pc[c] \in Ended /\ peers[UserOf[c]] = c)}

OwingCounted == peerCount \in Int /\ Cardinality(Owing) <= peerCount

\* A dead peer of the map is one that somebody has stopped.
EntriesFiled ==
  \A u \in Users : peers[u] # None =>
    /\ UserOf[peers[u]] = u
    /\ pc[peers[u]] \in Filed \/ (pc[peers[u]] \in Ended /\ signalled[peers[u]])

StopsOneUser ==
  \A c \in Conns : pc[c] \in Stopping \cup Succeeding =>
    \/ other[c] \in Conns /\ UserOf[other[c]] = UserOf[c]
    \/ other[c] = None /\ pc[c] \notin Stopping

NotYetStopped == \A c \in Conns : pc[c] \in Early => stopChan[c] = "nil" /\ ~signalled[c]

OpenOrStopped ==
  \A c \in Conns : pc[c] \in Removing \cup {"read", "removeGet"} =>
                      stopChan[c] = "open" \/ signalled[c]

ForgetsStopped ==
  \A c \in Conns : pc[c] \in {"addForget", "removeForget"} => signalled[other[c]]

\* A connection that removes another one's peer has lost its own entry.
RemovesAnother ==
  \A c \in Conns : pc[c] \in Removing /\ other[c] # c => peers[UserOf[c]] # c

\* Whoever closed the channel of a peer of the map is still about to take it out.
StoppedIsSucceeded ==
  \A c \in Conns : peers[UserOf[c]] = c /\ signalled[c] => \E d \in Conns : Succeeds(d, c)

StopInv == /\ StopsOneUser /\ NotYetStopped /\ OpenOrStopped
           /\ ForgetsStopped /\ RemovesAnother /\ StoppedIsSucceeded

-----------------------------------------------------------------------------
(* Types.                                                                   *)

GoroutineTypes ==
  /\ pc \in [Conns -> Steps]
  /\ other \in [Conns -> Conns \cup {None}]
  /\ peers \in [Users -> Conns \cup {None}]
  /\ stopChan \in [Conns -> {"nil", "open", "closed"}]
  /\ signalled \in [Conns -> BOOLEAN]
  /\ writer \in [Conns -> {"none", "enter", "select", "done"} \cup Messages]
  /\ watch \in [Conns -> BOOLEAN]
  /\ receiver \in Conns \cup {None}
  /\ open \in [Conns -> BOOLEAN]

BoxTypes ==
  /\ box \in [Conns -> Seq(Messages)]
  /\ \A c \in Conns : Len(box[c]) <= SendCache

\* The steps of handlePeer touch no channel of messages.
LEMMA HandlePeerTypes ==
  ASSUME GoroutineTypes, BoxTypes, NEW c \in Conns, HandlePeer(c) \/ ClientGone(c)
  PROVE  GoroutineTypes' /\ BoxTypes'
<1>0. UserOf[c] \in Users /\ \A d \in Conns : peers[UserOf[d]] \in Conns \cup {None}
  BY WsPeersAssumption DEF GoroutineTypes
<1>1. CASE Accept(c) \/ Shake(c) \/ CloseConn(c) \/ ReadClosed(c) \/ ClientGone(c)
  BY <1>1 DEF Accept, Shake, CloseConn, ReadClosed, ClientGone, Goto, map, peer,
              GoroutineTypes, BoxTypes, Steps
<1>2. CASE AddGet(c) \/ RemoveGet(c)
  <2>1. PICK to \in Steps : pc' = [pc EXCEPT ![c] = to]
    BY <1>2 DEF AddGet, RemoveGet, Goto, Steps
  <2>2. other' = [other EXCEPT ![c] = peers[UserOf[c]]]
    BY <1>2 DEF AddGet, RemoveGet
  <2> QED
    BY <1>0, <1>2, <2>1, <2>2 DEF AddGet, RemoveGet, map, peer, GoroutineTypes, BoxTypes
<1>3. CASE StopPrevious(c) \/ StopRemoved(c)
  <2>1. PICK to \in Steps : pc' = [pc EXCEPT ![c] = to]
    BY <1>3 DEF StopPrevious, StopRemoved, StopCheck, StopClose, StopForget, Goto, Steps
  <2>2. \/ UNCHANGED <<stopChan, signalled>>
        \/ /\ stopChan' = [stopChan EXCEPT ![other[c]] = "closed"]
           /\ signalled' = [signalled EXCEPT ![other[c]] = TRUE]
        \/ stopChan' = [stopChan EXCEPT ![other[c]] = "nil"] /\ UNCHANGED signalled
    BY <1>3 DEF StopPrevious, StopRemoved, StopCheck, StopClose, StopForget, peer
  <2>3. UNCHANGED <<other, map, writer, watch, box, receiver, open>>
    BY <1>3 DEF StopPrevious, StopRemoved, StopCheck, StopClose, StopForget, peer
  <2> QED
    BY <2>1, <2>2, <2>3 DEF map, GoroutineTypes, BoxTypes
<1>4. CASE AddCount(c) \/ AddStore(c) \/ StartPeer(c)
  BY <1>0, <1>4 DEF AddCount, AddStore, StartPeer, Goto, map, peer, GoroutineTypes, BoxTypes, Steps
<1>5. CASE RemoveDelete(c) \/ RemoveCount(c)
  BY <1>0, <1>5 DEF RemoveDelete, RemoveCount, Goto, peer, GoroutineTypes, BoxTypes, Steps
<1> QED
  BY <1>1, <1>2, <1>3, <1>4, <1>5 DEF HandlePeer

\* The goroutine of a peer takes a message only out of a channel that has one.
LEMMA WriterTypes ==
  ASSUME GoroutineTypes, BoxTypes, NEW c \in Conns, Writer(c)
  PROVE  GoroutineTypes' /\ BoxTypes'
<1>1. CASE EnterSelect(c) \/ WriteMessage(c) \/ Ping(c) \/ SeeStop(c)
  BY <1>1 DEF EnterSelect, WriteMessage, Ping, SeeStop, Leave, handler, map,
              GoroutineTypes, BoxTypes
<1>2. CASE TakeMessage(c)
  <2>1. /\ box[c] # <<>> /\ box' = [box EXCEPT ![c] = Tail(box[c])]
        /\ writer' = [writer EXCEPT ![c] = Head(box[c])]
        /\ UNCHANGED <<handler, map, stopChan, signalled, watch, receiver, open>>
    BY <1>2 DEF TakeMessage
  <2>2. box[c] \in Seq(Messages) /\ Len(box[c]) <= SendCache
    BY DEF BoxTypes
  <2>3. /\ Head(box[c]) \in Messages /\ Tail(box[c]) \in Seq(Messages)
        /\ Len(Tail(box[c])) = Len(box[c]) - 1 /\ Len(box[c]) \in Nat
    BY <2>1, <2>2
  <2>4. Len(Tail(box[c])) <= SendCache
    BY <2>2, <2>3, WsPeersAssumption
  <2>5. GoroutineTypes'
    BY <2>1, <2>3 DEF handler, map, GoroutineTypes
  <2>6. BoxTypes'
    BY <2>1, <2>3, <2>4 DEF BoxTypes
  <2> QED
    BY <2>5, <2>6
<1> QED
  BY <1>1, <1>2 DEF Writer

\* A message is put into a channel that has a place left.
LEMMA MessageTypes ==
  ASSUME GoroutineTypes, BoxTypes,
         (\E u \in Users : FindPeer(u)) \/ (\E m \in Messages : HandOver(m))
  PROVE  GoroutineTypes' /\ BoxTypes'
<1>1. ASSUME NEW u \in Users, FindPeer(u) PROVE GoroutineTypes' /\ BoxTypes'
  BY <1>1 DEF FindPeer, handler, map, peer, GoroutineTypes, BoxTypes
<1>2. ASSUME NEW m \in Messages, HandOver(m) PROVE GoroutineTypes' /\ BoxTypes'
  <2>1. GoroutineTypes'
    BY <1>2 DEF HandOver, handler, map, GoroutineTypes
  <2>2. receiver \in Conns
    BY <1>2 DEF HandOver, GoroutineTypes
  <2>3. CASE Len(box[receiver]) < SendCache
    <3>1. box' = [box EXCEPT ![receiver] = Append(box[receiver], m)]
      BY <1>2, <2>3 DEF HandOver
    <3>2. box[receiver] \in Seq(Messages)
      BY <2>2 DEF BoxTypes
    <3>3. /\ Append(box[receiver], m) \in Seq(Messages)
          /\ Len(Append(box[receiver], m)) = Len(box[receiver]) + 1
      BY <3>2, AppendProperties
    <3>4. Len(Append(box[receiver], m)) <= SendCache
      BY <2>3, <3>2, <3>3, WsPeersAssumption
    <3> QED
      BY <2>1, <3>1, <3>3, <3>4 DEF BoxTypes
  <2>4. CASE ~(Len(box[receiver]) < SendCache)
    BY <1>2, <2>1, <2>4 DEF HandOver, BoxTypes
  <2> QED
    BY <2>1, <2>3, <2>4
<1> QED
  BY <1>1, <1>2

\* Every step keeps the types.
LEMMA TypesInductive ==
  ASSUME GoroutineTypes, BoxTypes, [Next]_vars
  PROVE  GoroutineTypes' /\ BoxTypes'
<1>1. CASE Next
  BY <1>1, HandlePeerTypes, WriterTypes, MessageTypes DEF Next
<1>2. CASE UNCHANGED vars
  BY <1>2 DEF vars, handler, map, peer, GoroutineTypes, BoxTypes
<1> QED
  BY <1>1, <1>2

-----------------------------------------------------------------------------
(* The channel of a peer, and who will take the peer out of the map.        *)

\* What the steps below are about: the types, the map and the channels.
MapInv == GoroutineTypes /\ EntriesFiled /\ StopInv

\* A connection at such a step is one whose peer is not in the map.
LEMMA NotFiled ==
  ASSUME MapInv, NEW c \in Conns, pc[c] \notin Filed, pc[c] \notin Ended
  PROVE  \A u \in Users : peers[u] # c
BY WsPeersAssumption DEF MapInv, EntriesFiled

\* A connection that moves, and touches neither the map nor a channel, keeps the
\* invariant if it starts no stop, dies not and leaves no peer behind.
LEMMA QuietMove ==
  ASSUME MapInv, GoroutineTypes', NEW c \in Conns, NEW from \in Steps, NEW to \in Steps,
         Goto(c, from, to), peers' = peers,
         UNCHANGED <<other, stopChan, signalled>>,
         from \in Filed => to \in Filed, from \in Ended => to \in Ended,
         to \in Stopping => from \in Stopping,
         to \in Succeeding => from \in Stopping \cup Succeeding, to \in Early => from \in Early,
         to \in Removing \cup {"read", "removeGet"} => from \in Removing \cup {"read", "removeGet"},
         to \notin {"addForget", "removeForget"}, to \in Removing => from \in Removing,
         from \in Succeeding => to \in Succeeding
  PROVE  EntriesFiled' /\ StopInv'
<1>1. pc' = [pc EXCEPT ![c] = to] /\ pc[c] = from
  BY DEF Goto
<1>2. \A d \in Conns : d # c => pc'[d] = pc[d]
  BY <1>1 DEF MapInv, GoroutineTypes
<1>3. pc'[c] = to
  BY <1>1 DEF MapInv, GoroutineTypes
<1>4. EntriesFiled'
  BY <1>1, <1>2, <1>3 DEF MapInv, EntriesFiled
<1>5. StopsOneUser' /\ NotYetStopped' /\ OpenOrStopped'
  BY <1>1, <1>2, <1>3 DEF MapInv, StopInv, StopsOneUser, NotYetStopped, OpenOrStopped
<1>6. ForgetsStopped' /\ RemovesAnother'
  BY <1>1, <1>2, <1>3 DEF MapInv, StopInv, ForgetsStopped, RemovesAnother
<1>7. StoppedIsSucceeded'
  <2> SUFFICES ASSUME NEW p \in Conns, peers[UserOf[p]] = p, signalled[p]
               PROVE  \E d \in Conns : Succeeds(d, p)'
    BY DEF StoppedIsSucceeded
  <2>1. PICK d \in Conns : Succeeds(d, p)
    BY DEF MapInv, StopInv, StoppedIsSucceeded
  <2> QED
    BY <1>1, <1>2, <1>3, <2>1 DEF Succeeds, Succeeding
<1> QED
  BY <1>4, <1>5, <1>6, <1>7 DEF StopInv

\* A stop that finds the channel closed or gone goes on, or dies.
LEMMA StopCheckKeeps ==
  ASSUME MapInv, GoroutineTypes', NEW c \in Conns,
         \/ StopCheck(c, "addStop", "addClose", "addCount")
         \/ StopCheck(c, "removeStop", "removeClose", "removeDelete")
  PROVE  EntriesFiled' /\ StopInv'
<1>1. peers' = peers /\ UNCHANGED <<other, stopChan, signalled>>
  BY DEF StopCheck, map, peer
<1>2. \/ Goto(c, "addStop", "addClose") \/ Goto(c, "addStop", "addCount")
      \/ Goto(c, "removeStop", "removeClose") \/ Goto(c, "removeStop", "removeDelete")
  BY DEF StopCheck
<1> QED
  BY <1>1, <1>2, QuietMove DEF Filed, Ended, Stopping, Early, Removing, Succeeding, Steps

\* StopClose closes an open channel: the one who closed it will take the peer out.
LEMMA ChannelClosed ==
  ASSUME MapInv, GoroutineTypes', NEW c \in Conns, stopChan[other[c]] = "open",
         \/ Goto(c, "addClose", "addForget") \/ Goto(c, "removeClose", "removeForget"),
         stopChan' = [stopChan EXCEPT ![other[c]] = "closed"],
         signalled' = [signalled EXCEPT ![other[c]] = TRUE],
         other' = other, peers' = peers
  PROVE  EntriesFiled' /\ StopInv'
<1>1. \A d \in Conns : d # c => pc'[d] = pc[d]
  BY DEF MapInv, GoroutineTypes, Goto
<1>2. \/ pc[c] = "addClose" /\ pc'[c] = "addForget"
      \/ pc[c] = "removeClose" /\ pc'[c] = "removeForget"
  BY DEF MapInv, GoroutineTypes, Goto
<1>3. other[c] \in Conns /\ UserOf[other[c]] = UserOf[c]
  BY <1>2, WsPeersAssumption DEF MapInv, StopInv, StopsOneUser, Stopping, Succeeding
<1>4. pc[other[c]] \notin Early
  BY <1>3 DEF MapInv, StopInv, NotYetStopped
<1>5. signalled'[other[c]] /\ \A d \in Conns : signalled'[d] = (signalled[d] \/ d = other[c])
  BY <1>3 DEF MapInv, GoroutineTypes
<1>6. EntriesFiled'
  BY <1>1, <1>2, <1>5 DEF MapInv, EntriesFiled, GoroutineTypes, Filed, Ended
<1>7. StopsOneUser'
  BY <1>1, <1>2, <1>3 DEF MapInv, StopInv, StopsOneUser, Stopping, Succeeding
<1>8. NotYetStopped'
  BY <1>1, <1>2, <1>3, <1>4, <1>5 DEF MapInv, GoroutineTypes, StopInv, NotYetStopped, Early
<1>9. OpenOrStopped'
  BY <1>1, <1>2, <1>3, <1>5 DEF MapInv, GoroutineTypes, StopInv, OpenOrStopped, Removing
<1>10. ForgetsStopped'
  <2> SUFFICES ASSUME NEW d \in Conns, pc'[d] \in {"addForget", "removeForget"}
               PROVE  signalled'[other[d]]
    BY DEF ForgetsStopped
  <2>1. CASE d = c
    BY <1>5, <2>1
  <2>2. CASE d # c
    <3>1. signalled[other[d]] /\ other[d] \in Conns
      BY <1>1, <2>2 DEF MapInv, StopInv, ForgetsStopped, StopsOneUser, Stopping, Succeeding
    <3> QED
      BY <1>5, <3>1
  <2> QED
    BY <2>1, <2>2
<1>11. RemovesAnother'
  BY <1>1, <1>2 DEF MapInv, StopInv, RemovesAnother, Removing
<1>12. StoppedIsSucceeded'
  <2> SUFFICES ASSUME NEW p \in Conns, peers[UserOf[p]] = p, signalled'[p]
               PROVE  \E d \in Conns : Succeeds(d, p)'
    BY DEF StoppedIsSucceeded
  <2>1. CASE p = other[c]
    BY <1>2, <2>1 DEF Succeeds
  <2>2. CASE p # other[c]
    <3>1. PICK d \in Conns : Succeeds(d, p)
      BY <1>5, <2>2 DEF MapInv, StopInv, StoppedIsSucceeded
    <3> QED
      BY <1>1, <1>2, <3>1 DEF Succeeds
  <2> QED
    BY <2>1, <2>2
<1> QED
  BY <1>6, <1>7, <1>8, <1>9, <1>10, <1>11, <1>12 DEF StopInv

\* The second close of a peer's channel ends the handler that does it; its own
\* peer, if it was that one, is about to be taken out by the one who came first.
LEMMA HandlerDies ==
  ASSUME MapInv, GoroutineTypes', NEW c \in Conns, stopChan[other[c]] # "open",
         Goto(c, "addClose", "close") \/ Goto(c, "removeClose", "close"),
         other' = other, peers' = peers, UNCHANGED <<stopChan, signalled>>
  PROVE  EntriesFiled' /\ StopInv'
<1>1. \A d \in Conns : d # c => pc'[d] = pc[d]
  BY DEF MapInv, GoroutineTypes, Goto
<1>2. pc'[c] = "close" /\ pc[c] \in {"addClose", "removeClose"}
  BY DEF MapInv, GoroutineTypes, Goto
<1>3. \A u \in Users : peers[u] = c => signalled[c]
  <2> SUFFICES ASSUME NEW u \in Users, peers[u] = c PROVE signalled[c]
    OBVIOUS
  <2>1. UserOf[c] = u /\ pc[c] = "removeClose"
    BY <1>2, WsPeersAssumption DEF MapInv, EntriesFiled, Filed, Ended
  <2>2. other[c] = c
    BY <2>1 DEF MapInv, StopInv, RemovesAnother, Removing
  <2> QED
    BY <2>1, <2>2 DEF MapInv, StopInv, OpenOrStopped, Removing
<1>4. EntriesFiled'
  BY <1>1, <1>2, <1>3 DEF MapInv, EntriesFiled, GoroutineTypes, Ended
<1>5. StopsOneUser' /\ NotYetStopped' /\ OpenOrStopped'
  BY <1>1, <1>2 DEF MapInv, StopInv, StopsOneUser, NotYetStopped, OpenOrStopped,
                    Stopping, Succeeding, Early, Removing
<1>6. ForgetsStopped' /\ RemovesAnother'
  BY <1>1, <1>2 DEF MapInv, StopInv, ForgetsStopped, RemovesAnother, Removing
<1>7. StoppedIsSucceeded'
  <2> SUFFICES ASSUME NEW p \in Conns, peers[UserOf[p]] = p, signalled[p]
               PROVE  \E d \in Conns : Succeeds(d, p)'
    BY DEF StoppedIsSucceeded
  <2>1. PICK d \in Conns : Succeeds(d, p)
    BY DEF MapInv, StopInv, StoppedIsSucceeded
  <2> QED
    BY <1>1, <1>2, <2>1 DEF Succeeds
<1> QED
  BY <1>4, <1>5, <1>6, <1>7 DEF StopInv

\* The assignment of nil: the channel of that peer has been closed.
LEMMA ChannelForgotten ==
  ASSUME MapInv, GoroutineTypes', NEW c \in Conns,
         \/ StopForget(c, "addForget", "addCount")
         \/ StopForget(c, "removeForget", "removeDelete")
  PROVE  EntriesFiled' /\ StopInv'
<1>1. \A d \in Conns : d # c => pc'[d] = pc[d]
  BY DEF MapInv, GoroutineTypes, StopForget, Goto
<1>2. \/ pc[c] = "addForget" /\ pc'[c] = "addCount"
      \/ pc[c] = "removeForget" /\ pc'[c] = "removeDelete"
  BY DEF MapInv, GoroutineTypes, StopForget, Goto
<1>3. other' = other /\ peers' = peers /\ signalled' = signalled
      /\ stopChan' = [stopChan EXCEPT ![other[c]] = "nil"]
  BY DEF StopForget, map
<1>4. signalled[other[c]] /\ other[c] \in Conns
  BY <1>2 DEF MapInv, StopInv, ForgetsStopped, StopsOneUser, Stopping, Succeeding
<1>5. \A d \in Conns : stopChan'[d] = stopChan[d] \/ (signalled[d] /\ stopChan'[d] = "nil")
  BY <1>3, <1>4 DEF MapInv, GoroutineTypes
<1>6. EntriesFiled'
  BY <1>1, <1>2, <1>3 DEF MapInv, EntriesFiled, GoroutineTypes, Filed, Ended
<1>7. StopsOneUser' /\ NotYetStopped' /\ OpenOrStopped'
  BY <1>1, <1>2, <1>3, <1>5 DEF MapInv, StopInv, StopsOneUser, NotYetStopped, OpenOrStopped,
                                Stopping, Succeeding, Early, Removing
<1>8. ForgetsStopped' /\ RemovesAnother'
  BY <1>1, <1>2, <1>3 DEF MapInv, StopInv, ForgetsStopped, RemovesAnother, Removing
<1>9. StoppedIsSucceeded'
  <2> SUFFICES ASSUME NEW p \in Conns, peers[UserOf[p]] = p, signalled[p]
               PROVE  \E d \in Conns : Succeeds(d, p)'
    BY <1>3 DEF StoppedIsSucceeded
  <2>1. PICK d \in Conns : Succeeds(d, p)
    BY DEF MapInv, StopInv, StoppedIsSucceeded
  <2> QED
    BY <1>1, <1>2, <1>3, <2>1 DEF Succeeds
<1> QED
  BY <1>6, <1>7, <1>8, <1>9 DEF StopInv

\* What addPeer and removePeer find in the map is a peer of their user.
LEMMA PeerGot ==
  ASSUME MapInv, GoroutineTypes', NEW c \in Conns, AddGet(c) \/ RemoveGet(c)
  PROVE  EntriesFiled' /\ StopInv'
<1>1. \A d \in Conns : d # c => pc'[d] = pc[d] /\ other'[d] = other[d]
  BY DEF MapInv, GoroutineTypes, AddGet, RemoveGet, Goto
<1>2. /\ other'[c] = peers[UserOf[c]]
      /\ \/ pc[c] = "addGet" /\ pc'[c] = "addCount"
         \/ pc[c] = "addGet" /\ pc'[c] = "addStop" /\ peers[UserOf[c]] # None
         \/ pc[c] = "removeGet" /\ pc'[c] = "close" /\ peers[UserOf[c]] = None
         \/ pc[c] = "removeGet" /\ pc'[c] = "removeStop" /\ peers[UserOf[c]] # None
  BY DEF MapInv, GoroutineTypes, AddGet, RemoveGet, Goto
<1>3. peers' = peers /\ signalled' = signalled /\ stopChan' = stopChan
  BY DEF AddGet, RemoveGet, map, peer
<1>4. UserOf[c] \in Users
  BY WsPeersAssumption
<1>5. EntriesFiled'
  <2>1. \A u \in Users : peers[u] = c => peers[UserOf[c]] = c
    BY WsPeersAssumption DEF MapInv, EntriesFiled
  <2>2. c # None
    BY WsPeersAssumption
  <2> QED
    BY <1>1, <1>2, <1>3, <2>1, <2>2 DEF MapInv, EntriesFiled, GoroutineTypes, Filed, Ended
<1>6. StopsOneUser'
  <2>1. peers[UserOf[c]] # None => peers[UserOf[c]] \in Conns /\ UserOf[peers[UserOf[c]]] = UserOf[c]
    BY <1>4 DEF MapInv, EntriesFiled, GoroutineTypes
  <2> QED
    BY <1>1, <1>2, <2>1 DEF MapInv, StopInv, StopsOneUser, Stopping, Succeeding
<1>7. NotYetStopped' /\ OpenOrStopped'
  BY <1>1, <1>2, <1>3 DEF MapInv, StopInv, NotYetStopped, OpenOrStopped, Early, Removing
<1>8. ForgetsStopped' /\ RemovesAnother'
  BY <1>1, <1>2, <1>3 DEF MapInv, StopInv, ForgetsStopped, RemovesAnother, Removing
<1>9. StoppedIsSucceeded'
  <2> SUFFICES ASSUME NEW p \in Conns, peers[UserOf[p]] = p, signalled[p]
               PROVE  \E d \in Conns : Succeeds(d, p)'
    BY <1>3 DEF StoppedIsSucceeded
  <2>1. PICK d \in Conns : Succeeds(d, p)
    BY DEF MapInv, StopInv, StoppedIsSucceeded
  <2> QED
    BY <1>1, <1>2, <2>1 DEF Succeeds
<1> QED
  BY <1>5, <1>6, <1>7, <1>8, <1>9 DEF StopInv

\* AddStore: whatever was filed under the user, a connection that counted is now,
\* one whose channel nobody has stopped.
LEMMA AddStoreKeeps ==
  ASSUME MapInv, GoroutineTypes', NEW c \in Conns, AddStore(c)
  PROVE  EntriesFiled' /\ StopInv'
<1>1. \A d \in Conns : d # c => pc'[d] = pc[d]
  BY DEF MapInv, GoroutineTypes, AddStore, Goto
<1>2. pc[c] = "addStore" /\ pc'[c] = "start"
  BY DEF MapInv, GoroutineTypes, AddStore, Goto
<1>3. other' = other /\ signalled' = signalled /\ stopChan' = stopChan
  BY DEF AddStore, peer
<1>4. UserOf[c] \in Users /\ peers'[UserOf[c]] = c
      /\ \A u \in Users : u # UserOf[c] => peers'[u] = peers[u]
  BY WsPeersAssumption DEF MapInv, GoroutineTypes, AddStore
<1>5. EntriesFiled'
  <2>1. \A u \in Users : peers[u] # c
    BY <1>2, NotFiled DEF Filed, Ended
  <2> QED
    BY <1>1, <1>2, <1>3, <1>4, <2>1 DEF MapInv, EntriesFiled, GoroutineTypes, Filed
<1>6. StopsOneUser' /\ NotYetStopped' /\ OpenOrStopped'
  BY <1>1, <1>2, <1>3 DEF MapInv, StopInv, StopsOneUser, NotYetStopped, OpenOrStopped,
                          Stopping, Succeeding, Early, Removing
<1>7. ForgetsStopped'
  BY <1>1, <1>2, <1>3 DEF MapInv, StopInv, ForgetsStopped
<1>8. RemovesAnother'
  <2> SUFFICES ASSUME NEW d \in Conns, pc'[d] \in Removing, other[d] # d
               PROVE  peers'[UserOf[d]] # d
    BY <1>3 DEF RemovesAnother
  <2>1. d # c /\ peers[UserOf[d]] # d
    BY <1>1, <1>2 DEF MapInv, StopInv, RemovesAnother, Removing
  <2> QED
    BY <1>4, <2>1, WsPeersAssumption
<1>9. StoppedIsSucceeded'
  <2> SUFFICES ASSUME NEW p \in Conns, peers'[UserOf[p]] = p, signalled[p]
               PROVE  \E d \in Conns : Succeeds(d, p)'
    BY <1>3 DEF StoppedIsSucceeded
  <2>1. p # c
    BY <1>2 DEF MapInv, StopInv, NotYetStopped, Early
  <2>2. UserOf[p] # UserOf[c] /\ peers[UserOf[p]] = p
    BY <1>4, <2>1, WsPeersAssumption
  <2>3. PICK d \in Conns : Succeeds(d, p)
    BY <2>2 DEF MapInv, StopInv, StoppedIsSucceeded
  <2>4. d # c
    <3> SUFFICES ASSUME d = c PROVE FALSE
      OBVIOUS
    <3>1. other[c] = p
      BY <2>3 DEF Succeeds
    <3>2. UserOf[p] = UserOf[c]
      BY <1>2, <3>1, WsPeersAssumption DEF MapInv, StopInv, StopsOneUser, Stopping, Succeeding
    <3> QED
      BY <2>2, <3>2
  <2> QED
    BY <1>1, <1>3, <2>3, <2>4 DEF Succeeds
<1> QED
  BY <1>5, <1>6, <1>7, <1>8, <1>9 DEF StopInv

\* StartPeer: the channel is open before anybody can have stopped the peer.
LEMMA StartPeerKeeps ==
  ASSUME MapInv, GoroutineTypes', NEW c \in Conns, StartPeer(c)
  PROVE  EntriesFiled' /\ StopInv'
<1>1. \A d \in Conns : d # c => pc'[d] = pc[d] /\ stopChan'[d] = stopChan[d]
  BY DEF MapInv, GoroutineTypes, StartPeer, Goto
<1>2. pc[c] = "start" /\ pc'[c] = "read" /\ stopChan'[c] = "open"
  BY DEF MapInv, GoroutineTypes, StartPeer, Goto
<1>3. other' = other /\ signalled' = signalled /\ peers' = peers
  BY DEF StartPeer, map
<1>4. EntriesFiled'
  BY <1>1, <1>2, <1>3 DEF MapInv, EntriesFiled, GoroutineTypes, Filed, Ended
<1>5. StopsOneUser' /\ NotYetStopped' /\ OpenOrStopped'
  BY <1>1, <1>2, <1>3 DEF MapInv, StopInv, StopsOneUser, NotYetStopped, OpenOrStopped,
                          Stopping, Succeeding, Early, Removing
<1>6. ForgetsStopped' /\ RemovesAnother'
  BY <1>1, <1>2, <1>3 DEF MapInv, StopInv, ForgetsStopped, RemovesAnother, Removing
<1>7. StoppedIsSucceeded'
  <2> SUFFICES ASSUME NEW p \in Conns, peers[UserOf[p]] = p, signalled[p]
               PROVE  \E d \in Conns : Succeeds(d, p)'
    BY <1>3 DEF StoppedIsSucceeded
  <2>1. PICK d \in Conns : Succeeds(d, p)
    BY DEF MapInv, StopInv, StoppedIsSucceeded
  <2> QED
    BY <1>1, <1>2, <1>3, <2>1 DEF Succeeds
<1> QED
  BY <1>4, <1>5, <1>6, <1>7 DEF StopInv

\* RemoveDelete: the user has no entry, so nobody of that user has one to lose.
LEMMA RemoveDeleteKeeps ==
  ASSUME MapInv, GoroutineTypes', NEW c \in Conns, RemoveDelete(c)
  PROVE  EntriesFiled' /\ StopInv'
<1>1. \A d \in Conns : d # c => pc'[d] = pc[d]
  BY DEF MapInv, GoroutineTypes, RemoveDelete, Goto
<1>2. pc[c] = "removeDelete" /\ pc'[c] = "removeCount"
  BY DEF MapInv, GoroutineTypes, RemoveDelete, Goto
<1>3. other' = other /\ signalled' = signalled /\ stopChan' = stopChan
  BY DEF RemoveDelete, peer
<1>4. UserOf[c] \in Users /\ peers'[UserOf[c]] = None /\ None \notin Conns
      /\ \A u \in Users : u # UserOf[c] => peers'[u] = peers[u]
  BY WsPeersAssumption DEF MapInv, GoroutineTypes, RemoveDelete
<1>5. EntriesFiled'
  <2> SUFFICES ASSUME NEW u \in Users, peers'[u] # None
               PROVE  /\ UserOf[peers'[u]] = u
                      /\ pc'[peers'[u]] \in Filed
                         \/ (pc'[peers'[u]] \in Ended /\ signalled'[peers'[u]])
    BY DEF EntriesFiled
  <2>1. u # UserOf[c] /\ peers'[u] = peers[u] /\ peers[u] \in Conns
    BY <1>4 DEF MapInv, GoroutineTypes
  <2>2. /\ UserOf[peers[u]] = u
        /\ pc[peers[u]] \in Filed \/ (pc[peers[u]] \in Ended /\ signalled[peers[u]])
    BY <2>1 DEF MapInv, EntriesFiled
  <2> QED
    BY <1>1, <1>3, <2>1, <2>2
<1>6. StopsOneUser' /\ NotYetStopped' /\ OpenOrStopped'
  BY <1>1, <1>2, <1>3 DEF MapInv, StopInv, StopsOneUser, NotYetStopped, OpenOrStopped,
                          Stopping, Succeeding, Early, Removing
<1>7. ForgetsStopped'
  BY <1>1, <1>2, <1>3 DEF MapInv, StopInv, ForgetsStopped
<1>8. \A p \in Conns : peers'[UserOf[p]] = p => UserOf[p] # UserOf[c] /\ peers[UserOf[p]] = p
  BY <1>4, WsPeersAssumption
<1>9. RemovesAnother'
  BY <1>1, <1>2, <1>3, <1>8 DEF MapInv, StopInv, RemovesAnother, Removing
<1>10. StoppedIsSucceeded'
  <2> SUFFICES ASSUME NEW p \in Conns, peers'[UserOf[p]] = p, signalled[p]
               PROVE  \E d \in Conns : Succeeds(d, p)'
    BY <1>3 DEF StoppedIsSucceeded
  <2>1. PICK d \in Conns : Succeeds(d, p)
    BY <1>8 DEF MapInv, StopInv, StoppedIsSucceeded
  <2>2. CASE d = c
    <3>1. other[c] = p /\ UserOf[p] = UserOf[c]
      BY <1>2, <2>1, <2>2, WsPeersAssumption
         DEF Succeeds, MapInv, StopInv, StopsOneUser, Stopping, Succeeding
    <3> QED
      BY <1>8, <3>1
  <2>3. CASE d # c
    BY <1>1, <1>3, <2>1, <2>3 DEF Succeeds
  <2> QED
    BY <2>2, <2>3
<1> QED
  BY <1>5, <1>6, <1>7, <1>9, <1>10 DEF StopInv

\* RemoveCount: the connection is no longer filed.
LEMMA RemoveCountKeeps ==
  ASSUME MapInv, GoroutineTypes', NEW c \in Conns, RemoveCount(c)
  PROVE  EntriesFiled' /\ StopInv'
<1>1. \A d \in Conns : d # c => pc'[d] = pc[d]
  BY DEF MapInv, GoroutineTypes, RemoveCount, Goto
<1>2. pc[c] = "removeCount" /\ pc'[c] = "close"
  BY DEF MapInv, GoroutineTypes, RemoveCount, Goto
<1>3. other' = other /\ signalled' = signalled /\ stopChan' = stopChan /\ peers' = peers
  BY DEF RemoveCount, peer
<1>4. EntriesFiled'
  <2>1. \A u \in Users : peers[u] # c
    BY <1>2, NotFiled DEF Filed, Ended
  <2> QED
    BY <1>1, <1>3, <2>1 DEF MapInv, EntriesFiled, GoroutineTypes
<1>5. StopsOneUser' /\ NotYetStopped' /\ OpenOrStopped'
  BY <1>1, <1>2, <1>3 DEF MapInv, StopInv, StopsOneUser, NotYetStopped, OpenOrStopped,
                          Stopping, Succeeding, Early, Removing
<1>6. ForgetsStopped' /\ RemovesAnother'
  BY <1>1, <1>2, <1>3 DEF MapInv, StopInv, ForgetsStopped, RemovesAnother, Removing
<1>7. StoppedIsSucceeded'
  <2> SUFFICES ASSUME NEW p \in Conns, peers[UserOf[p]] = p, signalled[p]
               PROVE  \E d \in Conns : Succeeds(d, p)'
    BY <1>3 DEF StoppedIsSucceeded
  <2>1. PICK d \in Conns : Succeeds(d, p)
    BY DEF MapInv, StopInv, StoppedIsSucceeded
  <2> QED
    BY <1>1, <1>2, <1>3, <2>1 DEF Succeeds
<1> QED
  BY <1>4, <1>5, <1>6, <1>7 DEF StopInv

\* Accept refuses the connection, or the token is nobody's: it was in no map.
LEMMA TurnedAway ==
  ASSUME MapInv, GoroutineTypes', NEW c \in Conns, pc[c] \in {"new", "shake"},
         pc' = [pc EXCEPT ![c] = "done"], peers' = peers, UNCHANGED <<other, stopChan, signalled>>
  PROVE  EntriesFiled' /\ StopInv'
<1>1. \A d \in Conns : d # c => pc'[d] = pc[d]
  BY DEF MapInv, GoroutineTypes
<1>2. pc'[c] = "done"
  BY DEF MapInv, GoroutineTypes
<1>3. EntriesFiled'
  <2>1. \A u \in Users : peers[u] # c
    BY NotFiled DEF Filed, Ended
  <2> QED
    BY <1>1, <2>1 DEF MapInv, EntriesFiled, GoroutineTypes
<1>4. StopsOneUser' /\ NotYetStopped' /\ OpenOrStopped'
  BY <1>1, <1>2 DEF MapInv, StopInv, StopsOneUser, NotYetStopped, OpenOrStopped,
                    Stopping, Succeeding, Early, Removing
<1>5. ForgetsStopped' /\ RemovesAnother'
  BY <1>1, <1>2 DEF MapInv, StopInv, ForgetsStopped, RemovesAnother, Removing
<1>6. StoppedIsSucceeded'
  <2> SUFFICES ASSUME NEW p \in Conns, peers[UserOf[p]] = p, signalled[p]
               PROVE  \E d \in Conns : Succeeds(d, p)'
    BY DEF StoppedIsSucceeded
  <2>1. PICK d \in Conns : Succeeds(d, p)
    BY DEF MapInv, StopInv, StoppedIsSucceeded
  <2> QED
    BY <1>1, <2>1 DEF Succeeds
<1> QED
  BY <1>3, <1>4, <1>5, <1>6 DEF StopInv

-----------------------------------------------------------------------------
\* Every step of a connection keeps the map and the channels in order.
LEMMA HandlePeerKeeps ==
  ASSUME MapInv, GoroutineTypes', NEW c \in Conns, HandlePeer(c) \/ ClientGone(c)
  PROVE  EntriesFiled' /\ StopInv'
<1>1. CASE Accept(c) \/ Shake(c)
  <2>1. peers' = peers /\ UNCHANGED <<other, stopChan, signalled>>
    BY <1>1 DEF Accept, Shake, map, peer
  <2>2. \/ pc[c] \in {"new", "shake"} /\ pc' = [pc EXCEPT ![c] = "done"]
        \/ Goto(c, "new", "shake") \/ Goto(c, "shake", "addGet")
    BY <1>1 DEF Accept, Shake, Goto
  <2> QED
    BY <2>1, <2>2, TurnedAway, QuietMove
       DEF Filed, Ended, Stopping, Early, Removing, Succeeding, Steps
<1>2. CASE AddCount(c) \/ ReadClosed(c) \/ ClientGone(c) \/ CloseConn(c)
  <2>1. peers' = peers /\ UNCHANGED <<other, stopChan, signalled>>
    BY <1>2 DEF AddCount, ReadClosed, ClientGone, CloseConn, map, peer
  <2>2. Goto(c, "addCount", "addStore") \/ Goto(c, "read", "removeGet") \/ Goto(c, "close", "done")
    BY <1>2 DEF AddCount, ReadClosed, ClientGone, CloseConn
  <2> QED
    BY <2>1, <2>2, QuietMove DEF Filed, Ended, Stopping, Early, Removing, Succeeding, Steps
<1>3. CASE AddGet(c) \/ RemoveGet(c)
  BY <1>3, PeerGot
<1>4. CASE StopPrevious(c) \/ StopRemoved(c)
  <2>1. CASE \/ StopClose(c, "addClose", "addForget") \/ StopClose(c, "removeClose", "removeForget")
    <3>1. other' = other /\ peers' = peers
      BY <2>1 DEF StopClose, map
    <3> QED
      BY <2>1, <3>1, ChannelClosed, HandlerDies DEF StopClose
  <2>2. CASE \/ StopCheck(c, "addStop", "addClose", "addCount")
             \/ StopCheck(c, "removeStop", "removeClose", "removeDelete")
    BY <2>2, StopCheckKeeps
  <2>3. CASE \/ StopForget(c, "addForget", "addCount")
             \/ StopForget(c, "removeForget", "removeDelete")
    BY <2>3, ChannelForgotten
  <2> QED
    BY <1>4, <2>1, <2>2, <2>3 DEF StopPrevious, StopRemoved
<1>5. CASE AddStore(c) \/ StartPeer(c)
  BY <1>5, AddStoreKeeps, StartPeerKeeps
<1>6. CASE RemoveDelete(c) \/ RemoveCount(c)
  BY <1>6, RemoveDeleteKeeps, RemoveCountKeeps
<1> QED
  BY <1>1, <1>2, <1>3, <1>4, <1>5, <1>6 DEF HandlePeer

-----------------------------------------------------------------------------
(* Counting.                                                                *)

\* Connections are finitely many, so those that owe a decrement are.
LEMMA OwingFinite == IsFiniteSet(Owing) /\ Cardinality(Owing) \in Nat
<1>1. Owing \subseteq Conns /\ IsFiniteSet(Conns)
  BY WsPeersAssumption DEF Owing
<1> QED
  BY <1>1, FS_Subset, FS_CardinalityType

\* The debt that does not grow while the counter stays is covered.
LEMMA DebtShrinks ==
  ASSUME OwingCounted, Owing' \subseteq Owing, peerCount' = peerCount
  PROVE  OwingCounted'
<1>1. Cardinality(Owing') <= Cardinality(Owing) /\ Cardinality(Owing') \in Nat
  BY OwingFinite, FS_Subset, FS_CardinalityType
<1> QED
  BY <1>1, OwingFinite DEF OwingCounted

\* A step of a connection that enters none of the steps at which it owes a
\* decrement, and leaves its peer filed as it was, adds no debt.
LEMMA NoNewDebt ==
  ASSUME MapInv, NEW c \in Conns, NEW from \in Steps, NEW to \in Steps,
         Goto(c, from, to), peers' = peers,
         to \in Due => from \in Due
  PROVE  Owing' \subseteq Owing
<1>1. pc[c] = from /\ pc'[c] = to /\ \A d \in Conns : d # c => pc'[d] = pc[d]
  BY DEF MapInv, GoroutineTypes, Goto
<1>2. peers[UserOf[c]] = c => from \in Filed \/ from \in Ended
  BY <1>1, NotFiled, WsPeersAssumption
<1> QED
  BY <1>1, <1>2 DEF Owing, Due

\* The steps of a connection that do not touch the counter leave it covered.
LEMMA UncountedSteps ==
  ASSUME MapInv, OwingCounted, NEW c \in Conns, HandlePeer(c) \/ ClientGone(c),
         ~AddCount(c), ~RemoveCount(c)
  PROVE  OwingCounted'
<1>1. CASE Accept(c) \/ Shake(c) \/ AddGet(c) \/ StartPeer(c) \/ ReadClosed(c) \/ ClientGone(c)
           \/ RemoveGet(c) \/ CloseConn(c)
  <2>1. peers' = peers /\ peerCount' = peerCount
    BY <1>1 DEF Accept, Shake, AddGet, StartPeer, ReadClosed, ClientGone, RemoveGet, CloseConn, map
  <2>2. \/ Goto(c, "new", "shake") \/ Goto(c, "new", "done") \/ Goto(c, "shake", "addGet")
        \/ Goto(c, "shake", "done") \/ Goto(c, "addGet", "addCount") \/ Goto(c, "addGet", "addStop")
        \/ Goto(c, "start", "read") \/ Goto(c, "read", "removeGet")
        \/ Goto(c, "removeGet", "close") \/ Goto(c, "removeGet", "removeStop")
        \/ Goto(c, "close", "done")
    BY <1>1 DEF Accept, Shake, AddGet, StartPeer, ReadClosed, ClientGone, RemoveGet, CloseConn
  <2>3. Owing' \subseteq Owing
    BY <2>1, <2>2, NoNewDebt DEF Due, Filed, Ended, Steps
  <2> QED
    BY <2>1, <2>3, DebtShrinks
<1>2. CASE StopPrevious(c) \/ StopRemoved(c)
  <2>1. peers' = peers /\ peerCount' = peerCount
    BY <1>2 DEF StopPrevious, StopRemoved, StopCheck, StopClose, StopForget, map
  <2>2. \/ \E from \in {"addStop", "addClose", "addForget"},
              to \in {"addClose", "addForget", "addCount", "close"} : Goto(c, from, to)
        \/ \E from \in {"removeStop", "removeClose", "removeForget"},
              to \in {"removeClose", "removeForget", "removeDelete", "close"} : Goto(c, from, to)
    BY <1>2 DEF StopPrevious, StopRemoved, StopCheck, StopClose, StopForget
  <2>3. Owing' \subseteq Owing
    BY <2>1, <2>2, NoNewDebt DEF Due, Filed, Ended, Steps
  <2> QED
    BY <2>1, <2>3, DebtShrinks
<1>3. CASE AddStore(c) \/ RemoveDelete(c)
  <2>1. /\ pc[c] \in Due /\ \A d \in Conns : d # c => pc'[d] = pc[d]
        /\ \A d \in Conns : peers'[UserOf[d]] = d => peers[UserOf[d]] = d \/ d = c
        /\ peerCount' = peerCount
    BY <1>3, WsPeersAssumption
       DEF MapInv, GoroutineTypes, AddStore, RemoveDelete, Goto, Due, Filed
  <2>2. Owing' \subseteq Owing
    BY <2>1 DEF Owing
  <2> QED
    BY <2>1, <2>2, DebtShrinks
<1> QED
  BY <1>1, <1>2, <1>3 DEF HandlePeer

\* AddCount: one connection more owes a decrement, and the counter is one higher;
\* RemoveCount: the debt is paid, and the connection is no longer filed.
LEMMA CountedSteps ==
  ASSUME MapInv, OwingCounted, NEW c \in Conns, AddCount(c) \/ RemoveCount(c)
  PROVE  OwingCounted'
<1>1. peers' = peers /\ \A d \in Conns : d # c => pc'[d] = pc[d]
  BY DEF MapInv, GoroutineTypes, AddCount, RemoveCount, Goto
<1>2. CASE AddCount(c)
  <2>1. pc[c] = "addCount" /\ pc'[c] = "addStore" /\ peerCount' = peerCount + 1
    BY <1>2 DEF MapInv, GoroutineTypes, AddCount, Goto
  <2>2. Owing' = Owing \cup {c} /\ c \notin Owing
    BY <1>1, <2>1 DEF Owing, Due, Filed, Ended
  <2>3. Cardinality(Owing') = Cardinality(Owing) + 1
    BY <2>2, OwingFinite, FS_AddElement
  <2> QED
    BY <2>1, <2>3, OwingFinite DEF OwingCounted
<1>3. CASE RemoveCount(c)
  <2>1. pc[c] = "removeCount" /\ pc'[c] = "close" /\ peerCount' = peerCount - 1
    BY <1>3 DEF MapInv, GoroutineTypes, RemoveCount, Goto
  <2>2. peers[UserOf[c]] # c
    BY <2>1, NotFiled, WsPeersAssumption DEF Filed, Ended
  <2>3. Owing' = Owing \ {c} /\ c \in Owing
    BY <1>1, <2>1, <2>2 DEF Owing, Due, Filed, Ended
  <2>4. Cardinality(Owing') = Cardinality(Owing) - 1
    BY <2>3, OwingFinite, FS_RemoveElement
  <2> QED
    BY <2>1, <2>4, OwingFinite DEF OwingCounted
<1> QED
  BY <1>2, <1>3

-----------------------------------------------------------------------------
IInv == GoroutineTypes /\ BoxTypes /\ EntriesFiled /\ StopInv /\ OwingCounted

\* No connection yet, nothing in the map.
LEMMA Initially == Init => IInv
<1> SUFFICES ASSUME Init PROVE IInv
  OBVIOUS
<1>1. GoroutineTypes
  BY DEF Init, GoroutineTypes, Steps
<1>2. <<>> \in Seq(Messages) /\ Len(<<>>) = 0 /\ 0 <= SendCache
  BY EmptySeq, WsPeersAssumption
<1>3. BoxTypes
  BY <1>2 DEF Init, BoxTypes
<1>4. EntriesFiled
  BY DEF Init, EntriesFiled
<1>5. StopsOneUser /\ NotYetStopped /\ OpenOrStopped /\ ForgetsStopped /\ RemovesAnother
  BY DEF Init, StopsOneUser, NotYetStopped, OpenOrStopped, ForgetsStopped, RemovesAnother,
         Stopping, Succeeding, Early, Removing
<1>6. StoppedIsSucceeded
  BY DEF Init, StoppedIsSucceeded
<1>7. OwingCounted
  <2>1. Owing = {}
    BY DEF Init, Owing, Due, Filed, Ended
  <2>2. Cardinality(Owing) = 0
    BY <2>1, FS_EmptySet
  <2> QED
    BY <2>2 DEF Init, OwingCounted
<1> QED
  BY <1>1, <1>3, <1>4, <1>5, <1>6, <1>7 DEF IInv, StopInv

\* A step that moves no connection and touches neither the map nor the channel of
\* a peer: that of its goroutine, or of the server's messages.
LEMMA SendingKeeps ==
  ASSUME EntriesFiled, StopInv, OwingCounted,
         UNCHANGED <<pc, other, peers, peerCount, stopChan, signalled>>
  PROVE  EntriesFiled' /\ StopInv' /\ OwingCounted'
<1>1. Owing' = Owing
  BY DEF Owing
<1>2. EntriesFiled'
  BY DEF EntriesFiled
<1>3. OwingCounted'
  BY <1>1 DEF OwingCounted
<1>4. StopsOneUser' /\ NotYetStopped' /\ OpenOrStopped' /\ ForgetsStopped' /\ RemovesAnother'
  BY DEF StopInv, StopsOneUser, NotYetStopped, OpenOrStopped, ForgetsStopped, RemovesAnother
<1>5. StoppedIsSucceeded'
  BY DEF StopInv, StoppedIsSucceeded, Succeeds
<1> QED
  BY <1>2, <1>3, <1>4, <1>5 DEF StopInv

\* Every step of the server keeps the strengthened invariant.
LEMMA Inductive == IInv /\ [Next]_vars => IInv'
<1> SUFFICES ASSUME IInv, [Next]_vars PROVE IInv'
  OBVIOUS
<1>1. GoroutineTypes' /\ BoxTypes'
  BY TypesInductive DEF IInv
<1>2. CASE \E c \in Conns : HandlePeer(c) \/ ClientGone(c)
  <2>1. PICK c \in Conns : HandlePeer(c) \/ ClientGone(c)
    BY <1>2
  <2>2. EntriesFiled' /\ StopInv'
    BY <1>1, <2>1, HandlePeerKeeps DEF IInv, MapInv
  <2>3. OwingCounted'
    BY <2>1, UncountedSteps, CountedSteps DEF IInv, MapInv
  <2> QED
    BY <1>1, <2>2, <2>3 DEF IInv
<1>3. CASE \E c \in Conns : Writer(c)
  <2>1. UNCHANGED <<pc, other, peers, peerCount, stopChan, signalled>>
    BY <1>3 DEF Writer, EnterSelect, TakeMessage, WriteMessage, Ping, SeeStop, handler, map
  <2> QED
    BY <1>1, <2>1, SendingKeeps DEF IInv
<1>4. CASE (\E u \in Users : FindPeer(u)) \/ (\E m \in Messages : HandOver(m)) \/ UNCHANGED vars
  <2>1. UNCHANGED <<pc, other, peers, peerCount, stopChan, signalled>>
    BY <1>4 DEF FindPeer, HandOver, vars, handler, map, peer
  <2> QED
    BY <1>1, <2>1, SendingKeeps DEF IInv
<1> QED
  BY <1>2, <1>3, <1>4 DEF Next

-----------------------------------------------------------------------------
\* The users in the map are no more than the connections that owe a decrement:
\* each is filed under the peer of one, and no peer under two.
LEMMA EntriesOwing ==
  ASSUME IInv
  PROVE  CountCovers
<1> DEFINE entry == [u \in Connected |-> peers[u]]
<1>1. entry \in Injection(Connected, Owing)
  <2>1. entry \in [Connected -> Owing]
    BY DEF Connected, IInv, GoroutineTypes, EntriesFiled, Owing, Due
  <2>2. \A u, v \in Connected : entry[u] = entry[v] => u = v
    BY DEF Connected, IInv, EntriesFiled
  <2> QED
    BY <2>1, <2>2 DEF Injection, IsInjective
<1>2. IsFiniteSet(Owing)
  BY OwingFinite
<1>3. Cardinality(Connected) <= Cardinality(Owing)
  BY <1>1, <1>2, FS_Injection
<1>4. Cardinality(Connected) \in Nat
  BY WsPeersAssumption, FS_Subset, FS_CardinalityType DEF Connected
<1> QED
  BY <1>3, <1>4, OwingFinite DEF IInv, OwingCounted, CountCovers

\* The counter never falls below the number of users in the map, however the
\* connections interleave, and wherever a handler dies of the second stop of a
\* peer (addPeer, removePeer and stop of ws_server.go).
THEOREM MapCovered == Spec => []CountCovers
<1> QED
  BY Initially, Inductive, EntriesOwing, PTL DEF Spec

\* A dead peer of the map is one some other connection is about to take out.
LEMMA DeadAreSucceeded ==
  ASSUME IInv
  PROVE  NoDeadEntry
<1> SUFFICES ASSUME NEW u \in Users, NEW p, p = peers[u], p # None
             PROVE  /\ UserOf[p] = u
                    /\ pc[p] \in Ended => \E d \in Conns \ {p} : Succeeds(d, p)
  BY DEF NoDeadEntry, Ended
<1>1. p \in Conns /\ UserOf[p] = u /\ (pc[p] \in Ended => signalled[p])
  BY DEF IInv, GoroutineTypes, EntriesFiled, Filed, Ended
<1>2. ASSUME pc[p] \in Ended PROVE \E d \in Conns \ {p} : Succeeds(d, p)
  <2>1. PICK d \in Conns : Succeeds(d, p)
    BY <1>1, <1>2 DEF IInv, StopInv, StoppedIsSucceeded
  <2>2. d # p
    BY <1>2, <2>1 DEF Succeeds, Ended
  <2> QED
    BY <2>1, <2>2
<1> QED
  BY <1>1, <1>2

\* The map holds the peer of a connection whose handlePeer has ended only as long
\* as another connection is about to delete or replace it (addPeer, removePeer and
\* stop of ws_server.go, with the panic net/http recovers).
THEOREM EntriesAlive == Spec => []NoDeadEntry
<1> QED
  BY Initially, Inductive, DeadAreSucceeded, PTL DEF Spec

\* Every variable has its type: no channel of a peer holds more than it has places
\* for, nobody takes from an empty one, and the counter is never negative, though
\* connections count down for the peers of others (ws_server.go).
THEOREM PeerTypes == Spec => []TypeOK
<1>1. IInv => TypeOK
  BY OwingFinite DEF IInv, GoroutineTypes, BoxTypes, OwingCounted, TypeOK
<1> QED
  BY <1>1, Initially, Inductive, PTL DEF Spec
=============================================================================
