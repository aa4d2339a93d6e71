--------------------------- MODULE MediaBridgeProofs ---------------------------
(***************************************************************************)
(* Theorems about MediaBridge, for every set of owners, ids, ports and     *)
(* websockets.  The manager's books stay consistent under the bridge by    *)
(* the lemmas of BtsManagerProofs.                                         *)
(***************************************************************************)
EXTENDS MediaBridge, BtsManagerProofs

-------------------------------------------------------------------------------
(* The inductive invariant.                                                  *)

\* What the handlers keep of one frame: the UDP client of a closed websocket is
\* closed, and nothing happens before the websocket opens.
FrameSound(f) ==
    /\ f.port # NoPort => f.bts # NoBts
    /\ f.udp \in {"binding", "bound"} => f.port # NoPort
    /\ f.ws = "closed" => f.udp = "closed"
    /\ f.ws = "none" => f.at = "none" /\ f.udp = "fresh"

FramesSound ==
    /\ media \in [Sockets -> Frame]
    /\ \A h \in Sockets : FrameSound(media[h])

PortsApart ==
    \A h, j \in Sockets :
        media[h].udp = "bound" /\ media[j].udp = "bound" /\ h # j
            => media[h].port # media[j].port

LeasesHeld ==
    /\ holding \subseteq Sockets
    /\ \A h \in holding :
          /\ media[h].bts \in Assigned(mgr)
          /\ media[h].port = mgr.idToAssignment[media[h].bts].osmuxPort

MediaInv == Consistent(mgr) /\ FramesSound /\ PortsApart /\ LeasesHeld

-------------------------------------------------------------------------------
(* What the manager's calls leave alone.                                     *)

\* An assignment that a call leaves with its owner keeps its port.
LEMMA PortKept ==
    ASSUME NEW m, NEW n, Consistent(m), Consistent(n), LeaseMove(m, n),
           NEW i \in Assigned(m), i \in Assigned(n),
           n.idToAssignment[i].key = m.idToAssignment[i].key
    PROVE  n.idToAssignment[i].osmuxPort = m.idToAssignment[i].osmuxPort
<1> DEFINE k == m.idToAssignment[i].key
           before == LeaseOf(m)
           after == LeaseOf(n)
<1>1. k \in Owners(m) /\ before[k].port = m.idToAssignment[i].osmuxPort
  BY DEF Consistent, InverseMaps, LeaseOf
<1>2. k \in Owners(n) /\ after[k].port = n.idToAssignment[i].osmuxPort
  BY DEF Consistent, InverseMaps, LeaseOf
<1>3. DOMAIN after = Owners(n)
  BY DEF LeaseOf
<1> HIDE DEF k, before, after
<1>4. CASE after = before
  BY <1>1, <1>2, <1>4
<1>5. ASSUME NEW gone \in SUBSET Owners(m), after = [j \in Owners(m) \ gone |-> before[j]]
      PROVE  after[k] = before[k]
  BY <1>2, <1>3, <1>5
<1>6. ASSUME NEW j \in Keys \ Owners(m), NEW id \in BtsIds, NEW port \in OsmuxPorts,
             after = LeaseAdded(m, j, id, port)
      PROVE  after[k] = before[k]
  BY <1>1, <1>6 DEF LeaseAdded, before
<1> QED BY <1>1, <1>2, <1>4, <1>5, <1>6 DEF LeaseMove, before, after

\* A mark keeps the books, the assigned ids and their ports.
LEMMA MarkKeepsPorts ==
    ASSUME NEW m, Consistent(m), NEW i, NEW up \in BOOLEAN
    PROVE  /\ Consistent(markById(m, i, up))
           /\ Assigned(markById(m, i, up)) = Assigned(m)
           /\ \A j \in Assigned(m) :
                 markById(m, i, up).idToAssignment[j].osmuxPort = m.idToAssignment[j].osmuxPort
<1> DEFINE n == markById(m, i, up)
<1>1. Consistent(n) /\ LeaseOf(n) = LeaseOf(m) /\ Assigned(n) = Assigned(m)
  BY MarkedConsistent
<1> HIDE DEF n
<1>2. ASSUME NEW j \in Assigned(m)
      PROVE  n.idToAssignment[j].osmuxPort = m.idToAssignment[j].osmuxPort
  <2> DEFINE k == m.idToAssignment[j].key
  <2>1. k \in Owners(m) /\ LeaseOf(m)[k] = [id |-> j, port |-> m.idToAssignment[j].osmuxPort]
    BY <1>2 DEF Consistent, InverseMaps, LeaseOf
  <2>2. k \in Owners(n)
    BY <1>1, <2>1 DEF LeaseOf
  <2> HIDE DEF k
  <2>3. LeaseOf(n)[k] = [id |-> n.assignmentKeyToId[k],
                         port |-> n.idToAssignment[n.assignmentKeyToId[k]].osmuxPort]
    BY <2>2 DEF LeaseOf
  <2> QED BY <1>1, <2>1, <2>3
<1> QED BY <1>1, <1>2 DEF n

-------------------------------------------------------------------------------
(* What a step of one handler does.                                          *)

\* A step that changes the frame of one websocket keeps the frames sound, and the
\* bound ports apart, if the new frame is sound and its port, when it is bound,
\* was bound or free.
LEMMA FrameChanged ==
    ASSUME FramesSound, PortsApart, NEW h \in Sockets, NEW f \in Frame, FrameSound(f),
           media' = [media EXCEPT ![h] = f],
           f.udp = "bound" => /\ f.port = media[h].port
                              /\ media[h].udp = "bound" \/ PortFree(h)
    PROVE  FramesSound' /\ PortsApart'
<1>1. media' \in [Sockets -> Frame]
  BY DEF FramesSound
<1>2. \A j \in Sockets : media'[j] = IF j = h THEN f ELSE media[j]
  BY DEF FramesSound
<1>3. \A j \in Sockets : FrameSound(media'[j])
  BY <1>2 DEF FramesSound
<1>4. FramesSound'
  BY <1>1, <1>3 DEF FramesSound, FrameSound
<1>5. PortsApart'
  BY <1>2 DEF PortsApart, PortFree
<1> QED BY <1>4, <1>5

\* Marking a BTS beside it keeps the rest, as long as the frame keeps its BTS and
\* its port.
LEMMA FrameMarked ==
    ASSUME MediaInv, NEW h \in Sockets, NEW f \in Frame, FrameSound(f),
           media' = [media EXCEPT ![h] = f],
           f.bts = media[h].bts, f.port = media[h].port,
           f.udp = "bound" => media[h].udp = "bound" \/ PortFree(h),
           NEW i, NEW up \in BOOLEAN,
           mgr' = mgr \/ mgr' = markById(mgr, i, up),
           holding' = holding
    PROVE  MediaInv'
<1>1. FramesSound' /\ PortsApart'
  BY FrameChanged DEF MediaInv
<1>2. /\ Consistent(mgr')
      /\ Assigned(mgr') = Assigned(mgr)
      /\ \A j \in Assigned(mgr) :
            mgr'.idToAssignment[j].osmuxPort = mgr.idToAssignment[j].osmuxPort
  BY MarkKeepsPorts DEF MediaInv
<1>3. \A j \in Sockets : media'[j].bts = media[j].bts /\ media'[j].port = media[j].port
  BY DEF MediaInv, FramesSound
<1>4. LeasesHeld'
  <2>1. holding' \subseteq Sockets
    BY DEF MediaInv, LeasesHeld
  <2>2. ASSUME NEW j \in holding'
        PROVE  /\ media'[j].bts \in Assigned(mgr')
               /\ media'[j].port = mgr'.idToAssignment[media'[j].bts].osmuxPort
    BY <1>2, <1>3, <2>2 DEF MediaInv, LeasesHeld
  <2>3. Assigned(mgr)' = Assigned(mgr')
    BY DEF Assigned
  <2> QED BY <2>1, <2>2, <2>3 DEF LeasesHeld
<1>5. Consistent(mgr)'
  BY <1>2 DEF Consistent, IsState, InverseMaps, ExactPorts, ExactIds, Assigned, Owners
<1> QED BY <1>1, <1>4, <1>5 DEF MediaInv

\* The bridge's constants are told apart from the numbers of BTSs and ports.
LEMMA NoneIsNobody == NoBts \notin BtsIds /\ NoPort \notin OsmuxPorts
BY BtsManagerAssumption DEF NoBts, NoPort, BtsIds, OsmuxPorts

\* A step that leaves the bridge alone keeps the invariant.
LEMMA MediaUnchanged == MediaInv /\ UNCHANGED mediaVars => MediaInv'
BY DEF mediaVars, MediaInv, FramesSound, FrameSound, PortsApart, LeasesHeld,
       Consistent, IsState, InverseMaps, ExactPorts, ExactIds, Assigned, Owners

\* Whatever call of the manager comes, the holders that remain keep their ports.
LEMMA ManagerStep == MediaInv /\ ManagerCalled => MediaInv'
<1> SUFFICES ASSUME MediaInv, ManagerCalled  PROVE MediaInv'
  OBVIOUS
<1>1. Next
  <2>1. Unset \in Configs \cup {Unset}
    OBVIOUS
  <2> QED BY <2>1 DEF ManagerCalled, Next, Call, Release, Other
<1>2. Consistent(mgr') /\ LeaseMove(mgr, mgr')
  BY <1>1, StepMove DEF MediaInv
<1>3. media' = media /\ holding' = StillHolding(mgr')
  BY DEF ManagerCalled
<1>4. FramesSound' /\ PortsApart'
  BY <1>3 DEF MediaInv, FramesSound, FrameSound, PortsApart
<1>5. LeasesHeld'
  <2>1. holding' \subseteq Sockets
    BY <1>3 DEF StillHolding, MediaInv, LeasesHeld
  <2>2. ASSUME NEW h \in holding'
        PROVE  /\ media[h].bts \in Assigned(mgr')
               /\ media[h].port = mgr'.idToAssignment[media[h].bts].osmuxPort
    <3> DEFINE i == media[h].bts
    <3>1. /\ h \in holding
          /\ i \in Assigned(mgr')
          /\ mgr'.idToAssignment[i].key = mgr.idToAssignment[i].key
      BY <1>3, <2>2 DEF StillHolding
    <3>2. i \in Assigned(mgr) /\ media[h].port = mgr.idToAssignment[i].osmuxPort
      BY <3>1 DEF MediaInv, LeasesHeld
    <3> HIDE DEF i
    <3>3. mgr'.idToAssignment[i].osmuxPort = mgr.idToAssignment[i].osmuxPort
      BY <1>2, <3>1, <3>2, PortKept DEF MediaInv
    <3> QED BY <3>1, <3>2, <3>3 DEF i
  <2>3. Assigned(mgr)' = Assigned(mgr')
    BY DEF Assigned
  <2> QED BY <1>3, <2>1, <2>2, <2>3 DEF LeasesHeld
<1>6. Consistent(mgr)'
  BY <1>2 DEF Consistent, IsState, InverseMaps, ExactPorts, ExactIds, Assigned, Owners
<1> QED BY <1>4, <1>5, <1>6 DEF MediaInv

\* The BTS named gives the websocket its port; it had none, so none is bound.
LEMMA NamedStep ==
    ASSUME MediaInv, NEW h \in Sockets, NEW i \in BtsIds, Named(h, i)
    PROVE  MediaInv'
<1> DEFINE p == IF i \in Assigned(mgr) THEN mgr.idToAssignment[i].osmuxPort ELSE media[h].port
           f == [ws |-> media[h].ws, bts |-> i, port |-> p, at |-> media[h].at,
                 udp |-> media[h].udp, data |-> media[h].data]
<1>1. /\ media \in [Sockets -> Frame] /\ media[h] \in Frame /\ FrameSound(media[h])
      /\ media[h].bts = NoBts /\ media[h].ws = "open"
  BY DEF MediaInv, FramesSound, Named
<1>2. media' = [media EXCEPT ![h] = f] /\ mgr' = markById(mgr, i, TRUE)
  <2>1. media' = [media EXCEPT ![h].bts = i, ![h].port = p]
    BY DEF Named
  <2> HIDE DEF p
  <2>2. media'[h] = f
    BY <1>1, <2>1 DEF Frame
  <2>3. DOMAIN media' = Sockets /\ \A j \in Sockets \ {h} : media'[j] = media[j]
    BY <1>1, <2>1
  <2>4. media' = [media EXCEPT ![h] = f]
    <3> HIDE DEF f
    <3> QED BY <1>1, <2>1, <2>2, <2>3
  <2> QED BY <2>4 DEF Named, markSeenById
<1>3. p \in OsmuxPorts \cup {NoPort}
  BY <1>1 DEF MediaInv, Consistent, IsState, IsMap, Assigned, Assignment, Frame
<1>4. f.udp \notin {"binding", "bound"}
  BY <1>1 DEF FrameSound
<1> HIDE DEF p
<1>5. f \in Frame
  BY <1>1, <1>3 DEF Frame
<1>6. FrameSound(f)
  BY <1>1, <1>4, NoneIsNobody DEF FrameSound
<1>7. FramesSound' /\ PortsApart'
  <2> HIDE DEF f
  <2> QED BY <1>2, <1>4, <1>5, <1>6, FrameChanged DEF MediaInv
<1>8. /\ Consistent(mgr')
      /\ Assigned(mgr') = Assigned(mgr)
      /\ \A j \in Assigned(mgr) :
            mgr'.idToAssignment[j].osmuxPort = mgr.idToAssignment[j].osmuxPort
  BY <1>2, MarkKeepsPorts DEF MediaInv
<1>9. h \notin holding
  BY <1>1, NoneIsNobody DEF MediaInv, LeasesHeld, Consistent, IsState, IsMap, Assigned
<1>10. LeasesHeld'
  <2>1. holding' = IF i \in Assigned(mgr) THEN holding \cup {h} ELSE holding
    BY DEF Named
  <2>2. \A j \in Sockets : media'[j] = IF j = h THEN f ELSE media[j]
    BY <1>2 DEF MediaInv, FramesSound
  <2>3. ASSUME NEW j \in holding'
        PROVE  /\ media'[j].bts \in Assigned(mgr')
               /\ media'[j].port = mgr'.idToAssignment[media'[j].bts].osmuxPort
    <3>1. CASE j = h
      BY <1>8, <1>9, <2>1, <2>2, <2>3, <3>1 DEF p
    <3>2. CASE j # h
      BY <1>8, <2>1, <2>2, <2>3, <3>2 DEF MediaInv, LeasesHeld
    <3> QED BY <3>1, <3>2
  <2>4. Assigned(mgr)' = Assigned(mgr')
    BY DEF Assigned
  <2>5. holding' \subseteq Sockets
    BY <2>1 DEF MediaInv, LeasesHeld
  <2> QED BY <2>3, <2>4, <2>5 DEF LeasesHeld
<1>11. Consistent(mgr)'
  BY <1>8 DEF Consistent, IsState, InverseMaps, ExactPorts, ExactIds, Assigned, Owners
<1> QED BY <1>7, <1>10, <1>11 DEF MediaInv

\* The websocket opens.
LEMMA HandleStep ==
    ASSUME MediaInv, NEW h \in Sockets, Handle(h)
    PROVE  MediaInv'
<1> DEFINE f == [ws |-> "open", bts |-> media[h].bts, port |-> media[h].port,
                 at |-> "waiting", udp |-> media[h].udp, data |-> media[h].data]
<1>1. /\ media \in [Sockets -> Frame] /\ media[h] \in Frame /\ FrameSound(media[h])
      /\ h \in DOMAIN media
  BY DEF MediaInv, FramesSound
<1>2. media' = [media EXCEPT ![h] = f]
  <2>1. media'[h] = f
    BY <1>1 DEF Handle, Frame
  <2>2. DOMAIN media' = Sockets /\ \A j \in Sockets \ {h} : media'[j] = media[j]
    BY <1>1 DEF Handle
  <2>3. media' = [j \in Sockets |-> media'[j]]
    BY <1>1 DEF Handle
  <2> HIDE DEF f
  <2> QED BY <1>1, <2>1, <2>2, <2>3
<1>3. f \in Frame
  BY <1>1 DEF Frame
<1>4. FrameSound(f)
  BY <1>1 DEF FrameSound, Handle
<1>5. /\ f.bts = media[h].bts /\ f.port = media[h].port
      /\ f.udp = "bound" => media[h].udp = "bound" \/ PortFree(h)
  BY DEF Handle
<1>6. /\ holding' = holding
      /\ mgr' = mgr
  BY DEF Handle
<1> HIDE DEF f
<1> QED BY <1>2, <1>3, <1>4, <1>5, <1>6, FrameMarked

\* The handler begins to bind its port, if its socket is fresh: the websocket is then
\* open, or its socket would be closed.
LEMMA WakeStep ==
    ASSUME MediaInv, NEW h \in Sockets, Wake(h)
    PROVE  MediaInv'
<1> DEFINE f == [ws |-> media[h].ws, bts |-> media[h].bts, port |-> media[h].port,
                 at |-> "serving",
                 udp |-> IF media[h].udp = "fresh" THEN "binding" ELSE media[h].udp,
                 data |-> media[h].data]
<1>1. /\ media \in [Sockets -> Frame] /\ media[h] \in Frame /\ FrameSound(media[h])
      /\ h \in DOMAIN media
  BY DEF MediaInv, FramesSound
<1>2. media' = [media EXCEPT ![h] = f]
  <2>1. media'[h] = f
    BY <1>1 DEF Wake, Frame
  <2>2. DOMAIN media' = Sockets /\ \A j \in Sockets \ {h} : media'[j] = media[j]
    BY <1>1 DEF Wake
  <2>3. media' = [j \in Sockets |-> media'[j]]
    BY <1>1 DEF Wake
  <2> HIDE DEF f
  <2> QED BY <1>1, <2>1, <2>2, <2>3
<1>3. f \in Frame
  BY <1>1 DEF Frame
<1>4. FrameSound(f)
  BY <1>1 DEF FrameSound, Wake
<1>5. /\ f.bts = media[h].bts /\ f.port = media[h].port
      /\ f.udp = "bound" => media[h].udp = "bound" \/ PortFree(h)
  BY DEF Wake
<1>6. /\ holding' = holding
      /\ mgr' = mgr
  BY DEF Wake
<1> HIDE DEF f
<1> QED BY <1>2, <1>3, <1>4, <1>5, <1>6, FrameMarked

\* The bind succeeds on a free port or fails.
LEMMA BindEndsStep ==
    ASSUME MediaInv, NEW h \in Sockets, BindEnds(h)
    PROVE  MediaInv'
<1> DEFINE f == [ws |-> media[h].ws, bts |-> media[h].bts, port |-> media[h].port,
                 at |-> media[h].at,
                 udp |-> IF PortFree(h) THEN "bound" ELSE "closed",
                 data |-> media[h].data]
<1>1. /\ media \in [Sockets -> Frame] /\ media[h] \in Frame /\ FrameSound(media[h])
      /\ h \in DOMAIN media
  BY DEF MediaInv, FramesSound
<1>2. media' = [media EXCEPT ![h] = f]
  <2>1. media'[h] = f
    BY <1>1 DEF BindEnds, Frame
  <2>2. DOMAIN media' = Sockets /\ \A j \in Sockets \ {h} : media'[j] = media[j]
    BY <1>1 DEF BindEnds
  <2>3. media' = [j \in Sockets |-> media'[j]]
    BY <1>1 DEF BindEnds
  <2> HIDE DEF f
  <2> QED BY <1>1, <2>1, <2>2, <2>3
<1>3. f \in Frame
  BY <1>1 DEF Frame
<1>4. FrameSound(f)
  BY <1>1 DEF FrameSound, BindEnds
<1>5. /\ f.bts = media[h].bts /\ f.port = media[h].port
      /\ f.udp = "bound" => media[h].udp = "bound" \/ PortFree(h)
  BY DEF BindEnds
<1>6. /\ holding' = holding
      /\ mgr' = mgr
  BY DEF BindEnds
<1> HIDE DEF f
<1> QED BY <1>2, <1>3, <1>4, <1>5, <1>6, FrameMarked

\* An error closes the socket.
LEMMA UdpErrorStep ==
    ASSUME MediaInv, NEW h \in Sockets, UdpError(h)
    PROVE  MediaInv'
<1> DEFINE f == [ws |-> media[h].ws, bts |-> media[h].bts, port |-> media[h].port,
                 at |-> media[h].at, udp |-> "closed", data |-> media[h].data]
<1>1. /\ media \in [Sockets -> Frame] /\ media[h] \in Frame /\ FrameSound(media[h])
      /\ h \in DOMAIN media
  BY DEF MediaInv, FramesSound
<1>2. media' = [media EXCEPT ![h] = f]
  <2>1. media'[h] = f
    BY <1>1 DEF UdpError, Frame
  <2>2. DOMAIN media' = Sockets /\ \A j \in Sockets \ {h} : media'[j] = media[j]
    BY <1>1 DEF UdpError
  <2>3. media' = [j \in Sockets |-> media'[j]]
    BY <1>1 DEF UdpError
  <2> HIDE DEF f
  <2> QED BY <1>1, <2>1, <2>2, <2>3
<1>3. f \in Frame
  BY <1>1 DEF Frame
<1>4. FrameSound(f)
  BY <1>1 DEF FrameSound, UdpError
<1>5. /\ f.bts = media[h].bts /\ f.port = media[h].port
      /\ f.udp = "bound" => media[h].udp = "bound" \/ PortFree(h)
  BY DEF UdpError
<1>6. /\ holding' = holding
      /\ mgr' = mgr
  BY DEF UdpError
<1> HIDE DEF f
<1> QED BY <1>2, <1>3, <1>4, <1>5, <1>6, FrameMarked

\* Voice of the browser marks the BTS seen.
LEMMA VoiceUpStep ==
    ASSUME MediaInv, NEW h \in Sockets, VoiceUp(h)
    PROVE  MediaInv'
<1> DEFINE f == [ws |-> media[h].ws, bts |-> media[h].bts, port |-> media[h].port,
                 at |-> media[h].at,
                 udp |-> IF media[h].udp = "bound" THEN media[h].udp ELSE "closed",
                 data |-> media[h].data]
<1>1. /\ media \in [Sockets -> Frame] /\ media[h] \in Frame /\ FrameSound(media[h])
      /\ h \in DOMAIN media
  BY DEF MediaInv, FramesSound
<1>2. media' = [media EXCEPT ![h] = f]
  <2>1. media'[h] = f
    BY <1>1 DEF VoiceUp, Frame
  <2>2. DOMAIN media' = Sockets /\ \A j \in Sockets \ {h} : media'[j] = media[j]
    BY <1>1 DEF VoiceUp
  <2>3. media' = [j \in Sockets |-> media'[j]]
    BY <1>1 DEF VoiceUp
  <2> HIDE DEF f
  <2> QED BY <1>1, <2>1, <2>2, <2>3
<1>3. f \in Frame
  BY <1>1 DEF Frame
<1>4. FrameSound(f)
  BY <1>1 DEF FrameSound, VoiceUp
<1>5. /\ f.bts = media[h].bts /\ f.port = media[h].port
      /\ f.udp = "bound" => media[h].udp = "bound" \/ PortFree(h)
  BY DEF VoiceUp
<1>6. /\ holding' = holding
      /\ \E up \in BOOLEAN : mgr' = markById(mgr, media[h].bts, up)
  BY DEF VoiceUp, Marked, markSeenById, markDisconnectedById
<1> HIDE DEF f
<1> QED BY <1>2, <1>3, <1>4, <1>5, <1>6, FrameMarked

\* Voice of the MGW is buffered.
LEMMA VoiceDownStep ==
    ASSUME MediaInv, NEW h \in Sockets, VoiceDown(h)
    PROVE  MediaInv'
<1> DEFINE f == [ws |-> media[h].ws, bts |-> media[h].bts, port |-> media[h].port,
                 at |-> media[h].at, udp |-> media[h].udp, data |-> TRUE]
<1>1. /\ media \in [Sockets -> Frame] /\ media[h] \in Frame /\ FrameSound(media[h])
      /\ h \in DOMAIN media
  BY DEF MediaInv, FramesSound
<1>2. media' = [media EXCEPT ![h] = f]
  <2>1. media'[h] = f
    BY <1>1 DEF VoiceDown, Frame
  <2>2. DOMAIN media' = Sockets /\ \A j \in Sockets \ {h} : media'[j] = media[j]
    BY <1>1 DEF VoiceDown
  <2>3. media' = [j \in Sockets |-> media'[j]]
    BY <1>1 DEF VoiceDown
  <2> HIDE DEF f
  <2> QED BY <1>1, <2>1, <2>2, <2>3
<1>3. f \in Frame
  BY <1>1 DEF Frame
<1>4. FrameSound(f)
  BY <1>1 DEF FrameSound, VoiceDown
<1>5. /\ f.bts = media[h].bts /\ f.port = media[h].port
      /\ f.udp = "bound" => media[h].udp = "bound" \/ PortFree(h)
  BY DEF VoiceDown
<1>6. /\ holding' = holding
      /\ mgr' = mgr
  BY DEF VoiceDown
<1> HIDE DEF f
<1> QED BY <1>2, <1>3, <1>4, <1>5, <1>6, FrameMarked

\* The loop forwards it, or ends.
LEMMA ForwardStep ==
    ASSUME MediaInv, NEW h \in Sockets, Forward(h)
    PROVE  MediaInv'
<1> DEFINE f == [ws |-> media[h].ws, bts |-> media[h].bts, port |-> media[h].port,
                 at |-> IF media[h].ws = "closed" THEN "done" ELSE media[h].at,
                 udp |-> media[h].udp,
                 data |-> FALSE]
<1>1. /\ media \in [Sockets -> Frame] /\ media[h] \in Frame /\ FrameSound(media[h])
      /\ h \in DOMAIN media
  BY DEF MediaInv, FramesSound
<1>2. media' = [media EXCEPT ![h] = f]
  <2>1. media'[h] = f
    BY <1>1 DEF Forward, Frame
  <2>2. DOMAIN media' = Sockets /\ \A j \in Sockets \ {h} : media'[j] = media[j]
    BY <1>1 DEF Forward
  <2>3. media' = [j \in Sockets |-> media'[j]]
    BY <1>1 DEF Forward
  <2> HIDE DEF f
  <2> QED BY <1>1, <2>1, <2>2, <2>3
<1>3. f \in Frame
  BY <1>1 DEF Frame
<1>4. FrameSound(f)
  BY <1>1 DEF FrameSound, Forward
<1>5. /\ f.bts = media[h].bts /\ f.port = media[h].port
      /\ f.udp = "bound" => media[h].udp = "bound" \/ PortFree(h)
  BY DEF Forward
<1>6. /\ holding' = holding
      /\ \E up \in BOOLEAN : mgr' = markById(mgr, media[h].bts, up)
  BY DEF Forward, Marked, markSeenById, markDisconnectedById
<1> HIDE DEF f
<1> QED BY <1>2, <1>3, <1>4, <1>5, <1>6, FrameMarked

\* A websocket that closes closes its socket.
LEMMA OnCloseStep ==
    ASSUME MediaInv, NEW h \in Sockets, OnClose(h)
    PROVE  MediaInv'
<1> DEFINE f == [ws |-> "closed", bts |-> media[h].bts, port |-> media[h].port,
                 at |-> media[h].at, udp |-> "closed", data |-> media[h].data]
<1>1. /\ media \in [Sockets -> Frame] /\ media[h] \in Frame /\ FrameSound(media[h])
      /\ h \in DOMAIN media
  BY DEF MediaInv, FramesSound
<1>2. media' = [media EXCEPT ![h] = f]
  <2>1. media'[h] = f
    BY <1>1 DEF OnClose, Frame
  <2>2. DOMAIN media' = Sockets /\ \A j \in Sockets \ {h} : media'[j] = media[j]
    BY <1>1 DEF OnClose
  <2>3. media' = [j \in Sockets |-> media'[j]]
    BY <1>1 DEF OnClose
  <2> HIDE DEF f
  <2> QED BY <1>1, <2>1, <2>2, <2>3
<1>3. f \in Frame
  BY <1>1 DEF Frame
<1>4. FrameSound(f)
  BY <1>1 DEF FrameSound, OnClose
<1>5. /\ f.bts = media[h].bts /\ f.port = media[h].port
      /\ f.udp = "bound" => media[h].udp = "bound" \/ PortFree(h)
  BY DEF OnClose
<1>6. /\ holding' = holding
      /\ \E up \in BOOLEAN : mgr' = markById(mgr, media[h].bts, up)
  BY DEF OnClose, Marked, markSeenById, markDisconnectedById
<1> HIDE DEF f
<1> QED BY <1>2, <1>3, <1>4, <1>5, <1>6, FrameMarked

-------------------------------------------------------------------------------
(* Theorems.                                                                 *)

\* The inductive invariant holds in every reachable state.
THEOREM MediaAlwaysSound == MediaSpec => []MediaInv
<1>1. MediaInit => MediaInv
  <2> SUFFICES ASSUME MediaInit  PROVE MediaInv
    OBVIOUS
  <2> DEFINE f == [ws |-> "none", bts |-> NoBts, port |-> NoPort,
                   at |-> "none", udp |-> "fresh", data |-> FALSE]
  <2>1. Consistent(mgr)
    BY InitialConsistent DEF MediaInit, Init
  <2>2. f \in Frame /\ FrameSound(f) /\ f.udp # "bound"
    BY DEF Frame, FrameSound
  <2>3. media = [h \in Sockets |-> f] /\ holding = {}
    BY DEF MediaInit
  <2> HIDE DEF f
  <2> QED BY <2>1, <2>2, <2>3 DEF MediaInv, FramesSound, PortsApart, LeasesHeld
<1>2. MediaInv /\ [MediaNext]_mediaVars => MediaInv'
  <2> SUFFICES ASSUME MediaInv, [MediaNext]_mediaVars  PROVE MediaInv'
    OBVIOUS
  <2>1. CASE ManagerCalled
    BY <2>1, ManagerStep
  <2>2. ASSUME NEW h \in Sockets,
               \/ Handle(h) \/ Wake(h) \/ BindEnds(h) \/ UdpError(h) \/ VoiceUp(h) \/ VoiceDown(h)
               \/ Forward(h) \/ OnClose(h) \/ \E i \in BtsIds : Named(h, i)
        PROVE  MediaInv'
    BY <2>2, HandleStep, WakeStep, BindEndsStep, UdpErrorStep, VoiceUpStep, VoiceDownStep,
       ForwardStep, OnCloseStep, NamedStep
  <2>3. CASE UNCHANGED mediaVars
    BY <2>3, MediaUnchanged
  <2> QED BY <2>1, <2>2, <2>3 DEF MediaNext
<1> QED BY <1>1, <1>2, PTL DEF MediaSpec

\* The frames keep their shape, and the port goes with the name.
THEOREM MediaTypeCorrect == MediaSpec => []MediaTypeOK
<1>1. MediaInv => MediaTypeOK
  BY DEF MediaInv, FramesSound, FrameSound, LeasesHeld, MediaTypeOK
<1> QED BY <1>1, MediaAlwaysSound, PTL

\* No closed websocket keeps a port bound.
THEOREM PortNeverLeaks == MediaSpec => []NoPortLeak
<1>1. MediaInv => NoPortLeak
  <2> SUFFICES ASSUME MediaInv, NEW h \in Sockets, media[h].udp = "bound"
               PROVE  media[h].ws = "open"
    BY DEF NoPortLeak
  <2>1. media[h] \in Frame /\ FrameSound(media[h])
    BY DEF MediaInv, FramesSound
  <2>2. media[h].ws \in {"none", "open", "closed"}
    BY <2>1 DEF Frame
  <2> QED BY <2>1, <2>2 DEF FrameSound
<1> QED BY <1>1, MediaAlwaysSound, PTL

\* While an assignment lasts, the port bound for it is its own and nobody else's.
THEOREM PortAlwaysOfLease == MediaSpec => []PortOfLease
<1>1. MediaInv => PortOfLease
  BY DEF MediaInv, PortOfLease, LeasesHeld, PortsApart, Consistent, ExactPorts
<1> QED BY <1>1, MediaAlwaysSound, PTL

===============================================================================
