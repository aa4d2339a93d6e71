------------------------------ MODULE MediaBridge ------------------------------
(***************************************************************************)
(* The media bridge of backend-core: one handle() of MediaController       *)
(* (src/osmorouter/controllers/media.controller.ts) per websocket, with    *)
(* its OsmoUdpClient (osmoudp.client.ts), over the BtsManager whose        *)
(* assignments come and go meanwhile.                                      *)
(*                                                                         *)
(* The browser names its BTS once, when the websocket opens.  The handler  *)
(* looks once a second whether that gave it a port, binds the port, and    *)
(* loops over the packets that arrive there.  Ports and sockets are the    *)
(* operating system's: a port is bound once, and a closed socket stays     *)
(* closed.  The MGW sends to the ports of the assignments.  onerror, which *)
(* does what the onclose that follows it does, is left out, and so is the  *)
(* handle() of a server whose media service is not configured: it closes   *)
(* the websocket at once.                                                  *)
(***************************************************************************)
EXTENDS BtsManager

CONSTANT Sockets      \* media websockets, each used once

NoBts == -1
NoPort == -1

VARIABLES
    media,        \* the frame of each websocket's handler
    holding       \* history: sockets whose named BTS was assigned then, and still
                  \* is, without interruption

mediaVars == <<mgr, media, holding>>

Frame == [ws   : {"none", "open", "closed"},
          bts  : BtsIds \cup {NoBts},
          port : OsmuxPorts \cup {NoPort},
          at   : {"none", "waiting", "serving", "done"},
          udp  : {"fresh", "binding", "bound", "closed"},
          data : BOOLEAN]

MediaInit ==
    /\ Init
    /\ media = [h \in Sockets |-> [ws |-> "none", bts |-> NoBts, port |-> NoPort,
                                   at |-> "none", udp |-> "fresh", data |-> FALSE]]
    /\ holding = {}

\* The holders that remain when the manager's state becomes m.
StillHolding(m) ==
    {h \in holding : /\ media[h].bts \in Assigned(m)
                     /\ m.idToAssignment[media[h].bts].key = mgr.idToAssignment[media[h].bts].key}

\* The manager's own calls: PUT, DELETE, clean-ups, time.
ManagerCalled ==
    /\ \/ \E k \in Keys : Allocate(k, Unset) \/ ReleaseByUuid(k)
       \/ CleanupExpired \/ Tick
       \/ \E list \in BscLists : CleanupDisconnected(list)
    /\ holding' = StillHolding(mgr')
    /\ UNCHANGED media

Marked(m) == mgr' = m /\ UNCHANGED holding

\* handle(): the handlers are set and the loop waits for a port.
Handle(h) ==
    /\ media[h].ws = "none"
    /\ media' = [media EXCEPT ![h].ws = "open", ![h].at = "waiting"]
    /\ UNCHANGED <<mgr, holding>>

\* Mutant of Named: takes the port of an assignment in use only.
NamedIfIdle(h, i) ==
    /\ media[h].ws = "open" /\ media[h].bts = NoBts
    /\ media' = [media EXCEPT
          ![h].bts = i,
          ![h].port = IF i \in Assigned(mgr) /\ ~mgr.idToAssignment[i].connected
                   THEN mgr.idToAssignment[i].osmuxPort ELSE @]
    /\ mgr' = markSeenById(mgr, i)
    /\ holding' = IF i \in Assigned(mgr) THEN holding \cup {h} ELSE holding

\* onmessage with the BTS's number: its port is remembered, if it has one.
Named(h, i) ==
    /\ media[h].ws = "open" /\ media[h].bts = NoBts
    /\ media' = [media EXCEPT
          ![h].bts = i,
          ![h].port = IF i \in Assigned(mgr) THEN mgr.idToAssignment[i].osmuxPort ELSE @]
    /\ mgr' = markSeenById(mgr, i)
    /\ holding' = IF i \in Assigned(mgr) THEN holding \cup {h} ELSE holding

\* Mutant of PortFree: the bind is not exclusive.
PortShared(h) == TRUE

\* Nobody has the port; the code binds it exclusively.
PortFree(h) == \A j \in Sockets : media[j].udp = "bound" => media[j].port # media[h].port

\* Mutant of Wake: the handler sleeps once, port or no port.
WakeAnyway(h) ==
    /\ media[h].at = "waiting"
    /\ media' = [media EXCEPT
          ![h].at = "serving", ![h].udp = IF @ = "fresh" THEN "binding" ELSE @]
    /\ UNCHANGED <<mgr, holding>>

\* sleep(1) is over and there is a port: connect() begins to bind it, or throws
\* on a closed socket; the loop over get() begins in any case.
Wake(h) ==
    /\ media[h].at = "waiting" /\ media[h].port # NoPort
    /\ media' = [media EXCEPT
          ![h].at = "serving", ![h].udp = IF @ = "fresh" THEN "binding" ELSE @]
    /\ UNCHANGED <<mgr, holding>>

\* The names are resolved and the port is bound and connected, or it is taken and
\* the client disconnects.
BindEnds(h) ==
    /\ media[h].udp = "binding"
    /\ media' = [media EXCEPT ![h].udp = IF PortFree(h) THEN "bound" ELSE "closed"]
    /\ UNCHANGED <<mgr, holding>>

\* The socket reports an error, of resolving the names or later (an MGW that does
\* not listen is reported too), and the client disconnects.
UdpError(h) ==
    /\ media[h].udp \in {"binding", "bound"}
    /\ media' = [media EXCEPT ![h].udp = "closed"]
    /\ UNCHANGED <<mgr, holding>>

\* onmessage with a voice packet: the BTS named is marked seen, and send() throws
\* on a socket that is not connected yet, which disconnects it for good.
VoiceUp(h) ==
    /\ media[h].ws = "open"
    /\ Marked(markSeenById(mgr, media[h].bts))
    /\ media' = [media EXCEPT ![h].udp = IF @ = "bound" THEN @ ELSE "closed"]

\* A packet of the MGW goes into the circular buffer.
VoiceDown(h) ==
    /\ media[h].udp = "bound"
    /\ media' = [media EXCEPT ![h].data = TRUE]
    /\ UNCHANGED <<mgr, holding>>

\* The loop takes what has arrived, marks the BTS seen and sends it; when the
\* websocket has closed it marks the BTS disconnected and ends.
Forward(h) ==
    /\ media[h].at = "serving" /\ media[h].data
    /\ media' = [media EXCEPT
          ![h].data = FALSE, ![h].at = IF media[h].ws = "closed" THEN "done" ELSE @]
    /\ Marked(IF media[h].ws = "closed" THEN markDisconnectedById(mgr, media[h].bts)
              ELSE markSeenById(mgr, media[h].bts))

\* Mutant of OnClose: leaves the UDP socket as it is.
OnCloseKeepsUdp(h) ==
    /\ media[h].ws = "open"
    /\ media' = [media EXCEPT ![h].ws = "closed"]
    /\ Marked(markDisconnectedById(mgr, media[h].bts))

\* onclose: the BTS named is marked disconnected, whoever has it now, and the
\* UDP socket is closed.
OnClose(h) ==
    /\ media[h].ws = "open"
    /\ media' = [media EXCEPT ![h].ws = "closed", ![h].udp = "closed"]
    /\ Marked(markDisconnectedById(mgr, media[h].bts))

MediaNext ==
    \/ ManagerCalled
    \/ \E h \in Sockets :
          \/ Handle(h) \/ Wake(h) \/ BindEnds(h) \/ UdpError(h)
          \/ VoiceUp(h) \/ VoiceDown(h) \/ Forward(h) \/ OnClose(h)
          \/ \E i \in BtsIds : Named(h, i)

\* The handler's timer fires and the operating system answers the bind.
MediaSpec ==
    /\ MediaInit /\ [][MediaNext]_mediaVars
    /\ \A h \in Sockets : WF_mediaVars(Wake(h) \/ BindEnds(h))

-------------------------------------------------------------------------------
(* Properties.                                                               *)

\* A frame has its shape; only a handler that named an assigned BTS has a port.
MediaTypeOK ==
    /\ media \in [Sockets -> Frame]
    /\ \A h \in Sockets : /\ media[h].port # NoPort => media[h].bts # NoBts
                          /\ media[h].udp \in {"binding", "bound"} => media[h].port # NoPort
    /\ holding \subseteq Sockets

\* No port leaks: a bound port belongs to a websocket that is open, in whatever
\* order naming, closing and the handler's timer come (a port left bound would
\* keep the next websocket of its BTS from ever binding it).
NoPortLeak == \A h \in Sockets : media[h].udp = "bound" => media[h].ws = "open"

\* Voice goes where it belongs as long as the assignment lasts: the port bound
\* for a socket is the port of the BTS it named and of no other BTS, and no other
\* socket has it bound.
PortOfLease ==
    \A h \in holding :
        /\ media[h].bts \in Assigned(mgr)
        /\ media[h].udp = "bound" =>
              /\ \A i \in Assigned(mgr) :
                    mgr.idToAssignment[i].osmuxPort = media[h].port <=> i = media[h].bts
              /\ \A j \in Sockets \ {h} : media[j].udp = "bound" => media[j].port # media[h].port

\* A websocket that names an assigned BTS does not wait for ever: it gets its port,
\* or its socket is closed, by its own close, another socket's hold on the port, an
\* error, or voice sent too early.  (That none of these happens is not claimed.)
NamedIsServed ==
    \A h \in Sockets :
        (media[h].at = "waiting" /\ h \in holding)
           ~> (media[h].udp \in {"bound", "closed"} \/ h \notin holding)

===============================================================================
