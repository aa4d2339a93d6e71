------------------------------- MODULE TrxWorker -------------------------------
(***************************************************************************)
(* The A-bis side of the browser's transceiver: OsmoTrxWorker of           *)
(* frontend-core (src/osmo/osmoTrxWorker.ts), between the BTS stack        *)
(* compiled to WebAssembly (src/osmo/osmo.ts) and the bridges of           *)
(* AbisBridge, with which it is composed.                                  *)
(*                                                                         *)
(* The stack is external: it makes messages and connects RSL when it       *)
(* likes, and takes a message before the call that hands it over returns.  *)
(* openWs and closeWs await one websocket after the other and may overlap; *)
(* at most one of each runs at a time here.  sendOmlBuffer and             *)
(* sendRslBuffer send what their NetCache holds as one message, which the  *)
(* model keeps as its parts.  The media and control websockets are left    *)
(* out, and so is the combined 'abis' one, which nothing opens.            *)
(***************************************************************************)
EXTENDS AbisBridge

CONSTANT CacheSize  \* messages a NetCache has room for, 1 MiB in the code

ASSUME TrxWorkerAssumption == CacheSize \in Nat

VARIABLES
    wses,         \* _wses: the socket each link uses, 0 for undefined
    opens,        \* openWs calls so far
    opener,       \* the link openWs awaits, or "idle"
    closer,       \* the link closeWs awaits, or "idle"
    rslConnected, \* _rsl_connected
    held,         \* _rsl_buffer: RSL messages that came before the stack connected
    cache,        \* _abisOmlBuffer, _abisRslBuffer
    replying,     \* links whose message handler has its last line still to run
    made,         \* how many messages the stack made
    stackGot      \* history: what was handed to the stack, as <<n, message>>

workerVars == <<wses, opens, opener, closer, rslConnected, held, cache, replying, made, stackGot>>
vars == <<bridgeVars, workerVars>>

Init ==
    /\ BridgeInit
    /\ wses = [l \in Links |-> 0]
    /\ opens = 0 /\ opener = "idle" /\ closer = <<"idle", 0>>
    /\ rslConnected = FALSE
    /\ held = <<>>
    /\ cache = [l \in Links |-> <<>>]
    /\ replying = {}
    /\ made = [l \in Links |-> 0]
    /\ stackGot = [l \in Links |-> <<>>]

-------------------------------------------------------------------------------
(* Opening and closing the websockets: OML, then RSL.                        *)

Create(l, n) ==
    /\ ws' = [ws EXCEPT ![<<l, n>>] = "connecting"]
    /\ wses' = [wses EXCEPT ![l] = n]
    /\ opener' = l

\* openWs makes the OML socket and awaits that it opens.
OpenWs ==
    /\ opener = "idle" /\ opens < MaxOpens
    /\ opens' = opens + 1
    /\ Create("OML", opens + 1)
    /\ UNCHANGED <<up, down, tcp, handler, buffer, tcpUp, bscGot, bscSent, overrun, disturbed,
                   messages, faults, closer, rslConnected, held, cache, replying, made, stackGot>>

\* It opened: the RSL socket is next.
OpenNext ==
    /\ opener = "OML" /\ ws[<<"OML", opens>>] = "open"
    /\ Create("RSL", opens)
    /\ UNCHANGED <<up, down, tcp, handler, buffer, tcpUp, bscGot, bscSent, overrun, disturbed,
                   messages, faults, opens, closer, rslConnected, held, cache, replying, made,
                   stackGot>>

\* openWs ends: all are open, or the one it awaits failed and it throws.
OpenEnds ==
    /\ \/ opener = "RSL" /\ ws[<<"RSL", opens>>] # "connecting"
       \/ opener = "OML" /\ ws[<<"OML", opens>>] \notin {"connecting", "open"}
    /\ opener' = "idle"
    /\ UNCHANGED <<bridgeVars, wses, opens, closer, rslConnected, held, cache, replying, made, stackGot>>

\* Mutant of CloseFirst: goes on without closing the socket.
CloseFirstOpen(S, refs) ==
    LET with == {l \in S : refs[l] # 0}
        l    == IF "OML" \in with THEN "OML" ELSE "RSL"
    IN  /\ closer' = IF with = {} THEN <<"idle", 0>> ELSE <<l, refs[l]>>
        /\ UNCHANGED <<ws, disturbed>>

\* ws.close() of the first link of S that has a socket; closeWs is done when
\* there is none.
CloseFirst(S, refs) ==
    LET with == {l \in S : refs[l] # 0}
        l    == IF "OML" \in with THEN "OML" ELSE "RSL"
        s    == <<l, refs[l]>>
    IN  IF with = {} THEN closer' = <<"idle", 0>> /\ UNCHANGED <<ws, disturbed>>
        ELSE /\ closer' = s
             /\ ws' = [ws EXCEPT ![s] = IF @ \in {"open", "connecting"} THEN "closing" ELSE @]
             /\ disturbed' = disturbed \cup {s}

CloseWs ==
    /\ closer = <<"idle", 0>> /\ faults < MaxFaults
    /\ faults' = faults + 1
    /\ rslConnected' = FALSE
    /\ CloseFirst(Links, wses)
    /\ UNCHANGED <<up, down, tcp, handler, buffer, tcpUp, bscGot, bscSent, overrun, messages, wses,
                   opens, opener, held, cache, replying, made, stackGot>>

\* The close it awaited is done: the link has no socket any more, also when
\* openWs has given it a new one meanwhile.
CloseNext ==
    /\ closer # <<"idle", 0>> /\ ws[closer] = "closed"
    /\ wses' = [wses EXCEPT ![closer[1]] = 0]
    /\ CloseFirst(IF closer[1] = "OML" THEN {"RSL"} ELSE {}, wses)
    /\ UNCHANGED <<up, down, tcp, handler, buffer, tcpUp, bscGot, bscSent, overrun, messages,
                   faults, opens, opener, rslConnected, held, cache, replying, made, stackGot>>

-------------------------------------------------------------------------------
(* From the stack to the BSC.                                                *)

\* onAbisData: the message waits in the cache of its link.  NetCache.push throws
\* into the stack when the cache has no room for it, and the message is gone.
OnAbisData(l) ==
    /\ messages < MaxMessages
    /\ messages' = messages + 1
    /\ made' = [made EXCEPT ![l] = @ + 1]
    /\ IF Len(cache[l]) < CacheSize
       THEN cache' = [cache EXCEPT ![l] = Append(@, made[l] + 1)] /\ UNCHANGED overrun
       ELSE overrun' = overrun \cup {<<l, 0>>} /\ UNCHANGED cache
    /\ UNCHANGED <<ws, up, down, tcp, handler, buffer, tcpUp, bscGot, bscSent, disturbed,
                   faults, wses, opens, opener, closer, rslConnected, held, replying, stackGot>>

\* Mutant of SendBuffers: does not clear the cache.
SendBuffersTwice(S, connected) ==
    LET to == {l \in S : wses[l] # 0 /\ cache[l] # <<>> /\ (l = "RSL" => connected)
                          /\ ws[<<l, wses[l]>>] = "open"}
    IN  /\ up' = [s \in Sockets |-> IF s[1] \in to /\ wses[s[1]] = s[2]
                                    THEN up[s] \o cache[s[1]] ELSE up[s]]
        /\ UNCHANGED cache

\* sendOmlBuffer and sendRslBuffer, for the links of S: the cache is sent on the
\* link's socket and cleared.  A socket that is still connecting throws and the
\* cache stays; one that is closing or closed throws or drops the data.
SendBuffers(S, connected) ==
    LET to    == {l \in S : wses[l] # 0 /\ cache[l] # <<>> /\ (l = "RSL" => connected)}
        state == [l \in to |-> ws[<<l, wses[l]>>]]
        sent  == {l \in to : state[l] = "open"}
    IN  \E dropped \in SUBSET {l \in to : state[l] \notin {"open", "connecting"}} :
            /\ up' = [s \in Sockets |-> IF s[1] \in sent /\ wses[s[1]] = s[2]
                                        THEN up[s] \o cache[s[1]] ELSE up[s]]
            /\ cache' = [l \in Links |-> IF l \in sent \cup dropped THEN <<>> ELSE cache[l]]

\* The last line of a message handler, after its await.
Reply(l) ==
    /\ l \in replying
    /\ replying' = replying \ {l}
    /\ SendBuffers({l}, rslConnected)
    /\ UNCHANGED <<ws, down, tcp, handler, buffer, tcpUp, bscGot, bscSent, overrun, disturbed,
                   messages, faults, wses, opens, opener, closer, rslConnected, held, made,
                   stackGot>>

\* Mutants of OnReceiveData: RSL is sent too early, or forgotten.
OnReceiveDataEarly ==
    /\ SendBuffers(Links, TRUE)
    /\ UNCHANGED <<ws, down, tcp, handler, buffer, tcpUp, bscGot, bscSent, overrun, disturbed,
                   messages, faults, wses, opens, opener, closer, rslConnected, held, replying,
                   made, stackGot>>

OnReceiveDataOml ==
    /\ SendBuffers({"OML"}, rslConnected)
    /\ UNCHANGED <<ws, down, tcp, handler, buffer, tcpUp, bscGot, bscSent, overrun, disturbed,
                   messages, faults, wses, opens, opener, closer, rslConnected, held, replying,
                   made, stackGot>>

\* onReceiveData, for every packet of the USB device: samples to and from the
\* stack (which may make messages, OnAbisData), then both caches are sent.
OnReceiveData ==
    /\ SendBuffers(Links, rslConnected)
    /\ UNCHANGED <<ws, down, tcp, handler, buffer, tcpUp, bscGot, bscSent, overrun, disturbed,
                   messages, faults, wses, opens, opener, closer, rslConnected, held, replying,
                   made, stackGot>>

-------------------------------------------------------------------------------
(* From the BSC to the stack.                                                *)

\* The next message of a socket, while the browser has not begun to close it.
Received(s) ==
    /\ ws[s] \in {"open", "ending"} /\ down[s] # <<>>
    /\ down' = [down EXCEPT ![s] = Tail(@)]

Handed(l, ms) == stackGot' = [stackGot EXCEPT ![l] = @ \o ms]

\* onWSAbisOmlMessage: sendAbisData(1, ...).
OnWSAbisOmlMessage(n) ==
    /\ Received(<<"OML", n>>)
    /\ Handed("OML", <<<<n, Head(down[<<"OML", n>>])>>>>)
    /\ replying' = replying \cup {"OML"}
    /\ UNCHANGED <<ws, up, tcp, handler, buffer, tcpUp, bscGot, bscSent, overrun, disturbed,
                   messages, faults, wses, opens, opener, closer, rslConnected, held, cache, made>>

\* onWSAbisRslMessage: kept until the stack has connected RSL, handed over after.
\* _rsl_buffer is a CircularBuffer too.
OnWSAbisRslMessage(n) ==
    /\ Received(<<"RSL", n>>)
    /\ LET m == <<n, Head(down[<<"RSL", n>>])>>
       IN  IF rslConnected
           THEN /\ Handed("RSL", <<m>>) /\ replying' = replying \cup {"RSL"}
                /\ UNCHANGED <<held, overrun>>
           ELSE /\ held' = Pushed(held, m)
                /\ overrun' = overrun \cup (IF Full(held) THEN {<<"RSL", Head(held)[1]>>} ELSE {})
                /\ UNCHANGED <<stackGot, replying>>
    /\ UNCHANGED <<ws, up, tcp, handler, buffer, tcpUp, bscGot, bscSent, disturbed,
                   messages, faults, wses, opens, opener, closer, rslConnected, cache, made>>

\* Mutant of OnRslConnect: does not hand over what was kept.
OnRslConnectForgets ==
    /\ rslConnected' = TRUE
    /\ held' = <<>>
    /\ SendBuffers({"RSL"}, TRUE)
    /\ UNCHANGED <<ws, down, tcp, handler, buffer, tcpUp, bscGot, bscSent, overrun, disturbed,
                   messages, faults, wses, opens, opener, closer, replying, made, stackGot>>

\* onRslConnect, called by the stack: what was kept is handed over, and what the
\* stack has made meanwhile is sent.
OnRslConnect ==
    /\ Handed("RSL", held)
    /\ held' = <<>>
    /\ rslConnected' = TRUE
    /\ SendBuffers({"RSL"}, TRUE)
    /\ UNCHANGED <<ws, down, tcp, handler, buffer, tcpUp, bscGot, bscSent, overrun, disturbed,
                   messages, faults, wses, opens, opener, closer, replying, made>>

Next ==
    \/ OpenWs \/ OpenNext \/ OpenEnds \/ CloseWs \/ CloseNext
    \/ \E l \in Links : OnAbisData(l) \/ Reply(l)
    \/ OnReceiveData \/ OnRslConnect
    \/ \E n \in 1 .. MaxOpens : OnWSAbisOmlMessage(n) \/ OnWSAbisRslMessage(n)
    \/ \E s \in Sockets : BridgeNext(s) /\ UNCHANGED workerVars

\* A step that brings a message, either way, nearer to its end.
Deliver ==
    \/ OnReceiveData
    \/ \E n \in 1 .. MaxOpens : OnWSAbisOmlMessage(n) \/ OnWSAbisRslMessage(n)
    \/ \E s \in Sockets :
          /\ OnConnect(s) \/ OnMessage(s) \/ Forward(s) \/ GiveUp(s)
          /\ UNCHANGED workerVars

\* Websockets, TCP and the event loops deliver, and the USB device streams.
Fairness == WF_vars(Deliver)

Spec == Init /\ [][Next]_vars /\ Fairness

-------------------------------------------------------------------------------
(* Properties.                                                               *)

\* The fields have their shapes: a link's socket is one that openWs made, and
\* closeWs awaits a socket that is being closed.
WorkerTypeOK ==
    /\ ws \in [Sockets -> {"none", "connecting", "open", "closing", "ending", "closed"}]
    /\ tcp \in [Sockets -> {"none", "connecting", "open", "closed"}]
    /\ handler \in [Sockets -> {"none", "waiting", "done"}]
    /\ \A l \in Links : wses[l] \in 0 .. opens /\ (wses[l] # 0 => ws[<<l, wses[l]>>] # "none")
    /\ opens \in 0 .. MaxOpens /\ opener \in Links \cup {"idle"}
    /\ closer # <<"idle", 0>> => closer \in Sockets /\ ws[closer] \in {"closing", "ending", "closed"}
    /\ rslConnected \in BOOLEAN /\ replying \subseteq Links
    /\ made \in [Links -> 0 .. MaxMessages] /\ bscSent \in [Sockets -> 0 .. MaxMessages]

Increasing(q) == \A i, j \in DOMAIN q : i < j => q[i] < q[j]
Before(p, q) == \A i \in DOMAIN p, j \in DOMAIN q : p[i] < q[j]
CountsFrom(k, q) == \A i \in DOMAIN q : q[i] = k + i

\* What a socket carried to the BSC, and carries there.
Line(s) == (bscGot[s] \o tcpUp[s]) \o up[s]

\* What the BTS stack says reaches the BSC: end to end, over the caches, the
\* websockets, the bridges and TCP, the messages of a link are in order and none
\* is there twice, across closing and opening again; and none is missing as
\* long as no socket of the link closed or failed and its cache had room.
UplinkConserved ==
    \A l \in Links :
        LET there == ToSet(cache[l]) \cup (UNION {ToSet(Line(<<l, n>>)) : n \in 1 .. MaxOpens})
        IN  /\ Increasing(cache[l])
            /\ \A n \in 1 .. MaxOpens :
                  /\ Increasing(Line(<<l, n>>)) /\ Before(Line(<<l, n>>), cache[l])
                  /\ \A m \in 1 .. n - 1 : Before(Line(<<l, m>>), Line(<<l, n>>))
            /\ there \subseteq 1 .. made[l]
            /\ <<l, 0>> \notin overrun /\ (\A n \in 1 .. MaxOpens : <<l, n>> \notin disturbed) =>
                  there = 1 .. made[l]

\* What the stack of a link has, or _rsl_buffer keeps for it.
Handled(l) == IF l = "RSL" THEN stackGot["RSL"] \o held ELSE stackGot["OML"]

\* What is on its way to the browser on a socket.
Onward(s) == down[s] \o buffer[s]

\* What the BSC says reaches the stack: the messages of a connection that the
\* stack has, _rsl_buffer keeps for it or are on their way are in order and none is
\* there twice, RSL messages that came before the stack connected included.
\* Unless a full CircularBuffer overwrote one, the stack has a gapless beginning
\* and what is on its way goes on from there, and nothing at all is missing on a
\* connection that did not close or fail.
DownlinkConserved ==
    \A s \in Sockets :
        LET all  == Handled(s[1])
            mine == {i \in DOMAIN all : all[i][1] = s[2]}
        IN  /\ \A i, j \in mine : i < j => all[i][2] < all[j][2]
            /\ \A i \in mine, x \in ToSet(Onward(s)) : all[i][2] < x
            /\ Increasing(Onward(s)) /\ ToSet(Onward(s)) \subseteq 1 .. bscSent[s]
            /\ s \notin overrun =>
                  \E k \in 0 .. bscSent[s] :
                     /\ {all[i][2] : i \in mine} = 1 .. k
                     /\ CountsFrom(k, down[s])
                     /\ s \notin disturbed =>
                           CountsFrom(k, Onward(s)) /\ k + Len(Onward(s)) = bscSent[s]

\* RSL waits for the stack: until onRslConnect, and again after closeWs, no RSL
\* message is handed to the stack and none of the stack's is sent.
RslHeldBack ==
    [][(stackGot'["RSL"] # stackGot["RSL"]
           \/ \E n \in 1 .. MaxOpens : Len(up'[<<"RSL", n>>]) > Len(up[<<"RSL", n>>]))
         => rslConnected']_vars

\* On its way: messages of the stack that the link's open socket should carry,
\* and on any sound socket what neither end has got.
Underway(s) ==
    /\ s \notin disturbed
    /\ \/ /\ wses[s[1]] = s[2] /\ ws[s] = "open" /\ cache[s[1]] # <<>>
          /\ s[1] = "RSL" => rslConnected
       \/ up[s] # <<>> \/ tcpUp[s] # <<>> \/ buffer[s] # <<>> \/ down[s] # <<>>

\* Nothing gets stuck on the way: what is underway arrives, unless its socket
\* closes or fails, or closeWs or openWs takes the link's socket away.  (The
\* messages are bounded, so all of them arrive.)
MessagesArrive == (\E s \in Sockets : Underway(s)) ~> ~(\E s \in Sockets : Underway(s))

===============================================================================
