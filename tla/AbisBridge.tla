------------------------------ MODULE AbisBridge ------------------------------
(***************************************************************************)
(* The A-bis bridges of backend-core: one websocket of a browser carries   *)
(* OML or RSL and is handled by AbisOmlController or AbisRslController     *)
(* (src/osmorouter/controllers), which opens a TCP connection to the BSC   *)
(* of its own (osmotcp.client.ts).  The two controllers take the same      *)
(* steps.                                                                  *)
(*                                                                         *)
(* A socket <<l, n>> is the n-th websocket of link l.  What one message    *)
(* carries is abstracted to its number.  The BSC, the websockets, TCP and  *)
(* CircularBuffer (@websdr/core) are external: the lines are reliable and  *)
(* in order until they close or fail, the buffer is a ring.                *)
(***************************************************************************)
EXTENDS Integers, Sequences, SequencesExt

CONSTANTS
    MaxOpens,     \* bound on openWs calls of the browser
    MaxMessages,  \* bound on the messages, both ways and in all
    MaxFaults,    \* bound on the connections that fail and the closeWs calls
    RingSize      \* entries of a CircularBuffer, 100 in the code

ASSUME AbisBridgeAssumption ==
    {MaxOpens, MaxMessages, MaxFaults} \subseteq Nat /\ RingSize \in Nat \ {0}

Links   == {"OML", "RSL"}
Sockets == Links \X (1 .. MaxOpens)

VARIABLES
    ws,           \* each websocket, as its two ends see it
    up,           \* messages from the browser on it
    down,         \* messages to the browser on it
    tcp,          \* the handler's TCP connection
    handler,      \* its loop over the data of the BSC
    buffer,       \* circularBuffer: data of the BSC the loop has not taken
    tcpUp,        \* data written before it was connected
    bscGot,       \* history: what was sent to the BSC on it
    bscSent,      \* how much it sent
    overrun,      \* history: sockets of which a full buffer lost a message
    disturbed,    \* history: sockets that closed or failed, or whose TCP did
    messages,     \* how many messages were made
    faults        \* how many connections failed or were closed by closeWs

bridgeVars == <<ws, up, down, tcp, handler, buffer, tcpUp, bscGot, bscSent, overrun,
                disturbed, messages, faults>>

BridgeInit ==
    /\ ws = [s \in Sockets |-> "none"]
    /\ up = [s \in Sockets |-> <<>>]
    /\ down = [s \in Sockets |-> <<>>]
    /\ tcp = [s \in Sockets |-> "none"]
    /\ handler = [s \in Sockets |-> "none"]
    /\ buffer = [s \in Sockets |-> <<>>]
    /\ tcpUp = [s \in Sockets |-> <<>>]
    /\ bscGot = [s \in Sockets |-> <<>>]
    /\ bscSent = [s \in Sockets |-> 0]
    /\ overrun = {} /\ disturbed = {} /\ messages = 0 /\ faults = 0

\* _connected: set by connect(), cleared when the connection closes.
Connected(s) == tcp[s] \in {"connecting", "open"}

\* The websocket opens and handle() runs: handlers set, connect(), and the loop
\* waits for data.
Handle(s) ==
    /\ ws[s] = "connecting"
    /\ ws' = [ws EXCEPT ![s] = "open"]
    /\ tcp' = [tcp EXCEPT ![s] = "connecting"]
    /\ handler' = [handler EXCEPT ![s] = "waiting"]
    /\ UNCHANGED <<up, down, buffer, tcpUp, bscGot, bscSent, overrun, disturbed, messages, faults>>

\* onConnect: what was written meanwhile is sent.
OnConnect(s) ==
    /\ tcp[s] = "connecting"
    /\ tcp' = [tcp EXCEPT ![s] = "open"]
    /\ bscGot' = [bscGot EXCEPT ![s] = tcpUp[s]]
    /\ tcpUp' = [tcpUp EXCEPT ![s] = <<>>]
    /\ UNCHANGED <<ws, up, down, handler, buffer, bscSent, overrun, disturbed, messages, faults>>

\* disconnect(): the socket is destroyed, with what it had not written.
Disconnect(s) ==
    /\ tcp' = [tcp EXCEPT ![s] = "closed"]
    /\ tcpUp' = [tcpUp EXCEPT ![s] = <<>>]

\* The BSC refuses or closes the connection, or it fails: onDisconnect clears
\* _connected and tells nobody, so the loop goes on waiting.
OnDisconnect(s) ==
    /\ Connected(s) /\ faults < MaxFaults
    /\ faults' = faults + 1
    /\ Disconnect(s)
    /\ disturbed' = disturbed \cup {s}
    /\ UNCHANGED <<ws, up, down, handler, buffer, bscGot, bscSent, overrun, messages>>

\* send(): the connection keeps the data until it is connected; on a closed one
\* the write fails and the data is gone.
Write(s, data) ==
    /\ tcpUp' = [tcpUp EXCEPT ![s] = IF tcp[s] = "connecting" THEN Append(@, data) ELSE @]
    /\ bscGot' = [bscGot EXCEPT ![s] = IF tcp[s] = "open" THEN Append(@, data) ELSE @]

\* client.onmessage.
OnMessage(s) ==
    /\ ws[s] \in {"open", "closing", "ending"} /\ up[s] # <<>>
    /\ up' = [up EXCEPT ![s] = Tail(@)]
    /\ Write(s, Head(up[s]))
    /\ UNCHANGED <<ws, down, tcp, handler, buffer, bscSent, overrun, disturbed, messages, faults>>

\* push_back of a CircularBuffer: a full one overwrites its oldest entry.
Full(q) == Len(q) >= RingSize
Pushed(q, e) == Append(IF Full(q) THEN Tail(q) ELSE q, e)

\* onDataInternal: what the BSC sends goes into the circular buffer.
OnData(s) ==
    /\ tcp[s] = "open" /\ messages < MaxMessages
    /\ messages' = messages + 1
    /\ bscSent' = [bscSent EXCEPT ![s] = @ + 1]
    /\ buffer' = [buffer EXCEPT ![s] = Pushed(@, bscSent[s] + 1)]
    /\ overrun' = overrun \cup (IF Full(buffer[s]) THEN {s} ELSE {})
    /\ UNCHANGED <<ws, up, down, tcp, handler, tcpUp, bscGot, disturbed, faults>>

\* The loop wakes up: everything in the buffer is sent to the browser.
Forward(s) ==
    /\ handler[s] = "waiting" /\ buffer[s] # <<>> /\ Connected(s)
    /\ down' = [down EXCEPT ![s] = @ \o buffer[s]]
    /\ buffer' = [buffer EXCEPT ![s] = <<>>]
    /\ UNCHANGED <<ws, up, tcp, handler, tcpUp, bscGot, bscSent, overrun, disturbed, messages,
                   faults>>

\* The loop wakes up after the connection closed: get() returns with the buffer
\* unsent, and client.close() starts closing the websocket.
GiveUp(s) ==
    /\ handler[s] = "waiting" /\ buffer[s] # <<>> /\ ~Connected(s)
    /\ handler' = [handler EXCEPT ![s] = "done"]
    /\ buffer' = [buffer EXCEPT ![s] = <<>>]
    /\ ws' = [ws EXCEPT ![s] = IF @ = "open" THEN "ending" ELSE @]
    /\ UNCHANGED <<up, down, tcp, tcpUp, bscGot, bscSent, overrun, disturbed, messages, faults>>

\* onclose and onerror disconnect; what was on its way is gone.
Closed(s) ==
    /\ ws' = [ws EXCEPT ![s] = "closed"]
    /\ up' = [up EXCEPT ![s] = <<>>]
    /\ down' = [down EXCEPT ![s] = <<>>]
    /\ Disconnect(s)
    /\ disturbed' = disturbed \cup {s}
    /\ UNCHANGED <<handler, buffer, bscGot, bscSent, overrun, messages>>

\* client.onclose: the browser closed the websocket (and everything it had sent
\* has been taken), or the handler did (and everything it had sent has arrived).
OnClose(s) ==
    /\ \/ ws[s] = "closing" /\ up[s] = <<>>
       \/ ws[s] = "ending" /\ down[s] = <<>>
    /\ Closed(s)
    /\ UNCHANGED faults

\* client.onerror, then onclose: the network fails, in any state but the last.
OnError(s) ==
    /\ ws[s] \in {"connecting", "open", "closing", "ending"} /\ faults < MaxFaults
    /\ faults' = faults + 1
    /\ Closed(s)

BridgeNext(s) ==
    \/ Handle(s) \/ OnConnect(s) \/ OnDisconnect(s) \/ OnMessage(s) \/ OnData(s)
    \/ Forward(s) \/ GiveUp(s) \/ OnClose(s) \/ OnError(s)

===============================================================================
