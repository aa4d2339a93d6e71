---------------------------- MODULE TrxWorkerProofs ----------------------------
(***************************************************************************)
(* Proofs about TrxWorker and the bridges it is composed with: their       *)
(* shapes, that RSL waits for the stack, and that no message of either     *)
(* direction is lost, repeated or overtaken but where the code gives it    *)
(* up, for any number of sockets, messages and failures.                   *)
(*                                                                         *)
(* A message's way is the concatenation of the queues it is in, one after  *)
(* the other (Line for what goes to the BSC, Of and DownlinkAt for what    *)
(* comes from it), so a step that moves a message from one queue to the    *)
(* next leaves the concatenation as it was, and the lemmas about sequences *)
(* say what adding, dropping and cutting do to its order and its contents. *)
(***************************************************************************)
EXTENDS TrxWorker, TLAPS

Queues == [Sockets -> Seq(Nat)]

Shapes ==
    /\ up \in Queues /\ down \in Queues /\ buffer \in Queues /\ tcpUp \in Queues /\ bscGot \in Queues
    /\ cache \in [Links -> Seq(Nat)]
    /\ held \in Seq(Nat \X Nat)
    /\ stackGot \in [Links -> Seq(Nat \X Nat)]
    /\ wses \in [Links -> Nat]
    /\ closer \in Sockets \cup {<<"idle", 0>>}

\* Sockets are made in order, OML before RSL, and a message has a number of its
\* own.
Numbered ==
    /\ \A s \in Sockets : ws[s] # "none" => s[2] <= opens
    /\ opener # "idle" => opens > 0
    /\ opener = "OML" => ws[<<"RSL", opens>>] = "none"
    /\ messages \in 0 .. MaxMessages
    /\ \A l \in Links : made[l] <= messages
    /\ \A s \in Sockets : bscSent[s] <= messages

WorkerInv == WorkerTypeOK /\ Shapes /\ Numbered

\* The step of RslHeldBack.
RslWaits ==
    (stackGot'["RSL"] # stackGot["RSL"]
       \/ \E n \in 1 .. MaxOpens : Len(up'[<<"RSL", n>>]) > Len(up[<<"RSL", n>>]))
      => rslConnected'

\* What a step of the page, the stack or a socket must leave to the others.
Good == WorkerInv' /\ RslWaits

\* The bounds are natural numbers.
LEMMA Bounds == MaxOpens \in Nat /\ MaxMessages \in Nat /\ MaxFaults \in Nat
  BY AbisBridgeAssumption

\* A full ring has an entry to overwrite.
LEMMA PushedBack ==
    ASSUME NEW S, NEW q \in Seq(S), NEW e \in S
    PROVE  /\ Pushed(q, e) \in Seq(S)
           /\ Full(q) => q # <<>> /\ Tail(q) \in Seq(S) /\ Pushed(q, e) = Append(Tail(q), e)
           /\ ~Full(q) => Pushed(q, e) = Append(q, e)
<1>1. Full(q) => q # <<>> /\ Tail(q) \in Seq(S)
  BY AbisBridgeAssumption DEF Full
<1> QED BY <1>1 DEF Pushed

\* A step that hands nothing to the stack and lengthens nothing on its way up.
LEMMA Quiet ==
    ASSUME WorkerInv, stackGot' = stackGot,
           \A s \in Sockets : up'[s] = up[s] \/ up'[s] = <<>> \/ (up[s] # <<>> /\ up'[s] = Tail(up[s]))
    PROVE  RslWaits
<1>1. ASSUME NEW n \in 1 .. MaxOpens  PROVE ~ (Len(up'[<<"RSL", n>>]) > Len(up[<<"RSL", n>>]))
  <2> DEFINE s == <<"RSL", n>>
  <2>1. s \in Sockets /\ up[s] \in Seq(Nat)
    BY Bounds DEF WorkerInv, Shapes, Queues, Sockets, Links
  <2>2. CASE up'[s] = up[s]
    BY <2>1, <2>2
  <2>3. CASE up'[s] = <<>>
    BY <2>1, <2>3
  <2>4. CASE up[s] # <<>> /\ up'[s] = Tail(up[s])
    BY <2>1, <2>4
  <2> QED BY <2>1, <2>2, <2>3, <2>4
<1> QED BY <1>1 DEF RslWaits

\* Sending the caches keeps the shapes, and RSL is sent only when it may be.
LEMMA BuffersSent ==
    ASSUME WorkerInv, NEW S, NEW connected \in BOOLEAN, SendBuffers(S, connected)
    PROVE  /\ up' \in Queues /\ cache' \in [Links -> Seq(Nat)]
           /\ \A s \in Sockets : up'[s] = up[s] \/ (s[1] = "RSL" => connected)
<1> DEFINE to    == {l \in S : wses[l] # 0 /\ cache[l] # <<>> /\ (l = "RSL" => connected)}
           state == [l \in to |-> ws[<<l, wses[l]>>]]
           sent  == {l \in to : state[l] = "open"}
<1>1. PICK dropped :
        /\ up' = [s \in Sockets |-> IF s[1] \in sent /\ wses[s[1]] = s[2]
                                    THEN up[s] \o cache[s[1]] ELSE up[s]]
        /\ cache' = [l \in Links |-> IF l \in sent \cup dropped THEN <<>> ELSE cache[l]]
  BY DEF SendBuffers
<1>2. "RSL" \in sent => connected
  OBVIOUS
<1> HIDE DEF sent, to, state
<1>3. \A s \in Sockets : s[1] \in Links /\ up[s] \in Seq(Nat)
  BY DEF WorkerInv, Shapes, Queues, Sockets
<1>4. \A l \in Links : cache[l] \in Seq(Nat)
  BY DEF WorkerInv, Shapes
<1>5. \A s \in Sockets : up[s] \o cache[s[1]] \in Seq(Nat)
  BY <1>3, <1>4
<1>6. up' \in Queues
  BY <1>1, <1>3, <1>5 DEF Queues
<1>7. cache' \in [Links -> Seq(Nat)]
  BY <1>1, <1>4
<1>8. ASSUME NEW s \in Sockets  PROVE up'[s] = up[s] \/ (s[1] = "RSL" => connected)
  BY <1>1, <1>2
<1> QED BY <1>6, <1>7, <1>8

\* So a step that sends them and leaves the stack alone is good.
LEMMA SendersGood ==
    ASSUME WorkerInv, NEW S, SendBuffers(S, rslConnected), replying' \subseteq Links,
           UNCHANGED <<ws, down, tcp, handler, buffer, tcpUp, bscGot, bscSent, messages,
                       wses, opens, opener, closer, rslConnected, held, made, stackGot>>
    PROVE  Good
<1>1. /\ up' \in Queues /\ cache' \in [Links -> Seq(Nat)]
      /\ \A s \in Sockets : up'[s] = up[s] \/ (s[1] = "RSL" => rslConnected)
  BY BuffersSent DEF WorkerInv, WorkerTypeOK
<1>2. WorkerInv'
  BY <1>1 DEF WorkerInv, WorkerTypeOK, Shapes, Numbered
<1>3. ASSUME ~rslConnected, NEW n \in 1 .. MaxOpens
      PROVE  ~ (Len(up'[<<"RSL", n>>]) > Len(up[<<"RSL", n>>]))
  <2>1. <<"RSL", n>> \in Sockets /\ <<"RSL", n>>[1] = "RSL"
    BY Bounds DEF Sockets, Links
  <2>2. up'[<<"RSL", n>>] = up[<<"RSL", n>>] /\ up[<<"RSL", n>>] \in Seq(Nat)
    BY <1>1, <1>3, <2>1 DEF WorkerInv, Shapes, Queues
  <2> QED BY <2>2
<1>4. RslWaits
  BY <1>3 DEF RslWaits
<1> QED BY <1>2, <1>4 DEF Good
-------------------------------------------------------------------------------
(* The browser's steps.                                                      *)

\* A new websocket is one that nobody has heard of.
LEMMA OpeningGood ==
    ASSUME WorkerInv, OpenWs \/ OpenNext \/ OpenEnds
    PROVE  Good
<1>1. RslWaits
  <2>1. stackGot' = stackGot /\ up' = up
    BY DEF OpenWs, OpenNext, OpenEnds, bridgeVars
  <2> QED BY <2>1, Quiet
<1>2. CASE OpenWs
  <2> DEFINE s == <<"OML", opens + 1>>
  <2>1. s \in Sockets /\ s[1] = "OML" /\ s[2] = opens + 1 /\ opens \in Nat
    BY <1>2, Bounds DEF OpenWs, Sockets, Links, WorkerInv, WorkerTypeOK
  <2>2. ws[s] = "none" /\ <<"RSL", opens + 1>> \in Sockets /\ ws[<<"RSL", opens + 1>>] = "none"
    BY <1>2, <2>1, Bounds DEF OpenWs, Sockets, Links, WorkerInv, WorkerTypeOK, Numbered
  <2>3. closer # s /\ \A l \in Links : wses[l] # 0 => <<l, wses[l]>> # s
    BY <2>1, <2>2 DEF WorkerInv, WorkerTypeOK
  <2>4. ws' = [ws EXCEPT ![s] = "connecting"] /\ wses' = [wses EXCEPT !["OML"] = opens + 1]
        /\ opener' = "OML" /\ opens' = opens + 1
    BY <1>2 DEF OpenWs, Create
  <2>5. WorkerTypeOK'
    <3> HIDE DEF s
    <3>1. /\ ws' \in [Sockets -> {"none", "connecting", "open", "closing", "ending", "closed"}]
          /\ ws'[s] = "connecting" /\ \A r \in Sockets : r # s => ws'[r] = ws[r]
      BY <2>1, <2>4 DEF WorkerInv, WorkerTypeOK
    <3>2. \A l \in Links : wses'[l] \in 0 .. opens' /\ (wses'[l] # 0 => ws'[<<l, wses'[l]>>] # "none")
      <4>1. wses'["OML"] = opens + 1 /\ wses'["RSL"] = wses["RSL"]
        BY <2>4 DEF WorkerInv, Shapes, Links
      <4>2. ws'[<<"OML", wses'["OML"]>>] = "connecting"
        BY <3>1, <4>1 DEF s
      <4>3. wses["RSL"] # 0 => <<"RSL", wses["RSL"]>> \in Sockets
        BY Bounds DEF WorkerInv, WorkerTypeOK, Shapes, Sockets, Links
      <4>4. wses["RSL"] \in 0 .. opens /\ (wses["RSL"] # 0 => ws[<<"RSL", wses["RSL"]>>] # "none")
        BY DEF WorkerInv, WorkerTypeOK, Links
      <4>5. <<"RSL", wses["RSL"]>> # s
        BY DEF s
      <4> QED BY <2>1, <2>4, <3>1, <4>1, <4>2, <4>3, <4>4, <4>5 DEF Links
    <3>3. opens' \in 0 .. MaxOpens /\ opener' \in Links \cup {"idle"}
      BY <1>2, <2>1, <2>4, Bounds DEF OpenWs, Links
    <3>4. closer' # <<"idle", 0>> => closer' \in Sockets /\ ws'[closer'] \in {"closing", "ending", "closed"}
      BY <1>2, <2>3, <3>1 DEF OpenWs, WorkerInv, WorkerTypeOK
    <3> QED BY <1>2, <3>1, <3>2, <3>3, <3>4 DEF OpenWs, WorkerInv, WorkerTypeOK
  <2>6. Shapes'
    BY <1>2, <2>1, <2>4 DEF OpenWs, WorkerInv, Shapes, Links
  <2>7. Numbered'
    BY <1>2, <2>1, <2>2, <2>4 DEF OpenWs, WorkerInv, WorkerTypeOK, Numbered, Sockets
  <2> QED BY <1>1, <2>5, <2>6, <2>7 DEF Good, WorkerInv
<1>3. CASE OpenNext
  <2> DEFINE s == <<"RSL", opens>>
  <2>1. s \in Sockets /\ s[1] = "RSL" /\ s[2] = opens /\ opens \in Nat \ {0} /\ opens \in 1 .. MaxOpens
    BY <1>3, Bounds DEF OpenNext, Sockets, Links, WorkerInv, WorkerTypeOK, Numbered
  <2>2. ws[s] = "none"
    BY <1>3 DEF OpenNext, WorkerInv, Numbered
  <2>3. closer # s /\ \A l \in Links : wses[l] # 0 => <<l, wses[l]>> # s
    BY <2>1, <2>2 DEF WorkerInv, WorkerTypeOK
  <2>4. ws' = [ws EXCEPT ![s] = "connecting"] /\ wses' = [wses EXCEPT !["RSL"] = opens]
        /\ opener' = "RSL"
    BY <1>3 DEF OpenNext, Create
  <2>5. WorkerTypeOK'
    BY <1>3, <2>1, <2>3, <2>4 DEF OpenNext, WorkerInv, WorkerTypeOK, Shapes, Links
  <2>6. Shapes'
    BY <1>3, <2>1, <2>4 DEF OpenNext, WorkerInv, Shapes, Links
  <2>7. Numbered'
    BY <1>3, <2>1, <2>2, <2>4 DEF OpenNext, WorkerInv, WorkerTypeOK, Numbered, Sockets
  <2> QED BY <1>1, <2>5, <2>6, <2>7 DEF Good, WorkerInv
<1>4. CASE OpenEnds
  <2>1. WorkerInv'
    BY <1>4 DEF OpenEnds, bridgeVars, WorkerInv, WorkerTypeOK, Shapes, Numbered
  <2> QED BY <1>1, <2>1 DEF Good
<1> QED BY <1>2, <1>3, <1>4

\* What closing the first socket of some links does to the sockets.
LEMMA FirstClosed ==
    ASSUME WorkerInv, NEW S, S \subseteq Links, CloseFirst(S, wses)
    PROVE  \/ closer' = <<"idle", 0>> /\ ws' = ws /\ disturbed' = disturbed
           \/ /\ closer' \in Sockets /\ ws[closer'] # "none"
              /\ ws' = [ws EXCEPT ![closer'] = IF @ \in {"open", "connecting"} THEN "closing" ELSE @]
              /\ disturbed' = disturbed \cup {closer'}
<1> DEFINE with == {l \in S : wses[l] # 0}
           l    == IF "OML" \in with THEN "OML" ELSE "RSL"
           s    == <<l, wses[l]>>
<1>1. CASE with = {}
  BY <1>1 DEF CloseFirst
<1>2. CASE with # {}
  <2>1. l \in with
    BY <1>2 DEF Links
  <2>2. l \in Links /\ wses[l] \in 1 .. MaxOpens /\ ws[s] # "none"
    BY <2>1, Bounds DEF WorkerInv, WorkerTypeOK, Shapes
  <2>3. s \in Sockets
    BY <2>2 DEF Sockets
  <2>4. /\ closer' = s /\ ws' = [ws EXCEPT ![s] = IF @ \in {"open", "connecting"} THEN "closing" ELSE @]
        /\ disturbed' = disturbed \cup {s}
    BY <1>2 DEF CloseFirst
  <2> HIDE DEF s
  <2> QED BY <2>2, <2>3, <2>4
<1> QED BY <1>1, <1>2

\* closeWs awaits a socket that is being closed, or has closed already.
LEMMA ClosingGood ==
    ASSUME WorkerInv, CloseWs \/ CloseNext
    PROVE  Good
<1>1. RslWaits
  <2>1. stackGot' = stackGot /\ up' = up
    BY DEF CloseWs, CloseNext
  <2> QED BY <2>1, Quiet
<1>2. PICK S : S \subseteq Links /\ CloseFirst(S, wses)
  <2>1. Links \subseteq Links /\ {"RSL"} \subseteq Links /\ {} \subseteq Links
    BY DEF Links
  <2>2. CloseFirst(Links, wses) \/ CloseFirst({"RSL"}, wses) \/ CloseFirst({}, wses)
    BY DEF CloseWs, CloseNext
  <2> QED BY <2>1, <2>2
<1>3. \/ closer' = <<"idle", 0>> /\ ws' = ws
      \/ /\ closer' \in Sockets /\ ws[closer'] # "none"
         /\ ws' = [ws EXCEPT ![closer'] = IF @ \in {"open", "connecting"} THEN "closing" ELSE @]
  BY <1>2, FirstClosed
<1>4. /\ ws' \in [Sockets -> {"none", "connecting", "open", "closing", "ending", "closed"}]
      /\ \A s \in Sockets : ws'[s] = "none" <=> ws[s] = "none"
      /\ closer' \in Sockets \cup {<<"idle", 0>>}
      /\ closer' # <<"idle", 0>> => closer' \in Sockets /\ ws'[closer'] \in {"closing", "ending", "closed"}
  BY <1>3 DEF WorkerInv, WorkerTypeOK
<1>5. \A l \in Links : wses[l] # 0 => <<l, wses[l]>> \in Sockets
  BY Bounds DEF WorkerInv, WorkerTypeOK, Shapes, Sockets
<1>6. /\ wses' \in [Links -> Nat]
      /\ \A l \in Links : wses'[l] \in 0 .. opens /\ (wses'[l] # 0 => wses'[l] = wses[l])
  <2>1. wses' = wses \/ \E l \in Links : wses' = [wses EXCEPT ![l] = 0]
    <3>1. CASE CloseWs
      BY <3>1 DEF CloseWs
    <3>2. CASE CloseNext
      <4>1. closer[1] \in Links
        BY <3>2 DEF CloseNext, WorkerInv, WorkerTypeOK, Sockets
      <4> QED BY <3>2, <4>1 DEF CloseNext
    <3> QED BY <3>1, <3>2
  <2>2. wses \in [Links -> Nat] /\ \A l \in Links : wses[l] \in 0 .. opens
    BY DEF WorkerInv, WorkerTypeOK, Shapes
  <2>3. opens \in Nat
    BY Bounds DEF WorkerInv, WorkerTypeOK
  <2> QED BY <2>1, <2>2, <2>3
<1>7. opens > 0 => opens \in 1 .. MaxOpens
  BY Bounds DEF WorkerInv, WorkerTypeOK
<1>8. opener = "OML" => <<"RSL", opens>> \in Sockets
  BY <1>7 DEF WorkerInv, Numbered, Sockets, Links
<1>9. WorkerTypeOK'
  BY <1>4, <1>5, <1>6 DEF CloseWs, CloseNext, WorkerInv, WorkerTypeOK
<1>10. Shapes'
  BY <1>4, <1>6 DEF CloseWs, CloseNext, WorkerInv, Shapes
<1>11. Numbered'
  BY <1>4, <1>8 DEF CloseWs, CloseNext, WorkerInv, Numbered
<1> QED BY <1>1, <1>9, <1>10, <1>11 DEF Good, WorkerInv

\* A message the stack makes is counted.
LEMMA MadeGood ==
    ASSUME WorkerInv, NEW l \in Links, OnAbisData(l)
    PROVE  Good
<1>1. RslWaits
  <2>1. stackGot' = stackGot /\ up' = up
    BY DEF OnAbisData
  <2> QED BY <2>1, Quiet
<1>2. made[l] \in 0 .. MaxMessages /\ made[l] <= messages /\ messages \in Nat /\ messages < MaxMessages
  BY Bounds DEF OnAbisData, WorkerInv, WorkerTypeOK, Numbered
<1>3. (cache' = [cache EXCEPT ![l] = Append(@, made[l] + 1)] \/ cache' = cache)
      /\ made' = [made EXCEPT ![l] = @ + 1] /\ messages' = messages + 1
  BY DEF OnAbisData
<1>4. cache' \in [Links -> Seq(Nat)] /\ made' \in [Links -> 0 .. MaxMessages]
  <2>1. cache \in [Links -> Seq(Nat)] /\ Append(cache[l], made[l] + 1) \in Seq(Nat)
    BY <1>2, Bounds DEF WorkerInv, Shapes
  <2>2. cache' \in [Links -> Seq(Nat)]
    BY <1>3, <2>1
  <2>3. made' \in [Links -> 0 .. MaxMessages]
    BY <1>2, <1>3, Bounds DEF WorkerInv, WorkerTypeOK
  <2> QED BY <2>2, <2>3
<1>5. WorkerTypeOK'
  BY <1>4 DEF OnAbisData, WorkerInv, WorkerTypeOK
<1>6. Shapes'
  BY <1>4 DEF OnAbisData, WorkerInv, Shapes
<1>7. Numbered'
  <2>1. messages' \in 0 .. MaxMessages
    BY <1>2, <1>3, Bounds
  <2>2. \A k \in Links : made'[k] <= messages'
    BY <1>2, <1>3, Bounds DEF WorkerInv, WorkerTypeOK, Numbered
  <2>3. \A s \in Sockets : bscSent[s] <= messages'
    BY <1>2, <1>3, Bounds DEF WorkerInv, WorkerTypeOK, Numbered
  <2> QED BY <2>1, <2>2, <2>3 DEF OnAbisData, WorkerInv, Numbered
<1> QED BY <1>1, <1>5, <1>6, <1>7 DEF Good, WorkerInv
-------------------------------------------------------------------------------
(* The stack's side and the bridges'.                                        *)

\* A message that arrives is the stack's at once, or kept if it is of RSL and the
\* stack is not ready for it.
LEMMA ArrivalGood ==
    ASSUME WorkerInv, NEW n \in 1 .. MaxOpens, OnWSAbisOmlMessage(n) \/ OnWSAbisRslMessage(n)
    PROVE  Good
<1>1. PICK s \in Sockets : /\ Received(s)
                           /\ \/ OnWSAbisOmlMessage(n) /\ s = <<"OML", n>>
                              \/ OnWSAbisRslMessage(n) /\ s = <<"RSL", n>>
  <2>1. <<"OML", n>> \in Sockets /\ <<"RSL", n>> \in Sockets
    BY DEF Sockets, Links
  <2>2. CASE OnWSAbisOmlMessage(n)
    BY <2>1, <2>2 DEF OnWSAbisOmlMessage
  <2>3. CASE OnWSAbisRslMessage(n)
    BY <2>1, <2>3 DEF OnWSAbisRslMessage
  <2> QED BY <2>2, <2>3
<1> DEFINE m == <<n, Head(down[s])>>
<1>2. n \in Nat /\ m \in Nat \X Nat
  <2>1. down[s] \in Seq(Nat) /\ down[s] # <<>>
    BY <1>1 DEF Received, WorkerInv, Shapes, Queues
  <2> QED BY <2>1, Bounds
<1>3. down' \in Queues
  <2>1. down[s] \in Seq(Nat) /\ down[s] # <<>>
    BY <1>1 DEF Received, WorkerInv, Shapes, Queues
  <2>2. Tail(down[s]) \in Seq(Nat)
    BY <2>1
  <2> QED BY <1>1, <2>2 DEF Received, WorkerInv, Shapes, Queues
<1>4. up' = up /\ rslConnected' = rslConnected
  BY DEF OnWSAbisOmlMessage, OnWSAbisRslMessage
<1>5. /\ stackGot' \in [Links -> Seq(Nat \X Nat)] /\ held' \in Seq(Nat \X Nat) /\ replying' \subseteq Links
      /\ stackGot'["RSL"] # stackGot["RSL"] => rslConnected
  <2>1. CASE OnWSAbisOmlMessage(n) /\ s = <<"OML", n>>
    <3>1. stackGot' = [stackGot EXCEPT !["OML"] = @ \o <<m>>] /\ held' = held /\ replying' = replying \cup {"OML"}
      BY <2>1 DEF OnWSAbisOmlMessage, Handed
    <3> HIDE DEF m
    <3>2. stackGot["OML"] \o <<m>> \in Seq(Nat \X Nat)
      BY <1>2 DEF WorkerInv, Shapes, Links
    <3> QED BY <3>1, <3>2 DEF WorkerInv, WorkerTypeOK, Shapes, Links
  <2>2. CASE OnWSAbisRslMessage(n) /\ s = <<"RSL", n>> /\ rslConnected
    <3>1. stackGot' = [stackGot EXCEPT !["RSL"] = @ \o <<m>>] /\ held' = held /\ replying' = replying \cup {"RSL"}
      BY <2>2 DEF OnWSAbisRslMessage, Handed
    <3> HIDE DEF m
    <3>2. stackGot["RSL"] \o <<m>> \in Seq(Nat \X Nat)
      BY <1>2 DEF WorkerInv, Shapes, Links
    <3> QED BY <2>2, <3>1, <3>2 DEF WorkerInv, WorkerTypeOK, Shapes, Links
  <2>3. CASE OnWSAbisRslMessage(n) /\ s = <<"RSL", n>> /\ ~rslConnected
    <3>1. stackGot' = stackGot /\ held' = Pushed(held, m) /\ replying' = replying
      BY <2>3 DEF OnWSAbisRslMessage
    <3> HIDE DEF m
    <3>2. Pushed(held, m) \in Seq(Nat \X Nat)
      BY <1>2, PushedBack DEF WorkerInv, Shapes
    <3> QED BY <3>1, <3>2 DEF WorkerInv, WorkerTypeOK, Shapes
  <2> QED BY <1>1, <2>1, <2>2, <2>3
<1>6. UNCHANGED <<ws, tcp, handler, buffer, tcpUp, bscGot, bscSent, messages, wses, opens, opener, closer, cache, made>>
  BY DEF OnWSAbisOmlMessage, OnWSAbisRslMessage
<1>7. WorkerInv'
  BY <1>3, <1>4, <1>5, <1>6 DEF WorkerInv, WorkerTypeOK, Shapes, Numbered
<1>8. ASSUME NEW r \in 1 .. MaxOpens  PROVE ~ (Len(up'[<<"RSL", r>>]) > Len(up[<<"RSL", r>>]))
  <2>1. up[<<"RSL", r>>] \in Seq(Nat)
    BY Bounds DEF WorkerInv, Shapes, Queues, Sockets, Links
  <2> QED BY <1>4, <2>1
<1> QED BY <1>4, <1>5, <1>7, <1>8 DEF Good, RslWaits

\* When the stack connects RSL it gets what was kept for it.
LEMMA ConnectGood ==
    ASSUME WorkerInv, OnRslConnect
    PROVE  Good
<1>1. SendBuffers({"RSL"}, TRUE) /\ rslConnected' = TRUE /\ held' = <<>>
      /\ stackGot' = [stackGot EXCEPT !["RSL"] = @ \o held]
  BY DEF OnRslConnect, Handed
<1>2. up' \in Queues /\ cache' \in [Links -> Seq(Nat)]
  BY <1>1, BuffersSent
<1>3. stackGot["RSL"] \o held \in Seq(Nat \X Nat)
  BY DEF WorkerInv, Shapes, Links
<1>4. stackGot' \in [Links -> Seq(Nat \X Nat)] /\ held' \in Seq(Nat \X Nat)
  <2>1. stackGot' \in [Links -> Seq(Nat \X Nat)]
    BY <1>1, <1>3 DEF WorkerInv, Shapes
  <2>2. <<>> \in Seq(Nat \X Nat)
    OBVIOUS
  <2> QED BY <1>1, <2>1, <2>2
<1>5. WorkerInv'
  BY <1>1, <1>2, <1>4 DEF OnRslConnect, WorkerInv, WorkerTypeOK, Shapes, Numbered
<1> QED BY <1>1, <1>5 DEF Good, RslWaits

\* A queue of queues with one replaced.
LEMMA Replaced ==
    ASSUME NEW q \in Queues, NEW s \in Sockets, NEW e \in Seq(Nat)
    PROVE  [q EXCEPT ![s] = e] \in Queues
  BY DEF Queues

\* What a queue becomes when its first element is taken or one is added.
LEMMA Moved ==
    ASSUME NEW q \in Seq(Nat), NEW e \in Nat
    PROVE  Append(q, e) \in Seq(Nat) /\ (q # <<>> => Tail(q) \in Seq(Nat) /\ Head(q) \in Nat)
  OBVIOUS

\* The bridge changes only queues, and the state of its own socket, which only
\* its opening makes open; it never undoes a close.
BridgeShapes ==
    /\ ws' \in [Sockets -> {"none", "connecting", "open", "closing", "ending", "closed"}]
    /\ \A s \in Sockets : /\ ws'[s] = "none" <=> ws[s] = "none"
                          /\ ws[s] \in {"closing", "ending", "closed"} => ws'[s] \in {"closing", "ending", "closed"}
    /\ tcp' \in [Sockets -> {"none", "connecting", "open", "closed"}]
    /\ handler' \in [Sockets -> {"none", "waiting", "done"}]
    /\ up' \in Queues /\ down' \in Queues /\ buffer' \in Queues /\ tcpUp' \in Queues /\ bscGot' \in Queues
    /\ \A s \in Sockets : up'[s] = up[s] \/ up'[s] = <<>> \/ (up[s] # <<>> /\ up'[s] = Tail(up[s]))

\* Such a step is good.
LEMMA BridgeGood ==
    ASSUME WorkerInv, BridgeShapes, UNCHANGED workerVars, UNCHANGED <<messages, bscSent>>
    PROVE  Good
<1>1. RslWaits
  BY Quiet DEF BridgeShapes, workerVars
<1>2. \A l \in Links : wses[l] # 0 => <<l, wses[l]>> \in Sockets
  BY Bounds DEF WorkerInv, WorkerTypeOK, Shapes, Sockets
<1>3. opener = "OML" => <<"RSL", opens>> \in Sockets
  <2>1. opens > 0 => opens \in 1 .. MaxOpens
    BY Bounds DEF WorkerInv, WorkerTypeOK
  <2> QED BY <2>1 DEF WorkerInv, Numbered, Sockets, Links
<1>4. WorkerTypeOK'
  BY <1>2 DEF WorkerInv, WorkerTypeOK, BridgeShapes, workerVars
<1>5. Shapes'
  BY DEF WorkerInv, Shapes, BridgeShapes, workerVars
<1>6. Numbered'
  BY <1>3 DEF WorkerInv, Numbered, BridgeShapes, workerVars
<1> QED BY <1>1, <1>4, <1>5, <1>6 DEF Good, WorkerInv

\* So every step of a bridge is good.
LEMMA BridgeStepGood ==
    ASSUME WorkerInv, NEW s \in Sockets, BridgeNext(s), UNCHANGED workerVars
    PROVE  Good
<1>1. /\ ws \in [Sockets -> {"none", "connecting", "open", "closing", "ending", "closed"}]
      /\ tcp \in [Sockets -> {"none", "connecting", "open", "closed"}]
      /\ handler \in [Sockets -> {"none", "waiting", "done"}]
  BY DEF WorkerInv, WorkerTypeOK
<1>2. up \in Queues /\ down \in Queues /\ buffer \in Queues /\ tcpUp \in Queues /\ bscGot \in Queues
  BY DEF WorkerInv, Shapes
<1>3. /\ up[s] \in Seq(Nat) /\ down[s] \in Seq(Nat) /\ buffer[s] \in Seq(Nat)
      /\ tcpUp[s] \in Seq(Nat) /\ bscGot[s] \in Seq(Nat) /\ <<>> \in Seq(Nat)
  BY <1>2 DEF Queues
<1>4. \A q \in Queues : \A e \in Seq(Nat) : [q EXCEPT ![s] = e] \in Queues
  BY Replaced
<1>5. CASE Handle(s)
  <2>1. BridgeShapes
    BY <1>1, <1>2, <1>5 DEF Handle, BridgeShapes
  <2> QED BY <1>5, <2>1, BridgeGood DEF Handle
<1>6. CASE OnConnect(s)
  <2>1. bscGot' \in Queues /\ tcpUp' \in Queues
    BY <1>2, <1>3, <1>4, <1>6 DEF OnConnect
  <2>2. BridgeShapes
    BY <1>1, <1>2, <1>6, <2>1 DEF OnConnect, BridgeShapes
  <2> QED BY <1>6, <2>2, BridgeGood DEF OnConnect
<1>7. CASE OnDisconnect(s)
  <2>1. tcpUp' \in Queues
    BY <1>2, <1>3, <1>4, <1>7 DEF OnDisconnect, Disconnect
  <2>2. BridgeShapes
    BY <1>1, <1>2, <1>7, <2>1 DEF OnDisconnect, Disconnect, BridgeShapes
  <2> QED BY <1>7, <2>2, BridgeGood DEF OnDisconnect
<1>8. CASE OnMessage(s)
  <2>1. Tail(up[s]) \in Seq(Nat) /\ Head(up[s]) \in Nat /\ up[s] # <<>>
    BY <1>3, <1>8, Moved DEF OnMessage
  <2>2. Append(tcpUp[s], Head(up[s])) \in Seq(Nat) /\ Append(bscGot[s], Head(up[s])) \in Seq(Nat)
    BY <1>3, <2>1, Moved
  <2>3. tcpUp' \in Queues /\ bscGot' \in Queues
    <3> DEFINE t == IF tcp[s] = "connecting" THEN Append(tcpUp[s], Head(up[s])) ELSE tcpUp[s]
               b == IF tcp[s] = "open" THEN Append(bscGot[s], Head(up[s])) ELSE bscGot[s]
    <3>1. t \in Seq(Nat) /\ b \in Seq(Nat)
      BY <1>3, <2>2
    <3>2. tcpUp' = [tcpUp EXCEPT ![s] = t] /\ bscGot' = [bscGot EXCEPT ![s] = b]
      BY <1>8 DEF OnMessage, Write
    <3> QED BY <1>2, <1>4, <3>1, <3>2
  <2>4. up' \in Queues /\ \A r \in Sockets : up'[r] = up[r] \/ (up[r] # <<>> /\ up'[r] = Tail(up[r]))
    BY <1>2, <1>8, <2>1 DEF OnMessage, Queues
  <2>5. BridgeShapes
    BY <1>1, <1>2, <1>8, <2>3, <2>4 DEF OnMessage, BridgeShapes
  <2> QED BY <1>8, <2>5, BridgeGood DEF OnMessage
<1>9. CASE OnData(s)
  <2>1. bscSent[s] \in 0 .. MaxMessages /\ bscSent[s] <= messages /\ messages \in Nat /\ messages < MaxMessages
    BY <1>9, Bounds DEF OnData, WorkerInv, WorkerTypeOK, Numbered
  <2>2. /\ buffer' = [buffer EXCEPT ![s] = Pushed(buffer[s], bscSent[s] + 1)]
        /\ bscSent' = [bscSent EXCEPT ![s] = @ + 1] /\ messages' = messages + 1
        /\ UNCHANGED <<ws, up, down, tcp, handler, tcpUp, bscGot>>
    BY <1>9 DEF OnData
  <2>3. Pushed(buffer[s], bscSent[s] + 1) \in Seq(Nat)
    BY <1>3, <2>1, Bounds, PushedBack
  <2>4. buffer' \in Queues
    BY <1>2, <1>4, <2>2, <2>3
  <2>5. bscSent' \in [Sockets -> 0 .. MaxMessages] /\ messages' \in 0 .. MaxMessages
    BY <2>1, <2>2, Bounds DEF WorkerInv, WorkerTypeOK
  <2>6. \A r \in Sockets : bscSent'[r] <= messages'
    BY <2>1, <2>2, Bounds DEF WorkerInv, WorkerTypeOK, Numbered
  <2>7. \A l \in Links : made[l] <= messages'
    BY <2>1, <2>2, Bounds DEF WorkerInv, WorkerTypeOK, Numbered
  <2>8. WorkerTypeOK'
    BY <2>2, <2>5 DEF workerVars, WorkerInv, WorkerTypeOK
  <2>9. Shapes'
    BY <2>2, <2>4 DEF workerVars, WorkerInv, Shapes
  <2>10. Numbered'
    BY <2>2, <2>5, <2>6, <2>7 DEF workerVars, WorkerInv, Numbered
  <2>11. RslWaits
    BY <2>2, Quiet DEF workerVars
  <2> QED BY <2>8, <2>9, <2>10, <2>11 DEF Good, WorkerInv
<1>10. CASE Forward(s)
  <2>1. down[s] \o buffer[s] \in Seq(Nat)
    BY <1>3
  <2>2. down' \in Queues /\ buffer' \in Queues
    BY <1>2, <1>3, <1>4, <1>10, <2>1 DEF Forward
  <2>3. BridgeShapes
    BY <1>1, <1>2, <1>10, <2>2 DEF Forward, BridgeShapes
  <2> QED BY <1>10, <2>3, BridgeGood DEF Forward
<1>11. CASE GiveUp(s)
  <2>1. buffer' \in Queues
    BY <1>2, <1>3, <1>4, <1>11 DEF GiveUp
  <2>2. BridgeShapes
    BY <1>1, <1>2, <1>11, <2>1 DEF GiveUp, BridgeShapes
  <2> QED BY <1>11, <2>2, BridgeGood DEF GiveUp
<1>12. CASE OnClose(s) \/ OnError(s)
  <2>1. Closed(s) /\ ws[s] \in {"connecting", "open", "closing", "ending"}
    BY <1>12 DEF OnClose, OnError
  <2>2. up' \in Queues /\ down' \in Queues /\ tcpUp' \in Queues
    BY <1>2, <1>3, <1>4, <2>1 DEF Closed, Disconnect
  <2>3. \A r \in Sockets : up'[r] = up[r] \/ up'[r] = <<>>
    BY <1>2, <2>1 DEF Closed, Queues
  <2>4. BridgeShapes
    BY <1>1, <1>2, <2>1, <2>2, <2>3 DEF Closed, Disconnect, BridgeShapes
  <2> QED BY <2>1, <2>4, BridgeGood DEF Closed
<1> QED BY <1>5, <1>6, <1>7, <1>8, <1>9, <1>10, <1>11, <1>12 DEF BridgeNext
-------------------------------------------------------------------------------
(* The theorems.                                                             *)

\* At first there is nothing.
LEMMA InitGood == Init => WorkerInv
<1> SUFFICES ASSUME Init PROVE WorkerInv
  OBVIOUS
<1>1. <<>> \in Seq(Nat) /\ <<>> \in Seq(Nat \X Nat)
  OBVIOUS
<1>2. Shapes
  BY <1>1 DEF Init, BridgeInit, Shapes, Queues
<1>3. WorkerTypeOK
  <2>1. \A l \in Links : wses[l] = 0
    BY DEF Init
  <2>2. 0 \in 0 .. opens /\ opens \in 0 .. MaxOpens /\ 0 \in 0 .. MaxMessages
    BY Bounds DEF Init
  <2>3. made \in [Links -> 0 .. MaxMessages] /\ bscSent \in [Sockets -> 0 .. MaxMessages]
    BY <2>2 DEF Init, BridgeInit
  <2> QED BY <2>1, <2>2, <2>3 DEF Init, BridgeInit, WorkerTypeOK
<1>4. Numbered
  BY Bounds DEF Init, BridgeInit, Numbered
<1> QED BY <1>2, <1>3, <1>4 DEF WorkerInv

\* Every step is good.
LEMMA NextGood ==
    ASSUME WorkerInv, [Next]_vars
    PROVE  Good
<1>1. CASE OpenWs \/ OpenNext \/ OpenEnds
  BY <1>1, OpeningGood
<1>2. CASE CloseWs \/ CloseNext
  BY <1>2, ClosingGood
<1>3. CASE \E l \in Links : OnAbisData(l)
  BY <1>3, MadeGood
<1>4. CASE \E l \in Links : Reply(l)
  <2>1. PICK l \in Links : Reply(l)
    BY <1>4
  <2>2. replying' \subseteq Links
    BY <2>1 DEF Reply, WorkerInv, WorkerTypeOK
  <2> QED BY <2>1, <2>2, SendersGood DEF Reply
<1>5. CASE OnReceiveData
  <2>1. replying' \subseteq Links
    BY <1>5 DEF OnReceiveData, WorkerInv, WorkerTypeOK
  <2> QED BY <1>5, <2>1, SendersGood DEF OnReceiveData
<1>6. CASE OnRslConnect
  BY <1>6, ConnectGood
<1>7. CASE \E n \in 1 .. MaxOpens : OnWSAbisOmlMessage(n) \/ OnWSAbisRslMessage(n)
  BY <1>7, ArrivalGood
<1>8. CASE \E s \in Sockets : BridgeNext(s) /\ UNCHANGED workerVars
  BY <1>8, BridgeStepGood
<1>9. CASE UNCHANGED vars
  <2>1. WorkerInv'
    BY <1>9 DEF vars, bridgeVars, workerVars, WorkerInv, WorkerTypeOK, Shapes, Numbered
  <2>2. RslWaits
    BY <1>9, Quiet DEF vars, bridgeVars, workerVars
  <2> QED BY <2>1, <2>2 DEF Good
<1> QED BY <1>1, <1>2, <1>3, <1>4, <1>5, <1>6, <1>7, <1>8, <1>9 DEF Next

\* The inductive invariant: the worker's and the bridges' fields keep their
\* shapes, sockets are made in order, and messages are counted.
THEOREM WorkerAlwaysSound == Spec => []WorkerInv
<1>1. WorkerInv /\ [Next]_vars => WorkerInv'
  BY NextGood DEF Good
<1> QED BY <1>1, InitGood, PTL DEF Spec

\* The fields have their shapes: a link's socket is one that openWs made, and
\* closeWs awaits a socket that is being closed, however the two overlap.
THEOREM WorkerTypeCorrect == Spec => []WorkerTypeOK
<1>1. WorkerInv => WorkerTypeOK
  BY DEF WorkerInv
<1> QED BY <1>1, WorkerAlwaysSound, PTL

\* RSL waits for the stack: no RSL message is handed to it and none of its is
\* sent until onRslConnect, and again after closeWs.
THEOREM RslAlwaysHeldBack == Spec => RslHeldBack
<1>1. WorkerInv /\ [Next]_vars => [RslWaits]_vars
  BY NextGood DEF Good
<1>2. [][RslWaits]_vars => RslHeldBack
  BY PTL DEF RslHeldBack, RslWaits
<1> QED BY <1>1, <1>2, WorkerAlwaysSound, PTL DEF Spec
-------------------------------------------------------------------------------
(* Where the messages are.                                                   *)

\* A bridge that has not run has nothing, one that is connecting keeps what it
\* writes, one that is connected keeps nothing, and what closes is disturbed.
Conduit(s) ==
    /\ ws[s] \in {"none", "connecting"} => tcp[s] = "none"
    /\ ws[s] \in {"open", "ending"} => tcp[s] # "none"
    /\ tcp[s] = "none" =>
          /\ handler[s] = "none" /\ bscSent[s] = 0
          /\ up[s] = <<>> /\ down[s] = <<>> /\ buffer[s] = <<>> /\ bscGot[s] = <<>>
    /\ tcp[s] = "connecting" => bscGot[s] = <<>>
    /\ tcp[s] # "connecting" => tcpUp[s] = <<>>
    /\ tcp[s] = "closed" \/ ws[s] \in {"closing", "ending", "closed"} => s \in disturbed

\* A link uses the newest of its sockets.
Newest == \A s \in Sockets : wses[s[1]] # 0 /\ s[2] > wses[s[1]] => ws[s] = "none"

\* The property of one link and of one socket, the latter with what the bridge has
\* still to take from a connection that is not closed.
Uplink(l) ==
    /\ Increasing(cache[l])
    /\ \A n \in 1 .. MaxOpens :
          /\ Increasing(Line(<<l, n>>)) /\ Before(Line(<<l, n>>), cache[l])
          /\ \A m \in 1 .. n - 1 : Before(Line(<<l, m>>), Line(<<l, n>>))
    /\ \A x \in ToSet(cache[l]) : x \in 1 .. made[l]
    /\ \A n \in 1 .. MaxOpens : \A x \in ToSet(Line(<<l, n>>)) : x \in 1 .. made[l]
    /\ <<l, 0>> \notin overrun /\ (\A n \in 1 .. MaxOpens : <<l, n>> \notin disturbed) =>
          \A x \in 1 .. made[l] : x \in ToSet(cache[l]) \/ \E n \in 1 .. MaxOpens : x \in ToSet(Line(<<l, n>>))

\* The messages of the n-th socket in a queue of the stack: where they are, which
\* they are, and that they are in order.
Mine(q, n) == {i \in DOMAIN q : q[i][1] = n}
Had(q, n) == {q[i][2] : i \in Mine(q, n)}
Ascending(q, n) == \A i, j \in Mine(q, n) : i < j => q[i][2] < q[j][2]

Ordered(s) ==
    /\ Ascending(Handled(s[1]), s[2])
    /\ \A x \in Had(Handled(s[1]), s[2]) : x \in 1 .. bscSent[s] /\ \A y \in ToSet(Onward(s)) : x < y
    /\ Increasing(Onward(s))
    /\ \A y \in ToSet(Onward(s)) : y \in 1 .. bscSent[s]

DownlinkAt(s, k) ==
    /\ Had(Handled(s[1]), s[2]) = 1 .. k
    /\ CountsFrom(k, down[s]) /\ k + Len(down[s]) <= bscSent[s]
    /\ tcp[s] # "closed" =>
          CountsFrom(k + Len(down[s]), buffer[s]) /\ k + Len(down[s]) + Len(buffer[s]) = bscSent[s]

Downlink(s) ==
    /\ Ordered(s)
    /\ s \notin overrun => \E k \in 0 .. bscSent[s] : DownlinkAt(s, k)

FlowInv ==
    /\ \A s \in Sockets : Conduit(s)
    /\ Newest
    /\ rslConnected => held = <<>>
    /\ \A l \in Links : Uplink(l)
    /\ \A s \in Sockets : Downlink(s)
-------------------------------------------------------------------------------
(* Sequences of numbers.                                                     *)

\* Before is about the elements, wherever they are.
LEMMA BeforeElements ==
    ASSUME NEW p \in Seq(Nat), NEW q \in Seq(Nat)
    PROVE  Before(p, q) <=> \A x \in ToSet(p), y \in ToSet(q) : x < y
  BY DEF Before, ToSet

\* One after the other.
LEMMA Joined ==
    ASSUME NEW p \in Seq(Nat), NEW q \in Seq(Nat)
    PROVE  /\ p \o q \in Seq(Nat)
           /\ ToSet(p \o q) = ToSet(p) \cup ToSet(q)
           /\ Increasing(p \o q) <=> Increasing(p) /\ Increasing(q) /\ Before(p, q)
<1> DEFINE r == p \o q
<1>1. /\ r \in Seq(Nat) /\ Len(r) = Len(p) + Len(q) /\ Len(p) \in Nat /\ Len(q) \in Nat
      /\ \A i \in 1 .. Len(p) : r[i] = p[i]
      /\ \A i \in 1 .. Len(q) : r[Len(p) + i] = q[i]
  OBVIOUS
<1>2. DOMAIN r = 1 .. (Len(p) + Len(q)) /\ DOMAIN p = 1 .. Len(p) /\ DOMAIN q = 1 .. Len(q)
  BY <1>1
<1>3. \A i \in DOMAIN r : i \in DOMAIN p \/ (i - Len(p) \in DOMAIN q /\ r[i] = q[i - Len(p)])
  BY <1>1, <1>2
<1>4. /\ \A i \in DOMAIN p : i \in DOMAIN r /\ r[i] = p[i]
      /\ \A i \in DOMAIN q : Len(p) + i \in DOMAIN r /\ r[Len(p) + i] = q[i]
  BY <1>1, <1>2
<1> HIDE DEF r
<1>5. ToSet(r) = ToSet(p) \cup ToSet(q)
  <2>1. ToSet(r) \subseteq ToSet(p) \cup ToSet(q)
    BY <1>1, <1>2, <1>3 DEF ToSet
  <2>2. ToSet(p) \subseteq ToSet(r) /\ ToSet(q) \subseteq ToSet(r)
    <3>1. ASSUME NEW i \in DOMAIN p PROVE p[i] \in ToSet(r)
      BY <1>4 DEF ToSet
    <3>2. ASSUME NEW i \in DOMAIN q PROVE q[i] \in ToSet(r)
      BY <1>4 DEF ToSet
    <3> QED BY <3>1, <3>2 DEF ToSet
  <2> QED BY <2>1, <2>2
<1>6. ASSUME Increasing(r) PROVE Increasing(p) /\ Increasing(q) /\ Before(p, q)
  <2>1. Increasing(p)
    BY <1>4, <1>6 DEF Increasing
  <2>2. Increasing(q)
    <3> SUFFICES ASSUME NEW i \in DOMAIN q, NEW j \in DOMAIN q, i < j PROVE q[i] < q[j]
      BY DEF Increasing
    <3>1. Len(p) + i < Len(p) + j
      BY <1>1, <1>2
    <3> QED BY <1>4, <1>6, <3>1 DEF Increasing
  <2>3. Before(p, q)
    <3> SUFFICES ASSUME NEW i \in DOMAIN p, NEW j \in DOMAIN q PROVE p[i] < q[j]
      BY DEF Before
    <3>1. i < Len(p) + j
      BY <1>1, <1>2
    <3> QED BY <1>4, <1>6, <3>1 DEF Increasing
  <2> QED BY <2>1, <2>2, <2>3
<1>7. ASSUME Increasing(p), Increasing(q), Before(p, q) PROVE Increasing(r)
  <2> SUFFICES ASSUME NEW i \in DOMAIN r, NEW j \in DOMAIN r, i < j PROVE r[i] < r[j]
    BY DEF Increasing
  <2>1. CASE j \in DOMAIN p
    <3>1. i \in DOMAIN p
      BY <1>1, <1>2, <2>1
    <3> QED BY <1>4, <1>7, <2>1, <3>1 DEF Increasing
  <2>2. CASE i \in DOMAIN p /\ j \notin DOMAIN p
    BY <1>3, <1>4, <1>7, <2>2 DEF Before
  <2>3. CASE i \notin DOMAIN p /\ j \notin DOMAIN p
    <3>1. i - Len(p) < j - Len(p)
      BY <1>1, <1>2
    <3> QED BY <1>3, <1>7, <2>3, <3>1 DEF Increasing
  <2> QED BY <2>1, <2>2, <2>3
<1> QED BY <1>1, <1>5, <1>6, <1>7 DEF r

\* With the first taken off.
LEMMA Taken ==
    ASSUME NEW q \in Seq(Nat), q # <<>>
    PROVE  /\ Tail(q) \in Seq(Nat) /\ Head(q) \in Nat
           /\ Head(q) \in ToSet(q) /\ ToSet(Tail(q)) \subseteq ToSet(q)
           /\ Increasing(q) => Increasing(Tail(q))
           /\ <<Head(q)>> \o Tail(q) = q
<1> DEFINE t == Tail(q)
<1>1. /\ t \in Seq(Nat) /\ Head(q) \in Nat /\ Len(q) \in Nat \ {0}
      /\ Len(t) = Len(q) - 1 /\ Head(q) = q[1]
      /\ \A i \in 1 .. Len(t) : t[i] = q[i + 1]
  OBVIOUS
<1>2. DOMAIN q = 1 .. Len(q) /\ DOMAIN t = 1 .. Len(t)
  BY <1>1
<1>3. <<Head(q)>> \o t = q
  OBVIOUS
<1> HIDE DEF t
<1>4. \A i \in DOMAIN t : i + 1 \in DOMAIN q /\ t[i] = q[i + 1]
  BY <1>1, <1>2
<1>5. ToSet(t) \subseteq ToSet(q) /\ Head(q) \in ToSet(q)
  BY <1>1, <1>2, <1>4 DEF ToSet
<1>6. ASSUME Increasing(q) PROVE Increasing(t)
  <2> SUFFICES ASSUME NEW i \in DOMAIN t, NEW j \in DOMAIN t, i < j PROVE t[i] < t[j]
    BY DEF Increasing
  <2>1. i + 1 < j + 1
    BY <1>1, <1>2
  <2> QED BY <1>4, <1>6, <2>1 DEF Increasing
<1> QED BY <1>1, <1>3, <1>5, <1>6 DEF t

LEMMA Nothing ==
    /\ <<>> \in Seq(Nat) /\ ToSet(<<>>) = {} /\ Increasing(<<>>)
    /\ \A q \in Seq(Nat) : q \o <<>> = q /\ <<>> \o q = q /\ Before(q, <<>>) /\ Before(<<>>, q)
  BY DEF ToSet, Increasing, Before

LEMMA One ==
    ASSUME NEW x \in Nat
    PROVE  <<x>> \in Seq(Nat) /\ ToSet(<<x>>) = {x} /\ Increasing(<<x>>)
  BY DEF ToSet, Increasing

LEMMA Appended ==
    ASSUME NEW p \in Seq(Nat), NEW x \in Nat
    PROVE  Append(p, x) = p \o <<x>>
  OBVIOUS

LEMMA Regrouped ==
    ASSUME NEW p \in Seq(Nat), NEW q \in Seq(Nat), NEW r \in Seq(Nat)
    PROVE  (p \o q) \o r = p \o (q \o r)
  OBVIOUS

\* What is left of three pieces when the middle one or the last is dropped, or the
\* first of the last one.
LEMMA Thinned ==
    ASSUME NEW a \in Seq(Nat), NEW b \in Seq(Nat), NEW c \in Seq(Nat), Increasing((a \o b) \o c),
           NEW d \in {b, <<>>}, NEW e, e = c \/ e = <<>> \/ (c # <<>> /\ e = Tail(c))
    PROVE  Increasing((a \o d) \o e) /\ ToSet((a \o d) \o e) \subseteq ToSet((a \o b) \o c)
<1>1. d \in Seq(Nat) /\ ToSet(d) \subseteq ToSet(b) /\ (Increasing(b) => Increasing(d))
  BY Nothing
<1>2. e \in Seq(Nat) /\ ToSet(e) \subseteq ToSet(c) /\ (Increasing(c) => Increasing(e))
  BY Nothing, Taken
<1>3. /\ a \o b \in Seq(Nat) /\ ToSet(a \o b) = ToSet(a) \cup ToSet(b)
      /\ Increasing(a \o b) <=> Increasing(a) /\ Increasing(b) /\ Before(a, b)
  BY Joined
<1>4. /\ ToSet((a \o b) \o c) = ToSet(a \o b) \cup ToSet(c)
      /\ Increasing(a \o b) /\ Increasing(c) /\ Before(a \o b, c)
  BY <1>3, Joined
<1>5. /\ a \o d \in Seq(Nat) /\ ToSet(a \o d) = ToSet(a) \cup ToSet(d)
      /\ Increasing(a \o d) <=> Increasing(a) /\ Increasing(d) /\ Before(a, d)
  BY <1>1, Joined
<1>6. Increasing(a \o d)
  BY <1>1, <1>3, <1>4, <1>5, BeforeElements
<1>7. Before(a \o d, e)
  BY <1>1, <1>2, <1>3, <1>4, <1>5, BeforeElements
<1>8. /\ ToSet((a \o d) \o e) = ToSet(a \o d) \cup ToSet(e)
      /\ Increasing((a \o d) \o e)
  BY <1>2, <1>4, <1>5, <1>6, <1>7, Joined
<1> QED BY <1>1, <1>2, <1>3, <1>4, <1>5, <1>8
-------------------------------------------------------------------------------
(* Up.                                                                       *)

LEMMA Lines ==
    ASSUME WorkerInv, NEW s \in Sockets
    PROVE  /\ up[s] \in Seq(Nat) /\ tcpUp[s] \in Seq(Nat) /\ bscGot[s] \in Seq(Nat)
           /\ Line(s) \in Seq(Nat)
<1>1. up[s] \in Seq(Nat) /\ tcpUp[s] \in Seq(Nat) /\ bscGot[s] \in Seq(Nat)
  BY DEF WorkerInv, Shapes, Queues
<1>2. bscGot[s] \o tcpUp[s] \in Seq(Nat)
  BY <1>1, Joined
<1> QED BY <1>1, <1>2, Joined DEF Line

\* What sending the caches does to one link.
SentOrKept(l) ==
    \/ cache'[l] = cache[l] /\ \A n \in 1 .. MaxOpens : up'[<<l, n>>] = up[<<l, n>>]
    \/ /\ cache'[l] = <<>> /\ wses[l] # 0 /\ ws[<<l, wses[l]>>] \notin {"open", "connecting"}
       /\ \A n \in 1 .. MaxOpens : up'[<<l, n>>] = up[<<l, n>>]
    \/ /\ cache'[l] = <<>> /\ wses[l] # 0 /\ ws[<<l, wses[l]>>] = "open"
       /\ \A n \in 1 .. MaxOpens : up'[<<l, n>>] = IF n = wses[l] THEN up[<<l, n>>] \o cache[l] ELSE up[<<l, n>>]

LEMMA SendingLinks ==
    ASSUME WorkerInv, NEW S, NEW connected, SendBuffers(S, connected), NEW l \in Links
    PROVE  SentOrKept(l)
<1> DEFINE to    == {k \in S : wses[k] # 0 /\ cache[k] # <<>> /\ (k = "RSL" => connected)}
           state == [k \in to |-> ws[<<k, wses[k]>>]]
           sent  == {k \in to : state[k] = "open"}
<1>1. PICK dropped \in SUBSET {k \in to : state[k] \notin {"open", "connecting"}} :
        /\ up' = [s \in Sockets |-> IF s[1] \in sent /\ wses[s[1]] = s[2]
                                    THEN up[s] \o cache[s[1]] ELSE up[s]]
        /\ cache' = [k \in Links |-> IF k \in sent \cup dropped THEN <<>> ELSE cache[k]]
  BY DEF SendBuffers
<1>2. \A n \in 1 .. MaxOpens : /\ <<l, n>> \in Sockets
                               /\ up'[<<l, n>>] = IF l \in sent /\ n = wses[l] THEN up[<<l, n>>] \o cache[l]
                                                  ELSE up[<<l, n>>]
  <2>1. \A n \in 1 .. MaxOpens : <<l, n>> \in Sockets /\ <<l, n>>[1] = l /\ <<l, n>>[2] = n
    BY DEF Sockets
  <2> HIDE DEF sent
  <2> QED BY <1>1, <2>1
<1>3. l \in sent => wses[l] # 0 /\ ws[<<l, wses[l]>>] = "open"
  OBVIOUS
<1>4. l \in dropped => l \notin sent /\ wses[l] # 0 /\ ws[<<l, wses[l]>>] \notin {"open", "connecting"}
  BY <1>1
<1>5. cache'[l] = IF l \in sent \cup dropped THEN <<>> ELSE cache[l]
  BY <1>1
<1> HIDE DEF sent, to, state
<1>6. CASE l \in sent
  BY <1>2, <1>3, <1>5, <1>6 DEF SentOrKept
<1>7. CASE l \in dropped
  BY <1>2, <1>4, <1>5, <1>7 DEF SentOrKept
<1>8. CASE l \notin sent \cup dropped
  BY <1>2, <1>5, <1>8 DEF SentOrKept
<1> QED BY <1>6, <1>7, <1>8

\* Where nothing is gained, and nothing lost without a socket being disturbed.
LEMMA UplinkThinned ==
    ASSUME WorkerInv, FlowInv, NEW l \in Links,
           \A n \in 1 .. MaxOpens :
              \/ Line(<<l, n>>)' = Line(<<l, n>>)
              \/ /\ <<l, n>> \in disturbed' /\ Line(<<l, n>>)' \in Seq(Nat)
                 /\ Increasing(Line(<<l, n>>)') /\ ToSet(Line(<<l, n>>)') \subseteq ToSet(Line(<<l, n>>)),
           cache'[l] = cache[l] \/ (cache'[l] = <<>> /\ \E n \in 1 .. MaxOpens : <<l, n>> \in disturbed'),
           made'[l] = made[l], disturbed \subseteq disturbed', overrun \subseteq overrun'
    PROVE  Uplink(l)'
<1>1. Uplink(l) /\ cache[l] \in Seq(Nat)
  BY DEF FlowInv, WorkerInv, Shapes
<1>2. cache'[l] \in Seq(Nat) /\ Increasing(cache'[l]) /\ ToSet(cache'[l]) \subseteq ToSet(cache[l])
  BY <1>1, Nothing DEF Uplink
<1>3. ASSUME NEW n \in 1 .. MaxOpens
      PROVE  /\ Line(<<l, n>>) \in Seq(Nat) /\ Line(<<l, n>>)' \in Seq(Nat)
             /\ Increasing(Line(<<l, n>>)') /\ ToSet(Line(<<l, n>>)') \subseteq ToSet(Line(<<l, n>>))
  <2>1. Line(<<l, n>>) \in Seq(Nat)
    BY Lines DEF Sockets
  <2>2. Increasing(Line(<<l, n>>))
    BY <1>1 DEF Uplink
  <2> QED BY <2>1, <2>2
<1>4. ASSUME NEW n \in 1 .. MaxOpens PROVE Before(Line(<<l, n>>)', cache'[l])
  <2>1. Before(Line(<<l, n>>), cache[l])
    BY <1>1 DEF Uplink
  <2> QED BY <1>1, <1>2, <1>3, <2>1, BeforeElements
<1>5. ASSUME NEW n \in 1 .. MaxOpens, NEW m \in 1 .. n - 1 PROVE Before(Line(<<l, m>>)', Line(<<l, n>>)')
  <2>1. Before(Line(<<l, m>>), Line(<<l, n>>)) /\ m \in 1 .. MaxOpens
    BY <1>1, Bounds DEF Uplink
  <2> QED BY <1>3, <2>1, BeforeElements
<1>6. /\ \A x \in ToSet(cache'[l]) : x \in 1 .. made'[l]
      /\ \A n \in 1 .. MaxOpens : \A x \in ToSet(Line(<<l, n>>)') : x \in 1 .. made'[l]
  BY <1>1, <1>2, <1>3 DEF Uplink
<1>7. ASSUME <<l, 0>> \notin overrun', \A n \in 1 .. MaxOpens : <<l, n>> \notin disturbed',
             NEW x \in 1 .. made'[l]
      PROVE  x \in ToSet(cache'[l]) \/ \E n \in 1 .. MaxOpens : x \in ToSet(Line(<<l, n>>)')
  <2>1. \A n \in 1 .. MaxOpens : <<l, n>> \notin disturbed /\ Line(<<l, n>>)' = Line(<<l, n>>)
    BY <1>7
  <2>2. cache'[l] = cache[l] /\ <<l, 0>> \notin overrun
    BY <1>7
  <2> QED BY <1>1, <2>1, <2>2 DEF Uplink
<1> QED BY <1>2, <1>3, <1>4, <1>5, <1>6, <1>7 DEF Uplink

\* A cache that is sent goes on where its link's newest socket, the last one that
\* carried anything, is.
LEMMA UplinkSent ==
    ASSUME WorkerInv, FlowInv, NEW l \in Links, SentOrKept(l),
           UNCHANGED <<tcpUp, bscGot, made>>, disturbed' = disturbed, overrun' = overrun
    PROVE  Uplink(l)'
<1>0. PICK n : n = wses[l]
  OBVIOUS
<1>1. Uplink(l) /\ cache[l] \in Seq(Nat)
  BY DEF FlowInv, WorkerInv, Shapes
<1>2. \A k \in 1 .. MaxOpens : up'[<<l, k>>] = up[<<l, k>>] => Line(<<l, k>>)' = Line(<<l, k>>)
  BY DEF Line
<1>3. n # 0 => n \in 1 .. MaxOpens /\ <<l, n>> \in Sockets /\ ws[<<l, n>>] # "none"
  BY <1>0, Bounds DEF WorkerInv, WorkerTypeOK, Shapes, Sockets
<1>4. CASE cache'[l] = cache[l] /\ \A k \in 1 .. MaxOpens : up'[<<l, k>>] = up[<<l, k>>]
  BY <1>2, <1>4, UplinkThinned
<1>5. CASE /\ cache'[l] = <<>> /\ n # 0 /\ ws[<<l, n>>] \notin {"open", "connecting"}
           /\ \A k \in 1 .. MaxOpens : up'[<<l, k>>] = up[<<l, k>>]
  <2>1. ws[<<l, n>>] \in {"closing", "ending", "closed"}
    BY <1>3, <1>5 DEF WorkerInv, WorkerTypeOK
  <2>2. <<l, n>> \in disturbed
    BY <1>3, <1>5, <2>1 DEF FlowInv, Conduit
  <2> QED BY <1>2, <1>3, <1>5, <2>2, UplinkThinned
<1>6. CASE /\ cache'[l] = <<>> /\ n # 0 /\ ws[<<l, n>>] = "open"
           /\ \A k \in 1 .. MaxOpens : up'[<<l, k>>] = IF k = n THEN up[<<l, k>>] \o cache[l] ELSE up[<<l, k>>]
  <2> DEFINE s == <<l, n>>
             c == cache[l]
  <2>1. s \in Sockets /\ n \in 1 .. MaxOpens /\ Line(s) \in Seq(Nat) /\ Increasing(Line(s)) /\ Before(Line(s), c)
    BY <1>1, <1>3, <1>6, Lines DEF Uplink
  <2>2. Line(s)' = Line(s) \o c
    <3>1. Line(s)' = (bscGot[s] \o tcpUp[s]) \o (up[s] \o c)
      BY <1>6, <2>1 DEF Line
    <3>2. up[s] \in Seq(Nat) /\ bscGot[s] \o tcpUp[s] \in Seq(Nat)
      BY <2>1, Lines, Joined
    <3> QED BY <1>1, <3>1, <3>2, Regrouped DEF Line
  <2>3. /\ Line(s)' \in Seq(Nat) /\ Increasing(Line(s)') /\ ToSet(Line(s)') = ToSet(Line(s)) \cup ToSet(c)
    BY <1>1, <2>1, <2>2, Joined DEF Uplink
  <2>4. \A k \in 1 .. MaxOpens : k # n => Line(<<l, k>>)' = Line(<<l, k>>)
    BY <1>2, <1>6
  <2>5. ASSUME NEW k \in 1 .. MaxOpens, k > n PROVE Line(<<l, k>>) = <<>>
    <3>1. <<l, k>> \in Sockets /\ <<l, k>>[1] = l /\ <<l, k>>[2] = k
      BY DEF Sockets
    <3>2. ws[<<l, k>>] = "none"
      BY <1>0, <1>6, <2>5, <3>1 DEF FlowInv, Newest
    <3>3. bscGot[<<l, k>>] = <<>> /\ tcpUp[<<l, k>>] = <<>> /\ up[<<l, k>>] = <<>>
      BY <3>1, <3>2 DEF FlowInv, Conduit
    <3> QED BY <3>3, Nothing DEF Line
  <2>6. \A k \in 1 .. MaxOpens : Line(<<l, k>>) \in Seq(Nat) /\ Line(<<l, k>>)' \in Seq(Nat)
    <3>1. \A k \in 1 .. MaxOpens : Line(<<l, k>>) \in Seq(Nat)
      BY Lines DEF Sockets
    <3> QED BY <2>3, <2>4, <3>1
  <2>7. /\ Increasing(cache'[l])
        /\ \A k \in 1 .. MaxOpens : Increasing(Line(<<l, k>>)') /\ Before(Line(<<l, k>>)', cache'[l])
    BY <1>1, <1>6, <2>3, <2>4, <2>6, Nothing DEF Uplink
  <2>8. ASSUME NEW k \in 1 .. MaxOpens, NEW m \in 1 .. k - 1 PROVE Before(Line(<<l, m>>)', Line(<<l, k>>)')
    <3>1. m \in 1 .. MaxOpens /\ m # k
      BY Bounds
    <3>2. /\ Before(Line(<<l, m>>), Line(<<l, k>>)) /\ Before(Line(<<l, m>>), c)
          /\ Line(<<l, k>>) \in Seq(Nat) /\ Line(<<l, m>>) \in Seq(Nat)
      BY <1>1, <2>6, <3>1 DEF Uplink
    <3>3. CASE k = n
      <4>1. Line(<<l, m>>)' = Line(<<l, m>>)
        BY <2>4, <3>1, <3>3
      <4> QED BY <1>1, <2>3, <3>2, <3>3, <4>1, BeforeElements
    <3>4. CASE m = n
      <4>1. Line(<<l, k>>)' = <<>>
        BY <2>4, <2>5, <3>1, <3>4, Bounds
      <4> QED BY <2>6, <3>1, <4>1, Nothing
    <3>5. CASE k # n /\ m # n
      BY <2>4, <3>1, <3>2, <3>5
    <3> QED BY <3>3, <3>4, <3>5
  <2>9. /\ \A x \in ToSet(cache'[l]) : x \in 1 .. made'[l]
        /\ \A k \in 1 .. MaxOpens : \A x \in ToSet(Line(<<l, k>>)') : x \in 1 .. made'[l]
    BY <1>1, <1>6, <2>3, <2>4, Nothing DEF Uplink
  <2>10. ASSUME <<l, 0>> \notin overrun', \A k \in 1 .. MaxOpens : <<l, k>> \notin disturbed',
                NEW x \in 1 .. made'[l]
         PROVE  \E k \in 1 .. MaxOpens : x \in ToSet(Line(<<l, k>>)')
    <3>1. x \in ToSet(c) \/ \E k \in 1 .. MaxOpens : x \in ToSet(Line(<<l, k>>))
      BY <1>1, <2>10 DEF Uplink
    <3> QED BY <2>1, <2>3, <2>4, <3>1
  <2> QED BY <2>7, <2>8, <2>9, <2>10 DEF Uplink
<1> QED BY <1>0, <1>4, <1>5, <1>6 DEF SentOrKept
\* A new message comes after all there are.
LEMMA UplinkMade ==
    ASSUME WorkerInv, FlowInv, NEW l \in Links, NEW k \in Links, OnAbisData(l)
    PROVE  Uplink(k)'
<1>1. /\ \/ /\ cache' = [cache EXCEPT ![l] = Append(cache[l], made[l] + 1)] /\ overrun' = overrun
         \/ /\ cache' = cache /\ overrun' = overrun \cup {<<l, 0>>}
      /\ made' = [made EXCEPT ![l] = made[l] + 1]
      /\ UNCHANGED <<up, tcpUp, bscGot, disturbed>>
  BY DEF OnAbisData
<1>2. Uplink(k) /\ cache[k] \in Seq(Nat) /\ made[k] \in Nat
  BY Bounds DEF FlowInv, WorkerInv, WorkerTypeOK, Shapes
<1>3. \A n \in 1 .. MaxOpens : Line(<<k, n>>)' = Line(<<k, n>>) /\ Line(<<k, n>>) \in Seq(Nat)
  <2>1. \A n \in 1 .. MaxOpens : Line(<<k, n>>) \in Seq(Nat)
    BY Lines DEF Sockets
  <2> QED BY <1>1, <2>1 DEF Line
<1>4. CASE k # l
  <2>1. cache'[k] = cache[k] /\ made'[k] = made[k]
    BY <1>1, <1>4 DEF WorkerInv, WorkerTypeOK, Shapes
  <2> QED BY <1>1, <1>3, <2>1, UplinkThinned
<1>5. CASE k = l /\ cache' = [cache EXCEPT ![l] = Append(cache[l], made[l] + 1)] /\ overrun' = overrun
  <2> DEFINE x == made[k] + 1
  <2>1. x \in Nat /\ <<x>> \in Seq(Nat) /\ ToSet(<<x>>) = {x} /\ Increasing(<<x>>)
    BY <1>2, One
  <2>2. cache'[k] = cache[k] \o <<x>> /\ made'[k] = x
    BY <1>1, <1>2, <1>5, <2>1, Appended DEF WorkerInv, WorkerTypeOK, Shapes
  <2> HIDE DEF x
  <2>8. Increasing(cache[k]) /\ \A y \in ToSet(cache[k]) : y \in 1 .. made[k]
    BY <1>2 DEF Uplink
  <2>3. Before(cache[k], <<x>>)
    <3>1. \A y \in ToSet(cache[k]) : y < x
      BY <1>2, <2>8 DEF x
    <3> QED BY <1>2, <2>1, <3>1, BeforeElements
  <2>4. /\ cache'[k] \in Seq(Nat) /\ Increasing(cache'[k]) /\ ToSet(cache'[k]) = ToSet(cache[k]) \cup {x}
    <3> DEFINE c == cache[k]
    <3>1. c \in Seq(Nat) /\ Increasing(c) /\ Before(c, <<x>>)
      BY <1>2, <2>3, <2>8
    <3> HIDE DEF c
    <3>2. c \o <<x>> \in Seq(Nat) /\ Increasing(c \o <<x>>) /\ ToSet(c \o <<x>>) = ToSet(c) \cup {x}
      BY <2>1, <3>1, Joined
    <3> QED BY <2>2, <3>2 DEF c
  <2>5. ASSUME NEW n \in 1 .. MaxOpens PROVE Before(Line(<<k, n>>)', cache'[k])
    <3>1. /\ Before(Line(<<k, n>>), cache[k]) /\ Line(<<k, n>>) \in Seq(Nat)
          /\ \A y \in ToSet(Line(<<k, n>>)) : y < x
      BY <1>2, <1>3 DEF Uplink, x
    <3> QED BY <1>2, <1>3, <2>4, <3>1, BeforeElements
  <2>6. /\ \A y \in ToSet(cache'[k]) : y \in 1 .. made'[k]
        /\ \A n \in 1 .. MaxOpens : \A y \in ToSet(Line(<<k, n>>)') : y \in 1 .. made'[k]
    BY <1>2, <1>3, <2>2, <2>4 DEF Uplink, x
  <2>7. ASSUME <<k, 0>> \notin overrun', \A n \in 1 .. MaxOpens : <<k, n>> \notin disturbed',
               NEW y \in 1 .. made'[k]
        PROVE  y \in ToSet(cache'[k]) \/ \E n \in 1 .. MaxOpens : y \in ToSet(Line(<<k, n>>)')
    <3>1. y = x \/ y \in 1 .. made[k]
      BY <1>2, <2>2 DEF x
    <3> QED BY <1>1, <1>2, <1>3, <1>5, <2>4, <2>7, <3>1 DEF Uplink
  <2>9. \A n \in 1 .. MaxOpens :
           /\ Increasing(Line(<<k, n>>)')
           /\ \A m \in 1 .. n - 1 : Before(Line(<<k, m>>)', Line(<<k, n>>)')
    <3>1. \A n \in 1 .. MaxOpens : \A m \in 1 .. n - 1 : m \in 1 .. MaxOpens
      BY Bounds
    <3> QED BY <1>2, <1>3, <3>1 DEF Uplink
  <2> QED BY <2>4, <2>5, <2>6, <2>7, <2>9 DEF Uplink
<1>6. CASE k = l /\ <<l, 0>> \in overrun' /\ cache'[k] = cache[k]
  <2>1. made'[k] = made[k] + 1
    BY <1>1, <1>6 DEF WorkerInv, WorkerTypeOK
  <2>2. 1 .. made[k] \subseteq 1 .. made'[k]
    BY <1>2, <2>1
  <2>3. \A n \in 1 .. MaxOpens : \A m \in 1 .. n - 1 : m \in 1 .. MaxOpens
    BY Bounds
  <2> QED BY <1>2, <1>3, <1>6, <2>2, <2>3 DEF Uplink
<1>7. k = l => (<<l, 0>> \in overrun' /\ cache'[k] = cache[k])
                \/ (cache' = [cache EXCEPT ![l] = Append(cache[l], made[l] + 1)] /\ overrun' = overrun)
  BY <1>1
<1> QED BY <1>4, <1>5, <1>6, <1>7

\* A bridge passes on what it takes, in order, and drops only what its disturbed
\* connection cannot carry.
LEMMA LinePassed ==
    ASSUME WorkerInv, FlowInv, NEW s \in Sockets, BridgeNext(s), NEW r \in Sockets
    PROVE  \/ Line(r)' = Line(r)
           \/ /\ r \in disturbed' /\ Line(r)' \in Seq(Nat)
              /\ Increasing(Line(r)') /\ ToSet(Line(r)') \subseteq ToSet(Line(r))
<1> DEFINE g == bscGot[r]
           t == tcpUp[r]
           u == up[r]
<1>1. /\ g \in Seq(Nat) /\ t \in Seq(Nat) /\ u \in Seq(Nat) /\ Line(r) = (g \o t) \o u
      /\ up \in Queues /\ tcpUp \in Queues /\ bscGot \in Queues
  BY Lines DEF Line, WorkerInv, Shapes
<1>2. Increasing(Line(r))
  <2>1. r = <<r[1], r[2]>> /\ r[1] \in Links /\ r[2] \in 1 .. MaxOpens
    BY DEF Sockets
  <2>2. Uplink(r[1])
    BY <2>1 DEF FlowInv
  <2> QED BY <2>1, <2>2 DEF Uplink
<1>3. Line(r)' = (bscGot'[r] \o tcpUp'[r]) \o up'[r]
  BY DEF Line
<1>4. ASSUME r \in disturbed', bscGot'[r] = g, tcpUp'[r] \in {t, <<>>},
             up'[r] = u \/ up'[r] = <<>> \/ (u # <<>> /\ up'[r] = Tail(u))
      PROVE  /\ r \in disturbed' /\ Line(r)' \in Seq(Nat)
             /\ Increasing(Line(r)') /\ ToSet(Line(r)') \subseteq ToSet(Line(r))
  <2>1. tcpUp'[r] \in Seq(Nat) /\ up'[r] \in Seq(Nat)
    BY <1>1, <1>4, Nothing, Taken
  <2>2. (g \o tcpUp'[r]) \o up'[r] \in Seq(Nat)
    BY <1>1, <2>1, Joined
  <2>3. Increasing((g \o tcpUp'[r]) \o up'[r]) /\ ToSet((g \o tcpUp'[r]) \o up'[r]) \subseteq ToSet((g \o t) \o u)
    <3>1. PICK d, e : d = tcpUp'[r] /\ e = up'[r]
      OBVIOUS
    <3>2. Increasing((g \o t) \o u) /\ d \in {t, <<>>} /\ (e = u \/ e = <<>> \/ (u # <<>> /\ e = Tail(u)))
      BY <1>1, <1>2, <1>4, <3>1
    <3>3. Increasing((g \o d) \o e) /\ ToSet((g \o d) \o e) \subseteq ToSet((g \o t) \o u)
      BY <1>1, <3>2, Thinned
    <3> QED BY <3>1, <3>3
  <2> QED BY <1>1, <1>3, <1>4, <2>2, <2>3
<1>5. CASE bscGot'[r] = g /\ tcpUp'[r] = t /\ up'[r] = u
  BY <1>1, <1>3, <1>5
<1>6. CASE r # s
  <2>1. bscGot'[r] = g /\ tcpUp'[r] = t /\ up'[r] = u
    BY <1>1, <1>6 DEF Queues, BridgeNext, Handle, OnConnect, OnDisconnect, OnMessage, OnData, Forward, GiveUp,
                      OnClose, OnError, Closed, Disconnect, Write
  <2> QED BY <1>5, <2>1
<1>7. CASE r = s
  <2>1. Conduit(r)
    BY DEF FlowInv
  <2>2. CASE Handle(s) \/ OnData(s) \/ Forward(s) \/ GiveUp(s)
    BY <1>5, <2>2 DEF Handle, OnData, Forward, GiveUp
  <2>3. CASE OnConnect(s)
    <3>1. bscGot'[r] = t /\ tcpUp'[r] = <<>> /\ up'[r] = u /\ g = <<>>
      BY <1>1, <1>7, <2>1, <2>3 DEF OnConnect, Conduit, Queues
    <3> QED BY <1>1, <1>3, <3>1, Nothing
  <2>4. CASE OnDisconnect(s)
    <3>1. bscGot'[r] = g /\ tcpUp'[r] = <<>> /\ up'[r] = u /\ r \in disturbed'
      BY <1>1, <1>7, <2>4 DEF OnDisconnect, Disconnect, Queues
    <3> QED BY <1>4, <3>1
  <2>5. CASE OnMessage(s)
    <3>1. u # <<>> /\ up'[r] = Tail(u) /\ disturbed' = disturbed /\ tcp[r] # "none"
      BY <1>1, <1>7, <2>1, <2>5 DEF OnMessage, Conduit, Queues
    <3>2. PICK h : h \in Nat /\ h = Head(u)
      BY <1>1, <3>1, Taken
    <3>3. <<h>> \in Seq(Nat) /\ Tail(u) \in Seq(Nat) /\ u = <<h>> \o Tail(u)
      BY <1>1, <3>1, <3>2, Taken, One
    <3>4. CASE tcp[r] = "connecting"
      <4>1. bscGot'[r] = g /\ tcpUp'[r] = Append(t, h)
        BY <1>1, <1>7, <2>5, <3>2, <3>4 DEF OnMessage, Write, Queues
      <4>2. (g \o (t \o <<h>>)) \o Tail(u) = (g \o t) \o (<<h>> \o Tail(u))
        <5>1. g \o t \in Seq(Nat)
          BY <1>1, Joined
        <5>2. g \o (t \o <<h>>) = (g \o t) \o <<h>>
          BY <1>1, <3>3, Regrouped
        <5>3. ((g \o t) \o <<h>>) \o Tail(u) = (g \o t) \o (<<h>> \o Tail(u))
          BY <3>3, <5>1, Regrouped
        <5> QED BY <5>2, <5>3
      <4>3. tcpUp'[r] = t \o <<h>>
        BY <1>1, <3>2, <4>1, Appended
      <4> QED BY <1>1, <1>3, <3>1, <3>3, <4>1, <4>2, <4>3
    <3>5. CASE tcp[r] = "open"
      <4>1. bscGot'[r] = Append(g, h) /\ tcpUp'[r] = t /\ t = <<>>
        BY <1>1, <1>7, <2>1, <2>5, <3>2, <3>5 DEF OnMessage, Write, Queues, Conduit
      <4>2. Append(g, h) = g \o <<h>> /\ g \o <<h>> \in Seq(Nat)
        BY <1>1, <3>2, <3>3, Appended, Joined
      <4>3. ((g \o <<h>>) \o <<>>) \o Tail(u) = (g \o <<>>) \o (<<h>> \o Tail(u))
        <5>1. (g \o <<h>>) \o <<>> = g \o <<h>> /\ g \o <<>> = g
          BY <1>1, <4>2, Nothing
        <5>2. (g \o <<h>>) \o Tail(u) = g \o (<<h>> \o Tail(u))
          BY <1>1, <3>3, Regrouped
        <5> QED BY <5>1, <5>2
      <4> QED BY <1>1, <1>3, <3>1, <3>3, <4>1, <4>2, <4>3
    <3>6. CASE tcp[r] = "closed"
      <4>1. bscGot'[r] = g /\ tcpUp'[r] = t /\ r \in disturbed
        BY <1>1, <1>7, <2>1, <2>5, <3>6 DEF OnMessage, Write, Queues, Conduit
      <4> QED BY <1>4, <3>1, <4>1
    <3> QED BY <3>1, <3>4, <3>5, <3>6 DEF WorkerInv, WorkerTypeOK
  <2>6. CASE OnClose(s) \/ OnError(s)
    <3>1. bscGot'[r] = g /\ tcpUp'[r] = <<>> /\ up'[r] = <<>> /\ r \in disturbed'
      BY <1>1, <1>7, <2>6 DEF OnClose, OnError, Closed, Disconnect, Queues
    <3> QED BY <1>4, <3>1
  <2> QED BY <2>2, <2>3, <2>4, <2>5, <2>6 DEF BridgeNext
<1> QED BY <1>6, <1>7
-------------------------------------------------------------------------------
(* Down.                                                                     *)

\* What a socket carries down, and what of it the stack has.
LEMMA Downs ==
    ASSUME WorkerInv, NEW s \in Sockets
    PROVE  /\ down[s] \in Seq(Nat) /\ buffer[s] \in Seq(Nat) /\ Len(down[s]) \in Nat /\ Len(buffer[s]) \in Nat
           /\ bscSent[s] \in Nat /\ s[1] \in Links /\ s[2] \in Nat
           /\ Handled(s[1]) \in Seq(Nat \X Nat)
<1>1. down[s] \in Seq(Nat) /\ buffer[s] \in Seq(Nat) /\ bscSent[s] \in Nat /\ s[1] \in Links /\ s[2] \in Nat
  BY Bounds DEF WorkerInv, WorkerTypeOK, Shapes, Queues, Sockets
<1>2. stackGot["RSL"] \in Seq(Nat \X Nat) /\ stackGot["OML"] \in Seq(Nat \X Nat) /\ held \in Seq(Nat \X Nat)
  BY DEF WorkerInv, Shapes, Links
<1>3. stackGot["RSL"] \o held \in Seq(Nat \X Nat)
  BY <1>2
<1> QED BY <1>1, <1>2, <1>3 DEF Handled

\* Counting on over what is joined, taken or cut.
LEMMA Counted ==
    ASSUME NEW k \in Nat, NEW p \in Seq(Nat)
    PROVE  /\ CountsFrom(k, <<>>)
           /\ \A q \in Seq(Nat) : CountsFrom(k, p) /\ CountsFrom(k + Len(p), q) => CountsFrom(k, p \o q)
           /\ CountsFrom(k, p) => CountsFrom(k, Append(p, k + Len(p) + 1))
           /\ p # <<>> /\ CountsFrom(k, p) => Head(p) = k + 1 /\ CountsFrom(k + 1, Tail(p))
<1>1. CountsFrom(k, <<>>)
  BY DEF CountsFrom
<1>2. ASSUME NEW q \in Seq(Nat), CountsFrom(k, p), CountsFrom(k + Len(p), q) PROVE CountsFrom(k, p \o q)
  <2> SUFFICES ASSUME NEW i \in DOMAIN (p \o q) PROVE (p \o q)[i] = k + i
    BY DEF CountsFrom
  <2>1. i \in 1 .. (Len(p) + Len(q)) /\ Len(p) \in Nat /\ Len(q) \in Nat
    OBVIOUS
  <2>2. CASE i \in 1 .. Len(p)
    <3>1. (p \o q)[i] = p[i] /\ i \in DOMAIN p
      BY <2>2
    <3> QED BY <1>2, <3>1 DEF CountsFrom
  <2>3. CASE i > Len(p)
    <3>1. (p \o q)[i] = q[i - Len(p)] /\ i - Len(p) \in DOMAIN q
      BY <2>1, <2>3
    <3>2. q[i - Len(p)] = (k + Len(p)) + (i - Len(p))
      BY <1>2, <3>1 DEF CountsFrom
    <3> QED BY <2>1, <3>1, <3>2
  <2> QED BY <2>1, <2>2, <2>3
<1>3. ASSUME CountsFrom(k, p) PROVE CountsFrom(k, Append(p, k + Len(p) + 1))
  BY <1>3 DEF CountsFrom
<1>4. ASSUME p # <<>>, CountsFrom(k, p) PROVE Head(p) = k + 1 /\ CountsFrom(k + 1, Tail(p))
  <2>1. Head(p) = p[1] /\ 1 \in DOMAIN p
    BY <1>4
  <2>2. \A i \in DOMAIN Tail(p) : i + 1 \in DOMAIN p /\ Tail(p)[i] = p[i + 1]
    BY <1>4
  <2> QED BY <1>4, <2>1, <2>2 DEF CountsFrom
<1> QED BY <1>1, <1>2, <1>3, <1>4

\* What a queue of the stack becomes when a message is added.
LEMMA Added ==
    ASSUME NEW q \in Seq(Nat \X Nat), NEW m \in Nat \X Nat, NEW n \in Nat
    PROVE  /\ Append(q, m) \in Seq(Nat \X Nat)
           /\ n # m[1] => /\ Had(Append(q, m), n) = Had(q, n)
                          /\ Ascending(q, n) => Ascending(Append(q, m), n)
           /\ n = m[1] => /\ Had(Append(q, m), n) = Had(q, n) \cup {m[2]}
                          /\ Ascending(q, n) /\ (\A x \in Had(q, n) : x < m[2])
                               => Ascending(Append(q, m), n)
<1>1. PICK J : J = Append(q, m)
  OBVIOUS
<1>2. /\ J \in Seq(Nat \X Nat) /\ Len(q) \in Nat /\ DOMAIN q = 1 .. Len(q) /\ DOMAIN J = 1 .. (Len(q) + 1)
      /\ \A i \in DOMAIN q : J[i] = q[i]
      /\ J[Len(q) + 1] = m
  BY <1>1
<1>3. CASE n # m[1]
  <2>1. Mine(J, n) = Mine(q, n) /\ \A i \in Mine(q, n) : J[i] = q[i]
    BY <1>2, <1>3 DEF Mine
  <2>2. Had(J, n) = Had(q, n)
    BY <2>1, Zenon DEF Had
  <2>3. Ascending(q, n) => Ascending(J, n)
    BY <2>1 DEF Ascending
  <2> QED BY <1>1, <1>2, <1>3, <2>2, <2>3
<1>4. CASE n = m[1]
  <2>1. /\ Mine(J, n) = Mine(q, n) \cup {Len(q) + 1}
        /\ \A i \in Mine(q, n) : J[i] = q[i] /\ i \in 1 .. Len(q)
    BY <1>2, <1>4 DEF Mine
  <2>2. Had(J, n) = Had(q, n) \cup {m[2]}
    <3>1. ASSUME NEW i \in Mine(J, n) PROVE J[i][2] \in Had(q, n) \cup {m[2]}
      BY <1>2, <2>1 DEF Had
    <3>2. ASSUME NEW i \in Mine(q, n) PROVE q[i][2] \in Had(J, n)
      <4>1. i \in Mine(J, n) /\ J[i][2] = q[i][2]
        BY <2>1
      <4> QED BY <4>1 DEF Had
    <3>3. m[2] \in Had(J, n)
      <4>1. Len(q) + 1 \in Mine(J, n) /\ J[Len(q) + 1][2] = m[2]
        BY <1>2, <2>1
      <4> QED BY <4>1 DEF Had
    <3>4. Had(J, n) \subseteq Had(q, n) \cup {m[2]}
      BY <3>1 DEF Had
    <3>5. Had(q, n) \subseteq Had(J, n)
      BY <3>2 DEF Had
    <3> QED BY <3>3, <3>4, <3>5
  <2>3. ASSUME Ascending(q, n), \A x \in Had(q, n) : x < m[2] PROVE Ascending(J, n)
    <3> SUFFICES ASSUME NEW i \in Mine(J, n), NEW j \in Mine(J, n), i < j PROVE J[i][2] < J[j][2]
      BY DEF Ascending
    <3>1. i \in Mine(q, n)
      BY <1>2, <2>1
    <3>2. CASE j \in Mine(q, n)
      BY <2>1, <2>3, <3>1, <3>2 DEF Ascending
    <3>3. CASE j = Len(q) + 1
      <4>1. q[i][2] \in Had(q, n)
        BY <3>1 DEF Had
      <4> QED BY <1>2, <2>1, <2>3, <3>1, <3>3, <4>1
    <3> QED BY <2>1, <3>2, <3>3
  <2> QED BY <1>1, <1>2, <1>4, <2>2, <2>3
<1> QED BY <1>3, <1>4

\* And when the oldest entry of its second half is overwritten.
LEMMA Overwritten ==
    ASSUME NEW p \in Seq(Nat \X Nat), NEW q \in Seq(Nat \X Nat), q # <<>>, NEW n \in Nat
    PROVE  /\ p \o Tail(q) \in Seq(Nat \X Nat)
           /\ Ascending(p \o q, n) => Ascending(p \o Tail(q), n)
           /\ Had(p \o Tail(q), n) \subseteq Had(p \o q, n)
           /\ Head(q)[1] # n => Had(p \o q, n) \subseteq Had(p \o Tail(q), n)
<1>1. PICK H, J : H = p \o q /\ J = p \o Tail(q)
  OBVIOUS
<1> DEFINE a    == Len(p)
           b    == Len(q)
           at(i) == IF i <= a THEN i ELSE i + 1
<1>2. /\ a \in Nat /\ b \in Nat /\ b > 0 /\ H \in Seq(Nat \X Nat) /\ J \in Seq(Nat \X Nat)
      /\ DOMAIN H = 1 .. a + b /\ DOMAIN J = 1 .. a + b - 1
  BY <1>1
<1>3. \A i \in 1 .. a + b - 1 : J[i] = H[at(i)]
  <2> SUFFICES ASSUME NEW i \in 1 .. a + b - 1 PROVE J[i] = H[at(i)]
    OBVIOUS
  <2>1. CASE i <= a
    BY <1>1, <1>2, <2>1
  <2>2. CASE i > a
    <3>1. J[i] = Tail(q)[i - a] /\ i - a \in 1 .. b - 1
      BY <1>1, <1>2, <2>2
    <3>2. Tail(q)[i - a] = q[i - a + 1]
      BY <1>2, <3>1
    <3>3. H[i + 1] = q[i + 1 - a]
      BY <1>1, <1>2, <2>2
    <3>4. i - a + 1 = i + 1 - a /\ at(i) = i + 1
      BY <1>2, <2>2
    <3> QED BY <3>1, <3>2, <3>3, <3>4
  <2> QED BY <1>2, <2>1, <2>2
<1>4. H[a + 1] = Head(q)
  BY <1>1, <1>2
<1> HIDE DEF a, b
<1>5. /\ \A i \in DOMAIN J : at(i) \in DOMAIN H /\ J[i] = H[at(i)]
      /\ \A i, j \in DOMAIN J : i < j => at(i) < at(j)
  <2>1. \A i \in 1 .. a + b - 1 : at(i) \in 1 .. a + b
    BY <1>2
  <2>2. \A i, j \in 1 .. a + b - 1 : i < j => at(i) < at(j)
    BY <1>2
  <2>3. DOMAIN J = 1 .. a + b - 1 /\ DOMAIN H = 1 .. a + b
    BY <1>2
  <2> HIDE DEF at
  <2> QED BY <1>3, <2>1, <2>2, <2>3
<1>6. \A k \in DOMAIN H : k = a + 1 \/ \E i \in DOMAIN J : at(i) = k
  <2> SUFFICES ASSUME NEW k \in DOMAIN H, k # a + 1 PROVE \E i \in DOMAIN J : at(i) = k
    OBVIOUS
  <2>1. CASE k <= a
    <3>1. k \in 1 .. a + b /\ DOMAIN J = 1 .. a + b - 1
      BY <1>2
    <3>2. k \in 1 .. a + b - 1 /\ at(k) = k
      BY <1>2, <2>1, <3>1
    <3> QED BY <3>1, <3>2
  <2>2. CASE k > a
    <3>1. k \in 1 .. a + b /\ DOMAIN J = 1 .. a + b - 1
      BY <1>2
    <3>2. k - 1 \in 1 .. a + b - 1 /\ k - 1 > a
      <4>1. a \in Nat /\ b \in Nat /\ k \in Nat /\ k > a /\ k # a + 1 /\ k <= a + b
        BY <1>2, <2>2, <3>1
      <4> HIDE DEF at
      <4> QED BY <4>1
    <3>3. at(k - 1) = k
      BY <1>2, <3>1, <3>2
    <3> QED BY <3>1, <3>2, <3>3
  <2> QED BY <1>2, <2>1, <2>2
<1> HIDE DEF at
<1>7. \A i \in Mine(J, n) : i \in DOMAIN J /\ at(i) \in Mine(H, n) /\ J[i] = H[at(i)]
  BY <1>5 DEF Mine
<1>8. Ascending(H, n) => Ascending(J, n)
  <2> SUFFICES ASSUME Ascending(H, n), NEW i \in Mine(J, n), NEW j \in Mine(J, n), i < j
               PROVE  J[i][2] < J[j][2]
    BY DEF Ascending
  <2>1. at(i) < at(j)
    BY <1>5 DEF Mine
  <2> QED BY <1>7, <2>1 DEF Ascending
<1>9. Had(J, n) \subseteq Had(H, n)
  <2> SUFFICES ASSUME NEW i \in Mine(J, n) PROVE J[i][2] \in Had(H, n)
    BY DEF Had
  <2>1. at(i) \in Mine(H, n) /\ J[i] = H[at(i)]
    BY <1>7
  <2> QED BY <2>1 DEF Had
<1>10. ASSUME Head(q)[1] # n PROVE Had(H, n) \subseteq Had(J, n)
  <2> SUFFICES ASSUME NEW k \in Mine(H, n) PROVE H[k][2] \in Had(J, n)
    BY DEF Had
  <2>1. k # a + 1
    BY <1>4, <1>10 DEF Mine
  <2>2. PICK i \in DOMAIN J : at(i) = k
    BY <1>6, <2>1 DEF Mine
  <2>3. i \in Mine(J, n) /\ J[i] = H[k]
    BY <1>5, <2>2 DEF Mine
  <2> QED BY <2>3 DEF Had
<1> QED BY <1>1, <1>2, <1>8, <1>9, <1>10

\* What is on its way, when part of it goes.
LEMMA OnwardThinned ==
    ASSUME NEW p \in Seq(Nat), NEW q \in Seq(Nat), Increasing(p \o q),
           NEW d \in {p, <<>>}, NEW e, e = q \/ e = <<>> \/ (q # <<>> /\ e = Tail(q))
    PROVE  Increasing(d \o e) /\ ToSet(d \o e) \subseteq ToSet(p \o q) /\ d \o e \in Seq(Nat)
<1>1. <<>> \o p = p /\ <<>> \o d = d /\ d \in Seq(Nat) /\ e \in Seq(Nat) /\ <<>> \in Seq(Nat)
  BY Nothing, Taken
<1>2. Increasing((<<>> \o p) \o q)
  BY <1>1
<1>3. Increasing((<<>> \o d) \o e) /\ ToSet((<<>> \o d) \o e) \subseteq ToSet((<<>> \o p) \o q)
  BY <1>1, <1>2, Thinned
<1> QED BY <1>1, <1>3, Joined

\* What another socket, a step up or a closing leaves: all that is on its way, or of
\* a connection that is closed any part.
LEMMA DownlinkLeft ==
    ASSUME WorkerInv, NEW s \in Sockets, Downlink(s), Handled(s[1])' = Handled(s[1]), bscSent'[s] = bscSent[s],
           down'[s] = down[s] \/ down'[s] = <<>>, buffer'[s] = buffer[s] \/ buffer'[s] = <<>>,
           s \in overrun => s \in overrun',
           tcp'[s] # "closed" => tcp[s] # "closed" /\ down'[s] = down[s] /\ buffer'[s] = buffer[s]
    PROVE  Downlink(s)'
<1>1. down[s] \in Seq(Nat) /\ buffer[s] \in Seq(Nat) /\ bscSent[s] \in Nat /\ Len(down[s]) \in Nat
  BY Downs
<1>2. Increasing(Onward(s)') /\ ToSet(Onward(s)') \subseteq ToSet(Onward(s))
  <2>1. PICK p, q, d, e : p = down[s] /\ q = buffer[s] /\ d = down'[s] /\ e = buffer'[s]
    OBVIOUS
  <2>2. p \in Seq(Nat) /\ q \in Seq(Nat) /\ Increasing(p \o q) /\ d \in {p, <<>>} /\ (e = q \/ e = <<>>)
    BY <1>1, <2>1 DEF Downlink, Ordered, Onward
  <2>3. Increasing(d \o e) /\ ToSet(d \o e) \subseteq ToSet(p \o q)
    BY <2>2, OnwardThinned
  <2> QED BY <2>1, <2>3 DEF Onward
<1>3. Ordered(s)'
  BY <1>2 DEF Downlink, Ordered
<1>4. ASSUME s \notin overrun' PROVE \E k \in 0 .. bscSent'[s] : DownlinkAt(s, k)'
  <2>1. PICK k \in 0 .. bscSent[s] : DownlinkAt(s, k)
    BY <1>4 DEF Downlink
  <2>2. k \in Nat /\ Len(<<>>) = 0
    BY <1>1, <2>1
  <2>3. CountsFrom(k, down'[s]) /\ k + Len(down'[s]) <= bscSent[s]
    BY <1>1, <2>1, <2>2, Counted DEF DownlinkAt
  <2>4. DownlinkAt(s, k)'
    BY <2>1, <2>3 DEF DownlinkAt
  <2> QED BY <2>1, <2>4
<1> QED BY <1>3, <1>4 DEF Downlink

\* The bridge adds to its buffer, which may cost the oldest of it, moves it down,
\* or drops what a connection that has closed leaves.
LEMMA DownlinkBridge ==
    ASSUME WorkerInv, FlowInv, NEW s \in Sockets, BridgeNext(s), UNCHANGED workerVars, NEW r \in Sockets
    PROVE  Downlink(r)'
<1>1. Handled(r[1])' = Handled(r[1])
  BY DEF workerVars, Handled
<1>2. /\ Downlink(r) /\ Conduit(r)
      /\ down \in Queues /\ buffer \in Queues
      /\ down[r] \in Seq(Nat) /\ buffer[r] \in Seq(Nat) /\ Len(down[r]) \in Nat /\ Len(buffer[r]) \in Nat
      /\ bscSent[r] \in Nat
  BY Downs DEF FlowInv, WorkerInv, Shapes
<1>3. tcp \in [Sockets -> {"none", "connecting", "open", "closed"}] /\ bscSent \in [Sockets -> 0 .. MaxMessages]
  BY DEF WorkerInv, WorkerTypeOK
<1>4. overrun \subseteq overrun'
  BY DEF BridgeNext, Handle, OnConnect, OnDisconnect, OnMessage, OnData, Forward, GiveUp, OnClose, OnError, Closed
<1>5. CASE r # s
  <2>1. down'[r] = down[r] /\ buffer'[r] = buffer[r] /\ bscSent'[r] = bscSent[r] /\ tcp'[r] = tcp[r]
    BY <1>2, <1>3, <1>5 DEF Queues, BridgeNext, Handle, OnConnect, OnDisconnect, OnMessage, OnData, Forward,
                            GiveUp, OnClose, OnError, Closed, Disconnect, Write
  <2> QED BY <1>1, <1>2, <1>4, <2>1, DownlinkLeft
<1>6. CASE r = s
  <2>1. CASE Handle(s) \/ OnConnect(s) \/ OnMessage(s)
    <3>1. /\ down'[r] = down[r] /\ buffer'[r] = buffer[r] /\ bscSent'[r] = bscSent[r]
          /\ tcp[r] # "closed" \/ tcp'[r] = tcp[r]
      BY <1>2, <1>3, <1>6, <2>1 DEF Handle, OnConnect, OnMessage, Conduit
    <3> QED BY <1>1, <1>2, <1>4, <3>1, DownlinkLeft
  <2>2. CASE OnDisconnect(s) \/ GiveUp(s) \/ OnClose(s) \/ OnError(s)
    <3>1. (down'[r] = down[r] \/ down'[r] = <<>>) /\ (buffer'[r] = buffer[r] \/ buffer'[r] = <<>>)
      BY <1>2, <1>6, <2>2 DEF OnDisconnect, GiveUp, OnClose, OnError, Closed, Queues
    <3>2. tcp'[r] = "closed"
      BY <1>2, <1>3, <1>6, <2>2
         DEF OnDisconnect, GiveUp, OnClose, OnError, Closed, Disconnect, Connected, Conduit
    <3>3. bscSent' = bscSent
      BY <2>2 DEF OnDisconnect, GiveUp, OnClose, OnError, Closed
    <3> QED BY <1>1, <1>2, <1>4, <3>1, <3>2, <3>3, DownlinkLeft
  <2>3. PICK d, b, n, h : d = down[r] /\ b = buffer[r] /\ n = bscSent[r] /\ h = Had(Handled(r[1]), r[2])
    OBVIOUS
  <2>4. /\ n \in Nat /\ d \in Seq(Nat) /\ b \in Seq(Nat) /\ Len(d) \in Nat /\ Len(b) \in Nat
        /\ d \o b \in Seq(Nat) /\ Onward(r) = d \o b
        /\ Ascending(Handled(r[1]), r[2])
        /\ \A x \in h : x \in 1 .. n /\ \A y \in ToSet(d \o b) : x < y
        /\ Increasing(d \o b) /\ \A y \in ToSet(d \o b) : y \in 1 .. n
    BY <1>2, <2>3, Joined DEF Downlink, Ordered, Onward
  <2>5. Had(Handled(r[1]), r[2])' = h /\ Ascending(Handled(r[1]), r[2])'
    BY <1>1, <2>3, <2>4 DEF Had, Ascending, Mine
  <2>6. ASSUME r \notin overrun
        PROVE  \E k \in 0 .. n :
                 /\ k \in Nat /\ h = 1 .. k /\ CountsFrom(k, d) /\ k + Len(d) <= n
                 /\ tcp[r] # "closed" => CountsFrom(k + Len(d), b) /\ k + Len(d) + Len(b) = n
    <3>1. PICK k \in 0 .. n : DownlinkAt(r, k)
      BY <1>2, <2>3, <2>6 DEF Downlink
    <3>2. k \in Nat
      BY <2>4, <3>1
    <3> QED BY <2>3, <3>1, <3>2 DEF DownlinkAt
  <2>7. CASE OnData(s)
    <3>1. /\ tcp[r] = "open" /\ down'[r] = d /\ bscSent'[r] = n + 1 /\ buffer'[r] = Pushed(b, n + 1)
          /\ tcp'[r] = "open" /\ (r \notin overrun' => ~Full(b))
      BY <1>2, <1>3, <1>6, <2>3, <2>7 DEF OnData, Queues
    <3>2. PICK c, x : x = n + 1 /\ c = IF Full(b) THEN Tail(b) ELSE b
      OBVIOUS
    <3>3. x \in Nat /\ c \in Seq(Nat) /\ Pushed(b, x) = Append(c, x) /\ (c = b \/ (b # <<>> /\ c = Tail(b)))
      <4>1. x \in Nat
        BY <2>4, <3>2
      <4>2. /\ Full(b) => b # <<>> /\ Tail(b) \in Seq(Nat) /\ Pushed(b, x) = Append(Tail(b), x)
            /\ ~Full(b) => Pushed(b, x) = Append(b, x)
        BY <2>4, <4>1, PushedBack
      <4> QED BY <2>4, <3>2, <4>1, <4>2
    <3>4. Increasing(d \o c) /\ ToSet(d \o c) \subseteq ToSet(d \o b) /\ d \o c \in Seq(Nat)
      BY <2>4, <3>3, OnwardThinned
    <3>5. Onward(r)' = (d \o c) \o <<x>>
      <4>1. Onward(r)' = d \o Append(c, x)
        BY <3>1, <3>2, <3>3 DEF Onward
      <4>2. Append(c, x) = c \o <<x>> /\ <<x>> \in Seq(Nat)
        BY <3>3, Appended, One
      <4>3. (d \o c) \o <<x>> = d \o (c \o <<x>>)
        BY <2>4, <3>3, <4>2, Regrouped
      <4> QED BY <4>1, <4>2, <4>3
    <3>6. /\ ToSet(Onward(r)') = ToSet(d \o c) \cup {x} /\ Increasing(Onward(r)')
      <4>1. Before(d \o c, <<x>>)
        <5>1. \A y \in ToSet(d \o c), z \in ToSet(<<x>>) : y < z
          BY <2>4, <3>2, <3>3, <3>4, One
        <5> QED BY <3>3, <3>4, <5>1, BeforeElements, One
      <4>2. c \in Seq(Nat) /\ <<x>> \in Seq(Nat) /\ Increasing(<<x>>) /\ ToSet(<<x>>) = {x}
        BY <3>3, One
      <4>3. PICK p, z : p = d \o c /\ z = <<x>>
        OBVIOUS
      <4>4. p \in Seq(Nat) /\ z \in Seq(Nat) /\ Increasing(p) /\ Increasing(z) /\ Before(p, z)
        BY <3>4, <4>1, <4>2, <4>3
      <4>5. ToSet(p \o z) = ToSet(p) \cup ToSet(z) /\ Increasing(p \o z)
        BY <4>4, Joined
      <4> QED BY <3>5, <4>2, <4>3, <4>5
    <3>7. Ordered(r)'
      <4>1. \A y \in ToSet(Onward(r)') : y \in 1 .. x
        BY <2>4, <3>2, <3>4, <3>6
      <4>2. \A z \in h : z \in 1 .. x /\ \A y \in ToSet(Onward(r)') : z < y
        BY <2>4, <3>2, <3>4, <3>6
      <4> QED BY <2>5, <3>1, <3>2, <3>6, <4>1, <4>2 DEF Ordered
    <3>8. ASSUME r \notin overrun' PROVE \E k \in 0 .. bscSent'[r] : DownlinkAt(r, k)'
      <4>1. r \notin overrun /\ ~Full(b)
        BY <1>4, <3>1, <3>8
      <4>2. PICK k \in 0 .. n : /\ k \in Nat /\ h = 1 .. k /\ CountsFrom(k, d) /\ k + Len(d) <= n
                                /\ CountsFrom(k + Len(d), b) /\ k + Len(d) + Len(b) = n
        BY <2>6, <3>1, <4>1
      <4>3. buffer'[r] = Append(b, n + 1)
        <5>1. n + 1 \in Nat
          BY <2>4
        <5> QED BY <2>4, <3>1, <4>1, <5>1, PushedBack
      <4>4. CountsFrom(k + Len(d), Append(b, n + 1)) /\ Len(Append(b, n + 1)) = Len(b) + 1
        <5>1. k + Len(d) \in Nat
          BY <2>4, <4>2
        <5>2. CountsFrom(k + Len(d), Append(b, k + Len(d) + Len(b) + 1))
          BY <2>4, <4>2, <5>1, Counted
        <5>3. Len(Append(b, n + 1)) = Len(b) + 1
          BY <2>4
        <5>4. k + Len(d) + Len(b) + 1 = n + 1
          BY <4>2
        <5> QED BY <5>2, <5>3, <5>4
      <4>5. k + Len(d) <= n + 1 /\ k + Len(d) + (Len(b) + 1) = n + 1 /\ k \in 0 .. n + 1
        <5>1. PICK v, w : v = Len(d) /\ w = Len(b)
          OBVIOUS
        <5>2. v \in Nat /\ w \in Nat /\ k \in Nat /\ n \in Nat /\ k + v <= n /\ k + v + w = n
          BY <2>4, <4>2, <5>1
        <5>3. k + v <= n + 1 /\ k + v + (w + 1) = n + 1 /\ k \in 0 .. n + 1
          BY <5>2
        <5> QED BY <5>1, <5>3
      <4>6. DownlinkAt(r, k)'
        BY <2>5, <3>1, <4>2, <4>3, <4>4, <4>5 DEF DownlinkAt
      <4> QED BY <3>1, <4>5, <4>6
    <3> QED BY <3>7, <3>8 DEF Downlink
  <2>8. CASE Forward(s)
    <3>1. /\ tcp[r] # "closed" /\ down'[r] = d \o b /\ bscSent'[r] = n /\ buffer'[r] = <<>>
          /\ overrun' = overrun
      BY <1>2, <1>3, <1>6, <2>3, <2>8 DEF Forward, Connected, Queues
    <3>2. Onward(r)' = Onward(r)
      <4>1. (d \o b) \o <<>> = d \o b
        BY <2>4, Nothing
      <4> QED BY <2>4, <3>1, <4>1 DEF Onward
    <3>3. Ordered(r)'
      BY <2>4, <2>5, <3>1, <3>2 DEF Ordered
    <3>4. ASSUME r \notin overrun' PROVE \E k \in 0 .. bscSent'[r] : DownlinkAt(r, k)'
      <4>1. PICK k \in 0 .. n : /\ k \in Nat /\ h = 1 .. k /\ CountsFrom(k, d) /\ k + Len(d) <= n
                                /\ CountsFrom(k + Len(d), b) /\ k + Len(d) + Len(b) = n
        BY <2>6, <3>1, <3>4
      <4>2. CountsFrom(k, d \o b) /\ Len(d \o b) = Len(d) + Len(b)
        BY <2>4, <4>1, Counted
      <4>3. k + Len(d \o b) \in Nat /\ CountsFrom(k + Len(d \o b), <<>>) /\ Len(<<>>) = 0
        BY <2>4, <4>1, <4>2, Counted, Nothing
      <4>4. k + Len(d \o b) = n
        BY <2>4, <4>1, <4>2
      <4>5. DownlinkAt(r, k)'
        BY <2>4, <2>5, <3>1, <4>1, <4>2, <4>3, <4>4 DEF DownlinkAt
      <4> QED BY <3>1, <4>1, <4>5
    <3> QED BY <3>3, <3>4 DEF Downlink
  <2> QED BY <2>1, <2>2, <2>7, <2>8 DEF BridgeNext
<1> QED BY <1>5, <1>6
LEMMA HandedOver ==
    ASSUME NEW p \in Seq(Nat \X Nat), NEW q \in Seq(Nat \X Nat), NEW m \in Nat \X Nat
    PROVE  /\ p \o <<m>> = Append(p, m)
           /\ (p \o <<m>>) \o <<>> = Append(p \o <<>>, m)
           /\ p \o Append(q, m) = Append(p \o q, m)
           /\ (p \o q) \o <<>> = p \o q
  OBVIOUS

\* What is left of a link's queue when another is added to it: all, or all but the
\* entry of a socket that is overrun.
Leaves(l, H) ==
    /\ H \in Seq(Nat \X Nat)
    /\ \A n \in 1 .. MaxOpens : /\ Ascending(Handled(l), n) => Ascending(H, n)
                                /\ Had(H, n) \subseteq Had(Handled(l), n)
                                /\ <<l, n>> \notin overrun' => Had(H, n) = Had(Handled(l), n)

\* The next message of a socket comes after those the stack of its link has.
LEMMA Arrival ==
    ASSUME WorkerInv, FlowInv, NEW n \in 1 .. MaxOpens, OnWSAbisOmlMessage(n) \/ OnWSAbisRslMessage(n)
    PROVE  \E s \in Sockets :
             /\ s[2] = n /\ down[s] # <<>> /\ down' = [down EXCEPT ![s] = Tail(down[s])]
             /\ \E H : Leaves(s[1], H) /\ Handled(s[1])' = Append(H, <<n, Head(down[s])>>)
             /\ \A l \in Links : l # s[1] => Handled(l)' = Handled(l)
             /\ UNCHANGED <<buffer, bscSent, tcp>> /\ overrun \subseteq overrun'
<1>1. /\ stackGot \in [Links -> Seq(Nat \X Nat)] /\ held \in Seq(Nat \X Nat) /\ "OML" \in Links /\ "RSL" \in Links
  BY DEF WorkerInv, Shapes, Links
<1>2. CASE OnWSAbisOmlMessage(n)
  <2> DEFINE s == <<"OML", n>>
  <2>1. s \in Sockets /\ s[1] = "OML" /\ s[2] = n
    BY DEF Sockets, Links
  <2>2. PICK m : m = <<n, Head(down[s])>>
    OBVIOUS
  <2>3. /\ down[s] # <<>> /\ down' = [down EXCEPT ![s] = Tail(down[s])]
        /\ UNCHANGED <<buffer, bscSent, tcp, held, overrun>>
        /\ stackGot' = [stackGot EXCEPT !["OML"] = stackGot["OML"] \o <<m>>]
    BY <1>2, <2>2 DEF OnWSAbisOmlMessage, Received, Handed
  <2>4. m \in Nat \X Nat
    <3>1. n \in Nat /\ Head(down[s]) \in Nat
      BY <2>1, <2>3, Bounds, Downs, Taken
    <3> QED BY <2>2, <3>1
  <2>5. stackGot'["OML"] = Append(stackGot["OML"], m) /\ stackGot'["RSL"] = stackGot["RSL"]
    BY <1>1, <2>3, <2>4, HandedOver
  <2>6. Handled("OML")' = Append(Handled("OML"), m) /\ Handled("RSL")' = Handled("RSL")
    BY <2>3, <2>5 DEF Handled
  <2>7. Leaves("OML", Handled("OML"))
    BY <1>1 DEF Leaves, Handled
  <2> QED BY <2>1, <2>2, <2>3, <2>6, <2>7 DEF Links
<1>3. CASE OnWSAbisRslMessage(n)
  <2> DEFINE s == <<"RSL", n>>
             g == stackGot["RSL"]
  <2>1. s \in Sockets /\ s[1] = "RSL" /\ s[2] = n /\ g \in Seq(Nat \X Nat)
    BY <1>1 DEF Sockets, Links
  <2>2. PICK m : m = <<n, Head(down[s])>>
    OBVIOUS
  <2>3. /\ down[s] # <<>> /\ down' = [down EXCEPT ![s] = Tail(down[s])] /\ UNCHANGED <<buffer, bscSent, tcp>>
        /\ IF rslConnected
           THEN /\ stackGot' = [stackGot EXCEPT !["RSL"] = g \o <<m>>]
                /\ held' = held /\ overrun' = overrun
           ELSE /\ held' = Pushed(held, m) /\ stackGot' = stackGot
                /\ overrun' = overrun \cup (IF Full(held) THEN {<<"RSL", Head(held)[1]>>} ELSE {})
    BY <1>3, <2>2 DEF OnWSAbisRslMessage, Received, Handed
  <2>4. m \in Nat \X Nat
    <3>1. n \in Nat /\ Head(down[s]) \in Nat
      BY <2>1, <2>3, Bounds, Downs, Taken
    <3> QED BY <2>2, <3>1
  <2>5. Handled("OML")' = Handled("OML") /\ overrun \subseteq overrun'
    BY <1>1, <2>3 DEF Handled
  <2>6. \E H : Leaves("RSL", H) /\ g' \o held' = Append(H, m)
    <3>1. CASE rslConnected
      <4>1. g' = g \o <<m>> /\ held' = <<>> /\ held = <<>>
        BY <1>1, <2>3, <3>1 DEF FlowInv
      <4>2. (g \o <<m>>) \o <<>> = Append(g \o <<>>, m)
        BY <2>1, <2>4, HandedOver
      <4>3. Leaves("RSL", g \o <<>>)
        BY <2>1, <4>1 DEF Leaves, Handled
      <4> QED BY <4>1, <4>2, <4>3
    <3>2. CASE ~rslConnected /\ ~Full(held)
      <4>1. held' = Append(held, m) /\ g' = g
        BY <1>1, <2>3, <2>4, <3>2, PushedBack
      <4>2. g \o Append(held, m) = Append(g \o held, m)
        BY <1>1, <2>1, <2>4, HandedOver
      <4>3. g \o held \in Seq(Nat \X Nat)
        BY <1>1, <2>1
      <4>4. Leaves("RSL", g \o held)
        BY <4>3 DEF Leaves, Handled
      <4> QED BY <4>1, <4>2, <4>4
    <3>3. CASE ~rslConnected /\ Full(held)
      <4>1. held # <<>> /\ Tail(held) \in Seq(Nat \X Nat) /\ held' = Append(Tail(held), m) /\ g' = g
            /\ <<"RSL", Head(held)[1]>> \in overrun'
        <5>1. held # <<>> /\ Tail(held) \in Seq(Nat \X Nat) /\ Pushed(held, m) = Append(Tail(held), m)
          BY <1>1, <2>4, <3>3, PushedBack
        <5>2. held' = Pushed(held, m) /\ stackGot' = stackGot
          BY <2>3, <3>3
        <5>3. <<"RSL", Head(held)[1]>> \in overrun'
          BY <2>3, <3>3, Zenon
        <5> QED BY <5>1, <5>2, <5>3
      <4>2. g \o Append(Tail(held), m) = Append(g \o Tail(held), m)
        BY <2>1, <2>4, <4>1, HandedOver
      <4>3. ASSUME NEW k \in 1 .. MaxOpens
            PROVE  /\ Ascending(g \o held, k) => Ascending(g \o Tail(held), k)
                   /\ Had(g \o Tail(held), k) \subseteq Had(g \o held, k)
                   /\ <<"RSL", k>> \notin overrun' => Had(g \o Tail(held), k) = Had(g \o held, k)
                   /\ g \o Tail(held) \in Seq(Nat \X Nat)
        <5>1. k \in Nat
          BY Bounds
        <5>2. <<"RSL", k>> \notin overrun' => Head(held)[1] # k
          BY <4>1, Zenon
        <5>3. g \in Seq(Nat \X Nat) /\ held \in Seq(Nat \X Nat) /\ held # <<>>
          BY <1>1, <2>1, <4>1
        <5> HIDE DEF g
        <5>4. /\ Ascending(g \o held, k) => Ascending(g \o Tail(held), k)
              /\ Had(g \o Tail(held), k) \subseteq Had(g \o held, k)
              /\ Head(held)[1] # k => Had(g \o held, k) \subseteq Had(g \o Tail(held), k)
              /\ g \o Tail(held) \in Seq(Nat \X Nat)
          BY <5>1, <5>3, Overwritten
        <5> QED BY <5>2, <5>4
      <4>4. Leaves("RSL", g \o Tail(held))
        BY <4>3 DEF Leaves, Handled
      <4> QED BY <4>1, <4>2, <4>4
    <3> QED BY <3>1, <3>2, <3>3
  <2>7. \E H : Leaves("RSL", H) /\ Handled("RSL")' = Append(H, m)
    BY <2>6 DEF Handled
  <2> QED BY <2>1, <2>2, <2>3, <2>5, <2>7 DEF Links
<1> QED BY <1>2, <1>3

LEMMA DownlinkArrives ==
    ASSUME WorkerInv, FlowInv, NEW n \in 1 .. MaxOpens, OnWSAbisOmlMessage(n) \/ OnWSAbisRslMessage(n),
           NEW r \in Sockets
    PROVE  Downlink(r)'
<1>1. PICK s \in Sockets :
        /\ s[2] = n /\ down[s] # <<>> /\ down' = [down EXCEPT ![s] = Tail(down[s])]
        /\ \E H : Leaves(s[1], H) /\ Handled(s[1])' = Append(H, <<n, Head(down[s])>>)
        /\ \A l \in Links : l # s[1] => Handled(l)' = Handled(l)
        /\ UNCHANGED <<buffer, bscSent, tcp>> /\ overrun \subseteq overrun'
  BY Arrival
<1>2. /\ Downlink(r) /\ down \in Queues
      /\ down[r] \in Seq(Nat) /\ buffer[r] \in Seq(Nat) /\ bscSent[r] \in Nat /\ r[1] \in Links
      /\ r[2] \in 1 .. MaxOpens /\ r = <<r[1], r[2]>>
  BY Downs DEF FlowInv, WorkerInv, Shapes, Sockets
<1>3. CASE r[1] # s[1]
  <2>1. down'[r] = down[r]
    BY <1>1, <1>2, <1>3 DEF Queues
  <2> QED BY <1>1, <1>2, <1>3, <2>1, DownlinkLeft
<1>4. CASE r[1] = s[1]
  <2>1. PICK H : Leaves(r[1], H) /\ Handled(s[1])' = Append(H, <<n, Head(down[s])>>)
    BY <1>1, <1>4
  <2>2. PICK m, e, h, hh : /\ m = <<n, Head(down[s])>> /\ e = bscSent[r]
                           /\ h = Had(Handled(r[1]), r[2]) /\ hh = Had(Handled(r[1])', r[2])
    OBVIOUS
  <2>3. m \in Nat \X Nat /\ m[1] = n /\ m[2] = Head(down[s]) /\ n \in Nat /\ r[2] \in Nat
    <3>1. down[s] \in Seq(Nat) /\ n \in Nat /\ r[2] \in Nat
      BY <1>2, Downs, Bounds
    <3> QED BY <1>1, <2>2, <3>1, Taken
  <2>4. /\ H \in Seq(Nat \X Nat) /\ Handled(r[1])' = Append(H, m)
        /\ Ascending(Handled(r[1]), r[2]) => Ascending(H, r[2])
        /\ Had(H, r[2]) \subseteq h
        /\ r \notin overrun' => Had(H, r[2]) = h
    BY <1>2, <1>4, <2>1, <2>2 DEF Leaves
  <2>5. Had(Handled(r[1]), r[2])' = hh
    BY <2>2 DEF Had, Mine
  <2>6. Ascending(Handled(r[1])', r[2]) <=> Ascending(Handled(r[1]), r[2])'
    BY DEF Ascending, Mine
  <2>7. /\ Ascending(H, r[2]) /\ e \in Nat
        /\ \A x \in h : x \in 1 .. e /\ \A y \in ToSet(Onward(r)) : x < y
        /\ Increasing(Onward(r)) /\ \A y \in ToSet(Onward(r)) : y \in 1 .. e
    BY <1>2, <2>2, <2>4 DEF Downlink, Ordered
  <2>8. ASSUME r \notin overrun'
        PROVE  \E k \in 0 .. e : DownlinkAt(r, k) /\ Had(H, r[2]) = 1 .. k /\ h = 1 .. k
    <3>1. PICK k \in 0 .. e : DownlinkAt(r, k)
      BY <1>1, <1>2, <2>2, <2>8 DEF Downlink
    <3>2. h = 1 .. k
      BY <2>2, <3>1 DEF DownlinkAt
    <3> QED BY <2>4, <2>8, <3>1, <3>2
  <2>9. CASE r # s
    <3>1. r[2] # n /\ down'[r] = down[r]
      <4>1. s = <<s[1], s[2]>>
        BY DEF Sockets
      <4> QED BY <1>1, <1>2, <1>4, <2>9, <4>1 DEF Queues
    <3>2. hh = Had(H, r[2]) /\ Ascending(Handled(r[1])', r[2])
      BY <2>2, <2>3, <2>4, <2>7, <3>1, Added
    <3>3. Onward(r)' = Onward(r)
      BY <1>1, <3>1 DEF Onward
    <3>4. Ordered(r)'
      BY <1>1, <2>2, <2>4, <2>5, <2>6, <2>7, <3>2, <3>3 DEF Ordered
    <3>5. ASSUME r \notin overrun' PROVE \E k \in 0 .. bscSent'[r] : DownlinkAt(r, k)'
      <4>1. PICK k \in 0 .. e : DownlinkAt(r, k) /\ Had(H, r[2]) = 1 .. k
        BY <2>8, <3>5
      <4>2. DownlinkAt(r, k)'
        BY <1>1, <2>5, <3>1, <3>2, <4>1 DEF DownlinkAt
      <4> QED BY <1>1, <2>2, <4>1, <4>2
    <3> QED BY <3>4, <3>5 DEF Downlink
  <2>10. CASE r = s
    <3>1. PICK d, b, x, t : d = down[r] /\ b = buffer[r] /\ x = Head(d) /\ t = Tail(d)
      OBVIOUS
    <3>2. /\ d \in Seq(Nat) /\ b \in Seq(Nat) /\ d # <<>> /\ down'[r] = t /\ m[2] = x /\ r[2] = m[1]
          /\ x \in Nat /\ t \in Seq(Nat) /\ <<x>> \o t = d /\ <<x>> \in Seq(Nat) /\ ToSet(<<x>>) = {x}
      <4>1. d \in Seq(Nat) /\ b \in Seq(Nat) /\ d # <<>> /\ down'[r] = t /\ m[2] = x /\ r[2] = m[1]
        BY <1>1, <1>2, <2>3, <2>10, <3>1 DEF Queues
      <4>2. x \in Nat /\ t \in Seq(Nat) /\ <<x>> \o t = d
        BY <3>1, <4>1, Taken
      <4> QED BY <4>1, <4>2, One
    <3>3. t \o b \in Seq(Nat) /\ Onward(r) = <<x>> \o (t \o b) /\ Onward(r)' = t \o b
      <4>1. t \o b \in Seq(Nat)
        BY <3>2, Joined
      <4>2. (<<x>> \o t) \o b = <<x>> \o (t \o b)
        BY <3>2, Regrouped
      <4>3. Onward(r) = d \o b /\ Onward(r)' = t \o b
        BY <1>1, <3>1, <3>2 DEF Onward
      <4> QED BY <3>2, <4>1, <4>2, <4>3
    <3>4. /\ ToSet(Onward(r)) = {x} \cup ToSet(t \o b) /\ Increasing(t \o b)
          /\ \A y \in ToSet(t \o b) : x < y
      <4>1. /\ ToSet(<<x>> \o (t \o b)) = ToSet(<<x>>) \cup ToSet(t \o b)
            /\ Increasing(t \o b) /\ Before(<<x>>, t \o b)
        <5>1. PICK p, q : p = <<x>> /\ q = t \o b
          OBVIOUS
        <5>2. p \in Seq(Nat) /\ q \in Seq(Nat) /\ Increasing(p \o q)
          BY <2>7, <3>2, <3>3, <5>1
        <5>3. ToSet(p \o q) = ToSet(p) \cup ToSet(q) /\ Increasing(q) /\ Before(p, q)
          BY <5>2, Joined
        <5> QED BY <5>1, <5>3
      <4>2. \A z \in ToSet(<<x>>), y \in ToSet(t \o b) : z < y
        BY <3>2, <3>3, <4>1, BeforeElements
      <4> QED BY <3>2, <3>3, <4>1, <4>2
    <3>5. x \in 1 .. e /\ \A y \in h : y < x
      BY <2>7, <3>4
    <3>6. hh = Had(H, r[2]) \cup {x} /\ Ascending(Handled(r[1])', r[2])
      <4>1. \A y \in Had(H, r[2]) : y < m[2]
        BY <2>4, <3>2, <3>5
      <4> QED BY <2>2, <2>3, <2>4, <2>7, <3>2, <4>1, Added
    <3>7. Ordered(r)'
      <4>1. \A z \in hh : z \in 1 .. e /\ \A y \in ToSet(t \o b) : z < y
        BY <2>4, <2>7, <3>4, <3>5, <3>6
      <4>2. \A y \in ToSet(t \o b) : y \in 1 .. e
        BY <2>7, <3>4
      <4> QED BY <1>1, <2>2, <2>5, <2>6, <3>3, <3>4, <3>6, <4>1, <4>2 DEF Ordered
    <3>8. ASSUME r \notin overrun' PROVE \E k \in 0 .. bscSent'[r] : DownlinkAt(r, k)'
      <4>1. PICK k \in 0 .. e : DownlinkAt(r, k) /\ Had(H, r[2]) = 1 .. k
        BY <2>8, <3>8
      <4>2. /\ k \in Nat /\ CountsFrom(k, d) /\ k + Len(d) <= e
            /\ tcp[r] # "closed" => CountsFrom(k + Len(d), b) /\ k + Len(d) + Len(b) = e
        <5>1. k \in Nat
          BY <2>7, <4>1
        <5>2. DownlinkAt(r, k)
          BY <4>1
        <5> QED BY <2>2, <3>1, <5>1, <5>2 DEF DownlinkAt
      <4>3. x = k + 1 /\ CountsFrom(k + 1, t)
        BY <3>1, <3>2, <4>2, Counted
      <4>4. Len(d) \in Nat /\ Len(t) = Len(d) - 1 /\ Len(d) > 0
        BY <3>1, <3>2
      <4>5. hh = 1 .. (k + 1)
        <5>1. 1 .. (k + 1) = (1 .. k) \cup {k + 1}
          BY <4>2
        <5> QED BY <3>6, <4>1, <4>3, <5>1
      <4>6. k + 1 + Len(t) = k + Len(d) /\ k + 1 \in 0 .. e
        <5>1. PICK v, w : v = Len(d) /\ w = Len(t)
          OBVIOUS
        <5>2. v \in Nat /\ w = v - 1 /\ v > 0 /\ k \in Nat /\ e \in Nat /\ k + v <= e
          BY <2>7, <4>2, <4>4, <5>1
        <5>3. k + 1 + w = k + v /\ k + 1 \in 0 .. e
          BY <5>2
        <5> QED BY <5>1, <5>3
      <4>7. DownlinkAt(r, k + 1)'
        BY <1>1, <2>2, <2>5, <3>1, <3>2, <4>2, <4>3, <4>5, <4>6 DEF DownlinkAt
      <4> QED BY <1>1, <2>2, <4>6, <4>7
    <3> QED BY <3>7, <3>8 DEF Downlink
  <2> QED BY <2>9, <2>10
<1> QED BY <1>3, <1>4
-------------------------------------------------------------------------------
(* Both ways, step by step.                                                  *)

\* Steps that move no message.
LEMMA FlowStill ==
    ASSUME WorkerInv, FlowInv, disturbed \subseteq disturbed',
           UNCHANGED <<up, down, tcp, buffer, tcpUp, bscGot, bscSent, overrun, cache, made, held, stackGot>>
    PROVE  (\A l \in Links : Uplink(l)') /\ (\A s \in Sockets : Downlink(s)')
<1>1. ASSUME NEW l \in Links PROVE Uplink(l)'
  <2>1. \A n \in 1 .. MaxOpens : Line(<<l, n>>)' = Line(<<l, n>>)
    BY DEF Line
  <2> QED BY <2>1, UplinkThinned
<1>2. ASSUME NEW s \in Sockets PROVE Downlink(s)'
  <2>1. Handled(s[1])' = Handled(s[1]) /\ Downlink(s)
    BY DEF Handled, FlowInv
  <2> QED BY <2>1, DownlinkLeft
<1> QED BY <1>1, <1>2

LEMMA OpeningFlow ==
    ASSUME WorkerInv, FlowInv, OpenWs \/ OpenNext \/ OpenEnds
    PROVE  FlowInv'
<1>1. UNCHANGED <<up, down, tcp, handler, buffer, tcpUp, bscGot, bscSent, overrun, disturbed, cache, made,
                  held, rslConnected, stackGot>>
  BY DEF OpenWs, OpenNext, OpenEnds, bridgeVars
<1>2. (\A l \in Links : Uplink(l)') /\ (\A s \in Sockets : Downlink(s)')
  BY <1>1, FlowStill
<1>3. ws \in [Sockets -> {"none", "connecting", "open", "closing", "ending", "closed"}] /\ wses \in [Links -> Nat]
  BY DEF WorkerInv, WorkerTypeOK, Shapes
<1>4. CASE OpenEnds
  <2>1. ws' = ws /\ wses' = wses
    BY <1>4 DEF OpenEnds, bridgeVars
  <2> QED BY <1>1, <1>2, <2>1 DEF FlowInv, Conduit, Newest
<1>5. ASSUME NEW l \in Links, NEW n \in 1 .. MaxOpens, Create(l, n), ws[<<l, n>>] = "none",
             \A s \in Sockets : s[1] = l /\ s[2] > n => ws[s] = "none"
      PROVE  FlowInv'
  <2> DEFINE r == <<l, n>>
  <2>1. r \in Sockets /\ r[1] = l /\ r[2] = n /\ n \in Nat
    BY Bounds DEF Sockets
  <2>2. /\ ws' = [ws EXCEPT ![r] = "connecting"] /\ wses' = [wses EXCEPT ![l] = n]
    BY <1>5 DEF Create
  <2>3. ASSUME NEW s \in Sockets PROVE Conduit(s)'
    <3>1. Conduit(s) /\ Conduit(r)
      BY <2>1 DEF FlowInv
    <3>2. CASE s = r
      BY <1>1, <1>3, <1>5, <2>1, <2>2, <3>1, <3>2 DEF Conduit
    <3>3. CASE s # r
      BY <1>1, <1>3, <2>1, <2>2, <3>1, <3>3 DEF Conduit
    <3> QED BY <3>2, <3>3
  <2>4. Newest'
    <3> SUFFICES ASSUME NEW s \in Sockets, wses'[s[1]] # 0, s[2] > wses'[s[1]] PROVE ws'[s] = "none"
      BY DEF Newest
    <3>1. s[1] \in Links /\ s[2] \in Nat
      BY Bounds DEF Sockets
    <3>2. CASE s[1] = l
      <4>1. wses'[s[1]] = n
        BY <1>3, <2>2, <3>2
      <4>2. s # r /\ ws[s] = "none"
        BY <1>5, <2>1, <3>1, <3>2, <4>1
      <4> QED BY <1>3, <2>2, <4>2
    <3>3. CASE s[1] # l
      <4>1. wses'[s[1]] = wses[s[1]] /\ s # r
        BY <1>3, <2>1, <2>2, <3>1, <3>3
      <4> QED BY <1>3, <2>2, <4>1 DEF FlowInv, Newest
    <3> QED BY <3>2, <3>3
  <2> QED BY <1>1, <1>2, <2>3, <2>4 DEF FlowInv
<1>6. \A s \in Sockets : s[2] > opens => ws[s] = "none"
  <2>1. \A s \in Sockets : s[2] \in Nat
    BY Bounds DEF Sockets
  <2>2. opens \in Nat
    BY Bounds DEF WorkerInv, WorkerTypeOK
  <2> QED BY <2>1, <2>2 DEF WorkerInv, Numbered
<1>7. CASE OpenWs
  <2>1. PICK n : n = opens + 1
    OBVIOUS
  <2>2. Create("OML", n) /\ n \in 1 .. MaxOpens /\ "OML" \in Links /\ opens \in Nat
    BY <1>7, <2>1, Bounds DEF OpenWs, WorkerInv, WorkerTypeOK, Links
  <2>3. \A s \in Sockets : s[2] >= n => ws[s] = "none"
    <3>1. \A s \in Sockets : s[2] \in Nat
      BY Bounds DEF Sockets
    <3> QED BY <1>6, <2>1, <2>2, <3>1
  <2>4. ws[<<"OML", n>>] = "none" /\ \A s \in Sockets : s[1] = "OML" /\ s[2] > n => ws[s] = "none"
    <3>1. <<"OML", n>> \in Sockets /\ <<"OML", n>>[2] >= n /\ n \in Nat /\ \A s \in Sockets : s[2] \in Nat
      BY <2>2, Bounds DEF Sockets, Links
    <3> QED BY <2>3, <3>1
  <2> QED BY <1>5, <2>2, <2>4
<1>8. CASE OpenNext
  <2>1. PICK n : n = opens
    OBVIOUS
  <2>2. Create("RSL", n) /\ n \in 1 .. MaxOpens /\ "RSL" \in Links
    BY <1>8, <2>1, Bounds DEF OpenNext, WorkerInv, WorkerTypeOK, Numbered, Links
  <2>3. ws[<<"RSL", n>>] = "none"
    BY <1>8, <2>1 DEF OpenNext, WorkerInv, Numbered
  <2> QED BY <1>5, <1>6, <2>1, <2>2, <2>3
<1> QED BY <1>4, <1>7, <1>8

LEMMA ClosingFlow ==
    ASSUME WorkerInv, FlowInv, CloseWs \/ CloseNext
    PROVE  FlowInv'
<1>1. /\ UNCHANGED <<up, down, tcp, handler, buffer, tcpUp, bscGot, bscSent, overrun, cache, made, held,
                     stackGot>>
      /\ rslConnected' => rslConnected
  BY DEF CloseWs, CloseNext
<1>2. PICK S : S \subseteq Links /\ CloseFirst(S, wses)
  <2>1. Links \subseteq Links /\ {"RSL"} \subseteq Links /\ {} \subseteq Links
    BY DEF Links
  <2>2. CloseFirst(Links, wses) \/ CloseFirst({"RSL"}, wses) \/ CloseFirst({}, wses)
    BY DEF CloseWs, CloseNext
  <2> QED BY <2>1, <2>2
<1>3. \/ ws' = ws /\ disturbed' = disturbed
      \/ \E r \in Sockets :
            /\ ws[r] # "none" /\ disturbed' = disturbed \cup {r}
            /\ ws' = [ws EXCEPT ![r] = IF @ \in {"open", "connecting"} THEN "closing" ELSE @]
  BY <1>2, FirstClosed
<1>4. ws \in [Sockets -> {"none", "connecting", "open", "closing", "ending", "closed"}]
  BY DEF WorkerInv, WorkerTypeOK
<1>5. \A s \in Sockets : /\ ws'[s] = "none" <=> ws[s] = "none"
                         /\ ws'[s] = ws[s] \/ (ws'[s] = "closing" /\ s \in disturbed')
  BY <1>3, <1>4
<1>6. disturbed \subseteq disturbed'
  BY <1>3
<1>7. (\A l \in Links : Uplink(l)') /\ (\A s \in Sockets : Downlink(s)')
  BY <1>1, <1>6, FlowStill
<1>8. \A s \in Sockets : Conduit(s)'
  BY <1>1, <1>5, <1>6 DEF FlowInv, Conduit
<1>9. Newest'
  <2>1. \A l \in Links : wses'[l] = wses[l] \/ wses'[l] = 0
    <3>1. CASE CloseWs
      BY <3>1 DEF CloseWs
    <3>2. CASE CloseNext
      BY <3>2 DEF CloseNext, WorkerInv, Shapes
    <3> QED BY <3>1, <3>2
  <2>2. \A s \in Sockets : s[1] \in Links
    BY DEF Sockets
  <2> QED BY <1>5, <2>1, <2>2 DEF FlowInv, Newest
<1> QED BY <1>1, <1>7, <1>8, <1>9 DEF FlowInv

LEMMA MadeFlow ==
    ASSUME WorkerInv, FlowInv, NEW l \in Links, OnAbisData(l)
    PROVE  FlowInv'
<1>1. UNCHANGED <<ws, up, down, tcp, handler, buffer, tcpUp, bscGot, bscSent, disturbed, wses, held,
                  rslConnected, stackGot>> /\ overrun \subseteq overrun'
  BY DEF OnAbisData
<1>2. \A k \in Links : Uplink(k)'
  BY UplinkMade
<1>3. ASSUME NEW s \in Sockets PROVE Downlink(s)'
  <2>1. Handled(s[1])' = Handled(s[1]) /\ Downlink(s)
    BY <1>1 DEF Handled, FlowInv
  <2> QED BY <1>1, <2>1, DownlinkLeft
<1>4. (\A s \in Sockets : Conduit(s)') /\ Newest'
  BY <1>1 DEF FlowInv, Conduit, Newest
<1> QED BY <1>1, <1>2, <1>3, <1>4 DEF FlowInv

\* Sending fills only sockets that are open, and those have run.
LEMMA SendingFlow ==
    ASSUME WorkerInv, FlowInv, NEW S, NEW connected, SendBuffers(S, connected),
           UNCHANGED <<ws, down, tcp, handler, buffer, tcpUp, bscGot, bscSent, overrun, disturbed, wses, made>>,
           Handled("OML")' = Handled("OML"), Handled("RSL")' = Handled("RSL"),
           rslConnected' => held' = <<>>
    PROVE  FlowInv'
<1>1. \A l \in Links : SentOrKept(l)
  BY SendingLinks
<1>2. \A l \in Links : Uplink(l)'
  BY <1>1, UplinkSent
<1>3. ASSUME NEW s \in Sockets PROVE Downlink(s)'
  <2>1. Handled(s[1])' = Handled(s[1]) /\ Downlink(s)
    BY DEF Sockets, Links, FlowInv
  <2> QED BY <2>1, DownlinkLeft
<1>4. ASSUME NEW s \in Sockets PROVE Conduit(s)'
  <2>1. PICK l \in Links, n \in 1 .. MaxOpens : s = <<l, n>>
    BY DEF Sockets
  <2>2. up'[s] = up[s] \/ ws[s] = "open"
    <3>1. SentOrKept(l)
      BY <1>1
    <3>2. up'[<<l, n>>] = up[<<l, n>>] \/ (n = wses[l] /\ ws[<<l, wses[l]>>] = "open")
      BY <3>1 DEF SentOrKept
    <3> QED BY <2>1, <3>2
  <2> QED BY <2>2 DEF FlowInv, Conduit
<1>5. Newest'
  BY DEF FlowInv, Newest
<1> QED BY <1>2, <1>3, <1>4, <1>5 DEF FlowInv

LEMMA ArrivalFlow ==
    ASSUME WorkerInv, FlowInv, NEW n \in 1 .. MaxOpens, OnWSAbisOmlMessage(n) \/ OnWSAbisRslMessage(n)
    PROVE  FlowInv'
<1>1. UNCHANGED <<ws, up, tcp, handler, buffer, tcpUp, bscGot, bscSent, disturbed, wses, rslConnected, cache, made>>
      /\ overrun \subseteq overrun'
  BY DEF OnWSAbisOmlMessage, OnWSAbisRslMessage
<1>2. \A s \in Sockets : Downlink(s)'
  BY DownlinkArrives
<1>3. ASSUME NEW l \in Links PROVE Uplink(l)'
  <2>1. \A k \in 1 .. MaxOpens : Line(<<l, k>>)' = Line(<<l, k>>)
    BY <1>1 DEF Line
  <2> QED BY <1>1, <2>1, UplinkThinned
<1>4. \A s \in Sockets : down[s] = <<>> => down'[s] = <<>>
  <2>1. PICK s \in Sockets : down[s] # <<>> /\ down' = [down EXCEPT ![s] = Tail(down[s])]
    BY Arrival
  <2> QED BY <2>1 DEF WorkerInv, Shapes, Queues
<1>5. (\A s \in Sockets : Conduit(s)') /\ Newest'
  BY <1>1, <1>4 DEF FlowInv, Conduit, Newest
<1>6. rslConnected' => held' = <<>>
  BY DEF OnWSAbisOmlMessage, OnWSAbisRslMessage, FlowInv
<1> QED BY <1>2, <1>3, <1>5, <1>6 DEF FlowInv
LEMMA BridgeFlow ==
    ASSUME WorkerInv, FlowInv, NEW s \in Sockets, BridgeNext(s), UNCHANGED workerVars
    PROVE  FlowInv'
<1>1. \A r \in Sockets : Downlink(r)'
  BY DownlinkBridge
<1>2. ASSUME NEW l \in Links PROVE Uplink(l)'
  <2>1. \A n \in 1 .. MaxOpens : <<l, n>> \in Sockets
    BY DEF Sockets
  <2>2. disturbed \subseteq disturbed' /\ overrun \subseteq overrun'
    BY DEF BridgeNext, Handle, OnConnect, OnDisconnect, OnMessage, OnData, Forward, GiveUp, OnClose, OnError, Closed
  <2>3. cache' = cache /\ made' = made
    BY DEF workerVars
  <2> QED BY <2>1, <2>2, <2>3, LinePassed, UplinkThinned
<1>3. /\ ws \in [Sockets -> {"none", "connecting", "open", "closing", "ending", "closed"}]
      /\ tcp \in [Sockets -> {"none", "connecting", "open", "closed"}]
      /\ handler \in [Sockets -> {"none", "waiting", "done"}]
      /\ bscSent \in [Sockets -> 0 .. MaxMessages]
      /\ up \in Queues /\ down \in Queues /\ buffer \in Queues /\ tcpUp \in Queues /\ bscGot \in Queues
  BY DEF WorkerInv, WorkerTypeOK, Shapes
<1>4. ASSUME NEW r \in Sockets, r # s
      PROVE  /\ ws'[r] = ws[r] /\ tcp'[r] = tcp[r] /\ handler'[r] = handler[r] /\ bscSent'[r] = bscSent[r]
             /\ up'[r] = up[r] /\ down'[r] = down[r] /\ buffer'[r] = buffer[r] /\ tcpUp'[r] = tcpUp[r]
             /\ bscGot'[r] = bscGot[r] /\ (r \in disturbed => r \in disturbed')
  BY <1>3, <1>4 DEF Queues, BridgeNext, Handle, OnConnect, OnDisconnect, OnMessage, OnData, Forward, GiveUp,
                    OnClose, OnError, Closed, Disconnect, Write
<1>5. ASSUME NEW r \in Sockets, r # s PROVE Conduit(r)'
  BY <1>4, <1>5 DEF FlowInv, Conduit
<1>6. Conduit(s)
  BY DEF FlowInv
<1>7. Conduit(s)'
  <2>1. CASE Handle(s)
    BY <1>3, <1>6, <2>1 DEF Handle, Conduit
  <2>2. CASE OnConnect(s)
    BY <1>3, <1>6, <2>2 DEF OnConnect, Conduit, Queues
  <2>3. CASE OnDisconnect(s)
    BY <1>3, <1>6, <2>3 DEF OnDisconnect, Connected, Disconnect, Conduit, Queues
  <2>4. CASE OnMessage(s)
    BY <1>3, <1>6, <2>4 DEF OnMessage, Write, Conduit, Queues
  <2>5. CASE OnData(s)
    BY <1>3, <1>6, <2>5 DEF OnData, Conduit, Queues
  <2>6. CASE Forward(s)
    BY <1>3, <1>6, <2>6 DEF Forward, Connected, Conduit, Queues
  <2>7. CASE GiveUp(s)
    BY <1>3, <1>6, <2>7 DEF GiveUp, Connected, Conduit, Queues
  <2>8. CASE OnClose(s) \/ OnError(s)
    BY <1>3, <1>6, <2>8 DEF OnClose, OnError, Closed, Disconnect, Conduit, Queues
  <2> QED BY <2>1, <2>2, <2>3, <2>4, <2>5, <2>6, <2>7, <2>8 DEF BridgeNext
<1>8. Newest'
  <2>1. ws'[s] = "none" <=> ws[s] = "none"
    BY <1>3 DEF BridgeNext, Handle, OnConnect, OnDisconnect, OnMessage, OnData, Forward, GiveUp, OnClose, OnError,
                Closed
  <2>2. \A r \in Sockets : ws'[r] = "none" <=> ws[r] = "none"
    BY <1>4, <2>1
  <2> QED BY <2>2 DEF FlowInv, Newest, workerVars
<1> QED BY <1>1, <1>2, <1>5, <1>7, <1>8 DEF FlowInv, workerVars

LEMMA InitFlow ==
    ASSUME Init
    PROVE  FlowInv
<1>1. \A s \in Sockets : Conduit(s)
  BY DEF Init, BridgeInit, Conduit
<1>2. Newest /\ (rslConnected => held = <<>>)
  BY DEF Init, BridgeInit, Newest
<1>3. ASSUME NEW s \in Sockets PROVE Line(s) = <<>>
  <2>1. bscGot[s] = <<>> /\ tcpUp[s] = <<>> /\ up[s] = <<>>
    BY DEF Init, BridgeInit
  <2> QED BY <2>1, Nothing DEF Line
<1>4. ASSUME NEW l \in Links PROVE Uplink(l)
  <2>1. cache[l] = <<>> /\ made[l] = 0
    BY DEF Init
  <2>2. \A n \in 1 .. MaxOpens : Line(<<l, n>>) = <<>>
    BY <1>3 DEF Sockets
  <2>3. \A n \in 1 .. MaxOpens : \A m \in 1 .. n - 1 : Line(<<l, m>>) = <<>>
    BY <2>2, Bounds
  <2>4. /\ ToSet(<<>>) = {} /\ Increasing(<<>>) /\ Before(<<>>, <<>>)
        /\ 1 .. 0 = {}
    <3>1. 1 .. 0 = {}
      OBVIOUS
    <3>2. Before(<<>>, <<>>)
      BY DEF Before
    <3> QED BY <3>1, <3>2, Nothing
  <2>5. Increasing(cache[l]) /\ ToSet(cache[l]) = {} /\ 1 .. made[l] = {}
    BY <2>1, <2>4
  <2>6. \A n \in 1 .. MaxOpens : /\ Increasing(Line(<<l, n>>)) /\ ToSet(Line(<<l, n>>)) = {}
                                 /\ Before(Line(<<l, n>>), cache[l])
    BY <2>1, <2>2, <2>4
  <2>7. \A n \in 1 .. MaxOpens : \A m \in 1 .. n - 1 : Before(Line(<<l, m>>), Line(<<l, n>>))
    BY <2>2, <2>3, <2>4
  <2> QED BY <2>5, <2>6, <2>7, Zenon DEF Uplink
<1>5. ASSUME NEW s \in Sockets PROVE Downlink(s)
  <2>1. down[s] = <<>> /\ buffer[s] = <<>> /\ bscSent[s] = 0 /\ Len(<<>>) = 0
    BY DEF Init, BridgeInit
  <2>2. stackGot["OML"] = <<>> /\ stackGot["RSL"] \o held = <<>>
    BY DEF Init, Links
  <2>3. Handled(s[1]) = <<>>
    BY <2>2 DEF Handled
  <2>4. Had(Handled(s[1]), s[2]) = {} /\ Ascending(Handled(s[1]), s[2])
    BY <2>3 DEF Had, Ascending, Mine
  <2>5. CountsFrom(0, <<>>) /\ {} = 1 .. 0
    BY DEF CountsFrom
  <2>6. DownlinkAt(s, 0) /\ 0 \in 0 .. bscSent[s]
    BY <2>1, <2>4, <2>5 DEF DownlinkAt
  <2>7. Onward(s) = <<>>
    BY <2>1, Nothing DEF Onward
  <2> QED BY <2>4, <2>6, <2>7, Nothing DEF Downlink, Ordered
<1> QED BY <1>1, <1>2, <1>4, <1>5 DEF FlowInv

LEMMA NextFlow ==
    ASSUME WorkerInv, FlowInv, [Next]_vars
    PROVE  FlowInv'
<1>1. CASE OpenWs \/ OpenNext \/ OpenEnds
  BY <1>1, OpeningFlow
<1>2. CASE CloseWs \/ CloseNext
  BY <1>2, ClosingFlow
<1>3. CASE \E l \in Links : OnAbisData(l)
  BY <1>3, MadeFlow
<1>4. CASE (\E l \in Links : Reply(l)) \/ OnReceiveData
  <2>1. PICK S : SendBuffers(S, rslConnected)
    BY <1>4 DEF Reply, OnReceiveData
  <2>2. UNCHANGED <<ws, down, tcp, handler, buffer, tcpUp, bscGot, bscSent, overrun, disturbed, wses, made,
                    held, stackGot, rslConnected>>
    BY <1>4 DEF Reply, OnReceiveData
  <2>3. Handled("OML")' = Handled("OML") /\ Handled("RSL")' = Handled("RSL") /\ (rslConnected' => held' = <<>>)
    BY <2>2 DEF Handled, FlowInv
  <2> QED BY <2>1, <2>2, <2>3, SendingFlow
<1>5. CASE OnRslConnect
  <2>1. /\ stackGot' = [stackGot EXCEPT !["RSL"] = stackGot["RSL"] \o held] /\ held' = <<>>
        /\ SendBuffers({"RSL"}, TRUE)
    BY <1>5 DEF OnRslConnect, Handed
  <2>2. stackGot \in [Links -> Seq(Nat \X Nat)] /\ held \in Seq(Nat \X Nat)
    BY DEF WorkerInv, Shapes
  <2>3. stackGot'["OML"] = stackGot["OML"] /\ stackGot'["RSL"] \o <<>> = stackGot["RSL"] \o held
    BY <2>1, <2>2 DEF Links
  <2>4. Handled("OML")' = Handled("OML") /\ Handled("RSL")' = Handled("RSL")
    BY <2>1, <2>3 DEF Handled
  <2> QED BY <1>5, <2>1, <2>4, SendingFlow DEF OnRslConnect
<1>6. CASE \E n \in 1 .. MaxOpens : OnWSAbisOmlMessage(n) \/ OnWSAbisRslMessage(n)
  BY <1>6, ArrivalFlow
<1>7. CASE \E s \in Sockets : BridgeNext(s) /\ UNCHANGED workerVars
  BY <1>7, BridgeFlow
<1>8. CASE UNCHANGED vars
  <2>1. (\A l \in Links : Uplink(l)') /\ (\A s \in Sockets : Downlink(s)')
    BY <1>8, FlowStill DEF vars, bridgeVars, workerVars
  <2> QED BY <1>8, <2>1 DEF vars, bridgeVars, workerVars, FlowInv, Conduit, Newest
<1> QED BY <1>1, <1>2, <1>3, <1>4, <1>5, <1>6, <1>7, <1>8 DEF Next

\* Every message of either direction is always where the caches, the websockets,
\* the bridges and TCP, one after the other, account for it.
THEOREM FlowAlwaysSound == Spec => [](WorkerInv /\ FlowInv)
<1>1. Init => WorkerInv /\ FlowInv
  BY InitGood, InitFlow
<1>2. (WorkerInv /\ FlowInv) /\ [Next]_vars => (WorkerInv /\ FlowInv)'
  BY NextGood, NextFlow DEF Good
<1> QED BY <1>1, <1>2, PTL DEF Spec

\* What the BTS stack says reaches the BSC in order and once, across openWs and
\* closeWs, and all of it unless a socket of the link closed or failed or its cache
\* was full, for caches of any size and any number of sockets, messages and failures.
THEOREM UplinkAlwaysConserved == Spec => []UplinkConserved
<1>1. FlowInv => UplinkConserved
  <2> SUFFICES ASSUME FlowInv, NEW l \in Links
               PROVE  LET there == ToSet(cache[l]) \cup (UNION {ToSet(Line(<<l, n>>)) : n \in 1 .. MaxOpens})
                      IN  /\ Increasing(cache[l])
                          /\ \A n \in 1 .. MaxOpens :
                                /\ Increasing(Line(<<l, n>>)) /\ Before(Line(<<l, n>>), cache[l])
                                /\ \A m \in 1 .. n - 1 : Before(Line(<<l, m>>), Line(<<l, n>>))
                          /\ there \subseteq 1 .. made[l]
                          /\ <<l, 0>> \notin overrun /\ (\A n \in 1 .. MaxOpens : <<l, n>> \notin disturbed) =>
                                there = 1 .. made[l]
    BY DEF UplinkConserved
  <2> DEFINE there == ToSet(cache[l]) \cup (UNION {ToSet(Line(<<l, n>>)) : n \in 1 .. MaxOpens})
  <2>1. Uplink(l)
    BY DEF FlowInv
  <2>2. there \subseteq 1 .. made[l]
    BY <2>1 DEF Uplink
  <2>3. ASSUME <<l, 0>> \notin overrun, \A n \in 1 .. MaxOpens : <<l, n>> \notin disturbed
        PROVE  1 .. made[l] \subseteq there
    BY <2>1, <2>3 DEF Uplink
  <2> QED BY <2>1, <2>2, <2>3 DEF Uplink
<1> QED BY <1>1, FlowAlwaysSound, PTL

\* What the BSC says reaches the stack in order and once, through the bridge, the
\* websocket and _rsl_buffer, for rings of any size and any number of messages; and
\* without a gap, all but what is on its way, unless a ring was overrun or the
\* connection closed or failed.
THEOREM DownlinkAlwaysConserved == Spec => []DownlinkConserved
<1>1. WorkerInv /\ FlowInv => DownlinkConserved
  <2> SUFFICES ASSUME WorkerInv, FlowInv, NEW s \in Sockets
               PROVE  LET all  == Handled(s[1])
                          mine == {i \in DOMAIN all : all[i][1] = s[2]}
                      IN  /\ \A i, j \in mine : i < j => all[i][2] < all[j][2]
                          /\ \A i \in mine, x \in ToSet(Onward(s)) : all[i][2] < x
                          /\ Increasing(Onward(s)) /\ ToSet(Onward(s)) \subseteq 1 .. bscSent[s]
                          /\ s \notin overrun =>
                                \E k \in 0 .. bscSent[s] :
                                   /\ {all[i][2] : i \in mine} = 1 .. k
                                   /\ CountsFrom(k, down[s])
                                   /\ s \notin disturbed =>
                                         CountsFrom(k, Onward(s)) /\ k + Len(Onward(s)) = bscSent[s]
    BY DEF DownlinkConserved
  <2>1. Downlink(s) /\ (tcp[s] = "closed" => s \in disturbed)
    BY DEF FlowInv, Conduit
  <2>2. Ordered(s)
    BY <2>1 DEF Downlink
  <2>3. ASSUME s \notin overrun
        PROVE  \E k \in 0 .. bscSent[s] :
                  /\ Had(Handled(s[1]), s[2]) = 1 .. k
                  /\ CountsFrom(k, down[s])
                  /\ s \notin disturbed =>
                        CountsFrom(k, Onward(s)) /\ k + Len(Onward(s)) = bscSent[s]
    <3>1. PICK k \in 0 .. bscSent[s] : DownlinkAt(s, k)
      BY <2>1, <2>3 DEF Downlink
    <3>2. PICK d, b : d = down[s] /\ b = buffer[s]
      OBVIOUS
    <3>3. d \in Seq(Nat) /\ b \in Seq(Nat) /\ k \in Nat /\ Len(d \o b) = Len(d) + Len(b)
          /\ Len(d) \in Nat /\ Len(b) \in Nat
      BY <3>1, <3>2, Downs
    <3>4. ASSUME s \notin disturbed PROVE CountsFrom(k, d \o b) /\ k + Len(d \o b) = bscSent[s]
      <4>1. CountsFrom(k, d) /\ CountsFrom(k + Len(d), b) /\ k + Len(d) + Len(b) = bscSent[s]
        BY <2>1, <3>1, <3>2, <3>4 DEF DownlinkAt
      <4>2. CountsFrom(k, d \o b)
        BY <3>3, <4>1, Counted
      <4> QED BY <3>3, <4>1, <4>2
    <3> QED BY <3>1, <3>2, <3>4 DEF DownlinkAt, Onward
  <2>4. \A i \in Mine(Handled(s[1]), s[2]) : Handled(s[1])[i][2] \in Had(Handled(s[1]), s[2])
    BY DEF Had
  <2> QED BY <2>2, <2>3, <2>4 DEF Ordered, Ascending, Had, Mine
<1> QED BY <1>1, FlowAlwaysSound, PTL

===============================================================================
