---------------------------- MODULE VtyClientProofs ----------------------------
(***************************************************************************)
(* Safety of the VTY client for any requests, any outputs and any number   *)
(* of lost connections: no promise is lost or settled twice, the queue     *)
(* never sleeps while the client is connected, and a request sent when     *)
(* nothing of an earlier one was on its way gets its own answer, whole.    *)
(***************************************************************************)
EXTENDS VtyClient, WellFoundedInduction, TLAPS

-------------------------------------------------------------------------------
(* Sequences without repetition.                                             *)

\* What Array.push does to a queue.
LEMMA AppendedQueue ==
    ASSUME NEW S, NEW q \in Seq(S), NEW e \in S
    PROVE  /\ Append(q, e) \in Seq(S)
           /\ ToSet(Append(q, e)) = ToSet(q) \cup {e}
           /\ IsInjective(q) /\ e \notin ToSet(q) => IsInjective(Append(q, e))
<1> DEFINE a == Append(q, e)
<1>1. /\ a \in Seq(S) /\ DOMAIN a = 1 .. Len(q) + 1 /\ DOMAIN q = 1 .. Len(q)
      /\ Len(q) \in Nat
      /\ \A n \in 1 .. Len(q) : a[n] = q[n]
      /\ a[Len(q) + 1] = e
  OBVIOUS
<1> HIDE DEF a
<1>2. ToSet(a) = ToSet(q) \cup {e}
  BY <1>1 DEF ToSet
<1>3. ASSUME IsInjective(q), e \notin ToSet(q)  PROVE IsInjective(a)
  BY <1>1, <1>3 DEF IsInjective, ToSet
<1> QED BY <1>1, <1>2, <1>3 DEF a

\* What Array.shift takes and leaves.
LEMMA ShiftedQueue ==
    ASSUME NEW S, NEW q \in Seq(S), q # <<>>
    PROVE  /\ Head(q) \in S /\ Tail(q) \in Seq(S)
           /\ ToSet(q) = {Head(q)} \cup ToSet(Tail(q))
           /\ IsInjective(q) => IsInjective(Tail(q)) /\ Head(q) \notin ToSet(Tail(q))
<1> DEFINE t == Tail(q)
<1>1. /\ t \in Seq(S) /\ DOMAIN t = 1 .. Len(q) - 1 /\ DOMAIN q = 1 .. Len(q)
      /\ Len(q) \in Nat /\ Len(q) > 0
      /\ \A n \in 1 .. Len(q) - 1 : t[n] = q[n + 1]
      /\ Head(q) = q[1] /\ q[1] \in S
  OBVIOUS
<1> HIDE DEF t
<1>2. ToSet(q) = {Head(q)} \cup ToSet(t)
  <2>1. \A n \in 1 .. Len(q) : n = 1 \/ (n - 1 \in 1 .. Len(q) - 1 /\ q[n] = t[n - 1])
    BY <1>1
  <2>2. \A n \in 1 .. Len(q) - 1 : n + 1 \in 1 .. Len(q)
    BY <1>1
  <2>3. ASSUME NEW x \in ToSet(q)  PROVE x \in {Head(q)} \cup ToSet(t)
    <3>1. PICK n \in 1 .. Len(q) : x = q[n]
      BY <1>1, <2>3 DEF ToSet
    <3>2. CASE n = 1
      BY <1>1, <3>1, <3>2
    <3>3. CASE n # 1
      BY <1>1, <2>1, <3>1, <3>3 DEF ToSet
    <3> QED BY <3>2, <3>3
  <2>4. ASSUME NEW x \in ToSet(t)  PROVE x \in ToSet(q)
    <3>1. PICK n \in 1 .. Len(q) - 1 : x = t[n]
      BY <1>1, <2>4 DEF ToSet
    <3>2. n + 1 \in DOMAIN q /\ x = q[n + 1]
      BY <1>1, <2>2, <3>1
    <3> QED BY <3>2 DEF ToSet
  <2>5. Head(q) \in ToSet(q)
    BY <1>1 DEF ToSet
  <2> QED BY <2>3, <2>4, <2>5
<1>3. ASSUME IsInjective(q)  PROVE IsInjective(t) /\ Head(q) \notin ToSet(t)
  <2>1. \A n \in 1 .. Len(q) - 1 : n + 1 \in 1 .. Len(q) /\ n + 1 # 1
    BY <1>1
  <2>2. IsInjective(t)
    <3>1. ASSUME NEW i \in 1 .. Len(q) - 1, NEW j \in 1 .. Len(q) - 1, t[i] = t[j]
          PROVE  i = j
      <4>1. q[i + 1] = q[j + 1] /\ i + 1 \in DOMAIN q /\ j + 1 \in DOMAIN q
        BY <1>1, <2>1, <3>1
      <4>2. i + 1 = j + 1
        BY <1>3, <4>1 DEF IsInjective
      <4> QED BY <4>2
    <3> QED BY <1>1, <3>1 DEF IsInjective
  <2>3. Head(q) \notin ToSet(t)
    <3>1. SUFFICES ASSUME NEW i \in 1 .. Len(q) - 1, t[i] = Head(q)  PROVE FALSE
      BY <1>1 DEF ToSet
    <3>2. q[i + 1] = q[1] /\ i + 1 \in DOMAIN q /\ 1 \in DOMAIN q
      BY <1>1, <2>1, <3>1
    <3>3. i + 1 = 1
      BY <1>3, <3>2 DEF IsInjective
    <3> QED BY <3>3
  <2> QED BY <2>2, <2>3
<1> QED BY <1>1, <1>2, <1>3 DEF t

-------------------------------------------------------------------------------
(* The inductive invariant.                                                  *)

Asked == Requests \cup {NoRequest}
AllLines == [kind : {"banner", "prompt", "echo", "output"}, of : Asked]
AllPending == [req : Asked, awaitingEcho : BOOLEAN, lines : Seq(AllLines)]

\* What a promise resolved with is left open here: it is CleanAnswer's subject.
Promised(o) ==
    /\ o = [r \in Requests |-> o[r]]
    /\ \A r \in Requests :
          o[r].state \in {"new", "unsettled", "rejected", "resolved", "gone"}

Shapes ==
    /\ link \in {"up", "down", "ended"} /\ connected \in BOOLEAN /\ clean \in BOOLEAN
    /\ closes \in 0 .. MaxCloses
    /\ pending \in AllPending
    /\ queue \in Seq(Requests)
    /\ Promised(outcome)
    /\ toServer \in Seq(Asked) /\ toClient \in Seq(AllLines)
    /\ link # "up" => ~connected /\ toServer = <<>> /\ toClient = <<>>

\* A pending request p and a queue q that hold no request twice, and whom they hold.
Lined(p, q) ==
    /\ p.req = NoRequest => p = Nothing
    /\ IsInjective(q)
    /\ p.req \notin ToSet(q)

Held(p, q) == ToSet(q) \cup ({p.req} \ {NoRequest})

Unsettled(o) == {r \in Requests : o[r].state = "unsettled"}

\* What the code keeps true at every step: a promise is unsettled exactly while its
\* request is held, and NeverIdleWithWork, which Drain needs the rest for.
VtyInv ==
    /\ Shapes
    /\ Lined(pending, queue)
    /\ Unsettled(outcome) = Held(pending, queue)
    /\ NeverIdleWithWork

\* The invariant contains what the runs check.
LEMMA InvIsTyped == VtyInv => VtyTypeOK
<1> SUFFICES ASSUME VtyInv  PROVE VtyTypeOK
  OBVIOUS
<1>1. \A n \in DOMAIN pending.lines : IsLine(pending.lines[n])
  <2>1. pending.lines \in Seq(AllLines)
    BY DEF VtyInv, Shapes, AllPending
  <2>2. \A n \in DOMAIN pending.lines : pending.lines[n] \in AllLines
    BY <2>1
  <2> QED BY <2>2 DEF AllLines, IsLine, Asked
<1>2. \A n \in DOMAIN toClient : IsLine(toClient[n])
  <2>1. toClient \in Seq(AllLines)
    BY DEF VtyInv, Shapes
  <2>2. \A n \in DOMAIN toClient : toClient[n] \in AllLines
    BY <2>1
  <2> QED BY <2>2 DEF AllLines, IsLine, Asked
<1>3. ToSet(toServer) \subseteq Requests \cup {NoRequest}
  BY DEF VtyInv, Shapes, Asked, ToSet
<1>4. \A r \in Requests : outcome[r].state \in {"new", "unsettled", "rejected", "resolved", "gone"}
  BY DEF VtyInv, Shapes, Promised
<1>5. pending.req \in Requests \cup {NoRequest} /\ pending.awaitingEcho \in BOOLEAN
  BY DEF VtyInv, Shapes, AllPending, Asked
<1> QED BY <1>1, <1>2, <1>3, <1>4, <1>5
        DEF VtyInv, VtyTypeOK, Shapes, Lined, Held, Unsettled

\* drainQueue starts the next request when it can and loses none.
LEMMA DrainKeeps ==
    ASSUME VtyInv
    PROVE  \A up \in BOOLEAN, p \in AllPending, q \in Seq(Requests), rest \in Seq(AllLines) :
               Lined(p, q) /\ Drain(up, p, q, rest)
               => /\ pending' \in AllPending /\ queue' \in Seq(Requests)
                  /\ toServer' \in Seq(Asked) /\ clean' \in BOOLEAN
                  /\ Lined(pending', queue')
                  /\ Held(pending', queue') = Held(p, q)
                  /\ up /\ queue' # <<>> => pending' # Nothing
                  /\ ~up => toServer' = toServer
<1> SUFFICES ASSUME NEW up \in BOOLEAN, NEW p \in AllPending, NEW q \in Seq(Requests),
                    NEW rest \in Seq(AllLines), Lined(p, q), Drain(up, p, q, rest)
             PROVE  /\ pending' \in AllPending /\ queue' \in Seq(Requests)
                    /\ toServer' \in Seq(Asked) /\ clean' \in BOOLEAN
                    /\ Lined(pending', queue')
                    /\ Held(pending', queue') = Held(p, q)
                    /\ up /\ queue' # <<>> => pending' # Nothing
                    /\ ~up => toServer' = toServer
  OBVIOUS
<1>1. toServer \in Seq(Asked) /\ clean \in BOOLEAN
  BY DEF VtyInv, Shapes
<1>2. CASE up /\ p = Nothing /\ q # <<>>
  <2>1. /\ pending' = Sent(Head(q)) /\ queue' = Tail(q)
        /\ toServer' = Append(toServer, Head(q))
    BY <1>2 DEF Drain
  <2>2. clean' \in BOOLEAN
    <3>1. clean' = (ToSet(toServer) \subseteq {NoRequest} /\ ToSet(rest) \subseteq {Prompt})
      BY <1>2 DEF Drain
    <3> QED BY <3>1
  <2>3. /\ Head(q) \in Requests /\ Tail(q) \in Seq(Requests)
        /\ ToSet(q) = {Head(q)} \cup ToSet(Tail(q))
        /\ IsInjective(Tail(q)) /\ Head(q) \notin ToSet(Tail(q))
    BY <1>2, ShiftedQueue DEF Lined
  <2>4. Head(q) # NoRequest
    BY <2>3, VtyClientAssumption
  <2>5. <<>> \in Seq(AllLines)
    OBVIOUS
  <2>6. /\ pending' \in AllPending /\ pending'.req = Head(q) /\ pending' # Nothing
        /\ p.req = NoRequest
    BY <1>2, <2>1, <2>3, <2>4, <2>5 DEF Sent, Nothing, AllPending, Asked
  <2>7. toServer' \in Seq(Asked)
    BY <1>1, <2>1, <2>3 DEF Asked
  <2>8. Lined(pending', queue')
    BY <2>1, <2>3, <2>4, <2>6 DEF Lined
  <2>9. Held(pending', queue') = Held(p, q)
    BY <2>1, <2>3, <2>4, <2>6 DEF Held
  <2> QED BY <1>2, <2>1, <2>2, <2>3, <2>6, <2>7, <2>8, <2>9
<1>3. CASE ~(up /\ p = Nothing /\ q # <<>>)
  <2>1. pending' = p /\ queue' = q /\ toServer' = toServer /\ clean' = clean
    BY <1>3 DEF Drain
  <2> QED BY <1>1, <1>3, <2>1
<1> QED BY <1>2, <1>3

\* The values the actions put into the variables have their shapes.
LEMMA ValueShapes ==
    /\ Nothing \in AllPending /\ Nothing.req = NoRequest
    /\ \A state \in {"new", "unsettled", "rejected", "resolved", "gone"} :
          Promise(state).state = state
    /\ \A lines : Resolved(lines).state = "resolved"
    /\ Banner \in AllLines /\ Prompt \in AllLines
    /\ \A r \in Requests : Echo(r) \in AllLines /\ Output(r) \in Seq(AllLines)
<1>1. <<>> \in Seq(AllLines)
  OBVIOUS
<1>2. Nothing \in AllPending /\ Nothing.req = NoRequest
  BY <1>1 DEF Nothing, AllPending, Asked
<1>3. ASSUME NEW state \in {"new", "unsettled", "rejected", "resolved", "gone"}
      PROVE  Promise(state).state = state
  BY DEF Promise
<1>4. ASSUME NEW lines  PROVE Resolved(lines).state = "resolved"
  BY DEF Resolved
<1>5. Banner \in AllLines /\ Prompt \in AllLines
  BY DEF Banner, Prompt, Line, AllLines, Asked
<1>6. ASSUME NEW r \in Requests  PROVE Echo(r) \in AllLines /\ Output(r) \in Seq(AllLines)
  <2>1. Echo(r) \in AllLines /\ Line("output", r) \in AllLines
    BY DEF Echo, Line, AllLines, Asked
  <2>2. Size[r] \in Nat
    BY VtyClientAssumption
  <2> QED BY <2>1, <2>2 DEF Output
<1> QED BY <1>2, <1>3, <1>4, <1>5, <1>6

\* Some value is put into the promise of the pending request, and it settles it.
Settled ==
    /\ outcome' = [outcome EXCEPT ![pending.req] = outcome'[pending.req]]
    /\ outcome'[pending.req].state \in {"rejected", "resolved"}

LEMMA PendingIsAsked ==
    VtyInv /\ pending # Nothing => pending.req \in DOMAIN outcome /\ pending.req \in Requests
<1> SUFFICES ASSUME VtyInv, pending # Nothing
             PROVE  pending.req \in DOMAIN outcome /\ pending.req \in Requests
  OBVIOUS
<1>1. pending.req \in Requests
  BY DEF VtyInv, Shapes, Lined, AllPending, Asked
<1>2. DOMAIN outcome = Requests
  BY DEF VtyInv, Shapes, Promised
<1> QED BY <1>1, <1>2

\* Settling the pending request takes it off the books and lets go of it.
LEMMA SettledIsReleased ==
    VtyInv /\ pending # Nothing /\ Settled
    => Promised(outcome') /\ Unsettled(outcome') = Held(Nothing, queue) /\ Lined(Nothing, queue)
<1> SUFFICES ASSUME VtyInv, pending # Nothing, Settled
             PROVE  /\ Promised(outcome')
                    /\ Unsettled(outcome') = Held(Nothing, queue)
                    /\ Lined(Nothing, queue)
  OBVIOUS
<1>1. pending.req \in Requests /\ pending.req \notin ToSet(queue)
  BY PendingIsAsked DEF VtyInv, Lined
<1>2. Promised(outcome)
  BY DEF VtyInv, Shapes
<1>3. Promised(outcome')
  BY <1>1, <1>2 DEF Promised, Settled
<1>4. Unsettled(outcome') = Unsettled(outcome) \ {pending.req}
  BY <1>1, <1>2 DEF Unsettled, Promised, Settled
<1>5. ToSet(queue) \subseteq Requests
  BY DEF VtyInv, Shapes, ToSet
<1>6. NoRequest \notin ToSet(queue)
  BY <1>5, VtyClientAssumption
<1>7. Unsettled(outcome) = ToSet(queue) \cup {pending.req}
  BY <1>1, VtyClientAssumption DEF VtyInv, Held
<1>8. Held(Nothing, queue) = ToSet(queue)
  BY ValueShapes DEF Held
<1>9. Lined(Nothing, queue)
  BY <1>6, ValueShapes DEF VtyInv, Lined
<1> QED BY <1>1, <1>3, <1>4, <1>7, <1>8, <1>9

-------------------------------------------------------------------------------
(* Every action keeps the invariant.                                         *)

LEMMA InvAtInit == VtyInit => VtyInv
<1> SUFFICES ASSUME VtyInit  PROVE VtyInv
  OBVIOUS
<1>1. Shapes
  <2>1. <<>> \in Seq(Requests) /\ <<>> \in Seq(Asked) /\ <<>> \in Seq(AllLines)
    OBVIOUS
  <2>2. closes \in 0 .. MaxCloses
    BY VtyClientAssumption DEF VtyInit
  <2>3. Promised(outcome)
    BY ValueShapes DEF VtyInit, Promised
  <2> QED BY <2>1, <2>2, <2>3, ValueShapes DEF VtyInit, Shapes
<1>2. ToSet(<<>>) = {}
  BY DEF ToSet
<1>3. Lined(pending, queue)
  BY <1>2, ValueShapes DEF VtyInit, Lined, IsInjective
<1>4. Unsettled(outcome) = {} /\ Held(pending, queue) = {}
  BY <1>2, ValueShapes DEF VtyInit, Unsettled, Held
<1> QED BY <1>1, <1>3, <1>4 DEF VtyInv, NeverIdleWithWork, VtyInit

LEMMA ExecKeeps ==
    ASSUME VtyInv, NEW r \in Requests, Exec(r)
    PROVE  VtyInv'
<1> DEFINE q == Append(queue, r)
<1>1. /\ outcome[r].state = "new"
      /\ outcome' = [outcome EXCEPT ![r] = Promise("unsettled")]
      /\ Drain(connected, pending, q, toClient)
      /\ UNCHANGED <<link, connected, toClient, closes>>
  BY DEF Exec
<1>2. /\ Promised(outcome) /\ queue \in Seq(Requests)
      /\ pending \in AllPending /\ connected \in BOOLEAN /\ toClient \in Seq(AllLines)
      /\ Lined(pending, queue) /\ Unsettled(outcome) = Held(pending, queue)
  BY DEF VtyInv, Shapes
<1>3. r \notin Held(pending, queue)
  BY <1>1, <1>2 DEF Unsettled
<1>4. r # NoRequest
  BY VtyClientAssumption
<1>5. /\ q \in Seq(Requests) /\ ToSet(q) = ToSet(queue) \cup {r}
      /\ IsInjective(q)
  BY <1>2, <1>3, AppendedQueue DEF Held, Lined
<1>6. Lined(pending, q)
  BY <1>2, <1>3, <1>4, <1>5 DEF Lined, Held
<1>7. Held(pending, q) = Held(pending, queue) \cup {r}
  BY <1>5 DEF Held
<1>8. /\ Promised(outcome')
      /\ Unsettled(outcome') = Unsettled(outcome) \cup {r}
  BY <1>1, <1>2, ValueShapes DEF Unsettled, Promised
<1> HIDE DEF q
<1>9. /\ pending' \in AllPending /\ queue' \in Seq(Requests)
      /\ toServer' \in Seq(Asked) /\ clean' \in BOOLEAN
      /\ Lined(pending', queue')
      /\ Held(pending', queue') = Held(pending, q)
      /\ connected /\ queue' # <<>> => pending' # Nothing
      /\ ~connected => toServer' = toServer
  BY <1>1, <1>2, <1>5, <1>6, DrainKeeps
<1>10. Shapes'
  BY <1>1, <1>8, <1>9 DEF VtyInv, Shapes
<1>11. Unsettled(outcome') = Held(pending', queue')
  BY <1>2, <1>7, <1>8, <1>9
<1>12. NeverIdleWithWork'
  BY <1>1, <1>9 DEF NeverIdleWithWork
<1> QED BY <1>9, <1>10, <1>11, <1>12 DEF VtyInv

\* The two ways of settling the pending request that go on with the queue.
LEMMA SettleAndDrainKeeps ==
    ASSUME VtyInv, pending # Nothing, Settled,
           \E rest \in Seq(AllLines) : Drain(connected, Nothing, queue, rest),
           UNCHANGED <<link, connected, closes>>,
           toClient' \in Seq(AllLines), toClient = <<>> => toClient' = <<>>
    PROVE  VtyInv'
<1>1. queue \in Seq(Requests) /\ connected \in BOOLEAN
  BY DEF VtyInv, Shapes
<1>2. /\ Promised(outcome')
      /\ Unsettled(outcome') = Held(Nothing, queue)
      /\ Lined(Nothing, queue)
  BY SettledIsReleased
<1>3. PICK rest \in Seq(AllLines) : Drain(connected, Nothing, queue, rest)
  OBVIOUS
<1>4. /\ pending' \in AllPending /\ queue' \in Seq(Requests)
      /\ toServer' \in Seq(Asked) /\ clean' \in BOOLEAN
      /\ Lined(pending', queue')
      /\ Held(pending', queue') = Held(Nothing, queue)
      /\ connected /\ queue' # <<>> => pending' # Nothing
      /\ ~connected => toServer' = toServer
  BY <1>1, <1>2, <1>3, DrainKeeps, ValueShapes
<1>5. Shapes'
  BY <1>2, <1>4 DEF VtyInv, Shapes
<1> QED BY <1>2, <1>4, <1>5 DEF VtyInv, NeverIdleWithWork

\* What the ways through onLine that settle nothing and take nothing from the queue do.
LEMMA QuietLineKeeps ==
    ASSUME VtyInv, toClient # <<>>,
           pending' \in AllPending, pending'.req = pending.req,
           pending' = Nothing <=> pending = Nothing,
           toClient' = Tail(toClient),
           UNCHANGED <<link, closes, connected, queue, outcome, toServer, clean>>
    PROVE  VtyInv'
<1>1. Shapes'
  <2>1. toClient' \in Seq(AllLines)
    BY DEF VtyInv, Shapes
  <2>2. link = "up"
    BY DEF VtyInv, Shapes
  <2> QED BY <2>1, <2>2 DEF VtyInv, Shapes
<1>2. Lined(pending', queue')
  BY DEF VtyInv, Lined
<1>3. Unsettled(outcome') = Held(pending', queue')
  BY DEF VtyInv, Held
<1>4. NeverIdleWithWork'
  BY DEF VtyInv, NeverIdleWithWork
<1> QED BY <1>1, <1>2, <1>3, <1>4 DEF VtyInv

LEMMA OnLineKeeps ==
    ASSUME VtyInv, OnLine
    PROVE  VtyInv'
<1> DEFINE line == Head(toClient)
<1>1. /\ toClient # <<>> /\ toClient' = Tail(toClient) /\ UNCHANGED <<link, closes>>
      /\ Ready(line) \/ Ignored(line) \/ EchoSeen(line) \/ Collected(line) \/ Answered(line)
  BY DEF OnLine
<1>2. /\ line \in AllLines /\ Tail(toClient) \in Seq(AllLines)
      /\ pending \in AllPending /\ queue \in Seq(Requests)
      /\ link = "up" /\ Lined(pending, queue)
  BY <1>1 DEF VtyInv, Shapes
<1> HIDE DEF line
<1>3. CASE Ready(line)
  <2>1. /\ Drain(TRUE, pending, queue, Tail(toClient))
        /\ connected' = TRUE /\ outcome' = outcome
    BY <1>3 DEF Ready
  <2>2. /\ pending' \in AllPending /\ queue' \in Seq(Requests)
        /\ toServer' \in Seq(Asked) /\ clean' \in BOOLEAN
        /\ Lined(pending', queue')
        /\ Held(pending', queue') = Held(pending, queue)
        /\ queue' # <<>> => pending' # Nothing
    BY <1>2, <2>1, DrainKeeps
  <2>3. Shapes'
    BY <1>1, <1>2, <2>1, <2>2 DEF VtyInv, Shapes
  <2>4. Unsettled(outcome') = Held(pending', queue')
    BY <2>1, <2>2 DEF VtyInv
  <2>5. NeverIdleWithWork'
    BY <2>2 DEF NeverIdleWithWork
  <2> QED BY <2>2, <2>3, <2>4, <2>5 DEF VtyInv
<1>4. CASE Ignored(line)
  BY <1>1, <1>2, <1>4, QuietLineKeeps DEF Ignored
<1>5. CASE EchoSeen(line)
  <2>1. /\ pending # Nothing /\ pending' = PastEcho(pending.lines)
        /\ UNCHANGED <<connected, queue, outcome, toServer, clean>>
    BY <1>5 DEF EchoSeen
  <2>2. pending' \in AllPending /\ pending'.req = pending.req
    BY <1>2, <2>1 DEF AllPending, PastEcho
  <2>3. pending' # Nothing
    BY <1>2, <2>1, <2>2, ValueShapes DEF Lined
  <2> QED BY <1>1, <2>1, <2>2, <2>3, QuietLineKeeps
<1>6. CASE Collected(line)
  <2>1. /\ pending # Nothing
        /\ pending' = PastEcho(Append(pending.lines, line))
        /\ UNCHANGED <<connected, queue, outcome, toServer, clean>>
    BY <1>6 DEF Collected
  <2>2. pending.req \in Asked /\ Append(pending.lines, line) \in Seq(AllLines)
    BY <1>2 DEF AllPending
  <2>3. pending' \in AllPending /\ pending'.req = pending.req
    BY <2>1, <2>2 DEF AllPending, PastEcho
  <2>4. pending' # Nothing
    BY <1>2, <2>1, <2>3, ValueShapes DEF Lined
  <2> QED BY <1>1, <2>1, <2>3, <2>4, QuietLineKeeps
<1>7. CASE Answered(line)
  <2> DEFINE lines == Filtered(pending.lines, pending.req)
  <2>1. /\ pending # Nothing /\ connected
        /\ outcome' = [outcome EXCEPT ![pending.req] = Resolved(lines)]
        /\ Drain(TRUE, Nothing, queue, Tail(toClient))
        /\ connected' = connected
    BY <1>7 DEF Answered
  <2> HIDE DEF lines
  <2>3. Settled
    <3>1. outcome'[pending.req] = Resolved(lines)
      BY <2>1, PendingIsAsked
    <3> QED BY <2>1, <3>1, ValueShapes DEF Settled
  <2>4. connected = TRUE
    BY <2>1 DEF VtyInv, Shapes
  <2>5. \E rest \in Seq(AllLines) : Drain(connected, Nothing, queue, rest)
    BY <1>2, <2>1, <2>4
  <2> QED BY <1>1, <1>2, <2>1, <2>3, <2>5, SettleAndDrainKeeps
<1> QED BY <1>1, <1>3, <1>4, <1>5, <1>6, <1>7

LEMMA TimeoutKeeps ==
    ASSUME VtyInv, Timeout
    PROVE  VtyInv'
<1>1. /\ pending # Nothing
      /\ outcome' = [outcome EXCEPT ![pending.req] = Promise("rejected")]
      /\ Drain(connected, Nothing, queue, toClient)
      /\ UNCHANGED <<link, connected, toClient, closes>>
  BY DEF Timeout
<1>2. toClient \in Seq(AllLines)
  BY DEF VtyInv, Shapes
<1>3. Settled
  <2>1. outcome'[pending.req] = Promise("rejected")
    BY <1>1, PendingIsAsked
  <2> QED BY <1>1, <2>1, ValueShapes DEF Settled
<1>4. \E rest \in Seq(AllLines) : Drain(connected, Nothing, queue, rest)
  BY <1>1, <1>2
<1> QED BY <1>1, <1>2, <1>3, <1>4, SettleAndDrainKeeps

LEMMA ConnectKeeps ==
    ASSUME VtyInv, Connect
    PROVE  VtyInv'
<1>1. <<NoRequest>> \in Seq(Asked) /\ <<Banner, Prompt>> \in Seq(AllLines)
  BY ValueShapes DEF Asked
<1>2. Shapes'
  BY <1>1 DEF VtyInv, Shapes, Connect
<1> QED BY <1>2 DEF VtyInv, Connect, Lined, Unsettled, Held, NeverIdleWithWork

LEMMA LostKeeps ==
    ASSUME VtyInv, Lost, pending' \in AllPending, Promised(outcome'),
           Lined(pending', queue'), Unsettled(outcome') = Held(pending', queue')
    PROVE  VtyInv'
<1>1. /\ link = "up" /\ link' = "down" /\ connected' = FALSE /\ clean' = FALSE
      /\ toServer' = <<>> /\ toClient' = <<>>
      /\ closes < MaxCloses /\ closes' = closes + 1 /\ queue' = queue
  BY DEF Lost
<1>2. closes' \in 0 .. MaxCloses
  BY <1>1, VtyClientAssumption DEF VtyInv, Shapes
<1>3. /\ pending' \in AllPending /\ queue' \in Seq(Requests)
      /\ Promised(outcome')
      /\ toServer' \in Seq(Asked) /\ toClient' \in Seq(AllLines)
  BY <1>1 DEF VtyInv, Shapes
<1>4. Shapes'
  BY <1>1, <1>2, <1>3 DEF Shapes
<1> QED BY <1>1, <1>4 DEF VtyInv, NeverIdleWithWork

LEMMA ConnectErrorKeeps ==
    ASSUME VtyInv, ConnectError
    PROVE  VtyInv'
<1>1. Lost /\ pending' = Nothing /\ queue' = queue
  BY DEF ConnectError, Lost
<1>2. CASE pending = Nothing
  <2>1. outcome' = outcome /\ pending' = pending
    BY <1>1, <1>2 DEF ConnectError
  <2> QED BY <1>1, <2>1, LostKeeps DEF VtyInv, Shapes
<1>3. CASE pending # Nothing
  <2>1. outcome' = [outcome EXCEPT ![pending.req] = Promise("rejected")]
    BY <1>3 DEF ConnectError
  <2>2. Settled
    <3>1. outcome'[pending.req] = Promise("rejected")
      BY <1>3, <2>1, PendingIsAsked
    <3> QED BY <2>1, <3>1, ValueShapes DEF Settled
  <2>3. /\ Promised(outcome')
        /\ Unsettled(outcome') = Held(Nothing, queue)
        /\ Lined(Nothing, queue)
    BY <1>3, <2>1, <2>2, SettledIsReleased
  <2> QED BY <1>1, <2>3, ValueShapes, LostKeeps
<1> QED BY <1>2, <1>3

\* The end of the process leaves nothing held and no promise unsettled.
LEMMA UncaughtErrorKeeps ==
    ASSUME VtyInv, UncaughtError
    PROVE  VtyInv'
<1>1. /\ link' = "ended" /\ connected' = FALSE /\ clean' = FALSE
      /\ pending' = Nothing /\ queue' = <<>> /\ toServer' = <<>> /\ toClient' = <<>>
      /\ outcome' = [r \in Requests |-> IF outcome[r].state = "unsettled" THEN Promise("gone")
                                        ELSE outcome[r]]
      /\ closes' = closes
  BY DEF UncaughtError
<1>2. Promised(outcome)
  BY DEF VtyInv, Shapes
<1>3. \A r \in Requests : /\ outcome'[r].state \in {"new", "rejected", "resolved", "gone"}
                          /\ outcome'[r].state # "unsettled"
  BY <1>1, <1>2, ValueShapes DEF Promised
<1>4. Promised(outcome') /\ Unsettled(outcome') = {}
  BY <1>1, <1>3 DEF Promised, Unsettled
<1>5. /\ <<>> \in Seq(Requests) /\ <<>> \in Seq(Asked) /\ <<>> \in Seq(AllLines)
      /\ ToSet(<<>>) = {} /\ IsInjective(<<>>)
  BY DEF ToSet, IsInjective
<1>6. Lined(pending', queue') /\ Held(pending', queue') = {}
  BY <1>1, <1>5, ValueShapes DEF Lined, Held
<1>7. Shapes'
  BY <1>1, <1>4, <1>5, ValueShapes DEF VtyInv, Shapes
<1> QED BY <1>1, <1>4, <1>6, <1>7 DEF VtyInv, NeverIdleWithWork

LEMMA RespondKeeps ==
    ASSUME VtyInv, Respond
    PROVE  VtyInv'
<1> DEFINE r == Head(toServer)
<1>1. /\ toServer # <<>> /\ toServer' = Tail(toServer)
      /\ UNCHANGED <<link, connected, pending, queue, outcome, clean, closes>>
  BY DEF Respond
<1>2. /\ toServer \in Seq(Asked) /\ r \in Asked /\ toServer' \in Seq(Asked)
      /\ toClient \in Seq(AllLines) /\ link = "up"
  BY <1>1 DEF VtyInv, Shapes
<1>3. toClient' \in Seq(AllLines)
  <2>1. CASE r = NoRequest
    <3>1. PICK answer \in {<<>>, <<Prompt>>} : toClient' = toClient \o answer
      BY <2>1 DEF Respond
    <3>2. <<>> \in Seq(AllLines) /\ <<Prompt>> \in Seq(AllLines)
      BY ValueShapes
    <3>3. answer \in Seq(AllLines)
      BY <3>1, <3>2
    <3> QED BY <1>2, <3>1, <3>3
  <2>2. CASE r # NoRequest
    <3>1. PICK echo \in {<<>>, <<Echo(r)>>} :
              toClient' = toClient \o echo \o Append(Output(r), Prompt)
      BY <2>2 DEF Respond
    <3>2. r \in Requests
      BY <1>2, <2>2 DEF Asked
    <3>3. Echo(r) \in AllLines /\ Output(r) \in Seq(AllLines) /\ Prompt \in AllLines
      BY <3>2, ValueShapes
    <3>4. Append(Output(r), Prompt) \in Seq(AllLines)
      BY <3>3
    <3>5. <<>> \in Seq(AllLines) /\ <<Echo(r)>> \in Seq(AllLines)
      BY <3>3
    <3>6. echo \in Seq(AllLines)
      BY <3>1, <3>5
    <3> QED BY <1>2, <3>1, <3>4, <3>6
  <2> QED BY <2>1, <2>2
<1>4. Shapes'
  BY <1>1, <1>2, <1>3 DEF VtyInv, Shapes
<1> QED BY <1>1, <1>4 DEF VtyInv, Lined, Unsettled, Held, NeverIdleWithWork

LEMMA InvKept == VtyInv /\ [VtyNext]_vtyVars => VtyInv'
<1> SUFFICES ASSUME VtyInv, [VtyNext]_vtyVars  PROVE VtyInv'
  OBVIOUS
<1>1. ASSUME NEW r \in Requests, Exec(r)  PROVE VtyInv'
  BY <1>1, ExecKeeps
<1>2. CASE OnLine
  BY <1>2, OnLineKeeps
<1>3. CASE Timeout
  BY <1>3, TimeoutKeeps
<1>4. CASE Connect
  BY <1>4, ConnectKeeps
<1>5. CASE Closed
  <2>1. Lost /\ UNCHANGED <<pending, outcome, queue>>
    BY <1>5 DEF Closed, Lost
  <2> QED BY <2>1, LostKeeps DEF VtyInv, Shapes
<1>6. CASE ConnectError
  BY <1>6, ConnectErrorKeeps
<1>7. CASE UncaughtError
  BY <1>7, UncaughtErrorKeeps
<1>8. CASE Respond
  BY <1>8, RespondKeeps
<1>9. CASE UNCHANGED vtyVars
  BY <1>9 DEF vtyVars, VtyInv, Shapes, Lined, Unsettled, Held, NeverIdleWithWork
<1> QED BY <1>1, <1>2, <1>3, <1>4, <1>5, <1>6, <1>7, <1>8, <1>9 DEF VtyNext

-------------------------------------------------------------------------------
(* The answer of a request that was sent when nothing of another was on its   *)
(* way: with clean, what is still to come is told by the pending request p,   *)
(* the commands s the server has yet to read and the lines c on their way.    *)

OutputLine(r) == Line("output", r)
Prompts(c) == \A n \in 1 .. Len(c) : c[n] = Prompt

\* c is r's output from its k-th line on, after j other lines, and the prompt.
Rest(r, k, j, c) ==
    /\ Len(c) = j + (Size[r] - k) + 1
    /\ \A n \in 1 .. Size[r] - k : c[j + n] = OutputLine(r)
    /\ c[Len(c)] = Prompt

\* The server has yet to read it, after empty commands.
Unread(p, s, c) ==
    /\ p.awaitingEcho /\ p.lines = <<>> /\ Prompts(c)
    /\ s # <<>> /\ s[Len(s)] = p.req
    /\ \A n \in 1 .. Len(s) - 1 : s[n] = NoRequest

\* The answer is on its way, whole, behind some prompts, with its echo or without.
OnItsWay(p, s, c) ==
    /\ p.awaitingEcho /\ p.lines = <<>> /\ s = <<>>
    /\ \E j \in 0 .. Len(c) :
          /\ \A n \in 1 .. j : c[n] = Prompt
          /\ \/ Rest(p.req, 0, j, c)
             \/ Rest(p.req, 0, j + 1, c) /\ c[j + 1] = Echo(p.req)

\* It had neither echo nor output, and its prompt was skipped.
Missed(p, s, c) == p.awaitingEcho /\ p.lines = <<>> /\ s = <<>> /\ Prompts(c)

\* Its first lines were collected, the others are on their way.
Arriving(p, s, c) ==
    /\ ~p.awaitingEcho /\ s = <<>>
    /\ Len(p.lines) <= Size[p.req]
    /\ \A n \in 1 .. Len(p.lines) : p.lines[n] = OutputLine(p.req)
    /\ Rest(p.req, Len(p.lines), 0, c)

CleanSound(p, s, c) ==
    p # Nothing => Unread(p, s, c) \/ OnItsWay(p, s, c) \/ Missed(p, s, c) \/ Arriving(p, s, c)

CleanInv == clean => connected /\ CleanSound(pending, toServer, toClient)

\* A set of naturals that is not empty has a least element.
LEMMA LeastOfNats ==
    ASSUME NEW T, T \subseteq Nat, T # {}
    PROVE  \E x \in T : \A y \in T : x <= y
<1> DEFINE R == {ss \in Nat \X Nat : ss[1] < ss[2]}
<1>1. IsWellFoundedOn(R, Nat)
  BY NatLessThanWellFounded DEF OpToRel
<1>2. \A x, y \in T : <<y, x>> \notin R => x <= y
  BY SMT
<1> HIDE DEF R
<1>3. \E x \in T : \A y \in T : <<y, x>> \notin R
  BY <1>1, WFMin
<1> QED BY <1>2, <1>3

\* The filter takes nothing away when the command is not among the lines.
LEMMA NothingFiltered ==
    ASSUME NEW lines \in Seq(AllLines), NEW r, \A n \in 1 .. Len(lines) : lines[n] # Echo(r)
    PROVE  Filtered(lines, r) = lines
<1> DEFINE D == 0 .. Len(lines)
           Step(f, n) == IF n = 0 THEN <<>>
                         ELSE IF lines[n] = Echo(r) THEN f[n - 1]
                         ELSE Append(f[n - 1], lines[n])
           Is(f) == f = [n \in D |-> Step(f, n)]
           first(n) == SubSeq(lines, 1, n)
           kept == CHOOSE f : Is(f)
<1>1. Len(lines) \in Nat /\ first(0) = <<>> /\ first(Len(lines)) = lines
  OBVIOUS
<1>2. ASSUME NEW n \in D, n # 0
      PROVE  n - 1 \in D /\ lines[n] # Echo(r) /\ first(n) = Append(first(n - 1), lines[n])
  BY <1>1, <1>2
<1>3. Is([n \in D |-> first(n)])
  <2> DEFINE w == [n \in D |-> first(n)]
  <2>1. ASSUME NEW n \in D  PROVE first(n) = Step(w, n)
    <3>1. CASE n = 0
      BY <1>1, <3>1
    <3>2. CASE n # 0
      <4>1. w[n - 1] = first(n - 1)
        BY <1>2, <3>2
      <4> HIDE DEF w, first
      <4> QED BY <1>2, <3>2, <4>1
    <3> QED BY <3>1, <3>2
  <2> QED BY <2>1, Zenon
<1>4. Is(kept)
  <2> HIDE DEF Is
  <2> QED BY <1>3
<1>5. ASSUME NEW n \in D  PROVE kept[n] = Step(kept, n)
  <2> HIDE DEF kept, Step
  <2> QED BY <1>4
<1>6. \A n \in D : kept[n] = first(n)
  <2> DEFINE Bad == {n \in D : kept[n] # first(n)}
  <2>1. SUFFICES ASSUME Bad # {}  PROVE FALSE
    OBVIOUS
  <2>2. PICK n \in Bad : \A k \in Bad : n <= k
    <3> HIDE DEF kept, first
    <3>1. Bad \subseteq Nat
      BY <1>1
    <3> HIDE DEF Bad
    <3> QED BY <2>1, <3>1, LeastOfNats
  <2>3. CASE n = 0
    <3> HIDE DEF kept, first
    <3> QED BY <1>1, <1>5, <2>2, <2>3
  <2>4. CASE n # 0
    <3> HIDE DEF kept, first
    <3>1. n - 1 \in D /\ n - 1 \notin Bad
      BY <1>1, <1>2, <2>2, <2>4
    <3> QED BY <1>2, <1>5, <2>2, <2>4, <3>1
  <2> QED BY <2>3, <2>4
<1>7. kept[Len(lines)] = lines
  <2> HIDE DEF kept, first
  <2> QED BY <1>1, <1>6
<1> QED BY <1>7 DEF Filtered

\* A prompt, a command and an output line are told apart.
LEMMA LinesDiffer ==
    ASSUME NEW r, NEW x
    PROVE  Prompt # Echo(r) /\ Prompt # OutputLine(r) /\ Echo(x) # OutputLine(r)
BY DEF Prompt, Echo, OutputLine, Line

\* What taking the first line leaves.
LEMMA OneTaken ==
    ASSUME NEW S, NEW c \in Seq(S), c # <<>>
    PROVE  /\ Len(c) \in Nat /\ Len(c) > 0 /\ Len(Tail(c)) = Len(c) - 1 /\ Head(c) = c[1]
           /\ \A n \in 1 .. Len(c) - 1 : Tail(c)[n] = c[n + 1]
OBVIOUS

\* The request drainQueue sends is yet to be read, with only prompts on their way.
LEMMA SentClean ==
    ASSUME VtyInv, NEW p, NEW q \in Seq(Requests), NEW rest \in Seq(AllLines),
           Drain(TRUE, p, q, rest), p = Nothing, q # <<>>, connected', toClient' = rest
    PROVE  CleanInv'
<1>1. /\ pending' = Sent(Head(q)) /\ toServer' = Append(toServer, Head(q))
      /\ clean' <=> ToSet(toServer) \subseteq {NoRequest} /\ ToSet(rest) \subseteq {Prompt}
  BY DEF Drain
<1>2. toServer \in Seq(Asked) /\ Head(q) \in Asked
  BY DEF VtyInv, Shapes, Asked
<1>3. SUFFICES ASSUME clean'  PROVE Unread(pending', toServer', toClient')
  BY DEF CleanInv, CleanSound
<1>4. pending'.awaitingEcho /\ pending'.lines = <<>> /\ pending'.req = Head(q)
  BY <1>1 DEF Sent
<1>5. Prompts(rest)
  BY <1>1, <1>3 DEF Prompts, ToSet
<1>6. \A n \in 1 .. Len(toServer) : toServer[n] = NoRequest
  <2>1. ToSet(toServer) \subseteq {NoRequest}
    BY <1>1, <1>3
  <2>2. \A n \in 1 .. Len(toServer) : toServer[n] \in ToSet(toServer)
    BY <1>2 DEF ToSet
  <2> QED BY <2>1, <2>2
<1>7. /\ toServer' # <<>> /\ Len(toServer') = Len(toServer) + 1 /\ Len(toServer) \in Nat
      /\ toServer'[Len(toServer')] = Head(q)
      /\ \A n \in 1 .. Len(toServer) : toServer'[n] = toServer[n]
  BY <1>1, <1>2
<1> QED BY <1>4, <1>5, <1>6, <1>7 DEF Unread

\* A request is settled and the next one sent, if there is one.
LEMMA SettledClean ==
    ASSUME VtyInv, CleanInv, NEW rest \in Seq(AllLines), Drain(connected, Nothing, queue, rest),
           connected' = connected, toClient' = rest
    PROVE  CleanInv'
<1>1. connected \in BOOLEAN /\ queue \in Seq(Requests)
  BY DEF VtyInv, Shapes
<1>2. CASE connected /\ queue # <<>>
  <2>1. connected = TRUE
    BY <1>1, <1>2
  <2>2. Drain(TRUE, Nothing, queue, rest)
    BY <2>1
  <2> QED BY <1>1, <1>2, <2>2, SentClean
<1>3. CASE ~(connected /\ queue # <<>>)
  BY <1>3 DEF Drain, CleanInv, CleanSound
<1> QED BY <1>2, <1>3

LEMMA ExecClean ==
    ASSUME VtyInv, CleanInv, NEW r \in Requests, Exec(r)
    PROVE  CleanInv'
<1>1. /\ Drain(connected, pending, Append(queue, r), toClient)
      /\ connected' = connected /\ toClient' = toClient
  BY DEF Exec
<1>2. /\ connected \in BOOLEAN /\ toClient \in Seq(AllLines)
      /\ Append(queue, r) \in Seq(Requests) /\ Append(queue, r) # <<>>
  BY DEF VtyInv, Shapes
<1>3. CASE connected /\ pending = Nothing
  <2>1. connected = TRUE
    BY <1>2, <1>3
  <2>2. Drain(TRUE, pending, Append(queue, r), toClient)
    BY <1>1, <2>1
  <2> QED BY <1>1, <1>2, <1>3, <2>2, SentClean
<1>4. CASE ~(connected /\ pending = Nothing)
  BY <1>1, <1>4 DEF Drain, CleanInv
<1> QED BY <1>3, <1>4

\* A line taken from what is before the rest of an answer, or from the rest itself.
LEMMA RestTaken ==
    ASSUME NEW r, Size[r] \in Nat, NEW k \in 0 .. Size[r], NEW j \in Nat,
           NEW c \in Seq(AllLines), Rest(r, k, j, c)
    PROVE  /\ c # <<>>
           /\ j > 0 => Rest(r, k, j - 1, Tail(c))
           /\ j = 0 /\ k < Size[r] => c[1] = OutputLine(r) /\ Rest(r, k + 1, 0, Tail(c))
           /\ j = 0 /\ k = Size[r] => c[1] = Prompt /\ Len(Tail(c)) = 0
<1> DEFINE d == Tail(c)
           m == Size[r] - k
           e == Len(c)
<1>1. /\ e = j + m + 1 /\ m \in Nat
      /\ \A n \in 1 .. m : c[j + n] = OutputLine(r)
      /\ c[e] = Prompt
  BY DEF Rest
<1>2. c # <<>> /\ e \in Nat
  BY <1>1
<1>3. Len(d) = e - 1 /\ \A n \in 1 .. e - 1 : d[n] = c[n + 1]
  BY <1>2, OneTaken
<1>4. k < Size[r] => m - 1 = Size[r] - (k + 1) /\ m > 0
  OBVIOUS
<1>5. k = Size[r] => m = 0
  OBVIOUS
<1>6. /\ Rest(r, k, j - 1, d) <=> /\ Len(d) = (j - 1) + m + 1 /\ d[Len(d)] = Prompt
                                 /\ \A n \in 1 .. m : d[(j - 1) + n] = OutputLine(r)
      /\ Rest(r, k + 1, 0, d) <=> /\ Len(d) = 0 + (Size[r] - (k + 1)) + 1 /\ d[Len(d)] = Prompt
                                 /\ \A n \in 1 .. Size[r] - (k + 1) : d[0 + n] = OutputLine(r)
  BY DEF Rest
<1> HIDE DEF d, m, e
<1>7. ASSUME e > 1  PROVE d[Len(d)] = Prompt
  <2>1. e - 1 \in 1 .. e - 1 /\ (e - 1) + 1 = e
    BY <1>2, <1>7
  <2>2. d[e - 1] = c[(e - 1) + 1]
    BY <1>3, <2>1
  <2> QED BY <1>1, <1>3, <2>1, <2>2
<1>8. ASSUME j > 0  PROVE Rest(r, k, j - 1, d)
  <2>1. e > 1 /\ Len(d) = (j - 1) + m + 1
    BY <1>1, <1>3, <1>8
  <2>2. ASSUME NEW n \in 1 .. m  PROVE d[(j - 1) + n] = OutputLine(r)
    <3>1. (j - 1) + n \in 1 .. e - 1 /\ ((j - 1) + n) + 1 = j + n
      BY <1>1, <1>8
    <3> QED BY <1>1, <1>3, <3>1
  <2> QED BY <1>6, <1>7, <2>1, <2>2
<1>9. ASSUME j = 0, k < Size[r]  PROVE c[1] = OutputLine(r) /\ Rest(r, k + 1, 0, d)
  <2>1. 1 \in 1 .. m /\ e > 1 /\ Len(d) = 0 + (Size[r] - (k + 1)) + 1
    BY <1>1, <1>3, <1>4, <1>9
  <2>2. c[1] = OutputLine(r)
    <3>1. c[0 + 1] = OutputLine(r)
      BY <1>1, <1>9, <2>1
    <3> QED BY <3>1
  <2>3. ASSUME NEW n \in 1 .. Size[r] - (k + 1)  PROVE d[0 + n] = OutputLine(r)
    <3>1. n + 1 \in 1 .. m /\ n \in 1 .. e - 1 /\ 0 + n = n /\ 0 + (n + 1) = n + 1
      BY <1>1, <1>4, <1>9
    <3>2. c[0 + (n + 1)] = OutputLine(r)
      BY <1>1, <1>9, <3>1
    <3> QED BY <1>3, <3>1, <3>2
  <2> QED BY <1>6, <1>7, <2>1, <2>2, <2>3
<1>10. ASSUME j = 0, k = Size[r]  PROVE c[1] = Prompt /\ Len(d) = 0
  <2>1. e = 1
    BY <1>1, <1>5, <1>10
  <2> QED BY <1>1, <1>3, <2>1
<1> QED BY <1>2, <1>8, <1>9, <1>10 DEF d

\* A prompt is skipped while the echo is awaited.
LEMMA PromptSkipped ==
    ASSUME NEW p, NEW s, NEW c \in Seq(AllLines), c # <<>>, Head(c) = Prompt,
           p.awaitingEcho, Size[p.req] \in Nat, CleanSound(p, s, c), p # Nothing
    PROVE  CleanSound(p, s, Tail(c))
<1> DEFINE d == Tail(c)
           r == p.req
<1>1. /\ Len(c) \in Nat /\ Len(c) > 0 /\ Len(d) = Len(c) - 1 /\ c[1] = Prompt
      /\ \A n \in 1 .. Len(c) - 1 : d[n] = c[n + 1]
      /\ d \in Seq(AllLines)
  BY OneTaken
<1> HIDE DEF d
<1>2. Prompts(c) => Prompts(d)
  BY <1>1 DEF Prompts
<1>3. CASE Unread(p, s, c)
  BY <1>2, <1>3 DEF Unread, CleanSound, d
<1>4. CASE Missed(p, s, c)
  BY <1>2, <1>4 DEF Missed, CleanSound, d
<1>5. CASE OnItsWay(p, s, c)
  <2>1. PICK j \in 0 .. Len(c) :
              /\ \A n \in 1 .. j : c[n] = Prompt
              /\ \/ Rest(r, 0, j, c)
                 \/ Rest(r, 0, j + 1, c) /\ c[j + 1] = Echo(r)
    BY <1>5 DEF OnItsWay
  <2>2. CASE j = 0
    <3>1. c[1] # Echo(r) /\ c[1] # OutputLine(r)
      BY <1>1, LinesDiffer
    <3>2. Rest(r, 0, 0, c)
      BY <2>1, <2>2, <3>1
    <3>3. Len(d) = 0
      BY <3>1, <3>2, RestTaken DEF d
    <3>4. Prompts(d)
      BY <3>3 DEF Prompts
    <3> QED BY <1>5, <3>4 DEF OnItsWay, Missed, CleanSound, d
  <2>3. CASE j > 0
    <3>1. j - 1 \in 0 .. Len(d) /\ j \in Nat /\ (j - 1) + 1 = j /\ (j + 1) - 1 = j
      BY <1>1, <2>3
    <3>2. \A n \in 1 .. j - 1 : d[n] = Prompt
      BY <1>1, <2>1, <3>1
    <3>3. ASSUME Rest(r, 0, j, c)  PROVE Rest(r, 0, j - 1, d)
      BY <2>3, <3>1, <3>3, RestTaken DEF d
    <3>4. ASSUME Rest(r, 0, j + 1, c), c[j + 1] = Echo(r)
          PROVE  Rest(r, 0, (j - 1) + 1, d) /\ d[(j - 1) + 1] = Echo(r)
      <4>1. Rest(r, 0, (j + 1) - 1, d)
        BY <2>3, <3>1, <3>4, RestTaken DEF d
      <4>2. j \in 1 .. Len(c) - 1
        BY <1>1, <2>3, <3>1, <3>4 DEF Rest
      <4> QED BY <1>1, <3>1, <3>4, <4>1, <4>2
    <3>5. OnItsWay(p, s, d)
      BY <1>5, <2>1, <3>1, <3>2, <3>3, <3>4 DEF OnItsWay
    <3> QED BY <3>5 DEF CleanSound, d
  <2> QED BY <2>2, <2>3
<1>6. CASE Arriving(p, s, c)
  BY <1>6 DEF Arriving
<1> QED BY <1>3, <1>4, <1>5, <1>6 DEF CleanSound

\* While the echo is awaited, a line that is no prompt is the first of an answer: the
\* echo, or a line of output.
LEMMA AnswerBegins ==
    ASSUME NEW p, NEW s, NEW c \in Seq(AllLines), c # <<>>, Head(c) # Prompt,
           p.awaitingEcho, Size[p.req] \in Nat, CleanSound(p, s, c), p # Nothing
    PROVE  /\ s = <<>> /\ p.lines = <<>>
           /\ \/ Head(c) = Echo(p.req) /\ Rest(p.req, 0, 0, Tail(c))
              \/ Head(c) = OutputLine(p.req) /\ 0 < Size[p.req] /\ Rest(p.req, 0 + 1, 0, Tail(c))
<1> DEFINE r == p.req
<1>1. Len(c) \in Nat /\ Len(c) > 0 /\ Head(c) = c[1]
  BY OneTaken
<1>2. ~Prompts(c)
  BY <1>1 DEF Prompts
<1>3. OnItsWay(p, s, c)
  BY <1>2 DEF CleanSound, Unread, Missed, Arriving
<1>4. PICK j \in 0 .. Len(c) :
          /\ \A n \in 1 .. j : c[n] = Prompt
          /\ \/ Rest(r, 0, j, c)
             \/ Rest(r, 0, j + 1, c) /\ c[j + 1] = Echo(r)
  BY <1>3 DEF OnItsWay
<1>5. j = 0
  <2>1. SUFFICES ASSUME j > 0  PROVE FALSE
    OBVIOUS
  <2> QED BY <1>1, <1>4, <2>1
<1>6. CASE Rest(r, 0, 0, c)
  <2>1. 0 < Size[r]
    BY <1>1, <1>6, RestTaken
  <2> QED BY <1>1, <1>3, <1>6, <2>1, RestTaken DEF OnItsWay
<1>7. CASE Rest(r, 0, 1, c) /\ c[1] = Echo(r)
  <2>1. Rest(r, 0, 1 - 1, Tail(c))
    BY <1>7, RestTaken
  <2> QED BY <1>1, <1>3, <1>7, <2>1 DEF OnItsWay
<1> QED BY <1>4, <1>5, <1>6, <1>7

\* The answer of a request that has begun to arrive goes on with a line of output, and
\* when the prompt comes the lines collected are the whole output.
LEMMA AnswerGoesOn ==
    ASSUME NEW p \in AllPending, NEW s, NEW c \in Seq(AllLines), c # <<>>,
           ~p.awaitingEcho, p.req \in Requests, CleanSound(p, s, c), p # Nothing
    PROVE  /\ s = <<>>
           /\ \A n \in 1 .. Len(p.lines) : p.lines[n] = OutputLine(p.req)
           /\ Head(c) # Prompt => /\ Head(c) = OutputLine(p.req)
                                  /\ Len(p.lines) < Size[p.req]
                                  /\ Rest(p.req, Len(p.lines) + 1, 0, Tail(c))
           /\ Head(c) = Prompt => p.lines = Output(p.req)
<1> DEFINE r == p.req
           k == Len(p.lines)
<1>1. /\ s = <<>> /\ k <= Size[r] /\ Rest(r, k, 0, c)
      /\ \A n \in 1 .. k : p.lines[n] = OutputLine(r)
  BY DEF CleanSound, Unread, OnItsWay, Missed, Arriving
<1>2. Head(c) = c[1]
  BY OneTaken
<1>3. Size[r] \in Nat /\ p.lines \in Seq(AllLines) /\ k \in Nat
  BY VtyClientAssumption DEF AllPending
<1>4. /\ k < Size[r] => c[1] = OutputLine(r) /\ Rest(r, k + 1, 0, Tail(c))
      /\ k = Size[r] => c[1] = Prompt
  <2> HIDE DEF k
  <2> QED BY <1>1, <1>3, RestTaken
<1>5. ASSUME Head(c) # Prompt  PROVE k < Size[r]
  BY <1>1, <1>2, <1>3, <1>4, <1>5
<1>6. ASSUME Head(c) = Prompt  PROVE p.lines = Output(r)
  <2>1. k = Size[r]
    BY <1>1, <1>2, <1>3, <1>4, <1>6, LinesDiffer
  <2>2. p.lines = [n \in 1 .. Size[r] |-> p.lines[n]]
    BY <1>3, <2>1
  <2> QED BY <1>1, <2>1, <2>2 DEF Output, OutputLine
<1> QED BY <1>1, <1>2, <1>4, <1>5, <1>6

LEMMA OnLineClean ==
    ASSUME VtyInv, CleanInv, OnLine
    PROVE  CleanInv'
<1> DEFINE line == Head(toClient)
           r == pending.req
<1>1. /\ toClient # <<>> /\ toClient' = Tail(toClient)
      /\ Ready(line) \/ Ignored(line) \/ EchoSeen(line) \/ Collected(line) \/ Answered(line)
  BY DEF OnLine
<1>2. /\ toClient \in Seq(AllLines) /\ Tail(toClient) \in Seq(AllLines)
      /\ pending \in AllPending /\ queue \in Seq(Requests) /\ connected \in BOOLEAN
  BY <1>1 DEF VtyInv, Shapes
<1>3. pending # Nothing => r \in Requests /\ Size[r] \in Nat
  BY <1>2, VtyClientAssumption DEF VtyInv, Lined, AllPending, Asked
<1>4. ASSUME pending # Nothing, clean  PROVE CleanSound(pending, toServer, toClient)
  BY <1>4 DEF CleanInv
<1> HIDE DEF line, r
<1>5. CASE Ready(line)
  <2>1. /\ ~connected /\ connected' = TRUE
        /\ Drain(TRUE, pending, queue, Tail(toClient))
    BY <1>5 DEF Ready
  <2>2. CASE pending = Nothing /\ queue # <<>>
    BY <1>1, <1>2, <2>1, <2>2, SentClean
  <2>3. CASE ~(pending = Nothing /\ queue # <<>>)
    BY <2>1, <2>3 DEF Drain, CleanInv
  <2> QED BY <2>2, <2>3
<1>6. CASE Ignored(line)
  <2>1. /\ pending = Nothing \/ (pending.awaitingEcho /\ line = Prompt)
        /\ UNCHANGED <<connected, pending, toServer, clean>>
    BY <1>6 DEF Ignored
  <2>2. CASE pending = Nothing
    BY <2>1, <2>2 DEF CleanInv, CleanSound
  <2>3. ASSUME pending # Nothing, clean  PROVE CleanSound(pending, toServer, Tail(toClient))
    BY <1>1, <1>2, <1>3, <1>4, <2>1, <2>3, PromptSkipped DEF line, r
  <2> QED BY <1>1, <2>1, <2>2, <2>3 DEF CleanInv
<1>7. CASE EchoSeen(line)
  <2>1. /\ pending # Nothing /\ pending.awaitingEcho /\ line = Echo(r)
        /\ pending' = PastEcho(pending.lines) /\ UNCHANGED <<connected, toServer, clean>>
    BY <1>7 DEF EchoSeen, r
  <2>2. ASSUME clean  PROVE Arriving(pending', toServer, Tail(toClient))
    <3>1. line # Prompt /\ line # OutputLine(r)
      BY <2>1, LinesDiffer
    <3>2. toServer = <<>> /\ pending.lines = <<>> /\ Rest(r, 0, 0, Tail(toClient))
      BY <1>1, <1>2, <1>3, <1>4, <2>1, <2>2, <3>1, AnswerBegins DEF line, r
    <3>3. pending'.req = r /\ ~pending'.awaitingEcho /\ pending'.lines = <<>>
      BY <2>1, <3>2 DEF PastEcho, r
    <3>4. Len(<<>>) = 0 /\ 0 <= Size[r]
      BY <1>3, <2>1
    <3> QED BY <3>2, <3>3, <3>4 DEF Arriving
  <2> QED BY <1>1, <2>1, <2>2 DEF CleanInv, CleanSound
<1>8. CASE Collected(line)
  <2>1. /\ pending # Nothing /\ line # Prompt
        /\ pending.awaitingEcho => line # Echo(r)
        /\ pending' = PastEcho(Append(pending.lines, line))
        /\ UNCHANGED <<connected, toServer, clean>>
    BY <1>8 DEF Collected, r
  <2> DEFINE k == Len(pending.lines)
             lines == Append(pending.lines, line)
  <2>2. ASSUME clean
        PROVE  /\ toServer = <<>> /\ line = OutputLine(r) /\ k < Size[r]
               /\ \A n \in 1 .. k : pending.lines[n] = OutputLine(r)
               /\ Rest(r, k + 1, 0, Tail(toClient))
    <3>1. CASE pending.awaitingEcho
      <4>1. /\ toServer = <<>> /\ pending.lines = <<>> /\ line = OutputLine(r) /\ 0 < Size[r]
            /\ Rest(r, 0 + 1, 0, Tail(toClient))
        BY <1>1, <1>2, <1>3, <1>4, <2>1, <2>2, <3>1, AnswerBegins DEF line, r
      <4>2. k = 0
        BY <4>1
      <4> HIDE DEF k
      <4> QED BY <4>1, <4>2
    <3>2. CASE ~pending.awaitingEcho
      BY <1>1, <1>2, <1>3, <1>4, <2>1, <2>2, <3>2, AnswerGoesOn DEF line, r
    <3> QED BY <3>1, <3>2
  <2>3. /\ pending'.req = r /\ ~pending'.awaitingEcho /\ pending'.lines = lines
    BY <2>1 DEF PastEcho, r
  <2>4. /\ k \in Nat /\ Len(lines) = k + 1 /\ lines[k + 1] = line
        /\ \A n \in 1 .. k : lines[n] = pending.lines[n]
    BY <1>2 DEF AllPending
  <2> HIDE DEF k, lines
  <2>5. ASSUME clean  PROVE Arriving(pending', toServer, Tail(toClient))
    <3>1. \A n \in 1 .. k + 1 : lines[n] = OutputLine(r)
      BY <2>2, <2>4, <2>5
    <3>2. k + 1 <= Size[r]
      BY <1>3, <2>1, <2>2, <2>4, <2>5
    <3> QED BY <2>2, <2>3, <2>4, <2>5, <3>1, <3>2 DEF Arriving
  <2> QED BY <1>1, <2>1, <2>5 DEF CleanInv, CleanSound
<1>9. CASE Answered(line)
  <2>1. /\ connected /\ Drain(TRUE, Nothing, queue, Tail(toClient)) /\ connected' = connected
    BY <1>9 DEF Answered
  <2>2. Drain(connected, Nothing, queue, Tail(toClient))
    BY <1>2, <2>1
  <2> QED BY <1>1, <1>2, <2>1, <2>2, SettledClean
<1> QED BY <1>1, <1>5, <1>6, <1>7, <1>8, <1>9

\* The elements of two sequences put together.
LEMMA PutTogether ==
    ASSUME NEW S, NEW c \in Seq(S), NEW d \in Seq(S)
    PROVE  /\ c \o d \in Seq(S) /\ Len(c) \in Nat /\ Len(d) \in Nat
           /\ Len(c \o d) = Len(c) + Len(d)
           /\ \A n \in 1 .. Len(c) : (c \o d)[n] = c[n]
           /\ \A n \in 1 .. Len(d) : (c \o d)[Len(c) + n] = d[n]
OBVIOUS

\* The answer of the server, put behind the lines c.
LEMMA AnswerBehind ==
    ASSUME NEW r \in Requests, NEW c \in Seq(AllLines)
    PROVE  Rest(r, 0, Len(c), c \o Append(Output(r), Prompt))
<1> DEFINE A == Append(Output(r), Prompt)
           d == c \o A
           m == Size[r]
<1>1. m \in Nat /\ Output(r) \in Seq(AllLines) /\ Prompt \in AllLines
  BY VtyClientAssumption, ValueShapes
<1>2. Len(Output(r)) = m /\ \A n \in 1 .. m : Output(r)[n] = OutputLine(r)
  BY <1>1 DEF Output, OutputLine
<1>3. /\ A \in Seq(AllLines) /\ Len(A) = m + 1 /\ A[m + 1] = Prompt
      /\ \A n \in 1 .. m : A[n] = OutputLine(r)
  BY <1>1, <1>2
<1> HIDE DEF A
<1>4. /\ Len(c) \in Nat /\ Len(d) = Len(c) + Len(A)
      /\ \A n \in 1 .. Len(A) : d[Len(c) + n] = A[n]
  BY <1>3, PutTogether
<1> HIDE DEF d, m
<1>5. Len(d) = Len(c) + (m - 0) + 1 /\ d[Len(d)] = Prompt
  <2>1. m + 1 \in 1 .. Len(A) /\ Len(d) = Len(c) + (m + 1)
    BY <1>1, <1>3, <1>4
  <2>2. d[Len(c) + (m + 1)] = A[m + 1]
    BY <1>4, <2>1
  <2> QED BY <1>1, <1>3, <1>4, <2>1, <2>2
<1>6. ASSUME NEW n \in 1 .. m - 0  PROVE d[Len(c) + n] = OutputLine(r)
  <2>1. n \in 1 .. Len(A) /\ n \in 1 .. m
    BY <1>1, <1>3
  <2> QED BY <1>3, <1>4, <2>1
<1> QED BY <1>5, <1>6 DEF Rest, d, A, m

LEMMA RespondClean ==
    ASSUME VtyInv, CleanInv, Respond
    PROVE  CleanInv'
<1> DEFINE r == pending.req
           h == Head(toServer)
<1>1. /\ toServer # <<>> /\ toServer' = Tail(toServer)
      /\ UNCHANGED <<connected, pending, clean>>
  BY DEF Respond
<1>2. toServer \in Seq(Asked) /\ toClient \in Seq(AllLines) /\ pending \in AllPending
  BY DEF VtyInv, Shapes
<1>3. SUFFICES ASSUME clean, pending # Nothing
               PROVE  Unread(pending, toServer', toClient') \/ OnItsWay(pending, toServer', toClient')
  BY <1>1 DEF CleanInv, CleanSound
<1>4. r \in Requests
  BY <1>2, <1>3 DEF VtyInv, Lined, AllPending, Asked
<1>5. Unread(pending, toServer, toClient)
  BY <1>1, <1>3 DEF CleanInv, CleanSound, OnItsWay, Missed, Arriving
<1>6. /\ pending.awaitingEcho /\ pending.lines = <<>> /\ toServer[Len(toServer)] = r
      /\ \A n \in 1 .. Len(toClient) : toClient[n] = Prompt
      /\ \A n \in 1 .. Len(toServer) - 1 : toServer[n] = NoRequest
  BY <1>5 DEF Unread, Prompts
<1>7. /\ Len(toServer) \in Nat /\ Len(toServer) > 0 /\ h = toServer[1]
      /\ Len(Tail(toServer)) = Len(toServer) - 1
      /\ \A n \in 1 .. Len(toServer) - 1 : Tail(toServer)[n] = toServer[n + 1]
  BY <1>1, <1>2, OneTaken
<1>8. NoRequest # r
  BY <1>4, VtyClientAssumption
<1>9. CASE Len(toServer) = 1
  <2>1. h # NoRequest /\ h = r
    BY <1>6, <1>7, <1>8, <1>9
  <2>2. PICK echo \in {<<>>, <<Echo(r)>>} : toClient' = toClient \o echo \o Append(Output(r), Prompt)
    BY <2>1 DEF Respond
  <2>3. toServer' = <<>>
    BY <1>1, <1>2, <1>9
  <2> DEFINE j == Len(toClient)
  <2>4. j \in Nat
    BY <1>2
  <2>5. CASE echo = <<>>
    <3>1. toClient \o echo = toClient
      BY <1>2, <2>5
    <3>2. toClient' = toClient \o Append(Output(r), Prompt)
      BY <2>2, <3>1
    <3>3. Rest(r, 0, j, toClient')
      BY <1>2, <1>4, <3>2, AnswerBehind
    <3>4. \A n \in 1 .. j : toClient'[n] = Prompt
      <4>1. Append(Output(r), Prompt) \in Seq(AllLines)
        BY <1>4, ValueShapes
      <4> QED BY <1>2, <1>6, <3>2, <4>1, PutTogether
    <3>5. j \in 0 .. Len(toClient')
      BY <2>4, <3>3, <1>4, VtyClientAssumption DEF Rest
    <3> QED BY <1>6, <2>3, <3>3, <3>4, <3>5 DEF OnItsWay
  <2>6. CASE echo = <<Echo(r)>>
    <3> DEFINE d == toClient \o <<Echo(r)>>
    <3>1. Echo(r) \in AllLines /\ Append(Output(r), Prompt) \in Seq(AllLines)
      BY <1>4, ValueShapes
    <3>2. /\ d \in Seq(AllLines) /\ Len(d) = j + 1 /\ d[j + 1] = Echo(r)
          /\ \A n \in 1 .. j : d[n] = toClient[n]
      BY <1>2, <3>1
    <3> HIDE DEF d
    <3>3. toClient' = d \o Append(Output(r), Prompt)
      BY <2>2, <2>6 DEF d
    <3>4. Rest(r, 0, j + 1, toClient')
      BY <1>4, <3>2, <3>3, AnswerBehind
    <3>5. \A n \in 1 .. j + 1 : toClient'[n] = d[n]
      BY <3>1, <3>2, <3>3, PutTogether
    <3>6. toClient'[j + 1] = Echo(r) /\ \A n \in 1 .. j : toClient'[n] = Prompt
      BY <1>6, <2>4, <3>2, <3>5
    <3>7. j \in 0 .. Len(toClient')
      BY <1>4, <2>4, <3>4, VtyClientAssumption DEF Rest
    <3> QED BY <1>6, <2>3, <3>4, <3>6, <3>7 DEF OnItsWay
  <2> QED BY <2>2, <2>5, <2>6
<1>10. CASE Len(toServer) # 1
  <2>1. h = NoRequest
    <3> DEFINE e == Len(toServer)
    <3>1. 1 \in 1 .. e - 1
      <4>1. e \in Nat /\ e > 0 /\ e # 1
        BY <1>7, <1>10
      <4> HIDE DEF e
      <4> QED BY <4>1
    <3> QED BY <1>6, <1>7, <3>1
  <2>2. PICK answer \in {<<>>, <<Prompt>>} : toClient' = toClient \o answer
    BY <2>1 DEF Respond
  <2>3. Prompts(toClient')
    <3>1. Len(<<>>) = 0 /\ Len(<<Prompt>>) = 1 /\ <<Prompt>>[1] = Prompt
      OBVIOUS
    <3>2. <<>> \in Seq(AllLines) /\ <<Prompt>> \in Seq(AllLines)
      BY ValueShapes
    <3>3. \A n \in 1 .. Len(answer) : answer[n] = Prompt
      BY <2>2, <3>1
    <3>4. /\ Len(toClient') = Len(toClient) + Len(answer) /\ Len(toClient) \in Nat /\ Len(answer) \in Nat
          /\ \A n \in 1 .. Len(toClient) : toClient'[n] = toClient[n]
          /\ \A n \in 1 .. Len(answer) : toClient'[Len(toClient) + n] = answer[n]
      BY <1>2, <2>2, <3>2, PutTogether
    <3>5. ASSUME NEW n \in 1 .. Len(toClient')  PROVE toClient'[n] = Prompt
      <4>1. CASE n <= Len(toClient)
        BY <1>6, <3>4, <4>1
      <4>2. CASE n > Len(toClient)
        <5>1. n - Len(toClient) \in 1 .. Len(answer) /\ Len(toClient) + (n - Len(toClient)) = n
          BY <3>4, <4>2
        <5> QED BY <3>3, <3>4, <5>1
      <4> QED BY <3>4, <4>1, <4>2
    <3> QED BY <3>5 DEF Prompts
  <2>4. toServer' # <<>> /\ toServer'[Len(toServer')] = r
    <3>1. /\ Len(toServer') = Len(toServer) - 1 /\ Len(toServer') \in 1 .. Len(toServer) - 1
          /\ (Len(toServer) - 1) + 1 = Len(toServer)
      BY <1>1, <1>7, <1>10
    <3>2. toServer'[Len(toServer) - 1] = toServer[(Len(toServer) - 1) + 1]
      BY <1>1, <1>7, <3>1
    <3> QED BY <1>6, <3>1, <3>2
  <2>5. ASSUME NEW n \in 1 .. Len(toServer') - 1  PROVE toServer'[n] = NoRequest
    <3>1. n \in 1 .. Len(toServer) - 1 /\ n + 1 \in 1 .. Len(toServer) - 1
      BY <1>1, <1>7
    <3> QED BY <1>1, <1>6, <1>7, <3>1
  <2> QED BY <1>6, <2>3, <2>4, <2>5 DEF Unread
<1> QED BY <1>9, <1>10

LEMMA CleanKept == VtyInv /\ CleanInv /\ [VtyNext]_vtyVars => CleanInv'
<1> SUFFICES ASSUME VtyInv, CleanInv, [VtyNext]_vtyVars  PROVE CleanInv'
  OBVIOUS
<1>1. ASSUME NEW r \in Requests, Exec(r)  PROVE CleanInv'
  BY <1>1, ExecClean
<1>2. CASE Timeout
  <2>1. toClient \in Seq(AllLines)
    BY DEF VtyInv, Shapes
  <2> QED BY <1>2, <2>1, SettledClean DEF Timeout
<1>3. CASE Connect
  BY <1>3 DEF Connect, CleanInv, VtyInv, Shapes
<1>4. CASE Closed \/ ConnectError \/ UncaughtError
  BY <1>4 DEF Closed, ConnectError, UncaughtError, Lost, CleanInv
<1>5. CASE UNCHANGED vtyVars
  BY <1>5 DEF vtyVars, CleanInv
<1> QED BY <1>1, <1>2, <1>3, <1>4, <1>5, OnLineClean, RespondClean DEF VtyNext

-------------------------------------------------------------------------------
(* The theorems.                                                             *)

\* The invariant holds in every reachable state of the client.
THEOREM VtyAlwaysSound == VtySpec => []VtyInv
<1>1. VtyInit => VtyInv
  BY InvAtInit
<1>2. VtyInv /\ [VtyNext]_vtyVars => VtyInv'
  BY InvKept
<1> QED BY <1>1, <1>2, PTL DEF VtySpec

\* Type correctness, and the queue's books: a promise is unsettled exactly while its
\* request is pending or waits, and no request is held twice.
THEOREM VtyTypeCorrect == VtySpec => []VtyTypeOK
<1>1. VtyInv => VtyTypeOK
  BY InvIsTyped
<1> QED BY <1>1, VtyAlwaysSound, PTL

\* drainQueue is called often enough: no request sleeps while the client is connected
\* and idle, for any number of callers, losses and timeouts.
THEOREM QueueNeverSleeps == VtySpec => []NeverIdleWithWork
<1>1. VtyInv => NeverIdleWithWork
  BY DEF VtyInv
<1> QED BY <1>1, VtyAlwaysSound, PTL

\* A request sent when nothing of an earlier one was on its way, on a connection that is
\* still up, resolves with all of its output and nothing else: for any number of requests
\* and outputs of any length, with an echo or without, whatever empty commands and prompts
\* were left over, and whichever requests timed out before.
THEOREM AnswerAlwaysClean == VtySpec => CleanAnswer
<1> DEFINE A == \A r \in Requests : Resolves(r) /\ clean => outcome'[r].lines = Output(r)
<1>1. VtyInit => CleanInv
  BY DEF VtyInit, CleanInv
<1>2. VtyInv /\ CleanInv /\ [VtyNext]_vtyVars => CleanInv'
  BY CleanKept
<1>3. VtyInv /\ CleanInv /\ [VtyNext]_vtyVars => [A]_vtyVars
  <2>1. SUFFICES ASSUME VtyInv, CleanInv, VtyNext, NEW r \in Requests, Resolves(r), clean
                 PROVE  outcome'[r].lines = Output(r)
    BY DEF vtyVars
  <2>2. PICK line : Answered(line) /\ toClient # <<>> /\ line = Head(toClient)
    <3>1. \/ OnLine /\ Answered(Head(toClient))
          \/ outcome' = outcome
          \/ \E q, state : outcome' = [outcome EXCEPT ![q] = Promise(state)] /\ state # "resolved"
      <4>1. ASSUME NEW q \in Requests, Exec(q)
            PROVE  outcome' = [outcome EXCEPT ![q] = Promise("unsettled")] /\ "unsettled" # "resolved"
        BY <4>1 DEF Exec
      <4>2. CASE Timeout \/ ConnectError
        BY <4>2 DEF Timeout, ConnectError
      <4>3. CASE OnLine
        BY <4>3 DEF OnLine, Ready, Ignored, EchoSeen, Collected
      <4>4. CASE Connect \/ Closed \/ Respond
        BY <4>4 DEF Connect, Closed, Respond
      <4>5. ~UncaughtError
        <5>1. SUFFICES ASSUME UncaughtError  PROVE outcome'[r].state # "resolved"
          BY <2>1 DEF Resolves
        <5> QED BY <2>1, <5>1, ValueShapes DEF UncaughtError, Resolves
      <4> QED BY <2>1, <4>1, <4>2, <4>3, <4>4, <4>5 DEF VtyNext
    <3>2. Promised(outcome)
      BY <2>1 DEF VtyInv, Shapes
    <3>3. ~\E q, state : outcome' = [outcome EXCEPT ![q] = Promise(state)] /\ state # "resolved"
      <4>1. ASSUME NEW q, NEW state, outcome' = [outcome EXCEPT ![q] = Promise(state)], state # "resolved"
            PROVE  FALSE
        BY <2>1, <3>2, <4>1 DEF Promised, Resolves, Promise
      <4> QED BY <4>1
    <3> QED BY <2>1, <3>1, <3>3 DEF Resolves, OnLine
  <2> DEFINE own == Filtered(pending.lines, pending.req)
  <2>3. /\ line = Prompt /\ pending # Nothing /\ ~pending.awaitingEcho
        /\ outcome' = [outcome EXCEPT ![pending.req] = Resolved(own)]
    BY <2>2 DEF Answered
  <2> HIDE DEF own
  <2>4. Promised(outcome) /\ pending \in AllPending /\ toClient \in Seq(AllLines)
    BY <2>1 DEF VtyInv, Shapes
  <2>5. r = pending.req /\ outcome'[r].lines = own
    BY <2>1, <2>3, <2>4 DEF Promised, Resolves, Resolved
  <2>6. CleanSound(pending, toServer, toClient)
    BY <2>1 DEF CleanInv
  <2>7. /\ pending.lines = Output(r)
        /\ \A n \in 1 .. Len(pending.lines) : pending.lines[n] = OutputLine(r)
    BY <2>1, <2>2, <2>3, <2>4, <2>5, <2>6, AnswerGoesOn
  <2>8. \A n \in 1 .. Len(pending.lines) : pending.lines[n] # Echo(r)
    BY <2>7, LinesDiffer
  <2>9. own = pending.lines
    BY <2>4, <2>5, <2>8, NothingFiltered DEF own, AllPending
  <2> QED BY <2>5, <2>7, <2>9
<1> QED BY <1>1, <1>2, <1>3, VtyAlwaysSound, PTL DEF VtySpec, CleanAnswer

===============================================================================
