--------------------------- MODULE TrxManagerProofs ---------------------------
(***************************************************************************)
(* Safety of the transceiver's control side for any number of calls and    *)
(* workers: the promise table is exact and a transceiver is never          *)
(* replaced.                                                               *)
(***************************************************************************)
EXTENDS TrxManager, FiniteSetTheorems, TLAPS

-------------------------------------------------------------------------------
(* Messages in a queue, seen as the ids they carry.                          *)

Carried(q) == {q[n].id : n \in DOMAIN q}

Distinct(q) == \A i, j \in DOMAIN q : q[i].id = q[j].id => i = j

\* What postMessage does to a queue.
LEMMA Posted ==
    ASSUME NEW S, NEW q \in Seq(S), NEW e \in S
    PROVE  /\ Append(q, e) \in Seq(S)
           /\ Carried(Append(q, e)) = Carried(q) \cup {e.id}
           /\ Distinct(q) /\ e.id \notin Carried(q) => Distinct(Append(q, e))
<1> DEFINE a == Append(q, e)
<1>1. /\ a \in Seq(S) /\ DOMAIN a = 1 .. Len(q) + 1 /\ DOMAIN q = 1 .. Len(q)
      /\ Len(q) \in Nat
      /\ \A n \in 1 .. Len(q) : a[n] = q[n]
      /\ a[Len(q) + 1] = e
  OBVIOUS
<1> HIDE DEF a
<1>2. Carried(a) = Carried(q) \cup {e.id}
  BY <1>1 DEF Carried
<1>3. ASSUME Distinct(q), e.id \notin Carried(q)  PROVE Distinct(a)
  BY <1>1, <1>3 DEF Distinct, Carried
<1> QED BY <1>1, <1>2, <1>3 DEF a

\* What the handler of a message takes from a queue and leaves.
LEMMA TakenOff ==
    ASSUME NEW S, NEW q \in Seq(S), q # <<>>
    PROVE  /\ Head(q) \in S /\ Tail(q) \in Seq(S)
           /\ Head(q).id \in Carried(q)
           /\ Distinct(q) => Distinct(Tail(q)) /\ Carried(Tail(q)) = Carried(q) \ {Head(q).id}
<1> DEFINE t == Tail(q)
<1>1. /\ t \in Seq(S) /\ DOMAIN t = 1 .. Len(q) - 1 /\ DOMAIN q = 1 .. Len(q)
      /\ Len(q) \in Nat /\ Len(q) > 0
      /\ \A n \in 1 .. Len(q) - 1 : t[n] = q[n + 1]
      /\ Head(q) = q[1] /\ q[1] \in S
  OBVIOUS
<1> HIDE DEF t
<1>2. Head(q).id \in Carried(q)
  BY <1>1 DEF Carried
<1>3. \A n \in 1 .. Len(q) - 1 : n + 1 \in 1 .. Len(q) /\ n + 1 # 1
  BY <1>1
<1>4. ASSUME Distinct(q)  PROVE Distinct(t)
  <2>1. ASSUME NEW i \in 1 .. Len(q) - 1, NEW j \in 1 .. Len(q) - 1, t[i].id = t[j].id
        PROVE  i = j
    <3>1. i + 1 = j + 1
      BY <1>1, <1>3, <1>4, <2>1 DEF Distinct
    <3> QED BY <3>1
  <2> QED BY <1>1, <2>1 DEF Distinct
<1>5. ASSUME Distinct(q), NEW x \in Carried(t)  PROVE x \in Carried(q) \ {Head(q).id}
  <2>1. PICK n \in 1 .. Len(q) - 1 : x = t[n].id
    BY <1>1, <1>5 DEF Carried
  <2>2. n + 1 \in DOMAIN q /\ n + 1 # 1 /\ x = q[n + 1].id /\ 1 \in DOMAIN q
    BY <1>1, <1>3, <2>1
  <2> QED BY <1>1, <1>5, <2>2 DEF Carried, Distinct
<1>6. ASSUME NEW x \in Carried(q) \ {Head(q).id}  PROVE x \in Carried(t)
  <2>1. PICK n \in 1 .. Len(q) : x = q[n].id
    BY <1>1, <1>6 DEF Carried
  <2>2. n - 1 \in 1 .. Len(q) - 1 /\ t[n - 1] = q[n]
    BY <1>1, <1>6, <2>1
  <2> QED BY <1>1, <2>1, <2>2 DEF Carried
<1> QED BY <1>1, <1>2, <1>4, <1>5, <1>6 DEF t
-------------------------------------------------------------------------------
(* The inductive invariant.                                                  *)

Globals == [alive : BOOLEAN, module : BOOLEAN, control : BOOLEAN, osmo : Nat, trx : Nat, fd : BOOLEAN]

\* A transceiver has an Osmo, only a transceiver has a device, and a handler that
\* opens one has seen a transceiver.
Sane(g, R) ==
    /\ g.trx <= g.osmo
    /\ g.fd => g.trx # 0
    /\ \A r \in R : r.at = "device" => g.trx # 0

IdsOf(R) == {r.id : r \in R}

\* Where a request can be, and the ids that are there.
Spots == ({"message", "handler", "answer"} \X Workers) \cup {<<"lost", 0>>}

IdsAt(mail, handlers, answers, gone) ==
    [p \in Spots |->
        IF p[1] = "lost" THEN gone
        ELSE IF p[1] = "message" THEN Carried(mail[p[2]])
        ELSE IF p[1] = "handler" THEN IdsOf(handlers[p[2]])
        ELSE Carried(answers[p[2]])]

Where == IdsAt(inbox, running, outbox, lost)

\* Each id is in at most one of the spots of F, and the ids there are those of P.
Exact(F, P) ==
    /\ \A p, q \in Spots : \A x : x \in F[p] /\ x \in F[q] => p = q
    /\ \A x \in P : \E p \in Spots : x \in F[p]
    /\ \A p \in Spots : F[p] \subseteq P

OneEach(R) == \A r, s \in R : r.id = s.id => r = s

\* No id is twice in one place, a worker not yet made has no messages, and a call
\* not yet made has no promise.
NoneTwice == \A w \in Workers : Distinct(inbox[w]) /\ OneEach(running[w]) /\ Distinct(outbox[w])
Unborn    == \A w \in Workers : w > worker => inbox[w] = <<>>
Unasked   == \A id \in promises : calls[id[1]].state # "idle"

CallStates == [kind : Methods \cup {"none"},
               state : {"idle", "starting", "waiting", "threw", "resolved", "rejected"}]

Shapes ==
    /\ worker \in 0 .. MaxWorkers
    /\ calls \in [Calls -> CallStates]
    /\ promises \subseteq Ids
    /\ started \in BOOLEAN
    /\ tw \in [Workers -> Globals]
    /\ \A w \in Workers : Sane(tw[w], running[w])
    /\ inbox \in [Workers -> Seq(Message)]
    /\ running \in [Workers -> SUBSET Awaiting]
    /\ outbox \in [Workers -> Seq(Answer)]
    /\ lost \subseteq Ids

Books == Exact(Where, promises) /\ NoneTwice /\ Unborn /\ Unasked

TrxInv == Shapes /\ Books

\* Spots are of four kinds.
LEMMA SpotsAre ==
    /\ <<"lost", 0>> \in Spots
    /\ \A w \in Workers : <<"message", w>> \in Spots /\ <<"handler", w>> \in Spots
                            /\ <<"answer", w>> \in Spots
    /\ \A p \in Spots : \/ p = <<"lost", 0>>
                          \/ \E w \in Workers : p \in {<<"message", w>>, <<"handler", w>>, <<"answer", w>>}
  BY DEF Spots

\* The ids at each kind of spot.
LEMMA AtMessage == \A m, h, a, g : \A w \in Workers : IdsAt(m, h, a, g)[<<"message", w>>] = Carried(m[w])
  BY SpotsAre DEF IdsAt

\* The ids of the handlers.
LEMMA AtHandler == \A m, h, a, g : \A w \in Workers : IdsAt(m, h, a, g)[<<"handler", w>>] = IdsOf(h[w])
  BY SpotsAre DEF IdsAt

\* The ids of the answers.
LEMMA AtAnswer == \A m, h, a, g : \A w \in Workers : IdsAt(m, h, a, g)[<<"answer", w>>] = Carried(a[w])
  BY SpotsAre DEF IdsAt

\* The lost ids.
LEMMA AtLost == \A m, h, a, g : IdsAt(m, h, a, g)[<<"lost", 0>>] = g
  BY SpotsAre DEF IdsAt

\* The same four, of the present state.
LEMMA IdsThere ==
    /\ Where[<<"lost", 0>>] = lost /\ Where'[<<"lost", 0>>] = lost'
    /\ \A w \in Workers :
          /\ Where[<<"message", w>>] = Carried(inbox[w]) /\ Where'[<<"message", w>>] = Carried(inbox'[w])
          /\ Where[<<"handler", w>>] = IdsOf(running[w]) /\ Where'[<<"handler", w>>] = IdsOf(running'[w])
          /\ Where[<<"answer", w>>] = Carried(outbox[w]) /\ Where'[<<"answer", w>>] = Carried(outbox'[w])
  BY AtMessage, AtHandler, AtAnswer, AtLost DEF Where

\* At first there is nothing.
LEMMA InvAtInit == Init => TrxInv
<1> SUFFICES ASSUME Init  PROVE TrxInv
  OBVIOUS
<1>1. Shapes
  <2>1. worker \in 0 .. MaxWorkers
    BY TrxManagerAssumption DEF Init
  <2>2. calls \in [Calls -> CallStates]
    BY DEF Init, CallStates
  <2>3. Fresh \in Globals /\ Sane(Fresh, {})
    BY DEF Fresh, Globals, Sane
  <2>4. tw \in [Workers -> Globals] /\ \A w \in Workers : Sane(tw[w], running[w])
    BY <2>3 DEF Init
  <2>5. <<>> \in Seq(Message) /\ <<>> \in Seq(Answer)
    OBVIOUS
  <2>6. inbox \in [Workers -> Seq(Message)] /\ outbox \in [Workers -> Seq(Answer)]
    BY <2>5 DEF Init
  <2>7. running \in [Workers -> SUBSET Awaiting]
    BY DEF Init
  <2> QED BY <2>1, <2>2, <2>4, <2>6, <2>7 DEF Init, Shapes
<1>2. \A w \in Workers : Carried(inbox[w]) = {} /\ Carried(outbox[w]) = {} /\ running[w] = {}
  BY DEF Init, Carried
<1>3. Exact(Where, promises)
  <2>1. \A p \in Spots : Where[p] = {}
    BY <1>2 DEF Init, Where, IdsAt, Spots, IdsOf
  <2> QED BY <2>1 DEF Init, Exact
<1>4. NoneTwice /\ Unborn /\ Unasked
  BY DEF Init, NoneTwice, Distinct, OneEach, Unborn, Unasked
<1> QED BY <1>1, <1>3, <1>4 DEF TrxInv, Books

-------------------------------------------------------------------------------
(* The page's calls.                                                         *)

LEMMA NewWorkerShapes ==
    ASSUME Shapes, NEW id \in Ids, NewWorker(id)
    PROVE  /\ worker' \in 0 .. MaxWorkers /\ worker + 1 \in Workers
           /\ tw' \in [Workers -> Globals]
           /\ \A w \in Workers : tw'[w].trx = tw[w].trx
           /\ \A w \in Workers : Sane(tw'[w], running[w])
           /\ inbox' \in [Workers -> Seq(Message)]
           /\ promises' \subseteq Ids /\ lost' \subseteq Ids
<1>1. worker' \in 0 .. MaxWorkers /\ worker + 1 \in Workers
  BY TrxManagerAssumption DEF Shapes, NewWorker, Workers
<1>2. /\ tw' \in [Workers -> Globals]
      /\ \A w \in Workers : tw'[w].trx = tw[w].trx /\ tw'[w].osmo = tw[w].osmo /\ tw'[w].fd = tw[w].fd
  BY <1>1 DEF Shapes, NewWorker, Globals
<1>3. \A w \in Workers : Sane(tw'[w], running[w])
  BY <1>2 DEF Shapes, Sane
<1>4. [type |-> "START", id |-> id] \in Message
  BY DEF Message, Methods, Requires
<1>5. <<[type |-> "START", id |-> id]>> \in Seq(Message)
  BY <1>4
<1>6. inbox' \in [Workers -> Seq(Message)]
  BY <1>1, <1>5 DEF Shapes, NewWorker
<1> QED BY <1>1, <1>2, <1>3, <1>6 DEF Shapes, NewWorker

LEMMA CallShapes ==
    ASSUME Shapes, NEW c \in Calls, Call(c)
    PROVE  Shapes'
<1>1. PICK k \in Kinds : OpenFirst(c, k) \/ StartWorker(c, k) \/ Post(c, k) \/ NoWorker(c, k) \/ StopWorker(c, k)
  BY DEF Call
<1>2. k \in Methods
  BY TrxManagerAssumption
<1>3. <<c, "own">> \in Ids /\ <<c, "start">> \in Ids
  BY DEF Ids
<1>4. ASSUME NEW s \in {"starting", "waiting", "threw", "resolved"}, Left(c, k, s)
      PROVE  calls' \in [Calls -> CallStates]
  BY <1>2, <1>4 DEF Shapes, Left, CallStates
<1>5. CASE OpenFirst(c, k)
  BY <1>3, <1>4, <1>5, NewWorkerShapes DEF OpenFirst, Shapes
<1>6. CASE StartWorker(c, k)
  BY <1>3, <1>4, <1>6, NewWorkerShapes DEF StartWorker, Shapes
<1>7. CASE Post(c, k)
  <2>1. worker \in Workers
    BY <1>7, TrxManagerAssumption DEF Post, Shapes, Workers
  <2>2. [type |-> k, id |-> <<c, "own">>] \in Message
    BY <1>2, <1>3 DEF Message
  <2>3. Append(inbox[worker], [type |-> k, id |-> <<c, "own">>]) \in Seq(Message)
    BY <2>1, <2>2, Posted DEF Shapes
  <2>4. inbox' \in [Workers -> Seq(Message)] /\ promises' \subseteq Ids /\ lost' \subseteq Ids
    BY <1>3, <1>7, <2>1, <2>3 DEF Post, Request, Shapes
  <2> QED BY <1>4, <1>7, <2>4 DEF Post, Shapes
<1>8. CASE NoWorker(c, k)
  BY <1>4, <1>8 DEF NoWorker, Shapes
<1>9. CASE StopWorker(c, k)
  <2>1. worker \in Workers
    BY <1>9, TrxManagerAssumption DEF StopWorker, Shapes, Workers
  <2>2. PICK arrives \in BOOLEAN :
          LET gone == IF arrives THEN <<>> ELSE outbox[worker]
          IN  /\ outbox' = [outbox EXCEPT ![worker] = IF arrives THEN @ ELSE <<>>]
              /\ lost' = lost \cup {<<c, "own">>} \cup Asked(ToSet(inbox[worker]))
                              \cup Asked(running[worker]) \cup Asked(ToSet(gone))
    BY <1>9 DEF StopWorker
  <2>3. ToSet(inbox[worker]) \subseteq Message /\ ToSet(outbox[worker]) \subseteq Answer
    <3>1. inbox[worker] \in Seq(Message) /\ outbox[worker] \in Seq(Answer)
      BY <2>1 DEF Shapes
    <3> QED BY <3>1 DEF ToSet
  <2>4. <<>> \in Seq(Message) /\ <<>> \in Seq(Answer)
    OBVIOUS
  <2>5. Asked(ToSet(inbox[worker])) \subseteq Ids
    BY <2>1, <2>3 DEF Shapes, Asked, Message
  <2>6. Asked(running[worker]) \subseteq Ids
    BY <2>1 DEF Shapes, Asked, Awaiting
  <2>7. Asked(ToSet(outbox[worker])) \subseteq Ids /\ Asked(ToSet(<<>>)) \subseteq Ids
    BY <2>1, <2>3 DEF Shapes, Asked, Answer, ToSet
  <2>8. lost' \subseteq Ids /\ promises' \subseteq Ids
    BY <1>3, <1>9, <2>2, <2>5, <2>6, <2>7 DEF Shapes, StopWorker
  <2>9. outbox' \in [Workers -> Seq(Answer)]
    BY <2>1, <2>2, <2>4 DEF Shapes
  <2>10. Fresh \in Globals /\ Sane(Fresh, {})
    BY DEF Fresh, Globals, Sane
  <2>11. /\ inbox' \in [Workers -> Seq(Message)]
         /\ running' \in [Workers -> SUBSET Awaiting]
         /\ tw' \in [Workers -> Globals]
    BY <1>9, <2>1, <2>4, <2>10 DEF Shapes, StopWorker
  <2>12. \A w \in Workers : Sane(tw'[w], running'[w])
    <3>1. TAKE w \in Workers
    <3>2. CASE w = worker
      BY <1>9, <2>10, <3>2 DEF Shapes, StopWorker
    <3>3. CASE w # worker
      <4>1. tw'[w] = tw[w] /\ running'[w] = running[w]
        BY <1>9, <3>3 DEF Shapes, StopWorker
      <4> QED BY <4>1 DEF Shapes
    <3> QED BY <3>2, <3>3
  <2> QED BY <1>4, <1>9, <2>8, <2>9, <2>11, <2>12 DEF StopWorker, Shapes
<1> QED BY <1>1, <1>5, <1>6, <1>7, <1>8, <1>9
-------------------------------------------------------------------------------
(* Ids that move from spot to spot keep the books exact.                     *)

\* The ids of X, known before, go to the spot q.
LEMMA AllMove ==
    ASSUME NEW F, NEW P, Exact(F, P), NEW X, X \subseteq P, NEW q \in Spots,
           NEW G, G[q] = F[q] \cup X, \A r \in Spots \ {q} : G[r] = F[r] \ X
    PROVE  Exact(G, P)
<1>1. ASSUME NEW r \in Spots, NEW s \in Spots, NEW x, x \in G[r], x \in G[s]  PROVE r = s
  BY <1>1 DEF Exact
<1>2. ASSUME NEW x \in P  PROVE \E r \in Spots : x \in G[r]
  <2>1. PICK r \in Spots : x \in F[r]
    BY DEF Exact
  <2> QED BY <2>1
<1>3. \A r \in Spots : G[r] \subseteq P
  BY DEF Exact
<1> QED BY <1>1, <1>2, <1>3 DEF Exact

\* One id goes from the spot p to the spot q.
LEMMA Moves ==
    ASSUME NEW F, NEW P, Exact(F, P), NEW p \in Spots, NEW q \in Spots, p # q, NEW x \in F[p],
           NEW G, G[q] = F[q] \cup {x}, G[p] = F[p] \ {x}, \A r \in Spots \ {p, q} : G[r] = F[r]
    PROVE  Exact(G, P)
<1>1. \A r \in Spots : r # p => F[r] = F[r] \ {x}
  BY DEF Exact
<1> DEFINE X == {x}
<1>2. X \subseteq P
  BY DEF Exact
<1>3. G[q] = F[q] \cup X /\ \A r \in Spots \ {q} : G[r] = F[r] \ X
  BY <1>1
<1> HIDE DEF X
<1> QED BY <1>2, <1>3, AllMove

\* A new id comes to the spot q.
LEMMA Enters ==
    ASSUME NEW F, NEW P, Exact(F, P), NEW x, x \notin P, NEW q \in Spots,
           NEW G, G[q] = F[q] \cup {x}, \A r \in Spots \ {q} : G[r] = F[r]
    PROVE  Exact(G, P \cup {x})
<1>1. \A r \in Spots : x \notin F[r]
  BY DEF Exact
<1>2. ASSUME NEW r \in Spots, NEW s \in Spots, NEW y, y \in G[r], y \in G[s]  PROVE r = s
  BY <1>1, <1>2 DEF Exact
<1>3. ASSUME NEW y \in P \cup {x}  PROVE \E r \in Spots : y \in G[r]
  <2>1. CASE y \in P
    BY <2>1 DEF Exact
  <2>2. CASE y = x
    BY <2>2
  <2> QED BY <2>1, <2>2
<1>4. \A r \in Spots : G[r] \subseteq P \cup {x}
  BY DEF Exact
<1> QED BY <1>2, <1>3, <1>4 DEF Exact

\* An id at the spot p is gone.
LEMMA Leaves ==
    ASSUME NEW F, NEW P, Exact(F, P), NEW p \in Spots, NEW x \in F[p],
           NEW G, G[p] = F[p] \ {x}, \A r \in Spots \ {p} : G[r] = F[r]
    PROVE  Exact(G, P \ {x})
<1>1. \A r \in Spots : x \notin G[r]
  BY DEF Exact
<1>2. ASSUME NEW r \in Spots, NEW s \in Spots, NEW y, y \in G[r], y \in G[s]  PROVE r = s
  BY <1>2 DEF Exact
<1>3. ASSUME NEW y \in P \ {x}  PROVE \E r \in Spots : y \in G[r]
  <2>1. PICK r \in Spots : y \in F[r]
    BY DEF Exact
  <2> QED BY <2>1
<1>4. \A r \in Spots : G[r] \subseteq P \ {x}
  BY <1>1 DEF Exact
<1> QED BY <1>2, <1>3, <1>4 DEF Exact
-------------------------------------------------------------------------------
(* What the steps do to one worker's queues and handlers.                    *)

\* A request is in one place at a time, and its caller waits for it.
LEMMA OnePlace ==
    ASSUME Books, NEW w \in Workers, NEW x
    PROVE  /\ x \in Carried(inbox[w]) => /\ x \in promises /\ x \notin Carried(outbox[w])
                                         /\ x \notin IdsOf(running[w])
           /\ x \in IdsOf(running[w]) => x \in promises /\ x \notin Carried(outbox[w])
           /\ x \in Carried(outbox[w]) => x \in promises
<1> DEFINE F == Where
           m == <<"message", w>>
           h == <<"handler", w>>
           a == <<"answer", w>>
<1>1. F[m] = Carried(inbox[w]) /\ F[h] = IdsOf(running[w]) /\ F[a] = Carried(outbox[w])
  BY IdsThere
<1>2. Exact(F, promises)
  BY DEF Books
<1>3. m \in Spots /\ h \in Spots /\ a \in Spots /\ m # h /\ m # a /\ h # a
  BY SpotsAre
<1> HIDE DEF F, m, h, a
<1>4. /\ x \in F[m] => x \in promises /\ x \notin F[a] /\ x \notin F[h]
      /\ x \in F[h] => x \in promises /\ x \notin F[a]
      /\ x \in F[a] => x \in promises
  BY <1>2, <1>3 DEF Exact
<1> QED BY <1>1, <1>4

\* A message is taken from a worker's inbox.
LEMMA TakenFrom ==
    ASSUME Shapes, Books, NEW w \in Workers, Taken(w)
    PROVE  /\ Head(inbox[w]) \in Message /\ inbox' \in [Workers -> Seq(Message)]
           /\ Head(inbox[w]).id \in Carried(inbox[w])
           /\ Carried(inbox'[w]) = Carried(inbox[w]) \ {Head(inbox[w]).id}
           /\ \A v \in Workers \ {w} : inbox'[v] = inbox[v]
           /\ \A v \in Workers : Distinct(inbox'[v]) /\ (v > worker => inbox'[v] = <<>>)
<1>1. inbox[w] \in Seq(Message) /\ inbox[w] # <<>> /\ inbox'[w] = Tail(inbox[w])
  BY DEF Shapes, Taken
<1>2. Distinct(inbox[w]) /\ ~(w > worker)
  BY <1>1 DEF Books, NoneTwice, Unborn
<1>3. /\ Head(inbox[w]) \in Message /\ Tail(inbox[w]) \in Seq(Message)
      /\ Head(inbox[w]).id \in Carried(inbox[w])
      /\ Distinct(Tail(inbox[w])) /\ Carried(Tail(inbox[w])) = Carried(inbox[w]) \ {Head(inbox[w]).id}
  BY <1>1, <1>2, TakenOff
<1>4. \A v \in Workers \ {w} : inbox'[v] = inbox[v]
  BY DEF Shapes, Taken
<1>5. inbox' \in [Workers -> Seq(Message)]
  BY <1>3 DEF Shapes, Taken
<1>6. \A v \in Workers : Distinct(inbox'[v]) /\ (v > worker => inbox'[v] = <<>>)
  BY <1>1, <1>2, <1>3, <1>4 DEF Books, NoneTwice, Unborn
<1> QED BY <1>1, <1>3, <1>4, <1>5, <1>6

\* An answer to m, which was not there yet, is posted.
LEMMA AnswerPosted ==
    ASSUME Shapes, Books, NEW w \in Workers, NEW m, m.type \in Methods, m.id \in Ids,
           m.id \notin Carried(outbox[w]), NEW ok \in BOOLEAN, Answers(w, m, ok)
    PROVE  /\ outbox' \in [Workers -> Seq(Answer)]
           /\ Carried(outbox'[w]) = Carried(outbox[w]) \cup {m.id}
           /\ \A v \in Workers \ {w} : outbox'[v] = outbox[v]
           /\ \A v \in Workers : Distinct(outbox'[v])
<1> DEFINE e == [type |-> m.type, id |-> m.id, ok |-> ok]
<1>1. e \in Answer /\ e.id = m.id
  BY DEF Answer
<1>2. outbox[w] \in Seq(Answer) /\ outbox' = [outbox EXCEPT ![w] = Append(outbox[w], e)]
  BY DEF Shapes, Answers
<1> HIDE DEF e
<1>3. /\ Append(outbox[w], e) \in Seq(Answer)
      /\ Carried(Append(outbox[w], e)) = Carried(outbox[w]) \cup {m.id}
      /\ Distinct(Append(outbox[w], e))
  BY <1>1, <1>2, Posted DEF Books, NoneTwice
<1>4. /\ outbox'[w] = Append(outbox[w], e)
      /\ \A v \in Workers \ {w} : outbox'[v] = outbox[v]
      /\ outbox' \in [Workers -> Seq(Answer)]
  BY <1>2, <1>3 DEF Shapes
<1> QED BY <1>3, <1>4 DEF Books, NoneTwice

\* A handler begins to await.
LEMMA HandlerAwaits ==
    ASSUME Shapes, Books, NEW w \in Workers, NEW r \in Awaiting,
           r.id \notin IdsOf(running[w]), running' = [running EXCEPT ![w] = @ \cup {r}]
    PROVE  /\ running' \in [Workers -> SUBSET Awaiting]
           /\ running'[w] = running[w] \cup {r}
           /\ IdsOf(running'[w]) = IdsOf(running[w]) \cup {r.id}
           /\ \A v \in Workers \ {w} : running'[v] = running[v]
           /\ \A v \in Workers : OneEach(running'[v])
<1>1. /\ running' \in [Workers -> SUBSET Awaiting]
      /\ running'[w] = running[w] \cup {r}
      /\ \A v \in Workers \ {w} : running'[v] = running[v]
  BY DEF Shapes
<1>2. OneEach(running[w])
  BY DEF Books, NoneTwice
<1>3. OneEach(running[w] \cup {r}) /\ IdsOf(running[w] \cup {r}) = IdsOf(running[w]) \cup {r.id}
  BY <1>2 DEF OneEach, IdsOf
<1> QED BY <1>1, <1>3 DEF Books, NoneTwice

\* A handler ends.
LEMMA HandlerEnds ==
    ASSUME Shapes, Books, NEW w \in Workers, NEW r \in running[w], Ended(w, r)
    PROVE  /\ running' \in [Workers -> SUBSET Awaiting]
           /\ running'[w] = running[w] \ {r}
           /\ IdsOf(running'[w]) = IdsOf(running[w]) \ {r.id}
           /\ \A v \in Workers \ {w} : running'[v] = running[v]
           /\ \A v \in Workers : OneEach(running'[v])
<1>1. /\ running' \in [Workers -> SUBSET Awaiting]
      /\ running'[w] = running[w] \ {r}
      /\ \A v \in Workers \ {w} : running'[v] = running[v]
  BY DEF Shapes, Ended
<1>2. OneEach(running[w])
  BY DEF Books, NoneTwice
<1>3. OneEach(running[w] \ {r}) /\ IdsOf(running[w] \ {r}) = IdsOf(running[w]) \ {r.id}
  BY <1>2 DEF OneEach, IdsOf
<1> QED BY <1>1, <1>3 DEF Books, NoneTwice
-------------------------------------------------------------------------------
(* The worker's steps: a request moves from the inbox to a handler, to an     *)
(* answer, or is lost.                                                       *)

\* The queues and handlers of the spots outside S stay as they are.
OnlyAt(S) ==
    /\ lost' = lost \/ <<"lost", 0>> \in S
    /\ \A v \in Workers : /\ inbox'[v] = inbox[v] \/ <<"message", v>> \in S
                          /\ running'[v] = running[v] \/ <<"handler", v>> \in S
                          /\ outbox'[v] = outbox[v] \/ <<"answer", v>> \in S

LEMMA Elsewhere ==
    ASSUME NEW S, OnlyAt(S)
    PROVE  \A p \in Spots \ S : Where'[p] = Where[p]
<1>1. ASSUME NEW p \in Spots \ S  PROVE Where'[p] = Where[p]
  <2>1. CASE p = <<"lost", 0>>
    BY <2>1, IdsThere DEF OnlyAt
  <2>2. CASE \E w \in Workers : p \in {<<"message", w>>, <<"handler", w>>, <<"answer", w>>}
    BY <2>2, IdsThere DEF OnlyAt
  <2> QED BY <2>1, <2>2, SpotsAre
<1> QED BY <1>1

\* A request goes from one spot to another.
LEMMA StepMoves ==
    ASSUME Books, promises' = promises, NEW p \in Spots, NEW q \in Spots, p # q, NEW x \in Where[p],
           Where'[q] = Where[q] \cup {x}, Where'[p] = Where[p] \ {x}, OnlyAt({p, q})
    PROVE  Exact(Where, promises)'
<1>1. \A r \in Spots \ {p, q} : Where'[r] = Where[r]
  BY Elsewhere
<1>2. Exact(Where, promises)
  BY DEF Books
<1>3. Exact(Where', promises)
  BY <1>1, <1>2, Moves
<1> QED BY <1>3
LEMMA BeginAwaitingInv ==
    ASSUME TrxInv, NEW w \in Workers, BeginAwaiting(w)
    PROVE  TrxInv'
<1> DEFINE msg == Head(inbox[w])
           x   == msg.id
           p   == <<"message", w>>
           q   == <<"handler", w>>
<1>1. /\ msg \in Message /\ x \in Carried(inbox[w]) /\ inbox' \in [Workers -> Seq(Message)]
      /\ Carried(inbox'[w]) = Carried(inbox[w]) \ {x}
      /\ \A v \in Workers \ {w} : inbox'[v] = inbox[v]
      /\ \A v \in Workers : Distinct(inbox'[v]) /\ (v > worker => inbox'[v] = <<>>)
  BY TakenFrom DEF TrxInv, BeginAwaiting
<1>2. x \notin IdsOf(running[w])
  BY <1>1, OnePlace DEF TrxInv
<1>3. PICK at \in {"osmo", "control", "sockets", "stats"} :
          msg.type \in {"START", "OPEN_USB", "OPEN_WS", "GET_BTS_STATS"} /\ Await(w, msg, at)
  BY DEF BeginAwaiting
<1> DEFINE r == [type |-> msg.type, id |-> msg.id, at |-> at]
<1>4. r \in Awaiting /\ r.id = x /\ r.at # "device"
  BY <1>1, <1>3 DEF Awaiting, Message
<1>5. running' = [running EXCEPT ![w] = @ \cup {r}]
  BY <1>3 DEF Await
<1> HIDE DEF msg, r
<1>6. /\ running' \in [Workers -> SUBSET Awaiting] /\ running'[w] = running[w] \cup {r}
      /\ IdsOf(running'[w]) = IdsOf(running[w]) \cup {x}
      /\ \A v \in Workers \ {w} : running'[v] = running[v]
      /\ \A v \in Workers : OneEach(running'[v])
  BY <1>2, <1>4, <1>5, HandlerAwaits DEF TrxInv
<1>7. UNCHANGED <<page, tw, outbox, lost>>
  BY DEF BeginAwaiting
<1>8. Shapes'
  <2>1. \A v \in Workers : Sane(tw[v], running'[v])
    BY <1>4, <1>6 DEF TrxInv, Shapes, Sane
  <2> QED BY <1>1, <1>6, <1>7, <2>1 DEF TrxInv, Shapes, page
<1>9. Exact(Where, promises)'
  <2>1. p \in Spots /\ q \in Spots /\ p # q
    BY SpotsAre
  <2>2. x \in Where[p] /\ Where'[q] = Where[q] \cup {x} /\ Where'[p] = Where[p] \ {x}
    BY <1>1, <1>6, IdsThere
  <2>3. OnlyAt({p, q})
    BY <1>1, <1>6, <1>7 DEF OnlyAt
  <2> HIDE DEF p, q, x
  <2> QED BY <1>7, <2>1, <2>2, <2>3, StepMoves DEF TrxInv, page
<1> QED BY <1>1, <1>6, <1>7, <1>8, <1>9 DEF TrxInv, Books, NoneTwice, Unborn, Unasked, page

\* A message is taken and answered, which may change the globals.
LEMMA AnsweredInv ==
    ASSUME TrxInv, NEW w \in Workers, Taken(w), NEW ok \in BOOLEAN, Answers(w, Head(inbox[w]), ok),
           tw' \in [Workers -> Globals], \A v \in Workers : Sane(tw'[v], running[v]),
           UNCHANGED <<page, running, lost>>
    PROVE  TrxInv'
<1> DEFINE msg == Head(inbox[w])
           x   == msg.id
           p   == <<"message", w>>
           q   == <<"answer", w>>
<1>1. /\ msg \in Message /\ x \in Carried(inbox[w]) /\ inbox' \in [Workers -> Seq(Message)]
      /\ Carried(inbox'[w]) = Carried(inbox[w]) \ {x}
      /\ \A v \in Workers \ {w} : inbox'[v] = inbox[v]
      /\ \A v \in Workers : Distinct(inbox'[v]) /\ (v > worker => inbox'[v] = <<>>)
  BY TakenFrom DEF TrxInv
<1>2. x \notin Carried(outbox[w])
  BY <1>1, OnePlace DEF TrxInv
<1>3. msg.type \in Methods /\ msg.id \in Ids
  BY <1>1 DEF Message
<1>4. Answers(w, msg, ok)
  OBVIOUS
<1> HIDE DEF msg
<1>5. /\ outbox' \in [Workers -> Seq(Answer)]
      /\ Carried(outbox'[w]) = Carried(outbox[w]) \cup {x}
      /\ \A v \in Workers \ {w} : outbox'[v] = outbox[v]
      /\ \A v \in Workers : Distinct(outbox'[v])
  BY <1>2, <1>3, <1>4, AnswerPosted DEF TrxInv
<1>6. Shapes'
  BY <1>1, <1>5 DEF TrxInv, Shapes, page
<1>7. Exact(Where, promises)'
  <2>1. p \in Spots /\ q \in Spots /\ p # q
    BY SpotsAre
  <2>2. x \in Where[p] /\ Where'[q] = Where[q] \cup {x} /\ Where'[p] = Where[p] \ {x}
    BY <1>1, <1>5, IdsThere
  <2>3. OnlyAt({p, q})
    BY <1>1, <1>5 DEF OnlyAt
  <2> HIDE DEF p, q, x
  <2> QED BY <2>1, <2>2, <2>3, StepMoves DEF TrxInv, page
<1> QED BY <1>1, <1>5, <1>6, <1>7 DEF TrxInv, Books, NoneTwice, Unborn, Unasked, page

LEMMA AnswerNowInv ==
    ASSUME TrxInv, NEW w \in Workers, AnswerNow(w)
    PROVE  TrxInv'
<1>1. tw[w] \in Globals
  BY DEF TrxInv, Shapes
<1>2. \E ok \in BOOLEAN : Answers(w, Head(inbox[w]), ok)
  BY <1>1 DEF AnswerNow, Globals
<1> QED BY <1>2, AnsweredInv DEF AnswerNow, TrxInv, Shapes

LEMMA BeginCloseInv ==
    ASSUME TrxInv, NEW w \in Workers, BeginClose(w)
    PROVE  TrxInv'
<1> DEFINE fd == tw[w].fd /\ Head(inbox[w]).type = "CLOSE_WS"
<1>1. tw[w] \in Globals
  BY DEF TrxInv, Shapes
<1>2. tw' = [tw EXCEPT ![w].fd = fd]
  BY DEF BeginClose
<1>3. tw' \in [Workers -> Globals]
  BY <1>1, <1>2 DEF TrxInv, Shapes, Globals
<1>4. \A v \in Workers : tw'[v].trx = tw[v].trx /\ tw'[v].osmo = tw[v].osmo /\ (tw'[v].fd => tw[v].fd)
  BY <1>1, <1>2 DEF TrxInv, Shapes, Globals
<1>5. \A v \in Workers : Sane(tw'[v], running[v])
  BY <1>4 DEF TrxInv, Shapes, Sane
<1>6. \E ok \in BOOLEAN : Answers(w, Head(inbox[w]), ok)
  <2>1. (~tw'[w].fd) \in BOOLEAN
    OBVIOUS
  <2>2. Answers(w, Head(inbox[w]), ~tw'[w].fd)
    BY Zenon DEF BeginClose
  <2> QED BY <2>1, <2>2, Zenon
<1>7. Taken(w) /\ UNCHANGED <<page, running, lost>>
  BY Zenon DEF BeginClose
<1> QED BY <1>3, <1>5, <1>6, <1>7, AnsweredInv

LEMMA UnansweredInv ==
    ASSUME TrxInv, NEW w \in Workers, Unanswered(w)
    PROVE  TrxInv'
<1> DEFINE x == Head(inbox[w]).id
           p == <<"message", w>>
           q == <<"lost", 0>>
<1>1. /\ Head(inbox[w]) \in Message /\ x \in Carried(inbox[w]) /\ inbox' \in [Workers -> Seq(Message)]
      /\ Carried(inbox'[w]) = Carried(inbox[w]) \ {x}
      /\ \A v \in Workers \ {w} : inbox'[v] = inbox[v]
      /\ \A v \in Workers : Distinct(inbox'[v]) /\ (v > worker => inbox'[v] = <<>>)
  BY TakenFrom DEF TrxInv, Unanswered
<1>2. x \in Ids /\ lost' = lost \cup {x} /\ UNCHANGED <<page, tw, running, outbox>>
  BY <1>1 DEF Message, Unanswered
<1>3. Shapes'
  BY <1>1, <1>2 DEF TrxInv, Shapes, page
<1>4. Exact(Where, promises)'
  <2>1. p \in Spots /\ q \in Spots /\ p # q
    BY SpotsAre
  <2>2. x \in Where[p] /\ Where'[q] = Where[q] \cup {x} /\ Where'[p] = Where[p] \ {x}
    BY <1>1, <1>2, IdsThere
  <2>3. OnlyAt({p, q})
    BY <1>1, <1>2 DEF OnlyAt
  <2> HIDE DEF p, q, x
  <2> QED BY <1>2, <2>1, <2>2, <2>3, StepMoves DEF TrxInv, page
<1> QED BY <1>1, <1>2, <1>3, <1>4 DEF TrxInv, Books, NoneTwice, Unborn, Unasked, page
\* A handler answers and ends.
LEMMA HandlerAnswersInv ==
    ASSUME TrxInv, NEW w \in Workers, NEW r \in running[w], NEW ok \in BOOLEAN, Answers(w, r, ok), Ended(w, r),
           tw' \in [Workers -> Globals], \A v \in Workers : Sane(tw'[v], running[v]),
           UNCHANGED <<page, inbox, lost>>
    PROVE  TrxInv'
<1> DEFINE x == r.id
           p == <<"handler", w>>
           q == <<"answer", w>>
<1>1. r \in Awaiting /\ x \in IdsOf(running[w])
  BY DEF TrxInv, Shapes, IdsOf
<1>2. r.type \in Methods /\ r.id \in Ids /\ x \notin Carried(outbox[w])
  BY <1>1, OnePlace DEF TrxInv, Awaiting, Methods, Requires, Opens
<1>3. /\ outbox' \in [Workers -> Seq(Answer)]
      /\ Carried(outbox'[w]) = Carried(outbox[w]) \cup {x}
      /\ \A v \in Workers \ {w} : outbox'[v] = outbox[v]
      /\ \A v \in Workers : Distinct(outbox'[v])
  BY <1>2, AnswerPosted DEF TrxInv
<1>4. /\ running' \in [Workers -> SUBSET Awaiting] /\ running'[w] = running[w] \ {r}
      /\ IdsOf(running'[w]) = IdsOf(running[w]) \ {x}
      /\ \A v \in Workers \ {w} : running'[v] = running[v]
      /\ \A v \in Workers : OneEach(running'[v])
  BY HandlerEnds DEF TrxInv
<1>5. Shapes'
  <2>1. \A v \in Workers : Sane(tw'[v], running'[v])
    BY <1>4 DEF Sane
  <2> QED BY <1>3, <1>4, <2>1 DEF TrxInv, Shapes, page
<1>6. Exact(Where, promises)'
  <2>1. p \in Spots /\ q \in Spots /\ p # q
    BY SpotsAre
  <2>2. x \in Where[p] /\ Where'[q] = Where[q] \cup {x} /\ Where'[p] = Where[p] \ {x}
    BY <1>1, <1>3, <1>4, IdsThere
  <2>3. OnlyAt({p, q})
    BY <1>3, <1>4 DEF OnlyAt
  <2> HIDE DEF p, q, x
  <2> QED BY <2>1, <2>2, <2>3, StepMoves DEF TrxInv, page
<1> QED BY <1>3, <1>4, <1>5, <1>6 DEF TrxInv, Books, NoneTwice, Unborn, Unasked, page

\* A handler goes on and awaits something else.
LEMMA HandlerGoesOnInv ==
    ASSUME TrxInv, NEW w \in Workers, NEW r \in running[w], NEW next \in Awaiting, next.id = r.id,
           running' = [running EXCEPT ![w] = (@ \ {r}) \cup {next}],
           tw' \in [Workers -> Globals], \A v \in Workers : Sane(tw'[v], running[v]),
           next.at = "device" => tw'[w].trx # 0,
           UNCHANGED <<page, inbox, outbox, lost>>
    PROVE  TrxInv'
<1>1. /\ running' \in [Workers -> SUBSET Awaiting] /\ running'[w] = (running[w] \ {r}) \cup {next}
      /\ \A v \in Workers \ {w} : running'[v] = running[v]
  BY DEF TrxInv, Shapes
<1>2. OneEach(running[w])
  BY DEF TrxInv, Books, NoneTwice
<1>3. IdsOf(running'[w]) = IdsOf(running[w]) /\ OneEach(running'[w])
  BY <1>1, <1>2 DEF OneEach, IdsOf
<1>4. Shapes'
  <2>1. \A v \in Workers : Sane(tw'[v], running'[v])
    BY <1>1 DEF Sane
  <2> QED BY <1>1, <2>1 DEF TrxInv, Shapes, page
<1>5. Exact(Where, promises)'
  <2>1. \A p \in Spots : Where'[p] = Where[p]
    <3>1. ASSUME NEW p \in Spots  PROVE Where'[p] = Where[p]
      <4>1. CASE p = <<"lost", 0>>
        BY <4>1, IdsThere
      <4>2. CASE \E v \in Workers : p \in {<<"message", v>>, <<"handler", v>>, <<"answer", v>>}
        <5>1. PICK v \in Workers : p \in {<<"message", v>>, <<"handler", v>>, <<"answer", v>>}
          BY <4>2
        <5>2. IdsOf(running'[v]) = IdsOf(running[v])
          BY <1>1, <1>3
        <5> QED BY <5>1, <5>2, IdsThere
      <4> QED BY <4>1, <4>2, SpotsAre
    <3> QED BY <3>1
  <2> QED BY <2>1 DEF TrxInv, Books, Exact, page
<1>6. \A v \in Workers : OneEach(running'[v])
  BY <1>1, <1>3 DEF TrxInv, Books, NoneTwice
<1> QED BY <1>4, <1>5, <1>6 DEF TrxInv, Books, NoneTwice, Unborn, Unasked, page

LEMMA ThrowsInv ==
    ASSUME TrxInv, NEW w \in Workers, NEW r \in running[w], Throws(w, r)
    PROVE  TrxInv'
<1> DEFINE x == r.id
           p == <<"handler", w>>
           q == <<"lost", 0>>
<1>1. r \in Awaiting /\ x \in IdsOf(running[w]) /\ x \in Ids
  BY DEF TrxInv, Shapes, IdsOf, Awaiting
<1>2. lost' = lost \cup {x} /\ Ended(w, r) /\ UNCHANGED <<page, tw, inbox, outbox>>
  BY DEF Throws
<1>3. /\ running' \in [Workers -> SUBSET Awaiting] /\ running'[w] = running[w] \ {r}
      /\ IdsOf(running'[w]) = IdsOf(running[w]) \ {x}
      /\ \A v \in Workers \ {w} : running'[v] = running[v]
      /\ \A v \in Workers : OneEach(running'[v])
  BY <1>2, HandlerEnds DEF TrxInv
<1>4. Shapes'
  <2>1. \A v \in Workers : Sane(tw[v], running'[v])
    BY <1>3 DEF TrxInv, Shapes, Sane
  <2> QED BY <1>1, <1>2, <1>3, <2>1 DEF TrxInv, Shapes, page
<1>5. Exact(Where, promises)'
  <2>1. p \in Spots /\ q \in Spots /\ p # q
    BY SpotsAre
  <2>2. x \in Where[p] /\ Where'[q] = Where[q] \cup {x} /\ Where'[p] = Where[p] \ {x}
    BY <1>1, <1>2, <1>3, IdsThere
  <2>3. OnlyAt({p, q})
    BY <1>2, <1>3 DEF OnlyAt
  <2> HIDE DEF p, q, x
  <2> QED BY <1>2, <2>1, <2>2, <2>3, StepMoves DEF TrxInv, page
<1> QED BY <1>2, <1>3, <1>4, <1>5 DEF TrxInv, Books, NoneTwice, Unborn, Unasked, page
\* The awaits of START, OPEN_USB, OPEN_WS and GET_BTS_STATS end.
LEMMA ResumeInv ==
    ASSUME TrxInv, NEW w \in Workers, NEW r \in running[w], Resume(w, r)
    PROVE  TrxInv' /\ (tw[w].trx # 0 => tw'[w].trx = tw[w].trx)
                   /\ \A v \in Workers \ {w} : tw'[v] = tw[v]
<1>1. /\ r \in Awaiting /\ tw[w] \in Globals /\ tw \in [Workers -> Globals]
      /\ \A v \in Workers : Sane(tw[v], running[v])
  BY DEF TrxInv, Shapes
<1>2. CASE StartOsmo(w, r)
  <2> DEFINE next == [r EXCEPT !.at = "control"]
  <2>1. next \in Awaiting /\ next.id = r.id /\ next.at = "control"
    BY <1>1 DEF Awaiting
  <2>2. running' = [running EXCEPT ![w] = (@ \ {r}) \cup {next}] /\ UNCHANGED <<page, inbox, outbox, lost>>
    BY <1>2 DEF StartOsmo
  <2>3. /\ tw' \in [Workers -> Globals]
        /\ tw'[w].trx = tw[w].trx /\ tw'[w].fd = tw[w].fd /\ tw'[w].osmo = tw[w].osmo + 1
        /\ \A v \in Workers \ {w} : tw'[v] = tw[v]
    BY <1>1, <1>2 DEF StartOsmo, Globals
  <2>4. \A v \in Workers : Sane(tw'[v], running[v])
    BY <1>1, <2>3 DEF Sane, Globals
  <2> HIDE DEF next
  <2>5. TrxInv'
    BY <2>1, <2>2, <2>3, <2>4, HandlerGoesOnInv
  <2> QED BY <2>3, <2>5
<1>3. CASE StartControl(w, r)
  <2>1. PICK control \in {TRUE, tw[w].control} :
            /\ tw' = [tw EXCEPT ![w] = WithTransceiver([@ EXCEPT !.control = control])]
            /\ StartAnswers(w, r, control)
    BY <1>3 DEF StartControl
  <2>2. control \in BOOLEAN /\ Answers(w, r, control) /\ Ended(w, r) /\ UNCHANGED <<page, inbox, lost>>
    BY <1>1, <1>3, <2>1 DEF StartControl, StartAnswers, Globals
  <2> DEFINE g == [tw[w] EXCEPT !.control = control]
  <2>3. g \in Globals /\ g.trx = tw[w].trx /\ g.osmo = tw[w].osmo /\ g.fd = tw[w].fd
    BY <1>1, <2>2 DEF Globals
  <2>4. tw' = [tw EXCEPT ![w] = WithTransceiver(g)]
    BY <2>1
  <2> HIDE DEF g
  <2>5. /\ WithTransceiver(g) \in Globals /\ WithTransceiver(g).osmo = g.osmo /\ WithTransceiver(g).fd = g.fd
        /\ WithTransceiver(g).trx = IF g.trx = 0 THEN g.osmo ELSE g.trx
    BY <2>3 DEF WithTransceiver, Globals
  <2>6. /\ tw' \in [Workers -> Globals] /\ tw'[w] = WithTransceiver(g)
        /\ \A v \in Workers \ {w} : tw'[v] = tw[v]
    BY <1>1, <2>4, <2>5
  <2>7. Sane(tw'[w], running[w])
    BY <1>1, <2>3, <2>5, <2>6 DEF Sane, Globals
  <2>8. \A v \in Workers : Sane(tw'[v], running[v])
    BY <1>1, <2>6, <2>7
  <2>9. TrxInv'
    BY <2>2, <2>6, <2>8, HandlerAnswersInv
  <2> QED BY <2>3, <2>5, <2>6, <2>9
<1>4. CASE UsbControl(w, r)
  <2>1. PICK control \in {TRUE, tw[w].control} : tw' = [tw EXCEPT ![w].control = control]
    BY <1>4 DEF UsbControl
  <2>2. /\ tw' \in [Workers -> Globals]
        /\ tw'[w].trx = tw[w].trx /\ tw'[w].fd = tw[w].fd /\ tw'[w].osmo = tw[w].osmo
        /\ \A v \in Workers \ {w} : tw'[v] = tw[v]
    BY <1>1, <2>1 DEF Globals
  <2>3. \A v \in Workers : Sane(tw'[v], running[v])
    BY <1>1, <2>2 DEF Sane
  <2>4. CASE tw[w].trx # 0
    <3> DEFINE next == [r EXCEPT !.at = "device"]
    <3>1. next \in Awaiting /\ next.id = r.id
      BY <1>1 DEF Awaiting
    <3>2. running' = [running EXCEPT ![w] = (@ \ {r}) \cup {next}] /\ UNCHANGED <<page, inbox, outbox, lost>>
      BY <1>4, <2>4 DEF UsbControl
    <3> HIDE DEF next
    <3> QED BY <2>2, <2>3, <2>4, <3>1, <3>2, HandlerGoesOnInv
  <2>5. CASE tw[w].trx = 0
    <3>1. Answers(w, r, FALSE) /\ Ended(w, r) /\ UNCHANGED <<page, inbox, lost>>
      BY <1>4, <2>5 DEF UsbControl
    <3> QED BY <2>2, <2>3, <2>5, <3>1, HandlerAnswersInv
  <2> QED BY <2>4, <2>5
<1>5. CASE UsbDevice(w, r)
  <2>1. PICK found \in BOOLEAN :
            tw' = [tw EXCEPT ![w].fd = @ \/ found] /\ Answers(w, r, tw[w].fd \/ found)
    BY <1>5 DEF UsbDevice
  <2>2. /\ tw' \in [Workers -> Globals]
        /\ tw'[w].trx = tw[w].trx /\ tw'[w].osmo = tw[w].osmo
        /\ \A v \in Workers \ {w} : tw'[v] = tw[v]
    BY <1>1, <2>1 DEF Globals
  <2>3. tw[w].trx # 0
    BY <1>1, <1>5 DEF UsbDevice, Sane
  <2>4. \A v \in Workers : Sane(tw'[v], running[v])
    BY <1>1, <2>2, <2>3 DEF Sane
  <2>5. (tw[w].fd \/ found) \in BOOLEAN /\ Ended(w, r) /\ UNCHANGED <<page, inbox, lost>>
    BY <1>5 DEF UsbDevice
  <2>6. TrxInv'
    BY <2>1, <2>2, <2>4, <2>5, HandlerAnswersInv
  <2> QED BY <2>2, <2>6
<1>6. CASE Finished(w, r)
  <2>1. PICK ok \in BOOLEAN : Answers(w, r, ok)
    BY <1>6 DEF Finished
  <2>2. Ended(w, r) /\ UNCHANGED <<page, tw, inbox, lost>>
    BY <1>6 DEF Finished
  <2> QED BY <1>1, <2>1, <2>2, HandlerAnswersInv
<1> QED BY <1>2, <1>3, <1>4, <1>5, <1>6 DEF Resume
-------------------------------------------------------------------------------
(* The page's steps: requests are made, answers settle them, and a worker is *)
(* terminated with what it had.                                              *)

LEMMA OnWorkerMessageInv ==
    ASSUME TrxInv, NEW w \in Workers, OnWorkerMessage(w)
    PROVE  TrxInv'
<1> DEFINE msg == Head(outbox[w])
           x   == msg.id
           p   == <<"answer", w>>
<1>1. /\ outbox[w] \in Seq(Answer) /\ outbox[w] # <<>> /\ outbox' = [outbox EXCEPT ![w] = Tail(outbox[w])]
      /\ Distinct(outbox[w])
  BY DEF OnWorkerMessage, TrxInv, Shapes, Books, NoneTwice
<1>2. /\ msg \in Answer /\ Tail(outbox[w]) \in Seq(Answer) /\ x \in Carried(outbox[w])
      /\ Distinct(Tail(outbox[w])) /\ Carried(Tail(outbox[w])) = Carried(outbox[w]) \ {x}
  BY <1>1, TakenOff
<1>3. /\ outbox' \in [Workers -> Seq(Answer)]
      /\ Carried(outbox'[w]) = Carried(outbox[w]) \ {x}
      /\ \A v \in Workers \ {w} : outbox'[v] = outbox[v]
      /\ \A v \in Workers : Distinct(outbox'[v])
  BY <1>1, <1>2 DEF TrxInv, Shapes, Books, NoneTwice
<1>4. promises' = promises \ {x} /\ UNCHANGED <<worker, tw, inbox, running, lost>>
  BY DEF OnWorkerMessage
<1>5. /\ calls' \in [Calls -> CallStates] /\ started' \in BOOLEAN
      /\ \A c \in Calls : calls[c].state # "idle" => calls'[c].state # "idle"
  <2>1. msg.id[1] \in Calls
    BY <1>2 DEF Answer, Ids
  <2> HIDE DEF msg
  <2>2. CASE msg.type \in {"START", "STOP"}
    BY <2>2 DEF OnWorkerMessage, TrxInv, Shapes, msg
  <2>3. CASE msg.type \notin {"START", "STOP"}
    <3>1. calls' = Settle(msg) \/ calls' = calls
      BY <2>3 DEF OnWorkerMessage, msg
    <3>2. Settle(msg) \in [Calls -> CallStates] /\ \A c \in Calls : Settle(msg)[c].state = "idle" => calls[c].state = "idle"
      BY <2>1 DEF Settle, TrxInv, Shapes, CallStates
    <3>3. started' = started
      BY <2>3 DEF OnWorkerMessage, msg
    <3> QED BY <3>1, <3>2, <3>3 DEF TrxInv, Shapes
  <2> QED BY <2>2, <2>3
<1>6. Shapes'
  BY <1>3, <1>4, <1>5 DEF TrxInv, Shapes
<1>7. Exact(Where, promises)'
  <2>1. p \in Spots
    BY SpotsAre
  <2>2. x \in Where[p] /\ Where'[p] = Where[p] \ {x}
    BY <1>2, <1>3, IdsThere
  <2>3. OnlyAt({p})
    BY <1>3, <1>4 DEF OnlyAt
  <2>4. Exact(Where, promises)
    BY DEF TrxInv, Books
  <2> HIDE DEF p, x
  <2>5. \A r \in Spots \ {p} : Where'[r] = Where[r]
    BY <2>3, Elsewhere
  <2>6. Exact(Where', promises \ {x})
    BY <2>1, <2>2, <2>4, <2>5, Leaves
  <2> QED BY <1>4, <2>6
<1>8. Unasked'
  <2>1. ASSUME NEW id \in promises'  PROVE calls'[id[1]].state # "idle"
    <3>1. id \in promises /\ id[1] \in Calls
      BY <1>4, <2>1 DEF TrxInv, Shapes, Ids
    <3> QED BY <1>5, <3>1 DEF TrxInv, Books, Unasked
  <2> QED BY <2>1 DEF Unasked
<1> QED BY <1>3, <1>4, <1>6, <1>7, <1>8 DEF TrxInv, Books, NoneTwice, Unborn

\* A new request, in a worker's inbox or lost at once.
LEMMA RequestBooks ==
    ASSUME TrxInv, NEW x \in Ids, calls[x[1]].state = "idle", promises' = promises \cup {x},
           NEW q \in Spots, Where'[q] = Where[q] \cup {x}, OnlyAt({q})
    PROVE  Exact(Where, promises)'
<1>1. x \notin promises
  BY DEF TrxInv, Books, Unasked
<1>2. \A r \in Spots \ {q} : Where'[r] = Where[r]
  BY Elsewhere
<1>3. Exact(Where, promises)
  BY DEF TrxInv, Books
<1>4. Exact(Where', promises \cup {x})
  BY <1>1, <1>2, <1>3, Enters
<1> QED BY <1>4

\* The promises of call c, which is not idle any more.
LEMMA CallAsked ==
    ASSUME TrxInv, NEW c \in Calls, NEW k, NEW s \in {"starting", "waiting", "threw", "resolved"}, Left(c, k, s),
           \A id \in promises' : id \in promises \/ id[1] = c
    PROVE  Unasked'
<1>1. calls'[c].state # "idle" /\ \A d \in Calls \ {c} : calls'[d] = calls[d]
  BY DEF TrxInv, Shapes, Left
<1>2. ASSUME NEW id \in promises'  PROVE calls'[id[1]].state # "idle"
  <2>1. CASE id[1] = c
    BY <1>1, <2>1
  <2>2. CASE id[1] # c
    <3>1. id \in promises /\ id[1] \in Calls
      BY <1>2, <2>2 DEF TrxInv, Shapes, Ids
    <3> QED BY <1>1, <2>2, <3>1 DEF TrxInv, Books, Unasked
  <2> QED BY <2>1, <2>2
<1> QED BY <1>2 DEF Unasked

LEMMA NewWorkerBooks ==
    ASSUME TrxInv, NEW id \in Ids, calls[id[1]].state = "idle", NewWorker(id), UNCHANGED <<running, outbox>>
    PROVE  Exact(Where, promises)' /\ NoneTwice' /\ Unborn'
<1> DEFINE w == worker + 1
           q == <<"message", w>>
           m == [type |-> "START", id |-> id]
<1>1. w \in Workers /\ worker \in Nat /\ worker' = w /\ promises' = promises \cup {id} /\ lost' = lost
  <2>1. worker + 1 \in Workers
    BY NewWorkerShapes DEF TrxInv
  <2>2. worker \in Nat
    BY TrxManagerAssumption DEF TrxInv, Shapes
  <2> QED BY <2>1, <2>2 DEF NewWorker
<1>2. inbox[w] = <<>>
  BY <1>1 DEF TrxInv, Books, Unborn
<1>3. inbox'[w] = <<m>> /\ \A v \in Workers \ {w} : inbox'[v] = inbox[v]
  BY <1>1 DEF NewWorker, TrxInv, Shapes
<1> HIDE DEF w
<1>4. Carried(<<m>>) = {id} /\ Distinct(<<m>>) /\ Carried(<<>>) = {}
  BY DEF Carried, Distinct
<1> HIDE DEF m
<1>5. q \in Spots /\ Where'[q] = Where[q] \cup {id}
  <2>1. Carried(inbox'[w]) = Carried(inbox[w]) \cup {id}
    BY <1>2, <1>3, <1>4
  <2> QED BY <1>1, <2>1, IdsThere, SpotsAre
<1>6. OnlyAt({q})
  BY <1>1, <1>3 DEF OnlyAt
<1> HIDE DEF q
<1>7. Exact(Where, promises)'
  BY <1>1, <1>5, <1>6, RequestBooks
<1>8. NoneTwice'
  BY <1>3, <1>4 DEF TrxInv, Books, NoneTwice
<1>9. Unborn'
  BY <1>1, <1>3 DEF TrxInv, Books, Unborn, Workers, w
<1> QED BY <1>7, <1>8, <1>9

LEMMA PostBooks ==
    ASSUME TrxInv, NEW c \in Calls, calls[c].state = "idle", NEW k \in Methods, Post(c, k)
    PROVE  Exact(Where, promises)' /\ NoneTwice' /\ Unborn'
<1> DEFINE x == <<c, "own">>
           m == [type |-> k, id |-> x]
<1>1. x \in Ids /\ calls[x[1]].state = "idle"
  BY DEF Ids
<1>2. worker \in Workers /\ Request(worker, k, x) /\ UNCHANGED <<worker, running, outbox>>
  BY DEF Post, TrxInv, Shapes, Workers
<1>3. m \in Message /\ m.id = x
  BY <1>1 DEF Message
<1>4. CASE tw[worker].alive
  <2> DEFINE q == <<"message", worker>>
  <2>1. /\ inbox' = [inbox EXCEPT ![worker] = Append(inbox[worker], m)]
        /\ promises' = promises \cup {x} /\ lost' = lost
    BY <1>2, <1>4 DEF Request
  <2>2. inbox[worker] \in Seq(Message) /\ Distinct(inbox[worker]) /\ x \notin Carried(inbox[worker])
    BY <1>1, <1>2, OnePlace DEF TrxInv, Shapes, Books, NoneTwice, Unasked
  <2> HIDE DEF m, x
  <2>3. /\ Carried(Append(inbox[worker], m)) = Carried(inbox[worker]) \cup {x}
        /\ Distinct(Append(inbox[worker], m))
    BY <1>3, <2>2, Posted
  <2>4. inbox'[worker] = Append(inbox[worker], m) /\ \A v \in Workers \ {worker} : inbox'[v] = inbox[v]
    BY <1>2, <2>1 DEF TrxInv, Shapes
  <2>5. q \in Spots /\ Where'[q] = Where[q] \cup {x} /\ OnlyAt({q})
    BY <1>2, <2>1, <2>3, <2>4, IdsThere, SpotsAre DEF OnlyAt
  <2> HIDE DEF q
  <2>6. Exact(Where, promises)'
    BY <1>1, <2>1, <2>5, RequestBooks
  <2>7. NoneTwice'
    BY <1>2, <2>3, <2>4 DEF TrxInv, Books, NoneTwice
  <2>8. \A v \in Workers : v > worker => v # worker
    BY <1>2, TrxManagerAssumption DEF Workers
  <2>9. Unborn'
    BY <1>2, <2>4, <2>8 DEF TrxInv, Books, Unborn
  <2> QED BY <2>6, <2>7, <2>9
<1>5. CASE ~tw[worker].alive
  <2> DEFINE q == <<"lost", 0>>
  <2>1. inbox' = inbox /\ promises' = promises \cup {x} /\ lost' = lost \cup {x}
    BY <1>2, <1>5 DEF Request
  <2>2. q \in Spots /\ Where'[q] = Where[q] \cup {x} /\ OnlyAt({q})
    BY <1>2, <2>1, IdsThere, SpotsAre DEF OnlyAt
  <2> HIDE DEF q, x
  <2>3. Exact(Where, promises)'
    BY <1>1, <2>1, <2>2, RequestBooks
  <2> QED BY <1>2, <2>1, <2>3 DEF TrxInv, Books, NoneTwice, Unborn
<1> QED BY <1>4, <1>5
LEMMA AskedIsCarried == \A q : Asked(ToSet(q)) = Carried(q)
  BY DEF Asked, ToSet, Carried

LEMMA StopWorkerBooks ==
    ASSUME TrxInv, NEW c \in Calls, calls[c].state = "idle", NEW k, StopWorker(c, k)
    PROVE  Exact(Where, promises)' /\ NoneTwice' /\ Unborn'
<1> DEFINE x == <<c, "own">>
           w == worker
           q == <<"lost", 0>>
<1>1. w \in Workers /\ w' = w /\ promises' = promises \cup {x}
  BY TrxManagerAssumption DEF StopWorker, TrxInv, Shapes, Workers
<1>2. x \notin promises
  BY DEF TrxInv, Books, Unasked
<1>3. /\ inbox'[w] = <<>> /\ \A v \in Workers \ {w} : inbox'[v] = inbox[v]
      /\ running'[w] = {} /\ \A v \in Workers \ {w} : running'[v] = running[v]
  BY <1>1 DEF StopWorker, TrxInv, Shapes
<1>4. PICK arrives \in BOOLEAN :
        LET gone == IF arrives THEN <<>> ELSE outbox[w]
        IN  /\ outbox' = [outbox EXCEPT ![w] = IF arrives THEN @ ELSE <<>>]
            /\ lost' = lost \cup {x} \cup Asked(ToSet(inbox[w])) \cup Asked(running[w]) \cup Asked(ToSet(gone))
  BY DEF StopWorker
<1> DEFINE A == IF arrives THEN {} ELSE Carried(outbox[w])
           X == Carried(inbox[w]) \cup IdsOf(running[w]) \cup A
           H == [r \in Spots |-> IF r = q THEN Where[r] \cup X ELSE Where[r] \ X]
<1>5. Carried(<<>>) = {} /\ IdsOf({}) = {} /\ Distinct(<<>>) /\ OneEach({})
  BY DEF Carried, IdsOf, Distinct, OneEach
<1>6. /\ outbox'[w] = IF arrives THEN outbox[w] ELSE <<>>
      /\ \A v \in Workers \ {w} : outbox'[v] = outbox[v]
  BY <1>1, <1>4 DEF TrxInv, Shapes
<1>7. lost' = (lost \cup X) \cup {x}
  <2>1. Asked(running[w]) = IdsOf(running[w])
    BY DEF Asked, IdsOf
  <2>2. Asked(ToSet(inbox[w])) = Carried(inbox[w])
    BY AskedIsCarried
  <2>3. Asked(ToSet(IF arrives THEN <<>> ELSE outbox[w])) = A
    BY <1>5, AskedIsCarried
  <2> HIDE DEF A, x, w
  <2> QED BY <1>4, <2>1, <2>2, <2>3
<1>8. Exact(Where, promises) /\ q \in Spots
  BY SpotsAre DEF TrxInv, Books
<1>9. X \subseteq promises
  BY <1>1, OnePlace DEF TrxInv
<1>10. Exact(H, promises)
  <2>1. H[q] = Where[q] \cup X /\ \A r \in Spots \ {q} : H[r] = Where[r] \ X
    BY <1>8
  <2> HIDE DEF H, X, q
  <2> QED BY <1>8, <1>9, <2>1, AllMove
<1>11. Where'[q] = H[q] \cup {x}
  BY <1>7, <1>8, IdsThere
<1>12. ASSUME NEW r \in Spots \ {q}  PROVE Where'[r] = H[r]
  <2>1. H[r] = Where[r] \ X
    OBVIOUS
  <2> DEFINE m == <<"message", w>>
             h == <<"handler", w>>
             a == <<"answer", w>>
  <2>2. /\ Where[m] = Carried(inbox[w]) /\ Where[h] = IdsOf(running[w]) /\ Where[a] = Carried(outbox[w])
        /\ Where'[m] = {} /\ Where'[h] = {} /\ Where'[a] = Where[a] \ A
        /\ m \in Spots /\ h \in Spots /\ a \in Spots /\ m # h /\ m # a /\ h # a
    BY <1>1, <1>3, <1>5, <1>6, IdsThere, SpotsAre
  <2>3. A \subseteq Where[a] /\ X = Where[m] \cup Where[h] \cup A
    BY <2>2
  <2>4. CASE r \in {m, h, a}
    <3> HIDE DEF m, h, a, A, X, H, q
    <3>1. Where[a] \cap (Where[m] \cup Where[h]) = {}
      BY <1>8, <2>2 DEF Exact
    <3> QED BY <2>1, <2>2, <2>3, <2>4, <3>1
  <2>5. CASE r \notin {m, h, a}
    <3>1. Where'[r] = Where[r]
      <4>1. PICK v \in Workers : r \in {<<"message", v>>, <<"handler", v>>, <<"answer", v>>}
        BY <1>12, SpotsAre
      <4>2. v \in Workers \ {w}
        BY <2>5, <4>1
      <4> HIDE DEF w
      <4> QED BY <1>3, <1>6, <4>1, <4>2, IdsThere
    <3> HIDE DEF m, h, a, A, X, H, q
    <3>2. Where[r] \cap (Where[m] \cup Where[h] \cup Where[a]) = {}
      BY <1>8, <2>2, <2>5 DEF Exact
    <3> QED BY <2>1, <2>3, <3>1, <3>2
  <2> QED BY <2>4, <2>5
<1>13. Exact(Where, promises)'
  <2> HIDE DEF H, q, x
  <2>1. \A r \in Spots \ {q} : Where'[r] = H[r]
    BY <1>12
  <2>2. Exact(Where', promises \cup {x})
    BY <1>2, <1>8, <1>10, <1>11, <2>1, Enters
  <2> QED BY <1>1, <2>2
<1>14. NoneTwice'
  BY <1>3, <1>5, <1>6 DEF TrxInv, Books, NoneTwice
<1>15. Unborn'
  BY <1>1, <1>3 DEF TrxInv, Books, Unborn
<1> QED BY <1>13, <1>14, <1>15

LEMMA CallInv ==
    ASSUME TrxInv, NEW c \in Calls, Call(c)
    PROVE  TrxInv' /\ \A w \in Workers : tw'[w].trx = tw[w].trx \/ tw'[w].alive = FALSE
<1>1. PICK k \in Kinds : OpenFirst(c, k) \/ StartWorker(c, k) \/ Post(c, k) \/ NoWorker(c, k) \/ StopWorker(c, k)
  BY DEF Call
<1>2. k \in Methods /\ calls[c].state = "idle"
  BY TrxManagerAssumption DEF Call
<1>3. Shapes'
  BY CallShapes DEF TrxInv
<1>4. /\ <<c, "own">> \in Ids /\ <<c, "start">> \in Ids
      /\ <<c, "own">>[1] = c /\ <<c, "start">>[1] = c
  BY DEF Ids
<1>5. CASE OpenFirst(c, k)
  <2>1. NewWorker(<<c, "start">>) /\ UNCHANGED <<running, outbox>> /\ Left(c, k, "starting")
    BY <1>5 DEF OpenFirst
  <2>2. Exact(Where, promises)' /\ NoneTwice' /\ Unborn'
    BY <1>2, <1>4, <2>1, NewWorkerBooks
  <2>3. promises' = promises \cup {<<c, "start">>} /\ \A w \in Workers : tw'[w].trx = tw[w].trx
    BY <1>4, <2>1, NewWorkerShapes DEF TrxInv, NewWorker
  <2>4. Unasked'
    BY <2>1, <2>3, CallAsked
  <2> QED BY <1>3, <2>2, <2>3, <2>4 DEF TrxInv, Books
<1>6. CASE StartWorker(c, k)
  <2>1. NewWorker(<<c, "own">>) /\ UNCHANGED <<running, outbox>> /\ Left(c, k, "waiting")
    BY <1>6 DEF StartWorker
  <2>2. Exact(Where, promises)' /\ NoneTwice' /\ Unborn'
    BY <1>2, <1>4, <2>1, NewWorkerBooks
  <2>3. promises' = promises \cup {<<c, "own">>} /\ \A w \in Workers : tw'[w].trx = tw[w].trx
    BY <1>4, <2>1, NewWorkerShapes DEF TrxInv, NewWorker
  <2>4. Unasked'
    BY <2>1, <2>3, CallAsked
  <2> QED BY <1>3, <2>2, <2>3, <2>4 DEF TrxInv, Books
<1>7. CASE Post(c, k)
  <2>1. Exact(Where, promises)' /\ NoneTwice' /\ Unborn'
    BY <1>2, <1>7, PostBooks
  <2>2. promises' = promises \cup {<<c, "own">>} /\ Left(c, k, "waiting") /\ tw' = tw
    BY <1>7 DEF Post, Request
  <2>3. Unasked'
    BY <2>2, CallAsked
  <2> QED BY <1>3, <2>1, <2>2, <2>3 DEF TrxInv, Books
<1>8. CASE NoWorker(c, k)
  <2>1. UNCHANGED <<worker, promises, tw, inbox, running, outbox, lost>>
    BY <1>8 DEF NoWorker
  <2>2. PICK s \in {"threw", "resolved"} : Left(c, k, s)
    BY <1>8 DEF NoWorker
  <2>3. Unasked'
    BY <2>1, <2>2, CallAsked
  <2>4. Exact(Where, promises)'
    <3>1. OnlyAt({})
      BY <2>1 DEF OnlyAt
    <3>2. \A p \in Spots : Where'[p] = Where[p]
      BY <3>1, Elsewhere
    <3> QED BY <2>1, <3>2 DEF TrxInv, Books, Exact
  <2> QED BY <1>3, <2>1, <2>3, <2>4 DEF TrxInv, Books, NoneTwice, Unborn
<1>9. CASE StopWorker(c, k)
  <2>1. Exact(Where, promises)' /\ NoneTwice' /\ Unborn'
    BY <1>2, <1>9, StopWorkerBooks
  <2>2. promises' = promises \cup {<<c, "own">>} /\ Left(c, k, "waiting")
    BY <1>9 DEF StopWorker
  <2>3. Unasked'
    BY <2>2, CallAsked
  <2>4. \A w \in Workers : tw'[w] = tw[w] \/ tw'[w] = Fresh
    BY <1>9 DEF StopWorker, TrxInv, Shapes
  <2>5. Fresh.alive = FALSE
    BY DEF Fresh
  <2> QED BY <1>3, <2>1, <2>3, <2>4, <2>5 DEF TrxInv, Books
<1> QED BY <1>1, <1>5, <1>6, <1>7, <1>8, <1>9
-------------------------------------------------------------------------------
(* The places of PromisesAccounted.                                          *)

\* What is in Places(id) is at a worker or among the lost, and the reverse.
LEMMA PlacesOf ==
    ASSUME NEW id
    PROVE  /\ \A t \in Places(id) : t \in LostPlaces(id) \/ \E w \in Workers : t \in PlacesIn(w, id)
           /\ \A w \in Workers : PlacesIn(w, id) \subseteq Places(id)
           /\ LostPlaces(id) \subseteq Places(id)
  BY DEF Places

\* Every place is at a spot that has the id, every such spot has a place, and no
\* spot has two.
LEMMA PlacesAreSpots ==
    ASSUME Books, NEW id
    PROVE  /\ \A t \in Places(id) : <<t[1], t[2]>> \in Spots /\ id \in Where[<<t[1], t[2]>>]
           /\ \A p \in Spots : id \in Where[p] => Places(id) # {}
           /\ \A t, u \in Places(id) : t[1] = u[1] /\ t[2] = u[2] => t = u
<1> DEFINE Message1(w) == {<<"message", w, n>> : n \in {n \in DOMAIN inbox[w] : inbox[w][n].id = id}}
           Handler1(w) == {<<"handler", w, r.at>> : r \in {r \in running[w] : r.id = id}}
           Answer1(w)  == {<<"answer", w, n>> : n \in {n \in DOMAIN outbox[w] : outbox[w][n].id = id}}
<1>1. \A w \in Workers : PlacesIn(w, id) = Message1(w) \cup Handler1(w) \cup Answer1(w)
  BY DEF PlacesIn
<1>2. ASSUME NEW w \in Workers, NEW t \in Message1(w)
      PROVE  t[1] = "message" /\ t[2] = w /\ t[3] \in DOMAIN inbox[w] /\ inbox[w][t[3]].id = id /\ t = <<"message", w, t[3]>>
  OBVIOUS
<1>3. ASSUME NEW w \in Workers, NEW t \in Handler1(w)
      PROVE  t[1] = "handler" /\ t[2] = w /\ \E r \in running[w] : r.id = id /\ t = <<"handler", w, r.at>>
  OBVIOUS
<1>4. ASSUME NEW w \in Workers, NEW t \in Answer1(w)
      PROVE  t[1] = "answer" /\ t[2] = w /\ t[3] \in DOMAIN outbox[w] /\ outbox[w][t[3]].id = id /\ t = <<"answer", w, t[3]>>
  OBVIOUS
<1>5. ASSUME NEW t \in LostPlaces(id)  PROVE t = <<"lost", 0, 0>> /\ id \in lost
  BY DEF LostPlaces
<1>6. \A w \in Workers : /\ id \in Carried(inbox[w]) => Message1(w) # {}
                         /\ id \in IdsOf(running[w]) => Handler1(w) # {}
                         /\ id \in Carried(outbox[w]) => Answer1(w) # {}
  BY DEF Carried, IdsOf
<1>7. id \in lost => LostPlaces(id) # {}
  BY DEF LostPlaces
<1>8. ASSUME NEW t \in Places(id)
      PROVE  \/ \E w \in Workers : t \in Message1(w)
             \/ \E w \in Workers : t \in Handler1(w)
             \/ \E w \in Workers : t \in Answer1(w)
             \/ t \in LostPlaces(id)
  <2> HIDE DEF Message1, Handler1, Answer1
  <2> QED BY <1>1, PlacesOf
<1>9. /\ \A w \in Workers : Message1(w) \cup Handler1(w) \cup Answer1(w) \subseteq Places(id)
      /\ LostPlaces(id) \subseteq Places(id)
  <2> HIDE DEF Message1, Handler1, Answer1
  <2> QED BY <1>1, PlacesOf
<1> HIDE DEF Message1, Handler1, Answer1
<1>10. ASSUME NEW t \in Places(id)  PROVE <<t[1], t[2]>> \in Spots /\ id \in Where[<<t[1], t[2]>>]
  <2>1. CASE \E w \in Workers : t \in Message1(w)
    <3>1. PICK w \in Workers : t \in Message1(w)
      BY <2>1
    <3>2. t[1] = "message" /\ t[2] = w /\ id \in Carried(inbox[w])
      BY <1>2, <3>1 DEF Carried
    <3> QED BY <3>2, IdsThere, SpotsAre
  <2>2. CASE \E w \in Workers : t \in Handler1(w)
    <3>1. PICK w \in Workers : t \in Handler1(w)
      BY <2>2
    <3>2. t[1] = "handler" /\ t[2] = w /\ id \in IdsOf(running[w])
      BY <1>3, <3>1 DEF IdsOf
    <3> QED BY <3>2, IdsThere, SpotsAre
  <2>3. CASE \E w \in Workers : t \in Answer1(w)
    <3>1. PICK w \in Workers : t \in Answer1(w)
      BY <2>3
    <3>2. t[1] = "answer" /\ t[2] = w /\ id \in Carried(outbox[w])
      BY <1>4, <3>1 DEF Carried
    <3> QED BY <3>2, IdsThere, SpotsAre
  <2>4. CASE t \in LostPlaces(id)
    BY <1>5, <2>4, IdsThere, SpotsAre
  <2> QED BY <1>8, <2>1, <2>2, <2>3, <2>4
<1>11. ASSUME NEW p \in Spots, id \in Where[p]  PROVE Places(id) # {}
  <2>1. CASE p = <<"lost", 0>>
    BY <1>7, <1>9, <1>11, <2>1, IdsThere
  <2>2. CASE \E w \in Workers : p \in {<<"message", w>>, <<"handler", w>>, <<"answer", w>>}
    <3>1. PICK w \in Workers : p \in {<<"message", w>>, <<"handler", w>>, <<"answer", w>>}
      BY <2>2
    <3>2. id \in Carried(inbox[w]) \/ id \in IdsOf(running[w]) \/ id \in Carried(outbox[w])
      BY <1>11, <3>1, IdsThere
    <3> QED BY <1>6, <1>9, <3>2
  <2> QED BY <2>1, <2>2, SpotsAre
<1>12. ASSUME NEW t \in Places(id), NEW u \in Places(id), t[1] = u[1], t[2] = u[2]  PROVE t = u
  <2>1. CASE \E w \in Workers : t \in Message1(w)
    <3>1. PICK w \in Workers : t \in Message1(w)
      BY <2>1
    <3>2. t[1] = "message" /\ t[2] = w /\ u \in Message1(w)
      BY <1>2, <1>3, <1>4, <1>5, <1>8, <1>12, <3>1
    <3>3. Distinct(inbox[w])
      BY DEF Books, NoneTwice
    <3> QED BY <1>2, <3>1, <3>2, <3>3 DEF Distinct
  <2>2. CASE \E w \in Workers : t \in Handler1(w)
    <3>1. PICK w \in Workers : t \in Handler1(w)
      BY <2>2
    <3>2. t[1] = "handler" /\ t[2] = w /\ u \in Handler1(w)
      BY <1>2, <1>3, <1>4, <1>5, <1>8, <1>12, <3>1
    <3>3. OneEach(running[w])
      BY DEF Books, NoneTwice
    <3> QED BY <1>3, <3>1, <3>2, <3>3 DEF OneEach
  <2>3. CASE \E w \in Workers : t \in Answer1(w)
    <3>1. PICK w \in Workers : t \in Answer1(w)
      BY <2>3
    <3>2. t[1] = "answer" /\ t[2] = w /\ u \in Answer1(w)
      BY <1>2, <1>3, <1>4, <1>5, <1>8, <1>12, <3>1
    <3>3. Distinct(outbox[w])
      BY DEF Books, NoneTwice
    <3> QED BY <1>4, <3>1, <3>2, <3>3 DEF Distinct
  <2>4. CASE t \in LostPlaces(id)
    BY <1>2, <1>3, <1>4, <1>5, <1>8, <1>12, <2>4
  <2> QED BY <1>8, <2>1, <2>2, <2>3, <2>4
<1> QED BY <1>10, <1>11, <1>12

LEMMA InvAccounts == TrxInv => PromisesAccounted
<1> SUFFICES ASSUME TrxInv, NEW id \in Ids
             PROVE  Cardinality(Places(id)) = IF id \in promises THEN 1 ELSE 0
  BY DEF PromisesAccounted
<1>1. Books /\ Exact(Where, promises)
  BY DEF TrxInv, Books
<1>2. CASE id \in promises
  <2>1. PICK p \in Spots : id \in Where[p]
    BY <1>1, <1>2 DEF Exact
  <2>2. PICK t \in Places(id) : TRUE
    BY <1>1, <2>1, PlacesAreSpots
  <2>3. ASSUME NEW u \in Places(id)  PROVE u = t
    <3>1. /\ <<t[1], t[2]>> \in Spots /\ id \in Where[<<t[1], t[2]>>]
          /\ <<u[1], u[2]>> \in Spots /\ id \in Where[<<u[1], u[2]>>]
      BY <1>1, PlacesAreSpots
    <3>2. <<t[1], t[2]>> = <<u[1], u[2]>>
      BY <1>1, <3>1 DEF Exact
    <3> QED BY <1>1, <3>2, PlacesAreSpots
  <2>4. Places(id) = {t}
    BY <2>3
  <2> QED BY <1>2, <2>4, FS_Singleton
<1>3. CASE id \notin promises
  <2>1. ASSUME NEW t \in Places(id)  PROVE FALSE
    <3>1. <<t[1], t[2]>> \in Spots /\ id \in Where[<<t[1], t[2]>>]
      BY <1>1, PlacesAreSpots
    <3> QED BY <1>1, <1>3, <3>1 DEF Exact
  <2> QED BY <1>3, <2>1, FS_EmptySet
<1> QED BY <1>2, <1>3

-------------------------------------------------------------------------------
(* The theorems.                                                             *)

LEMMA NextInv ==
    ASSUME TrxInv, [Next]_vars
    PROVE  TrxInv' /\ \A w \in Workers : tw[w].trx # 0 /\ tw'[w].alive => tw'[w].trx = tw[w].trx
<1>1. ASSUME NEW c \in Calls, Call(c)
      PROVE  TrxInv' /\ \A w \in Workers : tw[w].trx # 0 /\ tw'[w].alive => tw'[w].trx = tw[w].trx
  BY <1>1, CallInv
<1>2. ASSUME NEW w \in Workers, OnWorkerMessage(w)
      PROVE  TrxInv' /\ tw' = tw
  BY <1>2, OnWorkerMessageInv DEF OnWorkerMessage
<1>3. ASSUME NEW w \in Workers, Begin(w)
      PROVE  TrxInv' /\ \A v \in Workers : tw'[v].trx = tw[v].trx
  <2>1. CASE BeginAwaiting(w)
    BY <2>1, BeginAwaitingInv DEF BeginAwaiting
  <2>2. CASE AnswerNow(w)
    BY <2>2, AnswerNowInv DEF AnswerNow
  <2>3. CASE BeginClose(w)
    <3> DEFINE fd == tw[w].fd /\ Head(inbox[w]).type = "CLOSE_WS"
    <3>1. tw' = [tw EXCEPT ![w].fd = fd]
      BY <2>3, Zenon DEF BeginClose
    <3> HIDE DEF fd
    <3>2. tw \in [Workers -> Globals]
      BY DEF TrxInv, Shapes
    <3>3. \A v \in Workers : tw'[v].trx = tw[v].trx
      BY <3>1, <3>2 DEF Globals
    <3> QED BY <2>3, <3>3, BeginCloseInv
  <2>4. CASE Unanswered(w)
    BY <2>4, UnansweredInv DEF Unanswered
  <2> QED BY <1>3, <2>1, <2>2, <2>3, <2>4 DEF Begin
<1>4. ASSUME NEW w \in Workers, NEW r \in running[w], Resume(w, r)
      PROVE  TrxInv' /\ \A v \in Workers : tw[v].trx # 0 => tw'[v].trx = tw[v].trx
  BY <1>4, ResumeInv
<1>5. ASSUME NEW w \in Workers, NEW r \in running[w], Throws(w, r)
      PROVE  TrxInv' /\ tw' = tw
  BY <1>5, ThrowsInv DEF Throws
<1>6. ASSUME UNCHANGED vars
      PROVE  TrxInv' /\ tw' = tw
  <2>1. UNCHANGED <<worker, calls, promises, started, tw, inbox, running, outbox, lost>>
    BY <1>6 DEF vars, page
  <2>2. Shapes'
    BY <2>1 DEF TrxInv, Shapes
  <2>3. Exact(Where, promises)'
    <3>1. OnlyAt({})
      BY <2>1 DEF OnlyAt
    <3>2. \A p \in Spots : Where'[p] = Where[p]
      BY <3>1, Elsewhere
    <3> QED BY <2>1, <3>2 DEF TrxInv, Books, Exact
  <2> QED BY <2>1, <2>2, <2>3 DEF TrxInv, Books, NoneTwice, Unborn, Unasked
<1> QED BY <1>1, <1>2, <1>3, <1>4, <1>5, <1>6 DEF Next

\* TrxInv holds throughout: the promise table, the requests under way and the
\* workers' globals agree, whatever the handlers of the worker interleave with.
THEOREM TrxAlwaysSound == Spec => []TrxInv
<1>1. Init => TrxInv
  BY InvAtInit
<1>2. TrxInv /\ [Next]_vars => TrxInv'
  BY NextInv
<1> QED BY <1>1, <1>2, PTL DEF Spec

\* The fields of page and workers always have their shapes.
THEOREM TrxTypeCorrect == Spec => []TrxTypeOK
<1>1. TrxInv => TrxTypeOK
  BY DEF TrxInv, Shapes, CallStates, Globals, Sane, TrxTypeOK
<1> QED BY <1>1, TrxAlwaysSound, PTL

\* Each promise of the page has exactly one request under way or lost, and no
\* request is without its promise: no answer comes twice or for nobody.
THEOREM PromisesAlwaysAccounted == Spec => []PromisesAccounted
<1>1. TrxInv => PromisesAccounted
  BY InvAccounts
<1> QED BY <1>1, TrxAlwaysSound, PTL

\* No step replaces a transceiver, however many STARTs are awaiting at once.
THEOREM TransceiverAlwaysKept == Spec => TransceiverKept
<1> DEFINE A == \A w \in Workers : tw[w].trx # 0 /\ tw'[w].alive => tw'[w].trx = tw[w].trx
<1>1. TrxInv /\ [Next]_vars => [A]_vars
  BY NextInv
<1> QED BY <1>1, TrxAlwaysSound, PTL DEF Spec, TransceiverKept

===============================================================================
