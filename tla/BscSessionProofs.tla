-------------------------- MODULE BscSessionProofs ---------------------------
(***************************************************************************)
(* What the calls of updateBts do to one another in the session they       *)
(* share, for any number of calls, any targets, any number of commands the *)
(* BSC refuses and of timers that fire.                                    *)
(*                                                                         *)
(* SessionSound is the inductive invariant.  Its first part, Books, holds  *)
(* whatever the timers do.  The second, InTime, holds until the first of   *)
(* them fires: one command is in flight, it is that of the pending call,   *)
(* and no two calls are past their 'configure terminal' together.          *)
(***************************************************************************)
EXTENDS BscSession, FiniteSetTheorems, TLAPS

Words == {"show", "configure", "network", "bts", "band", "trx", "arfcn", "exit", "end"}
Command == [of : Writers, cmd : Words]
Reply == [of : Writers, ok : BOOLEAN]

Targets == {Target[w] : w \in Writers}
Running == {w \in Writers : state[w] = "running"}

\* The calls whose command waits or is pending.
Served(q, p) == ToSet(q) \cup ({p} \ {Nobody})

\* The client's side: what Proceed changes, and the calls it is about.
ClientSound ==
    /\ state \in [Writers -> {"idle", "running", "done", "failed"}]
    /\ step \in [Writers -> 1 .. 9]
    /\ \A w \in Writers : state[w] = "idle" => step[w] = 1
    /\ queue \in Seq(Writers) /\ IsInjective(queue)
    /\ pending \in Writers \cup {Nobody} /\ pending \notin ToSet(queue)
    /\ pending = Nobody => queue = <<>>
    /\ Running = Served(queue, pending)
    /\ toBsc \in Seq(Command)

\* The side of the BSC.
ServerSound ==
    /\ toClient \in Seq(Reply)
    /\ node \in [depth : 0 .. 4, bts : {Nobody} \cup Targets]
    /\ node.bts = Nobody <=> node.depth < 3
    /\ wrote \in [Writers -> SUBSET (({Nobody} \cup Targets) \X {"band", "arfcn"})]

Bounded == refused \subseteq Writers /\ Cardinality(refused) <= MaxRefused /\ timeouts \in 0 .. MaxTimeouts

Books == ClientSound /\ ServerSound /\ Bounded

-------------------------------------------------------------------------------
(* Until a timer fires.                                                      *)

\* Nothing is in flight, or the command of the pending call, or the answer to it.
OneInFlight ==
    \/ pending = Nobody /\ toBsc = <<>> /\ toClient = <<>>
    \/ pending # Nobody /\ toBsc = <<[of |-> pending, cmd |-> Script[step[pending]]]>> /\ toClient = <<>>
    \/ pending # Nobody /\ toBsc = <<>> /\ \E b \in BOOLEAN : toClient = <<[of |-> pending, ok |-> b]>>

Accepted == toClient # <<>> /\ Head(toClient).ok

\* How many commands of a running call the BSC has gone through.
Passed(w) == IF w = pending /\ Accepted THEN step[w] ELSE step[w] - 1

\* The calls past their 'configure terminal'.
Insiders == {w \in Running : Passed(w) >= 2}

\* The depth of the node after each command of the script.
After == <<0, 1, 2, 3, 3, 4, 4, 3, 0>>

OneInside == \A v, w \in Insiders : v = w

\* The session stands where the call inside has led it.
NodeOfInsider ==
    \A w \in Insiders :
        /\ node.depth = After[Passed(w)]
        /\ node.depth >= 3 => node.bts = Target[w]

\* With nobody inside, the last one has left, or deserted the session.
NodeGivenBack == Insiders = {} => node = Enable \/ \E w \in Writers : Deserted(w)

\* A call inside is only refused a command that the BSC knew.
RefusedInside ==
    pending \in Insiders /\ toClient # <<>> /\ ~Head(toClient).ok => pending \in refused

\* What the BSC has executed of a call's commands, all of it on the call's BTS.
WroteOwn == \A w \in Writers : wrote[w] \subseteq {Target[w]} \X {"band", "arfcn"}
WroteAll ==
    \A w \in Writers :
        /\ (state[w] = "running" /\ Passed(w) >= 5) \/ state[w] = "done" => <<Target[w], "band">> \in wrote[w]
        /\ (state[w] = "running" /\ Passed(w) >= 7) \/ state[w] = "done" => <<Target[w], "arfcn">> \in wrote[w]

InTime ==
    /\ OneInFlight
    /\ OneInside /\ NodeOfInsider /\ NodeGivenBack /\ RefusedInside
    /\ WroteOwn /\ WroteAll

SessionSound == Books /\ (timeouts = 0 => InTime)

-------------------------------------------------------------------------------
(* Sequences and the script.                                                 *)

LEMMA Singleton ==
  ASSUME NEW x
  PROVE  /\ <<x>> # <<>> /\ Head(<<x>>) = x /\ Tail(<<x>>) = <<>> /\ Append(<<>>, x) = <<x>>
         /\ Len(<<x>>) = 1
  OBVIOUS

LEMMA QueueOne ==
  ASSUME NEW q \in Seq(Writers), IsInjective(q), NEW w \in Writers, w \notin ToSet(q)
  PROVE  /\ q \o <<w>> \in Seq(Writers)
         /\ IsInjective(q \o <<w>>)
         /\ ToSet(q \o <<w>>) = ToSet(q) \cup {w}
<1> DEFINE r == q \o <<w>>
<1>1. /\ r \in Seq(Writers)
      /\ Len(r) = Len(q) + 1
      /\ \A i \in 1 .. Len(q) : r[i] = q[i]
      /\ r[Len(q) + 1] = w
  OBVIOUS
<1>2. DOMAIN r = 1 .. (Len(q) + 1) /\ DOMAIN q = 1 .. Len(q) /\ Len(q) \in Nat
  BY <1>1
<1> HIDE DEF r
<1>3. IsInjective(r)
  BY <1>1, <1>2 DEF IsInjective, ToSet
<1>4. ToSet(r) = ToSet(q) \cup {w}
  <2>1. ASSUME NEW x \in ToSet(r) PROVE x \in ToSet(q) \cup {w}
    BY <1>1, <1>2, <2>1 DEF ToSet
  <2>2. ASSUME NEW x \in ToSet(q) PROVE x \in ToSet(r)
    <3>1. PICK i \in 1 .. Len(q) : x = q[i]
      BY <1>2, <2>2 DEF ToSet
    <3>2. i \in DOMAIN r /\ r[i] = x
      BY <1>1, <1>2, <3>1
    <3> QED
      BY <3>2 DEF ToSet
  <2>3. w \in ToSet(r)
    <3>1. Len(q) + 1 \in DOMAIN r
      BY <1>2
    <3> QED
      BY <1>1, <3>1 DEF ToSet
  <2> QED
    BY <2>1, <2>2, <2>3
<1> QED
  BY <1>1, <1>3, <1>4 DEF r

LEMMA QueueNone ==
  ASSUME NEW q \in Seq(Writers)
  PROVE  q \o <<>> = q
  OBVIOUS

LEMMA QueueTail ==
  ASSUME NEW q \in Seq(Writers), q # <<>>, IsInjective(q)
  PROVE  /\ Head(q) \in Writers
         /\ Tail(q) \in Seq(Writers)
         /\ IsInjective(Tail(q))
         /\ Head(q) \notin ToSet(Tail(q))
         /\ ToSet(q) = ToSet(Tail(q)) \cup {Head(q)}
<1> DEFINE t == Tail(q)
<1>1. /\ t \in Seq(Writers)
      /\ Len(q) \in Nat /\ Len(q) > 0
      /\ Len(t) = Len(q) - 1
      /\ \A i \in 1 .. Len(t) : t[i] = q[i + 1]
      /\ Head(q) = q[1] /\ q[1] \in Writers
  OBVIOUS
<1>2. DOMAIN q = 1 .. Len(q) /\ DOMAIN t = 1 .. Len(t) /\ Len(t) \in Nat
  BY <1>1
<1> HIDE DEF t
<1>3. IsInjective(t)
  <2> SUFFICES ASSUME NEW a \in DOMAIN t, NEW b \in DOMAIN t, t[a] = t[b] PROVE a = b
    BY DEF IsInjective
  <2>1. a + 1 \in DOMAIN q /\ b + 1 \in DOMAIN q /\ q[a + 1] = q[b + 1]
    BY <1>1, <1>2
  <2>2. a + 1 = b + 1
    BY <2>1 DEF IsInjective
  <2> QED
    BY <1>2, <2>2
<1>4. Head(q) \notin ToSet(t)
  BY <1>1, <1>2 DEF IsInjective, ToSet
<1>5. ToSet(q) = ToSet(t) \cup {Head(q)}
  <2>1. ASSUME NEW x \in ToSet(q) PROVE x \in ToSet(t) \cup {Head(q)}
    <3>1. PICK i \in 1 .. Len(q) : x = q[i]
      BY <1>2, <2>1 DEF ToSet
    <3>2. CASE i = 1
      BY <1>1, <3>1, <3>2
    <3>3. CASE i # 1
      <4>1. i - 1 \in 1 .. Len(t) /\ t[i - 1] = x
        BY <1>1, <1>2, <3>1, <3>3
      <4> QED
        BY <4>1, <1>2 DEF ToSet
    <3> QED
      BY <3>2, <3>3
  <2>2. ASSUME NEW x \in ToSet(t) PROVE x \in ToSet(q)
    <3>1. PICK i \in 1 .. Len(t) : x = t[i]
      BY <1>2, <2>2 DEF ToSet
    <3>2. i + 1 \in DOMAIN q /\ q[i + 1] = x
      BY <1>1, <1>2, <3>1
    <3> QED
      BY <3>2 DEF ToSet
  <2>3. Head(q) \in ToSet(q)
    <3>1. 1 \in DOMAIN q
      BY <1>1, <1>2
    <3> QED
      BY <1>1, <3>1 DEF ToSet
  <2> QED
    BY <2>1, <2>2, <2>3
<1> QED
  BY <1>1, <1>3, <1>4, <1>5 DEF t

LEMMA ScriptWords ==
  /\ Len(Script) = 9
  /\ \A n \in 1 .. 9 : Script[n] \in Words
  BY DEF Script, Words

\* Where a command stands in the script.
LEMMA ScriptPlaces ==
  ASSUME NEW n \in 1 .. 9
  PROVE  /\ Script[n] = "show" <=> n = 1
         /\ Script[n] = "configure" <=> n = 2
         /\ Script[n] = "network" <=> n = 3
         /\ Script[n] = "bts" <=> n = 4
         /\ Script[n] = "band" <=> n = 5
         /\ Script[n] = "trx" <=> n = 6
         /\ Script[n] = "arfcn" <=> n = 7
         /\ Script[n] = "exit" <=> n = 8
         /\ Script[n] = "end" <=> n = 9
  BY DEF Script

-------------------------------------------------------------------------------
(* The client.                                                               *)

\* Proceed serves the calls it is given, in whatever state they are.
LEMMA ProceedServes ==
  ASSUME NEW busy \in Writers \cup {Nobody}, NEW waiting, NEW ws,
         waiting \o ws \in Seq(Writers), IsInjective(waiting \o ws), busy \notin ToSet(waiting \o ws),
         toBsc \in Seq(Command), step' \in [Writers -> 1 .. 9],
         Proceed(busy, waiting, ws)
  PROVE  /\ queue' \in Seq(Writers) /\ IsInjective(queue')
         /\ pending' \in Writers \cup {Nobody} /\ pending' \notin ToSet(queue')
         /\ busy # Nobody \/ (pending' = Nobody => queue' = <<>>)
         /\ Served(queue', pending') = Served(waiting \o ws, busy)
         /\ toBsc' \in Seq(Command)
<1> DEFINE all == waiting \o ws
<1>1. CASE busy = Nobody /\ all # <<>>
  <2>1. /\ pending' = Head(all)
        /\ queue' = Tail(all)
        /\ toBsc' = Append(toBsc, [of |-> Head(all), cmd |-> Script[step'[Head(all)]]])
    BY <1>1 DEF Proceed
  <2> HIDE DEF all
  <2>2. /\ Head(all) \in Writers
        /\ Tail(all) \in Seq(Writers)
        /\ IsInjective(Tail(all))
        /\ Head(all) \notin ToSet(Tail(all))
        /\ ToSet(all) = ToSet(Tail(all)) \cup {Head(all)}
    BY <1>1, QueueTail DEF all
  <2>3. [of |-> Head(all), cmd |-> Script[step'[Head(all)]]] \in Command
    <3>1. step'[Head(all)] \in 1 .. 9
      BY <2>2
    <3> QED
      BY <2>2, <3>1, ScriptWords DEF Command
  <2>4. toBsc' \in Seq(Command)
    BY <2>1, <2>3
  <2>5. Served(queue', pending') = Served(all, busy)
    BY <1>1, <2>1, <2>2, BscSessionAssumption DEF Served
  <2> QED
    BY <1>1, <2>1, <2>2, <2>4, <2>5, BscSessionAssumption DEF all
<1>2. CASE ~(busy = Nobody /\ all # <<>>)
  <2>1. pending' = busy /\ queue' = all /\ toBsc' = toBsc
    BY <1>2 DEF Proceed
  <2> QED
    BY <1>2, <2>1
<1> QED
  BY <1>1, <1>2
\* A new call queues its first command.
LEMMA StartServes ==
  ASSUME ClientSound, NEW w \in Writers, Start(w)
  PROVE  ClientSound' /\ w \notin Running /\ Running' = Running \cup {w}
<1>1. /\ state[w] = "idle" /\ step' = step
      /\ state' = [state EXCEPT ![w] = "running"]
      /\ Proceed(pending, queue, <<w>>)
  BY DEF Start
<1>2. w \notin Running /\ Running' = Running \cup {w}
  BY <1>1 DEF Running, ClientSound
<1>3. w \notin ToSet(queue) /\ w # pending
  BY <1>2, BscSessionAssumption DEF Served, ClientSound
<1> DEFINE all == queue \o <<w>>
<1>4. all \in Seq(Writers) /\ IsInjective(all) /\ ToSet(all) = ToSet(queue) \cup {w}
  BY <1>3, QueueOne DEF ClientSound
<1>5. pending \notin ToSet(all)
  BY <1>3, <1>4 DEF ClientSound
<1> HIDE DEF all
<1>6. /\ queue' \in Seq(Writers) /\ IsInjective(queue')
      /\ pending' \in Writers \cup {Nobody} /\ pending' \notin ToSet(queue')
      /\ pending # Nobody \/ (pending' = Nobody => queue' = <<>>)
      /\ Served(queue', pending') = Served(all, pending)
      /\ toBsc' \in Seq(Command)
  <2>1. step' \in [Writers -> 1 .. 9]
    BY <1>1 DEF ClientSound
  <2> QED
    BY <1>1, <1>4, <1>5, <2>1, ProceedServes DEF ClientSound, all
<1>7. pending' = Nobody => queue' = <<>>
  BY <1>1, <1>6 DEF Proceed
<1>8. Running' = Served(queue', pending')
  BY <1>2, <1>4, <1>6 DEF Served, ClientSound
<1>9. /\ state' \in [Writers -> {"idle", "running", "done", "failed"}]
      /\ step' \in [Writers -> 1 .. 9]
      /\ \A v \in Writers : state'[v] = "idle" => step'[v] = 1
  BY <1>1 DEF ClientSound
<1> QED
  BY <1>2, <1>6, <1>7, <1>8, <1>9 DEF ClientSound

\* The pending call settles its command, and waits for its next one or is over.
LEMMA SettleServes ==
  ASSUME ClientSound, pending # Nobody, NEW ok \in BOOLEAN, Settle(ok)
  PROVE  /\ ClientSound'
         /\ pending \in Running
         /\ \/ /\ ok \/ step[pending] = 1
               /\ step[pending] < 9
               /\ step' = [step EXCEPT ![pending] = step[pending] + 1]
               /\ state' = state /\ Running' = Running
            \/ /\ ok /\ step[pending] = 9
               /\ step' = step
               /\ state' = [state EXCEPT ![pending] = "done"]
               /\ Running' = Running \ {pending}
            \/ /\ ~ok /\ step[pending] # 1
               /\ step' = step
               /\ state' = [state EXCEPT ![pending] = "failed"]
               /\ Running' = Running \ {pending}
<1> DEFINE w == pending
<1>1. /\ w \in Writers /\ w \in Running /\ w \notin ToSet(queue)
      /\ Running = ToSet(queue) \cup {w}
      /\ step[w] \in 1 .. 9 /\ state[w] = "running"
  BY DEF Served, ClientSound, Running
<1>2. Script[step[w]] = "show" <=> step[w] = 1
  BY <1>1, ScriptPlaces
<1>3. CASE /\ ok \/ Script[step[w]] = "show"
           /\ step[w] < Len(Script)
           /\ step' = [step EXCEPT ![w] = @ + 1]
           /\ UNCHANGED state
           /\ Proceed(Nobody, queue, <<w>>)
  <2>1. /\ step' = [step EXCEPT ![w] = step[w] + 1]
        /\ step[w] < 9
        /\ state' = state
        /\ ok \/ step[w] = 1
    BY <1>2, <1>3, ScriptWords
  <2>2. step' \in [Writers -> 1 .. 9]
    BY <1>1, <2>1 DEF ClientSound
  <2> DEFINE all == queue \o <<w>>
  <2>3. all \in Seq(Writers) /\ IsInjective(all) /\ ToSet(all) = ToSet(queue) \cup {w}
    BY <1>1, QueueOne DEF ClientSound
  <2> HIDE DEF all
  <2>4. Nobody \notin ToSet(all)
    BY <1>1, <2>3, BscSessionAssumption DEF ClientSound, Running
  <2>5. /\ queue' \in Seq(Writers) /\ IsInjective(queue')
        /\ pending' \in Writers \cup {Nobody} /\ pending' \notin ToSet(queue')
        /\ pending' = Nobody => queue' = <<>>
        /\ Served(queue', pending') = Served(all, Nobody)
        /\ toBsc' \in Seq(Command)
    BY <1>3, <2>2, <2>3, <2>4, ProceedServes DEF ClientSound, all
  <2>6. Running' = Running
    BY <2>1 DEF Running
  <2>7. Running' = Served(queue', pending')
    BY <1>1, <2>3, <2>4, <2>5, <2>6 DEF Served
  <2>8. \A v \in Writers : state'[v] = "idle" => step'[v] = 1
    BY <1>1, <2>1 DEF ClientSound
  <2> QED
    BY <1>1, <2>1, <2>2, <2>5, <2>6, <2>7, <2>8 DEF ClientSound
<1>4. ASSUME NEW end \in {"done", "failed"},
             state' = [state EXCEPT ![w] = end], step' = step, Proceed(Nobody, queue, <<>>)
      PROVE  ClientSound' /\ Running' = Running \ {w}
  <2> DEFINE all == queue \o <<>>
  <2>1. all = queue
    BY QueueNone DEF ClientSound
  <2>9. all \in Seq(Writers) /\ IsInjective(all) /\ Nobody \notin ToSet(all)
    BY <1>1, <2>1, BscSessionAssumption DEF ClientSound, Running
  <2> HIDE DEF all
  <2>2. Nobody \notin ToSet(queue)
    BY <1>1, BscSessionAssumption DEF ClientSound, Running
  <2>3. step' \in [Writers -> 1 .. 9]
    BY <1>4 DEF ClientSound
  <2>4. /\ queue' \in Seq(Writers) /\ IsInjective(queue')
        /\ pending' \in Writers \cup {Nobody} /\ pending' \notin ToSet(queue')
        /\ pending' = Nobody => queue' = <<>>
        /\ Served(queue', pending') = Served(queue, Nobody)
        /\ toBsc' \in Seq(Command)
    <3>1. Served(queue', pending') = Served(all, Nobody)
      BY <1>4, <2>9, <2>3, ProceedServes DEF ClientSound, all
    <3> QED
      BY <1>4, <2>9, <2>3, <2>1, <3>1, ProceedServes DEF ClientSound, all
  <2>5. /\ state' \in [Writers -> {"idle", "running", "done", "failed"}]
        /\ state'[w] = end
        /\ \A v \in Writers \ {w} : state'[v] = state[v]
    BY <1>1, <1>4 DEF ClientSound
  <2>6. Running' = Running \ {w}
    BY <2>5 DEF Running
  <2>7. Running' = Served(queue', pending')
    BY <1>1, <2>2, <2>4, <2>6 DEF Served
  <2>8. \A v \in Writers : state'[v] = "idle" => step'[v] = 1
    BY <1>4, <2>5 DEF ClientSound
  <2> QED
    BY <2>3, <2>4, <2>5, <2>6, <2>7, <2>8 DEF ClientSound
<1>5. CASE /\ ok /\ step[w] = Len(Script)
           /\ state' = [state EXCEPT ![w] = "done"]
           /\ UNCHANGED step
           /\ Proceed(Nobody, queue, <<>>)
  <2>1. step[w] = 9
    BY <1>5, ScriptWords
  <2>2. ClientSound' /\ Running' = Running \ {w}
    BY <1>4, <1>5
  <2> QED
    BY <1>1, <1>5, <2>1, <2>2
<1>6. CASE /\ ~ok /\ Script[step[w]] # "show"
           /\ state' = [state EXCEPT ![w] = "failed"]
           /\ UNCHANGED step
           /\ Proceed(Nobody, queue, <<>>)
  <2>1. ClientSound' /\ Running' = Running \ {w}
    BY <1>4, <1>6
  <2> QED
    BY <1>1, <1>2, <1>6, <2>1
<1> QED
  BY <1>3, <1>5, <1>6 DEF Settle

\* Reading commands leaves the client alone.
LEMMA ReadServes ==
  ASSUME ClientSound, Read
  PROVE  ClientSound' /\ Running' = Running
<1>1. /\ toBsc # <<>> /\ toBsc' = Tail(toBsc)
      /\ UNCHANGED <<state, step, queue, pending>>
  BY DEF Read
<1>2. toBsc' \in Seq(Command)
  BY <1>1 DEF ClientSound
<1> QED
  BY <1>1, <1>2 DEF ClientSound, Served, Running
-------------------------------------------------------------------------------
(* The BSC.                                                                  *)

\* The node every command of the script is known in, or found from.
LEMMA Homes ==
  ASSUME node.depth \in 0 .. 4, NEW cmd \in Known
  PROVE  /\ cmd \in {"show", "configure"} => node.depth = 0
         /\ cmd = "network" => node.depth >= 1
         /\ cmd = "bts" => node.depth >= 2
         /\ cmd \in {"band", "trx"} => node.depth >= 3
         /\ cmd = "arfcn" => node.depth = 4
  BY DEF Known, Home

\* Where each of them leads.
LEMMA Leads ==
  ASSUME NEW c \in Command
  PROVE  /\ c.cmd = "configure" => Entered(c) = [depth |-> 1, bts |-> Nobody]
         /\ c.cmd = "network" => Entered(c) = [depth |-> 2, bts |-> Nobody]
         /\ c.cmd = "bts" => Entered(c) = [depth |-> 3, bts |-> Target[c.of]]
         /\ c.cmd = "band" => Entered(c) = [depth |-> 3, bts |-> node.bts]
         /\ c.cmd \in {"trx", "arfcn"} => Entered(c) = [depth |-> 4, bts |-> node.bts]
         /\ c.cmd = "end" => Entered(c) = Enable
         /\ c.cmd = "show" => Entered(c) = [depth |-> node.depth, bts |-> IF node.depth < 3 THEN Nobody ELSE node.bts]
         /\ c.cmd = "exit" /\ node.depth = 0 => Entered(c) = Enable
         /\ c.cmd = "exit" /\ node.depth \in 1 .. 4 =>
              Entered(c) = [depth |-> node.depth - 1, bts |-> IF node.depth - 1 < 3 THEN Nobody ELSE node.bts]
<1>1. DOMAIN Enters = {"configure", "network", "bts", "band", "trx", "arfcn"}
  BY DEF Enters
<1>2. c.cmd = "configure" => Entered(c) = [depth |-> 1, bts |-> Nobody]
  BY <1>1 DEF Entered, Enters
<1>3. c.cmd = "network" => Entered(c) = [depth |-> 2, bts |-> Nobody]
  BY <1>1 DEF Entered, Enters
<1>4. c.cmd = "bts" => Entered(c) = [depth |-> 3, bts |-> Target[c.of]]
  BY <1>1 DEF Entered, Enters
<1>5. c.cmd = "band" => Entered(c) = [depth |-> 3, bts |-> node.bts]
  BY <1>1 DEF Entered, Enters
<1>6. c.cmd \in {"trx", "arfcn"} => Entered(c) = [depth |-> 4, bts |-> node.bts]
  BY <1>1 DEF Entered, Enters
<1>7. c.cmd = "end" => Entered(c) = Enable
  BY <1>1 DEF Entered, Enable
<1>8. c.cmd = "show" =>
        Entered(c) = [depth |-> node.depth, bts |-> IF node.depth < 3 THEN Nobody ELSE node.bts]
  BY <1>1 DEF Entered
<1>9. c.cmd = "exit" /\ node.depth = 0 => Entered(c) = Enable
  BY <1>1 DEF Entered, Enable
<1>10. c.cmd = "exit" /\ node.depth \in 1 .. 4 =>
         Entered(c) = [depth |-> node.depth - 1, bts |-> IF node.depth - 1 < 3 THEN Nobody ELSE node.bts]
  BY <1>1 DEF Entered
<1> QED
  BY <1>2, <1>3, <1>4, <1>5, <1>6, <1>7, <1>8, <1>9, <1>10

\* The session is in the node of a BTS exactly below the network node.
LEMMA EnteredSound ==
  ASSUME ServerSound, NEW c \in Command, c.cmd \in Known
  PROVE  /\ Entered(c) \in [depth : 0 .. 4, bts : {Nobody} \cup Targets]
         /\ Entered(c).bts = Nobody <=> Entered(c).depth < 3
<1>1. /\ node.depth \in 0 .. 4 /\ node.bts \in {Nobody} \cup Targets
      /\ node.bts = Nobody <=> node.depth < 3
      /\ Target[c.of] \in Targets /\ Target[c.of] # Nobody
  BY BscSessionAssumption DEF ServerSound, Command, Targets
<1>2. c.cmd \in Words
  BY DEF Command
<1>3. CASE c.cmd \in {"configure", "network", "bts"}
  BY <1>1, <1>3, Leads
<1>4. CASE c.cmd \in {"band", "trx", "arfcn"}
  BY <1>1, <1>4, Leads, Homes
<1>5. CASE c.cmd \in {"show", "exit", "end"}
  BY <1>1, <1>5, Leads DEF Enable
<1> QED
  BY <1>2, <1>3, <1>4, <1>5 DEF Words

\* The two ways a command can go, with the answer to it.
Obeyed(c) == c.cmd \in Known /\ Executed(c)
Rejected(c) ==
    /\ Refused(c)
    /\ \/ c.cmd \notin Known /\ refused' = refused
       \/ c.cmd \in Known /\ refused' = refused \cup {c.of}

LEMMA ReadAnswers ==
  ASSUME Books, Read
  PROVE  /\ Head(toBsc) \in Command
         /\ Obeyed(Head(toBsc)) \/ Rejected(Head(toBsc))
         /\ ServerSound' /\ Bounded'
<1> DEFINE c == Head(toBsc)
<1>1. c \in Command /\ toBsc # <<>>
  BY DEF Read, Books, ClientSound
<1>2. Obeyed(c) \/ Rejected(c)
  BY DEF Read, Obeyed, Rejected
<1>3. Bounded'
  BY <1>1 DEF Read, Executed, Refused, Bounded, Books, Command
<1>4. ServerSound'
  <2>1. CASE Obeyed(c)
    <3>1. /\ node' = Entered(c)
          /\ toClient' = Append(toClient, [of |-> c.of, ok |-> TRUE])
      BY <2>1 DEF Obeyed, Executed
    <3>2. toClient' \in Seq(Reply)
      BY <1>1, <3>1 DEF Reply, Command, ServerSound, Books
    <3>3. wrote' \in [Writers -> SUBSET (({Nobody} \cup Targets) \X {"band", "arfcn"})]
      <4>1. CASE c.cmd \in {"band", "arfcn"}
        <5>1. wrote' = [wrote EXCEPT ![c.of] = wrote[c.of] \cup {<<node.bts, c.cmd>>}]
          BY <2>1, <4>1 DEF Obeyed, Executed
        <5>2. <<node.bts, c.cmd>> \in ({Nobody} \cup Targets) \X {"band", "arfcn"}
          BY <4>1 DEF ServerSound, Books
        <5>3. wrote \in [Writers -> SUBSET (({Nobody} \cup Targets) \X {"band", "arfcn"})]
          BY DEF ServerSound, Books
        <5> QED
          BY <5>1, <5>2, <5>3
      <4>2. CASE c.cmd \notin {"band", "arfcn"}
        BY <2>1, <4>2 DEF Obeyed, Executed, ServerSound, Books
      <4> QED
        BY <4>1, <4>2
    <3> QED
      BY <1>1, <2>1, <3>1, <3>2, <3>3, EnteredSound DEF ServerSound, Books, Obeyed
  <2>2. CASE Rejected(c)
    <3>1. toClient' \in Seq(Reply)
      BY <1>1, <2>2 DEF Rejected, Refused, Reply, Command, ServerSound, Books
    <3> QED
      BY <2>2, <3>1 DEF Rejected, Refused, ServerSound, Books
  <2> QED
    BY <1>2, <2>1, <2>2
<1> QED
  BY <1>1, <1>2, <1>3, <1>4

-------------------------------------------------------------------------------
(* The books hold whatever the timers do.                                    *)

LEMMA InitBooks ==
  ASSUME SessionInit
  PROVE  Books
<1>1. Running = {} /\ Served(queue, pending) = {}
  BY DEF SessionInit, Running, Served, ToSet
<1>2. ClientSound
  BY <1>1, ScriptWords DEF SessionInit, ClientSound, ToSet, IsInjective
<1>3. ServerSound
  BY DEF SessionInit, ServerSound, Enable
<1>4. Bounded
  BY FS_EmptySet, BscSessionAssumption DEF SessionInit, Bounded
<1> QED
  BY <1>2, <1>3, <1>4 DEF Books

LEMMA NextBooks ==
  ASSUME Books, [SessionNext]_sessionVars
  PROVE  Books'
<1>1. ASSUME NEW w \in Writers, Start(w) PROVE Books'
  <2>1. ClientSound'
    BY <1>1, StartServes DEF Books
  <2> QED
    BY <1>1, <2>1 DEF Start, Books, ServerSound, Bounded
<1>2. CASE Answer
  <2>1. toClient # <<>> /\ toClient' = Tail(toClient)
    BY <1>2 DEF Answer
  <2>2. Head(toClient).ok \in BOOLEAN /\ toClient' \in Seq(Reply)
    <3>1. toClient \in Seq(Reply)
      BY DEF Books, ServerSound
    <3>2. Head(toClient) \in Reply /\ toClient' \in Seq(Reply)
      BY <2>1, <3>1
    <3> QED
      BY <3>2 DEF Reply
  <2>3. ClientSound'
    <3>1. CASE pending # Nobody /\ Settle(Head(toClient).ok)
      BY <2>2, <3>1, SettleServes DEF Books
    <3>2. CASE UNCHANGED <<state, step, queue, pending, toBsc>>
      BY <3>2 DEF Books, ClientSound, Running, Served
    <3> QED
      BY <1>2, <3>1, <3>2 DEF Answer
  <2> QED
    BY <1>2, <2>2, <2>3 DEF Answer, Books, ServerSound, Bounded
<1>3. CASE Timeout
  <2>1. ClientSound'
    BY <1>3, SettleServes DEF Timeout, Books
  <2>2. timeouts' \in 0 .. MaxTimeouts
    BY <1>3, BscSessionAssumption DEF Timeout, Books, Bounded
  <2> QED
    BY <1>3, <2>1, <2>2 DEF Timeout, Books, ServerSound, Bounded
<1>4. CASE Read
  BY <1>4, ReadServes, ReadAnswers DEF Books
<1>5. CASE UNCHANGED sessionVars
  BY <1>5 DEF sessionVars, Books, ClientSound, ServerSound, Bounded, Running, Served
<1> QED
  BY <1>1, <1>2, <1>3, <1>4, <1>5 DEF SessionNext
-------------------------------------------------------------------------------
(* Until a timer fires.                                                      *)

LEMMA InitInTime ==
  ASSUME SessionInit
  PROVE  InTime
<1>1. Running = {} /\ Insiders = {}
  BY DEF SessionInit, Running, Insiders
<1> QED
  BY <1>1 DEF SessionInit, InTime, OneInFlight, OneInside, NodeOfInsider, NodeGivenBack,
              RefusedInside, WroteOwn, WroteAll

\* A client with nothing in flight sends one command or none.
LEMMA ProceedSends ==
  ASSUME NEW waiting, NEW ws, waiting \o ws \in Seq(Writers), toBsc = <<>>, Proceed(Nobody, waiting, ws)
  PROVE  \/ pending' = Nobody /\ toBsc' = <<>>
         \/ pending' # Nobody /\ toBsc' = <<[of |-> pending', cmd |-> Script[step'[pending']]]>>
<1> DEFINE all == waiting \o ws
           c == [of |-> Head(all), cmd |-> Script[step'[Head(all)]]]
<1>1. CASE all # <<>>
  <2>1. pending' = Head(all) /\ toBsc' = Append(<<>>, c)
    BY <1>1 DEF Proceed
  <2>2. Head(all) \in Writers
    BY <1>1
  <2>3. Append(<<>>, c) = <<c>>
    BY Singleton
  <2> QED
    BY <2>1, <2>2, <2>3, BscSessionAssumption
<1>2. CASE all = <<>>
  BY <1>2 DEF Proceed
<1> QED
  BY <1>1, <1>2

\* Where the insiders are as they were, or fewer, the session still stands where they led it.
LEMMA InsidersKept ==
  ASSUME OneInside, NodeOfInsider, node' = node,
         \A v \in Insiders' : v \in Insiders /\ Passed(v)' = Passed(v)
  PROVE  OneInside' /\ NodeOfInsider'
<1>1. OneInside'
  BY DEF OneInside
<1>2. NodeOfInsider'
  BY DEF NodeOfInsider
<1> QED
  BY <1>1, <1>2

\* Nothing brings a deserted session back but what moves its node.
LEMMA DesertedKept ==
  ASSUME NEW v \in Writers, Deserted(v), node' = node, refused \subseteq refused',
         state'[v] = state[v], step'[v] = step[v]
  PROVE  Deserted(v)'
  BY DEF Deserted

LEMMA StartInTime ==
  ASSUME Books, InTime, NEW w \in Writers, Start(w)
  PROVE  InTime'
<1>1. /\ w \notin Running /\ Running' = Running \cup {w}
      /\ state[w] = "idle" /\ step[w] = 1 /\ step' = step
      /\ state' = [state EXCEPT ![w] = "running"]
      /\ Proceed(pending, queue, <<w>>)
      /\ UNCHANGED <<toClient, node, wrote, refused>>
  BY StartServes DEF Start, Books, ClientSound
<1>2. pending # Nobody => pending' = pending /\ toBsc' = toBsc /\ pending \in Running
  BY <1>1 DEF Proceed, Books, ClientSound, Served
<1>3. pending = Nobody => toBsc = <<>> /\ toClient = <<>>
  BY DEF InTime, OneInFlight
<1>4. OneInFlight'
  <2>1. CASE pending = Nobody
    <3>1. queue \o <<w>> \in Seq(Writers)
      BY DEF Books, ClientSound
    <3> QED
      BY <1>1, <1>3, <2>1, <3>1, ProceedSends DEF OneInFlight
  <2>2. CASE pending # Nobody
    BY <1>1, <1>2, <2>2 DEF InTime, OneInFlight
  <2> QED
    BY <2>1, <2>2
<1>5. \A v \in Running : Passed(v)' = Passed(v)
  BY <1>1, <1>2, <1>3 DEF Passed, Accepted
<1>6. Passed(w)' = 0
  BY <1>1, <1>2, <1>3 DEF Passed, Accepted
<1>7. Insiders' = Insiders
  BY <1>1, <1>5, <1>6 DEF Insiders
<1>8. OneInside' /\ NodeOfInsider'
  BY <1>1, <1>5, <1>7, InsidersKept DEF InTime, Insiders
<1>9. NodeGivenBack'
  <2>1. ASSUME NEW v \in Writers, Deserted(v)  PROVE Deserted(v)'
    <3>1. v # w
      BY <1>1, <2>1 DEF Deserted
    <3> QED
      BY <1>1, <2>1, <3>1, DesertedKept DEF Books, ClientSound
  <2> QED
    BY <1>1, <1>7, <2>1 DEF InTime, NodeGivenBack, Enable
<1>10. RefusedInside'
  BY <1>1, <1>2, <1>3, <1>7 DEF InTime, RefusedInside
<1>11. WroteOwn'
  BY <1>1 DEF InTime, WroteOwn
<1>12. WroteAll'
  <2>1. ASSUME NEW v \in Writers
        PROVE  /\ (state'[v] = "running" /\ Passed(v)' >= 5) \/ state'[v] = "done"
                    => (state[v] = "running" /\ Passed(v) >= 5) \/ state[v] = "done"
               /\ (state'[v] = "running" /\ Passed(v)' >= 7) \/ state'[v] = "done"
                    => (state[v] = "running" /\ Passed(v) >= 7) \/ state[v] = "done"
    <3>1. CASE v = w
      BY <1>1, <1>6, <3>1 DEF Books, ClientSound
    <3>2. CASE v # w
      BY <1>1, <1>5, <3>2 DEF Books, ClientSound, Running
    <3> QED
      BY <3>1, <3>2
  <2> QED
    BY <1>1, <2>1 DEF InTime, WroteAll
<1> QED
  BY <1>4, <1>8, <1>9, <1>10, <1>11, <1>12 DEF InTime
LEMMA AnswerInTime ==
  ASSUME Books, InTime, Answer
  PROVE  InTime'
<1> DEFINE w == pending
<1>1. PICK b \in BOOLEAN :
        /\ pending # Nobody /\ toBsc = <<>> /\ toClient = <<[of |-> pending, ok |-> b]>>
        /\ Head(toClient) = [of |-> pending, ok |-> b]
        /\ toClient' = <<>>
  BY Singleton DEF Answer, InTime, OneInFlight
<1>2. /\ Settle(b)
      /\ UNCHANGED <<node, wrote, refused>>
      /\ Head(toClient).ok = b /\ (Accepted <=> b) /\ ~Accepted'
  BY <1>1 DEF Answer, Accepted
<1>3. /\ pending \in Running /\ pending \in Writers
      /\ \/ /\ b \/ step[pending] = 1
            /\ step[pending] < 9
            /\ step' = [step EXCEPT ![pending] = step[pending] + 1]
            /\ state' = state /\ Running' = Running
         \/ /\ b /\ step[pending] = 9
            /\ step' = step
            /\ state' = [state EXCEPT ![pending] = "done"]
            /\ Running' = Running \ {pending}
         \/ /\ ~b /\ step[pending] # 1
            /\ step' = step
            /\ state' = [state EXCEPT ![pending] = "failed"]
            /\ Running' = Running \ {pending}
  BY <1>1, <1>2, SettleServes DEF Books, Running
<1>4. step \in [Writers -> 1 .. 9] /\ state \in [Writers -> {"idle", "running", "done", "failed"}]
  BY DEF Books, ClientSound
<1>5. OneInFlight'
  <2>1. Proceed(Nobody, queue, <<pending>>) \/ Proceed(Nobody, queue, <<>>)
    BY <1>2 DEF Settle
  <2>2. queue \o <<pending>> \in Seq(Writers) /\ queue \o <<>> \in Seq(Writers)
    BY <1>3 DEF Books, ClientSound
  <2> QED
    BY <1>1, <2>1, <2>2, ProceedSends DEF OneInFlight
<1>6. RefusedInside'
  BY <1>1 DEF RefusedInside
<1>7. WroteOwn'
  BY <1>2 DEF InTime, WroteOwn
<1>8. \A v \in Running : /\ Passed(v)' = step'[v] - 1
                         /\ v # w => step'[v] = step[v] /\ Passed(v) = step[v] - 1
                         /\ v = w => Passed(v) = IF b THEN step[v] ELSE step[v] - 1
  BY <1>2, <1>3, <1>4 DEF Passed, Running
<1>14. ASSUME NEW v \in Writers, Deserted(v)  PROVE Deserted(v)'
  <2>1. v # w
    BY <1>3, <1>14 DEF Deserted, Running
  <2>2. state'[v] = state[v] /\ step'[v] = step[v]
    BY <1>3, <1>4, <2>1
  <2> QED
    BY <1>2, <1>14, <2>2, DesertedKept
<1>9. CASE /\ b \/ step[w] = 1
           /\ step[w] < 9
           /\ step' = [step EXCEPT ![w] = step[w] + 1]
           /\ state' = state /\ Running' = Running
  <2>1. \A v \in Running : /\ Passed(v) \in Nat /\ Passed(v)' \in Nat
                           /\ Passed(v)' = Passed(v) \/ (Passed(v) < 2 /\ Passed(v)' < 2)
    <3> SUFFICES ASSUME NEW v \in Running
                 PROVE  /\ Passed(v) \in Nat /\ Passed(v)' \in Nat
                        /\ Passed(v)' = Passed(v) \/ (Passed(v) < 2 /\ Passed(v)' < 2)
      OBVIOUS
    <3>1. v \in Writers /\ step[v] \in 1 .. 9
      BY <1>4 DEF Running
    <3>2. CASE v = w
      BY <1>4, <1>8, <1>9, <3>1, <3>2
    <3>3. CASE v # w
      BY <1>8, <3>1, <3>3
    <3> QED
      BY <3>2, <3>3
  <2>2. Insiders' = Insiders /\ \A v \in Insiders : Passed(v)' = Passed(v)
    BY <1>9, <2>1 DEF Insiders
  <2>3. OneInside' /\ NodeOfInsider'
    BY <1>2, <2>2, InsidersKept DEF InTime
  <2>5. NodeGivenBack'
    BY <1>2, <1>14, <2>2 DEF InTime, NodeGivenBack, Enable
  <2>4. WroteAll'
    BY <1>2, <1>9, <2>1 DEF InTime, WroteAll, Running
  <2> QED
    BY <1>5, <1>6, <1>7, <2>3, <2>4, <2>5 DEF InTime
<1>10. ASSUME step' = step, Running' = Running \ {w} PROVE OneInside' /\ NodeOfInsider'
  <2>1. \A v \in Insiders' : v \in Insiders /\ Passed(v)' = Passed(v)
    BY <1>8, <1>10 DEF Insiders
  <2> QED
    BY <1>2, <2>1, InsidersKept DEF InTime
<1>11. ASSUME step' = step, Running' = Running \ {w}
       PROVE  Insiders \ {w} \subseteq Insiders'
  BY <1>8, <1>11 DEF Insiders
<1>12. CASE /\ b /\ step[w] = 9
            /\ step' = step
            /\ state' = [state EXCEPT ![w] = "done"]
            /\ Running' = Running \ {w}
  <2>1. Passed(w) = 9 /\ w \in Insiders
    BY <1>3, <1>8, <1>12 DEF Insiders
  <2>2. node = Enable
    <3>1. node.depth = 0
      BY <2>1 DEF InTime, NodeOfInsider, After
    <3> QED
      BY <3>1 DEF Books, ServerSound, Enable
  <2>3. NodeGivenBack'
    BY <1>2, <2>2 DEF NodeGivenBack, Enable
  <2>4. WroteAll'
    <3>1. <<Target[w], "band">> \in wrote[w] /\ <<Target[w], "arfcn">> \in wrote[w]
      BY <1>3, <2>1 DEF InTime, WroteAll, Running
    <3>2. ASSUME NEW v \in Writers, v # w
          PROVE  state'[v] = state[v] /\ (v \in Running => Passed(v)' = Passed(v))
      BY <1>4, <1>8, <1>12, <3>2
    <3> QED
      BY <1>2, <1>3, <1>4, <1>12, <3>1, <3>2 DEF InTime, WroteAll, Running
  <2> QED
    BY <1>5, <1>6, <1>7, <1>10, <1>12, <2>3, <2>4 DEF InTime
<1>13. CASE /\ ~b /\ step[w] # 1
            /\ step' = step
            /\ state' = [state EXCEPT ![w] = "failed"]
            /\ Running' = Running \ {w}
  <2>1. NodeGivenBack'
    <3>1. CASE w \in Insiders
      <4>1. w \in refused /\ state'[w] = "failed" /\ step'[w] = step[w]
        BY <1>1, <1>2, <1>3, <1>4, <1>13, <3>1 DEF InTime, RefusedInside
      <4>2. Passed(w) = step[w] - 1 /\ step[w] \in 3 .. 9
        BY <1>3, <1>4, <1>8, <1>13, <3>1 DEF Insiders
      <4>3. /\ node.depth = After[step[w] - 1]
            /\ node.depth >= 3 => node.bts = Target[w]
        BY <3>1, <4>2 DEF InTime, NodeOfInsider
      <4>4. After[step[w] - 1] = <<0, 0, 1, 2, 3, 3, 4, 4, 3>>[step[w]]
        BY <4>2 DEF After
      <4> QED
        BY <1>2, <1>3, <4>1, <4>3, <4>4 DEF NodeGivenBack, Deserted
    <3>2. CASE w \notin Insiders
      <4>1. Insiders \subseteq Insiders'
        BY <1>11, <1>13, <3>2
      <4> QED
        BY <1>2, <1>14, <4>1 DEF InTime, NodeGivenBack, Enable
    <3> QED
      BY <3>1, <3>2
  <2>2. WroteAll'
    <3>1. ASSUME NEW v \in Writers, v # w
          PROVE  state'[v] = state[v] /\ (v \in Running => Passed(v)' = Passed(v))
      BY <1>4, <1>8, <1>13, <3>1
    <3> QED
      BY <1>2, <1>3, <1>4, <1>13, <3>1 DEF InTime, WroteAll, Running
  <2> QED
    BY <1>5, <1>6, <1>7, <1>10, <1>13, <2>1, <2>2 DEF InTime
<1> QED
  BY <1>3, <1>9, <1>12, <1>13

LEMMA ReadInTime ==
  ASSUME Books, InTime, Read
  PROVE  InTime'
<1> DEFINE p == pending
           c == [of |-> pending, cmd |-> Script[step[pending]]]
<1>1. /\ pending # Nobody /\ toBsc = <<c>> /\ toClient = <<>>
      /\ Head(toBsc) = c /\ toBsc' = <<>>
      /\ UNCHANGED <<state, step, pending>>
  BY Singleton DEF Read, InTime, OneInFlight
<1>2. /\ c \in Command /\ (Obeyed(c) \/ Rejected(c))
      /\ Running' = Running
      /\ p \in Running /\ p \in Writers /\ step[p] \in 1 .. 9
  BY <1>1, ReadAnswers, ReadServes DEF Books, ClientSound, Served, Running
<1>3. /\ node.depth \in 0 .. 4
      /\ node.bts = Nobody <=> node.depth < 3
      /\ node = [depth |-> node.depth, bts |-> node.bts]
      /\ step \in [Writers -> 1 .. 9] /\ Running \subseteq Writers
  BY DEF Books, ClientSound, ServerSound, Running
<1>4. \A v \in Running : Passed(v) = step[v] - 1 /\ (v # p => Passed(v)' = step[v] - 1)
  BY <1>1 DEF Passed, Accepted
<1> HIDE DEF c
<1>5. c.of = p /\ c.cmd = Script[step[p]]
  BY DEF c
<1>6. CASE Rejected(c)
  <2>1. /\ node' = node /\ wrote' = wrote /\ refused \subseteq refused'
        /\ toClient' = <<[of |-> p, ok |-> FALSE]>>
        /\ Head(toClient') = [of |-> p, ok |-> FALSE]
    BY <1>1, <1>5, <1>6, Singleton DEF Rejected, Refused
  <2>2. \A v \in Running : Passed(v)' = Passed(v)
    BY <1>1, <1>4, <2>1 DEF Passed, Accepted
  <2>3. Insiders' = Insiders
    BY <1>2, <2>2 DEF Insiders
  <2>4. OneInFlight'
    BY <1>1, <2>1 DEF OneInFlight
  <2>5. OneInside' /\ NodeOfInsider' /\ NodeGivenBack'
    <3>1. \A v \in Insiders : Passed(v)' = Passed(v)
      BY <2>2 DEF Insiders
    <3>2. OneInside' /\ NodeOfInsider'
      BY <2>1, <2>3, <3>1, InsidersKept DEF InTime
    <3>3. ASSUME NEW v \in Writers, Deserted(v)  PROVE Deserted(v)'
      BY <1>1, <2>1, <3>3, DesertedKept
    <3> QED
      BY <2>1, <2>3, <3>2, <3>3 DEF InTime, NodeGivenBack, Enable
  <2>6. RefusedInside'
    <3>1. ASSUME p \in Insiders PROVE p \in refused'
      <4>1. step[p] \in 3 .. 9 /\ node.depth = After[step[p] - 1]
        BY <1>2, <1>4, <3>1 DEF InTime, NodeOfInsider, Insiders
      <4>2. c.cmd \in Known
        BY <1>5, <4>1, ScriptPlaces DEF After, Known, Home
      <4> QED
        BY <1>5, <1>6, <4>2 DEF Rejected
    <3> QED
      BY <1>1, <2>3, <3>1 DEF RefusedInside
  <2>7. WroteOwn' /\ WroteAll'
    BY <1>1, <2>1, <2>2 DEF InTime, WroteOwn, WroteAll, Running
  <2> QED
    BY <2>4, <2>5, <2>6, <2>7 DEF InTime
<1>7. CASE Obeyed(c)
  <2>1. /\ c.cmd \in Known
        /\ node' = Entered(c) /\ refused' = refused
        /\ toClient' = <<[of |-> p, ok |-> TRUE]>>
        /\ Head(toClient') = [of |-> p, ok |-> TRUE]
    BY <1>1, <1>5, <1>7, Singleton DEF Obeyed, Executed
  <2>2. \A v \in Running : v = p => Passed(v)' = step[v]
    BY <1>1, <2>1 DEF Passed, Accepted
  <2>3. \A v \in Insiders : v = p
    <3> SUFFICES ASSUME NEW v \in Insiders, v # p PROVE FALSE
      OBVIOUS
    <3>1. step[p] \in 1 .. 2
      BY <1>2, <1>4 DEF InTime, OneInside, Insiders
    <3>2. node.depth = 0
      BY <1>2, <1>3, <1>5, <2>1, <3>1, ScriptPlaces, Homes
    <3>3. v \in Running /\ v \in Writers /\ step[v] - 1 \in 2 .. 8
      BY <1>3, <1>4 DEF Insiders
    <3> QED
      BY <1>4, <3>2, <3>3 DEF InTime, NodeOfInsider, After
  <2>4. step[p] >= 3 <=> p \in Insiders
    BY <1>2, <1>4 DEF Insiders
  <2>5. Insiders' = IF step[p] >= 2 THEN {p} ELSE {}
    <3>1. \A v \in Insiders' : v = p
      BY <1>2, <1>4, <2>3 DEF Insiders
    <3> QED
      BY <1>2, <2>2, <3>1 DEF Insiders
  <2>6. OneInFlight'
    BY <1>1, <2>1 DEF OneInFlight
  <2>7. OneInside' /\ RefusedInside'
    BY <2>1, <2>5 DEF OneInside, RefusedInside
  <2>8. step[p] >= 3 => /\ node.depth = After[step[p] - 1]
                        /\ node.depth >= 3 => node.bts = Target[p]
    BY <1>2, <1>4, <2>4 DEF InTime, NodeOfInsider
  <2>9. step[p] >= 2 => /\ node'.depth = After[step[p]]
                        /\ node'.depth >= 3 => node'.bts = Target[p]
    <3>1. CASE step[p] = 2
      BY <1>2, <1>5, <2>1, <3>1, Leads, ScriptPlaces DEF After
    <3>2. CASE step[p] = 3
      BY <1>2, <1>5, <2>1, <3>2, Leads, ScriptPlaces DEF After
    <3>3. CASE step[p] = 4
      BY <1>2, <1>5, <2>1, <3>3, Leads, ScriptPlaces DEF After
    <3>4. CASE step[p] \in 5 .. 6
      BY <1>2, <1>5, <2>1, <2>8, <3>4, Leads, ScriptPlaces DEF After
    <3>5. CASE step[p] = 7
      BY <1>2, <1>5, <2>1, <2>8, <3>5, Leads, ScriptPlaces DEF After
    <3>6. CASE step[p] = 8
      <4>1. node.depth = 4 /\ node.bts = Target[p] /\ c.cmd = "exit"
        BY <1>5, <2>8, <3>6, ScriptPlaces DEF After
      <4>2. node' = [depth |-> 3, bts |-> node.bts]
        BY <1>2, <2>1, <4>1, Leads
      <4> QED
        BY <3>6, <4>1, <4>2 DEF After
    <3>7. CASE step[p] = 9
      <4>1. node' = Enable
        BY <1>2, <1>5, <2>1, <3>7, Leads, ScriptPlaces
      <4> QED
        BY <3>7, <4>1 DEF After, Enable
    <3> QED
      BY <1>2, <3>1, <3>2, <3>3, <3>4, <3>5, <3>6, <3>7
  <2>10. NodeOfInsider'
    BY <1>2, <2>2, <2>5, <2>9 DEF NodeOfInsider
  <2>11. NodeGivenBack'
    <3> SUFFICES ASSUME step[p] = 1 PROVE node' = Enable
      BY <1>2, <2>5 DEF NodeGivenBack, Enable
    <3>1. c.cmd = "show"
      BY <1>5, ScriptPlaces
    <3>2. node.depth = 0
      BY <1>3, <2>1, <3>1, Homes
    <3> QED
      BY <1>2, <2>1, <3>1, <3>2, Leads DEF Enable
  <2>12. /\ step[p] = 5 => wrote' = [wrote EXCEPT ![p] = wrote[p] \cup {<<Target[p], "band">>}]
         /\ step[p] = 7 => wrote' = [wrote EXCEPT ![p] = wrote[p] \cup {<<Target[p], "arfcn">>}]
         /\ step[p] \notin {5, 7} => wrote' = wrote
    <3>1. step[p] \in {5, 7} => node.bts = Target[p]
      BY <2>8 DEF After
    <3>2. /\ step[p] = 5 <=> c.cmd = "band"
          /\ step[p] = 7 <=> c.cmd = "arfcn"
      BY <1>2, <1>5, ScriptPlaces
    <3> QED
      BY <1>5, <1>7, <3>1, <3>2 DEF Obeyed, Executed
  <2>13. wrote \in [Writers -> SUBSET (({Nobody} \cup Targets) \X {"band", "arfcn"})]
    BY DEF Books, ServerSound
  <2>14. WroteOwn'
    BY <1>2, <2>12, <2>13 DEF InTime, WroteOwn
  <2>15. WroteAll'
    <3>1. \A v \in Writers : wrote[v] \subseteq wrote'[v]
      BY <1>2, <2>12, <2>13
    <3>2. \A v \in Writers \ {p} : state'[v] = state[v] /\ (v \in Running => Passed(v)' = Passed(v))
      BY <1>1, <1>4
    <3>3. /\ step[p] >= 5 => <<Target[p], "band">> \in wrote'[p]
          /\ step[p] >= 7 => <<Target[p], "arfcn">> \in wrote'[p]
      <4>1. /\ step[p] >= 6 => <<Target[p], "band">> \in wrote[p]
            /\ step[p] >= 8 => <<Target[p], "arfcn">> \in wrote[p]
        BY <1>2, <1>4 DEF InTime, WroteAll, Running
      <4>2. /\ step[p] = 5 => <<Target[p], "band">> \in wrote'[p]
            /\ step[p] = 7 => <<Target[p], "arfcn">> \in wrote'[p]
        BY <1>2, <2>12, <2>13
      <4> QED
        BY <1>2, <3>1, <4>1, <4>2
    <3>4. state'[p] = "running"
      BY <1>1, <1>2 DEF Running
    <3> QED
      BY <1>2, <2>2, <3>1, <3>2, <3>3, <3>4 DEF InTime, WroteAll, Running
  <2> QED
    BY <2>6, <2>7, <2>10, <2>11, <2>14, <2>15 DEF InTime
<1> QED
  BY <1>2, <1>6, <1>7
-------------------------------------------------------------------------------
(* The theorems.                                                             *)

LEMMA NextSound ==
  ASSUME SessionSound, [SessionNext]_sessionVars
  PROVE  SessionSound'
<1>1. Books'
  BY NextBooks DEF SessionSound
<1>2. ASSUME timeouts' = 0 PROVE InTime'
  <2>1. timeouts \in Nat
    BY BscSessionAssumption DEF SessionSound, Books, Bounded
  <2>2. timeouts = 0 /\ ~Timeout
    <3>1. ~(timeouts' = timeouts + 1)
      BY <1>2, <2>1
    <3>2. ~Timeout
      BY <3>1 DEF Timeout
    <3>3. timeouts' = timeouts
      BY <3>2 DEF SessionNext, Start, Answer, Read, sessionVars
    <3> QED
      BY <1>2, <3>2, <3>3
  <2>3. Books /\ InTime
    BY <2>2 DEF SessionSound
  <2>4. CASE UNCHANGED sessionVars
    BY <2>3, <2>4 DEF sessionVars, InTime, OneInFlight, OneInside, NodeOfInsider, NodeGivenBack,
                      RefusedInside, WroteOwn, WroteAll, Insiders, Running, Passed, Accepted,
                      Deserted
  <2> QED
    BY <2>2, <2>3, <2>4, StartInTime, AnswerInTime, ReadInTime DEF SessionNext
<1> QED
  BY <1>1, <1>2 DEF SessionSound

\* In every reachable state the client's and the BSC's books are right, and, as long
\* as no timer fires, at most one call of updateBts is past its 'configure terminal'
\* and the session stands where that call has led it.
THEOREM SessionAlwaysSound == SessionSpec => []SessionSound
<1>1. SessionInit => SessionSound
  BY InitBooks, InitInTime DEF SessionSound
<1>2. SessionSound /\ [SessionNext]_sessionVars => SessionSound'
  BY NextSound
<1> QED
  BY <1>1, <1>2, PTL DEF SessionSpec

\* Shapes; a call waits in the client's queue or is pending, once, exactly while
\* updateBts runs; the session is in the node of a BTS exactly below the network's.
THEOREM SessionTypeCorrect == SessionSpec => []SessionTypeOK
<1>1. SessionSound => SessionTypeOK
  <2> SUFFICES ASSUME SessionSound PROVE SessionTypeOK
    OBVIOUS
  <2>1. ClientSound /\ ServerSound /\ Bounded
    BY DEF SessionSound, Books
  <2>2. /\ state \in [Writers -> {"idle", "running", "done", "failed"}]
        /\ step \in [Writers -> 1 .. Len(Script)]
        /\ IsInjective(queue) /\ pending \notin ToSet(queue)
        /\ {w \in Writers : state[w] = "running"} = ToSet(queue) \cup ({pending} \ {Nobody})
    BY <2>1, ScriptWords DEF ClientSound, Running, Served
  <2>3. node \in Nodes /\ (node.bts = Nobody <=> node.depth < 3)
    BY <2>1 DEF ServerSound, Nodes, Targets
  <2>4. \A w \in Writers : \A b \in wrote[w] : b[2] \in {"band", "arfcn"}
    BY <2>1 DEF ServerSound
  <2> QED
    BY <2>1, <2>2, <2>3, <2>4 DEF SessionTypeOK, Bounded
<1> QED
  BY <1>1, SessionAlwaysSound, PTL

\* Until a timer fires, the commands of a call of updateBts configure the BTS it
\* names and no other, however the calls interleave in the session they share.
THEOREM AlwaysWritesOwnBtsInTime == SessionSpec => []WritesOwnBtsInTime
<1>1. SessionSound => WritesOwnBtsInTime
  <2> SUFFICES ASSUME SessionSound, timeouts = 0, NEW w \in Writers, NEW b \in wrote[w]
               PROVE  b[1] = Target[w]
    BY DEF WritesOwnBtsInTime, WritesOwnBts
  <2>1. b \in {Target[w]} \X {"band", "arfcn"}
    BY DEF SessionSound, InTime, WroteOwn
  <2> QED
    BY <2>1
<1> QED
  BY <1>1, SessionAlwaysSound, PTL

\* Until a timer fires, a call of updateBts that resolves had its commands of the BTS node
\* and of the TRX nodes, 'band' and 'arfcn' here, executed on its own BTS.
THEOREM DoneAlwaysComplete == SessionSpec => []DoneIsComplete
<1>1. SessionSound => DoneIsComplete
  BY DEF SessionSound, InTime, WroteAll, DoneIsComplete
<1> QED
  BY <1>1, SessionAlwaysSound, PTL

\* When nothing runs and no timer fired, the session is back in the enable node, or else
\* exactly where one call stopped when the BSC refused a command of its: for any number of
\* calls that fail by meeting others and of commands refused.
THEOREM SessionAlwaysGivenBack == SessionSpec => []SessionGivenBack
<1>1. SessionSound => SessionGivenBack
  <2> SUFFICES ASSUME SessionSound, Quiet, timeouts = 0
               PROVE  node = Enable \/ \E w \in Writers : Deserted(w)
    BY DEF SessionGivenBack
  <2>1. Insiders = {}
    BY DEF Quiet, Insiders, Running
  <2> QED
    BY <2>1 DEF SessionSound, InTime, NodeGivenBack
<1> QED
  BY <1>1, SessionAlwaysSound, PTL


===============================================================================
