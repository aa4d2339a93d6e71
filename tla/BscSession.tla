----------------------------- MODULE BscSession ------------------------------
(***************************************************************************)
(* BscController.updateBts (backend-core,                                  *)
(* src/osmoctrl/controllers/bsc.controller.ts): concurrent calls, each a   *)
(* sequence of configuration commands, over the one VTY session they       *)
(* share.  The BSC keeps one configuration node per session, and a command *)
(* means what the node it meets makes of it.                               *)
(*                                                                         *)
(* Abstracted: 'band' stands for every command of the BTS node and 'arfcn' *)
(* for every one of the TRX and timeslot nodes.  Of the VTY client (module *)
(* VtyClient) only the order of commands and answers is kept: it has one   *)
(* command pending, and takes the next answer for that command's.  The BSC *)
(* echoes every command, and an answer comes in a chunk of its own.        *)
(***************************************************************************)
EXTENDS Naturals, SequencesExt, FiniteSets

CONSTANTS
    Writers,       \* calls of updateBts
    Target,        \* Target[w]: the BTS that call is about
    Nobody,        \* no call
    MaxRefused,    \* bound: of how many calls the BSC refuses a command that it knows
    MaxTimeouts    \* bound: how often the timer of a command fires

ASSUME BscSessionAssumption ==
    /\ Nobody \notin Writers /\ \A w \in Writers : Target[w] # Nobody
    /\ MaxRefused \in Nat /\ MaxTimeouts \in Nat

VARIABLES
    state,         \* of a call: "idle", "running", "done" or "failed"
    step,          \* of a running call: the command it awaits
    queue,         \* the calls whose command waits in the client
    pending,       \* the call whose command was sent last and not settled
    toBsc,         \* commands the BSC has yet to read
    toClient,      \* answers the client has yet to read
    node,          \* the configuration node of the session
    wrote,         \* history: <<BTS, command>> pairs a call's commands configured
    refused,       \* the calls the BSC refused a command it knows of
    timeouts       \* how many timers fired

sessionVars == <<state, step, queue, pending, toBsc, toClient, node, wrote, refused, timeouts>>

\* Mutant of Script: does not leave the configuration.
ScriptNoEnd == <<"show", "configure", "network", "bts", "band", "trx", "arfcn", "exit">>

Script == <<"show", "configure", "network", "bts", "band", "trx", "arfcn", "exit", "end">>

\* Nodes by depth: enable, config, network, bts and trx; the last two are of a BTS.
Enable == [depth |-> 0, bts |-> Nobody]

SessionInit ==
    /\ state = [w \in Writers |-> "idle"] /\ step = [w \in Writers |-> 1]
    /\ queue = <<>> /\ pending = Nobody
    /\ toBsc = <<>> /\ toClient = <<>>
    /\ node = Enable
    /\ wrote = [w \in Writers |-> {}]
    /\ refused = {} /\ timeouts = 0

-------------------------------------------------------------------------------
(* The client's queue and the calls.                                         *)

\* Mutant of Proceed: sends the first command without taking it off the queue.
ProceedKeepsQueue(busy, waiting, ws) ==
    LET all == waiting \o ws
    IN  IF busy = Nobody /\ all # <<>>
        THEN /\ pending' = Head(all)
             /\ queue' = all
             /\ toBsc' = Append(toBsc, [of |-> Head(all), cmd |-> Script[step'[Head(all)]]])
        ELSE pending' = busy /\ queue' = all /\ UNCHANGED toBsc

\* Calls ws queue their next command, after those in waiting; the first is sent
\* unless another one is pending.
Proceed(busy, waiting, ws) ==
    LET all == waiting \o ws
    IN  IF busy = Nobody /\ all # <<>>
        THEN /\ pending' = Head(all)
             /\ queue' = Tail(all)
             /\ toBsc' = Append(toBsc, [of |-> Head(all), cmd |-> Script[step'[Head(all)]]])
        ELSE pending' = busy /\ queue' = all /\ UNCHANGED toBsc

\* updateBts: btsExists asks first.
Start(w) ==
    /\ state[w] = "idle"
    /\ state' = [state EXCEPT ![w] = "running"]
    /\ UNCHANGED step
    /\ Proceed(pending, queue, <<w>>)
    /\ UNCHANGED <<toClient, node, wrote, refused, timeouts>>

\* Mutant of Settle: exec in place of execChecked.
SettleUnchecked(ok) ==
    \/ /\ step[pending] < Len(Script)
       /\ step' = [step EXCEPT ![pending] = @ + 1]
       /\ UNCHANGED state
       /\ Proceed(Nobody, queue, <<pending>>)
    \/ /\ step[pending] = Len(Script)
       /\ state' = [state EXCEPT ![pending] = "done"]
       /\ UNCHANGED step
       /\ Proceed(Nobody, queue, <<>>)

\* The pending command settles.  The client sends the next one in its queue before
\* the call continues: execBatch stops at the first failure, but btsExists takes
\* one for 'no'.
Settle(ok) ==
    LET w == pending
    IN  \/ /\ ok \/ Script[step[w]] = "show"
           /\ step[w] < Len(Script)
           /\ step' = [step EXCEPT ![w] = @ + 1]
           /\ UNCHANGED state
           /\ Proceed(Nobody, queue, <<w>>)
        \/ /\ ok /\ step[w] = Len(Script)
           /\ state' = [state EXCEPT ![w] = "done"]
           /\ UNCHANGED step
           /\ Proceed(Nobody, queue, <<>>)
        \/ /\ ~ok /\ Script[step[w]] # "show"
           /\ state' = [state EXCEPT ![w] = "failed"]
           /\ UNCHANGED step
           /\ Proceed(Nobody, queue, <<>>)

\* An answer arrives: echo, output and prompt.  It is taken for the pending command's,
\* whoever's it is; nobody hears it when nothing is pending.
Answer ==
    /\ toClient # <<>>
    /\ toClient' = Tail(toClient)
    /\ \/ pending # Nobody /\ Settle(Head(toClient).ok)
       \/ pending = Nobody /\ UNCHANGED <<state, step, queue, pending, toBsc>>
    /\ UNCHANGED <<node, wrote, refused, timeouts>>

\* The timer fires.  When all of an answer but its prompt had come by then, that lone
\* prompt is all that is left of it, which the next command ignores.
Timeout ==
    /\ pending # Nobody /\ timeouts < MaxTimeouts
    /\ timeouts' = timeouts + 1
    /\ Settle(FALSE)
    /\ \/ UNCHANGED toClient
       \/ toClient # <<>> /\ toClient' = Tail(toClient)
    /\ UNCHANGED <<node, wrote, refused>>

-------------------------------------------------------------------------------
(* The BSC (external).                                                       *)

\* The depth of the node a command belongs to; 'exit' and 'end' belong to all.
Home == [show |-> 0, configure |-> 0, network |-> 1, bts |-> 2, band |-> 3, trx |-> 3, arfcn |-> 4]

\* A command is found in its own node and from the nodes inside that one, but those of
\* the enable node not from a configuration node ('% Unknown command').
Known ==
    {"exit", "end"} \cup {cmd \in DOMAIN Home : Home[cmd] = node.depth}
                    \cup {cmd \in DOMAIN Home : 0 < Home[cmd] /\ Home[cmd] < node.depth}

\* The depth that other commands than 'show', 'exit' and 'end' lead to.
Enters == [configure |-> 1, network |-> 2, bts |-> 3, band |-> 3, trx |-> 4, arfcn |-> 4]

\* The node a command leads to.
Entered(c) ==
    LET depth == IF c.cmd \in DOMAIN Enters THEN Enters[c.cmd]
                 ELSE IF c.cmd = "show" THEN node.depth
                 ELSE IF c.cmd = "exit" /\ node.depth > 0 THEN node.depth - 1
                 ELSE 0
    IN  [depth |-> depth, bts |-> IF depth < 3 THEN Nobody
                                  ELSE IF c.cmd = "bts" THEN Target[c.of] ELSE node.bts]

Executed(c) ==
    /\ node' = Entered(c)
    /\ wrote' = IF c.cmd \in {"band", "arfcn"}
                THEN [wrote EXCEPT ![c.of] = @ \cup {<<node.bts, c.cmd>>}] ELSE wrote
    /\ toClient' = Append(toClient, [of |-> c.of, ok |-> TRUE])
    /\ UNCHANGED refused

Refused(c) ==
    /\ toClient' = Append(toClient, [of |-> c.of, ok |-> FALSE])
    /\ UNCHANGED <<node, wrote>>

\* The BSC executes a command it knows, or refuses it all the same.
Read ==
    /\ toBsc # <<>>
    /\ toBsc' = Tail(toBsc)
    /\ LET c == Head(toBsc)
       IN  \/ c.cmd \in Known /\ Executed(c)
           \/ c.cmd \notin Known /\ Refused(c) /\ UNCHANGED refused
           \/ /\ c.cmd \in Known /\ Refused(c)
              /\ refused' = refused \cup {c.of} /\ Cardinality(refused') <= MaxRefused
    /\ UNCHANGED <<state, step, queue, pending, timeouts>>

SessionNext == (\E w \in Writers : Start(w)) \/ Answer \/ Timeout \/ Read

SessionSpec == SessionInit /\ [][SessionNext]_sessionVars

-------------------------------------------------------------------------------
(* Properties.                                                               *)

Nodes == [depth : 0 .. 4, bts : {Nobody} \cup {Target[w] : w \in Writers}]

\* Shapes; a call waits in the queue or is pending, once, exactly while it runs;
\* the node is one of a BTS exactly below the network node.
SessionTypeOK ==
    /\ state \in [Writers -> {"idle", "running", "done", "failed"}]
    /\ step \in [Writers -> 1 .. Len(Script)]
    /\ IsInjective(queue) /\ pending \notin ToSet(queue)
    /\ {w \in Writers : state[w] = "running"} = ToSet(queue) \cup ({pending} \ {Nobody})
    /\ node \in Nodes /\ (node.bts = Nobody <=> node.depth < 3)
    /\ \A w \in Writers : \A b \in wrote[w] : b[2] \in {"band", "arfcn"}
    /\ Cardinality(refused) <= MaxRefused /\ timeouts \in 0 .. MaxTimeouts

\* Whatever calls interleave in the session, a call's commands configure the BTS it
\* names and no other ('Execute sequentially to avoid config node confusion').
WritesOwnBts == \A w \in Writers : \A b \in wrote[w] : b[1] = Target[w]

\* That holds as long as no timer fires: the BSC refuses a second call's 'configure
\* terminal' while another call is inside, which is all that keeps the two apart.
WritesOwnBtsInTime == timeouts = 0 => WritesOwnBts

\* As long as no timer fires, a call that resolves had its configuration executed on its
\* BTS, that of the BTS node and that of the TRX nodes: 'ok' is the end of the script, and
\* it was told so by the answers to its own commands.
DoneIsComplete ==
    timeouts = 0 =>
        \A w \in Writers : state[w] = "done" =>
            {<<Target[w], "band">>, <<Target[w], "arfcn">>} \subseteq wrote[w]

Quiet == (\A w \in Writers : state[w] # "running") /\ toBsc = <<>>

\* A call that the BSC refused a command it knew, and left the session where it stopped.
Deserted(w) ==
    /\ w \in refused /\ state[w] = "failed"
    /\ node.depth = <<0, 0, 1, 2, 3, 3, 4, 4, 3>>[step[w]]
    /\ node.depth >= 3 => node.bts = Target[w]

\* When nothing runs and no timer fired, the session is back in the enable node, even if
\* calls failed by meeting one another, or it is still where the one call stopped that
\* was inside when the BSC refused its command: execBatch gives up without an 'end'.
SessionGivenBack ==
    Quiet /\ timeouts = 0 => node = Enable \/ \E w \in Writers : Deserted(w)

\* No call fails because of another one that is over: when the BSC refused none of
\* its commands, no timer fired and it runs alone, it does not fail (README of
\* nestjs-microservice: PUT 'updates its config in the BSC via VTY').
FailsOnlyByItself ==
    [][\A w \in Writers : state[w] = "running" /\ state'[w] = "failed" =>
          \/ w \in refused \/ timeouts' > 0
          \/ \E v \in Writers \ {w} : state[v] = "running"]_sessionVars

===============================================================================
