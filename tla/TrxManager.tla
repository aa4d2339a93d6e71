------------------------------ MODULE TrxManager ------------------------------
(***************************************************************************)
(* The browser's transceiver, control side: OsmoTrxManagerWorker of        *)
(* frontend-core (src/osmo/osmoTrxManager.ts) on the page, and the message *)
(* handler of the worker it starts (src/osmo/osmoTrx.worker.ts).  Each     *)
(* request is a promise kept under an id and a message with that id; the   *)
(* handler is async, so a later message runs while an earlier one awaits.  *)
(*                                                                         *)
(* A call of the manager is a member of Calls.  Its promise has the id     *)
(* <<c, "own">>; the START that open_* sends when there is no worker has   *)
(* <<c, "start">>.  The worker's USB device is fd (the code's fd >= 0).    *)
(* Log and meter messages, which carry no id, are left out.                *)
(***************************************************************************)
EXTENDS Integers, Sequences, FiniteSets, SequencesExt

CONSTANTS
    Calls,        \* calls of the manager's methods, each made once
    Kinds,        \* the methods called in this instance
    MaxWorkers    \* bound on startWorker calls

Opens    == {"OPEN_BTS", "OPEN_USB", "OPEN_WS"}
Closes   == {"CLOSE", "CLOSE_USB", "CLOSE_WS"}
Requires == {"GET_BTS_STATS", "SET_PARAMETER", "SEND_COMMAND", "START", "STOP"}
Methods  == Opens \cup Closes \cup Requires \cup {"START_WORKER", "STOP_WORKER"}

ASSUME TrxManagerAssumption == Kinds \subseteq Methods /\ MaxWorkers \in Nat

Workers == 1 .. MaxWorkers

VARIABLES
    worker,       \* _worker: the last worker created, 0 for undefined
    calls,        \* what each call is and how far its caller got
    promises,     \* the ids _promiseHelper holds
    started,      \* the last onChangeParameter('worker_started', ...)
    tw,           \* each worker's globals
    inbox,        \* messages posted to each worker
    running,      \* its handlers that are awaiting, and where
    outbox,       \* messages it posted
    lost          \* history: requests that nobody will answer any more

page   == <<worker, calls, promises, started>>
vars   == <<page, tw, inbox, running, outbox, lost>>

Ids      == Calls \X {"own", "start"}
Message  == [type : Methods, id : Ids]
Answer   == [type : Methods, id : Ids, ok : BOOLEAN]
Awaiting == [type : {"START", "OPEN_USB", "OPEN_WS", "GET_BTS_STATS"}, id : Ids,
             at : {"osmo", "control", "device", "sockets", "stats"}]

Fresh == [alive |-> FALSE, module |-> FALSE, control |-> FALSE, osmo |-> 0, trx |-> 0, fd |-> FALSE]

Init ==
    /\ worker = 0
    /\ calls = [c \in Calls |-> [kind |-> "none", state |-> "idle"]]
    /\ promises = {}
    /\ started = FALSE
    /\ tw = [w \in Workers |-> Fresh]
    /\ inbox = [w \in Workers |-> <<>>]
    /\ running = [w \in Workers |-> {}]
    /\ outbox = [w \in Workers |-> <<>>]
    /\ lost = {}

-------------------------------------------------------------------------------
(* The page.                                                                 *)

Left(c, k, state) == calls' = [calls EXCEPT ![c] = [kind |-> k, state |-> state]]

\* createPromise and postMessage.  A terminated worker gets nothing.
Request(w, type, id) ==
    /\ promises' = promises \cup {id}
    /\ IF tw[w].alive
       THEN inbox' = [inbox EXCEPT ![w] = Append(@, [type |-> type, id |-> id])] /\ UNCHANGED lost
       ELSE lost' = lost \cup {id} /\ UNCHANGED inbox

\* new Worker, and start(): the promise of its START.
NewWorker(id) ==
    /\ worker < MaxWorkers
    /\ worker' = worker + 1
    /\ tw' = [tw EXCEPT ![worker + 1].alive = TRUE]
    /\ inbox' = [inbox EXCEPT ![worker + 1] = <<[type |-> "START", id |-> id]>>]
    /\ promises' = promises \cup {id}
    /\ UNCHANGED lost

\* open_* with no worker yet: it awaits startWorker().  onWorkerMessage never
\* settles the promise of a START, so the caller stays there.
OpenFirst(c, k) ==
    /\ k \in Opens /\ worker = 0
    /\ NewWorker(<<c, "start">>)
    /\ Left(c, k, "starting")
    /\ UNCHANGED <<started, running, outbox>>

StartWorker(c, k) ==
    /\ k = "START_WORKER"
    /\ NewWorker(<<c, "own">>)
    /\ Left(c, k, "waiting")
    /\ UNCHANGED <<started, running, outbox>>

\* A method that posts one message to the worker there is.
Post(c, k) ==
    /\ k \in Opens \cup Closes \cup Requires /\ worker # 0
    /\ Request(worker, k, <<c, "own">>)
    /\ Left(c, k, "waiting")
    /\ UNCHANGED <<worker, started, tw, running, outbox>>

\* Without a worker, close_* and stopWorker return and the others throw.
NoWorker(c, k) ==
    /\ k \in Closes \cup Requires \cup {"STOP_WORKER"} /\ worker = 0
    /\ Left(c, k, IF k \in Requires THEN "threw" ELSE "resolved")
    /\ UNCHANGED <<worker, promises, started, tw, inbox, running, outbox, lost>>

Asked(S) == {m.id : m \in S}

\* stopWorker: posts STOP and terminates the worker, which takes with it what
\* it was doing and had not been told; what it had posted may still arrive.
\* _worker stays.
StopWorker(c, k) ==
    /\ k = "STOP_WORKER" /\ worker # 0
    /\ promises' = promises \cup {<<c, "own">>}
    /\ Left(c, k, "waiting")
    /\ tw' = [tw EXCEPT ![worker] = Fresh]
    /\ inbox' = [inbox EXCEPT ![worker] = <<>>]
    /\ running' = [running EXCEPT ![worker] = {}]
    /\ \E arrives \in BOOLEAN :
          LET gone == IF arrives THEN <<>> ELSE outbox[worker]
          IN  /\ outbox' = [outbox EXCEPT ![worker] = IF arrives THEN @ ELSE <<>>]
              /\ lost' = lost \cup {<<c, "own">>} \cup Asked(ToSet(inbox[worker]))
                              \cup Asked(running[worker]) \cup Asked(ToSet(gone))
    /\ UNCHANGED <<worker, started>>

Call(c) ==
    /\ calls[c].state = "idle"
    /\ \E k \in Kinds :
          OpenFirst(c, k) \/ StartWorker(c, k) \/ Post(c, k) \/ NoWorker(c, k) \/ StopWorker(c, k)

\* Mutant of Settle: forgets the promises of failed requests.
SettleOnlyOk(msg) ==
    IF msg.ok THEN [calls EXCEPT ![msg.id[1]].state = "resolved"] ELSE calls

\* promiseResolve or promiseReject, which the caller awaits.
Settle(msg) ==
    [calls EXCEPT ![msg.id[1]].state = IF msg.ok THEN "resolved" ELSE "rejected"]

\* onWorkerMessage: START and STOP are announced and their promise is deleted;
\* every other promise is resolved or rejected, and deleted.
OnWorkerMessage(w) ==
    /\ outbox[w] # <<>>
    /\ outbox' = [outbox EXCEPT ![w] = Tail(@)]
    /\ LET msg == Head(outbox[w])
       IN  /\ IF msg.type \in {"START", "STOP"}
              THEN started' = (msg.type = "START") /\ UNCHANGED calls
              ELSE /\ calls' = IF msg.id \in promises THEN Settle(msg) ELSE calls
                   /\ UNCHANGED started
           /\ promises' = promises \ {msg.id}
    /\ UNCHANGED <<worker, tw, inbox, running, lost>>

-------------------------------------------------------------------------------
(* The worker: self.onmessage, in the steps between its awaits.              *)

Answers(w, msg, ok) ==
    outbox' = [outbox EXCEPT ![w] = Append(@, [type |-> msg.type, id |-> msg.id, ok |-> ok])]

Taken(w) == tw[w].alive /\ inbox[w] # <<>> /\ inbox' = [inbox EXCEPT ![w] = Tail(@)]

Await(w, msg, at) ==
    running' = [running EXCEPT ![w] = @ \cup {[type |-> msg.type, id |-> msg.id, at |-> at]}]

\* Handlers that reach an await before they answer.
BeginAwaiting(w) ==
    /\ Taken(w)
    /\ LET msg == Head(inbox[w])
       IN  \/ msg.type = "START" /\ Await(w, msg, "osmo")
           \/ msg.type = "OPEN_USB" /\ Await(w, msg, "control")
           \/ msg.type = "OPEN_WS" /\ tw[w].trx # 0 /\ Await(w, msg, "sockets")
           \/ msg.type = "GET_BTS_STATS" /\ tw[w].osmo # 0 /\ Await(w, msg, "stats")
    /\ UNCHANGED <<page, tw, outbox, lost>>

\* STOP, OPEN_BTS, OPEN_WS without a transceiver and SET_PARAMETER, answered
\* at once.  The result of osmobts_apply and the parameter's name are any.
AnswerNow(w) ==
    /\ Taken(w)
    /\ LET msg == Head(inbox[w])
       IN  \/ msg.type = "STOP" /\ Answers(w, msg, tw[w].control /\ tw[w].module)
           \/ msg.type = "OPEN_WS" /\ tw[w].trx = 0 /\ Answers(w, msg, FALSE)
           \/ /\ msg.type \in {"OPEN_BTS", "SET_PARAMETER"}
              /\ \E ok \in BOOLEAN : (ok => tw[w].trx # 0) /\ Answers(w, msg, ok)
    /\ UNCHANGED <<page, tw, running, lost>>

\* CLOSE, CLOSE_USB and CLOSE_WS: the answer is whether there is no device.
BeginClose(w) ==
    /\ Taken(w)
    /\ LET msg == Head(inbox[w])
       IN  /\ msg.type \in Closes
           /\ tw' = [tw EXCEPT ![w].fd = @ /\ msg.type = "CLOSE_WS"]
           /\ Answers(w, msg, ~tw'[w].fd)
    /\ UNCHANGED <<page, running, lost>>

\* SEND_COMMAND is unknown to the worker, and without an Osmo GET_BTS_STATS
\* does nothing: neither is answered.
Unanswered(w) ==
    /\ Taken(w)
    /\ LET msg == Head(inbox[w])
       IN  /\ msg.type = "SEND_COMMAND" \/ (msg.type = "GET_BTS_STATS" /\ tw[w].osmo = 0)
           /\ lost' = lost \cup {msg.id}
    /\ UNCHANGED <<page, tw, running, outbox>>

\* The handler returns.
Ended(w, r) == running' = [running EXCEPT ![w] = @ \ {r}]

\* START after initOsmo: a module is loaded once, an Osmo is made every time.
StartOsmo(w, r) ==
    /\ r.type = "START" /\ r.at = "osmo"
    /\ tw' = [tw EXCEPT ![w].module = TRUE, ![w].osmo = @ + 1]
    /\ running' = [running EXCEPT ![w] = (@ \ {r}) \cup {[r EXCEPT !.at = "control"]}]
    /\ UNCHANGED <<page, inbox, outbox, lost>>

\* Mutant of WithTransceiver: does not look whether there is one already.
WithNewTransceiver(g) == [g EXCEPT !.trx = g.osmo]

\* The OsmoTrxWorker is made once, around the Osmo of that moment.
WithTransceiver(g) == IF g.trx = 0 THEN [g EXCEPT !.trx = g.osmo] ELSE g

\* Mutant of StartAnswers: forgets the return after the error.
StartAnswersOn(w, r, control) ==
    LET answer(ok) == [type |-> r.type, id |-> r.id, ok |-> ok]
    IN  outbox' = [outbox EXCEPT ![w] = @ \o
            (IF control THEN <<answer(TRUE)>> ELSE <<answer(FALSE), answer(FALSE)>>)]

\* An error without a device manager, else ok: module and transceiver are there.
StartAnswers(w, r, control) == Answers(w, r, control)

\* START after initControl, which may leave no device manager.
StartControl(w, r) ==
    /\ r.type = "START" /\ r.at = "control"
    /\ \E control \in {TRUE, tw[w].control} :
          /\ tw' = [tw EXCEPT ![w] = WithTransceiver([@ EXCEPT !.control = control])]
          /\ StartAnswers(w, r, control)
    /\ Ended(w, r)
    /\ UNCHANGED <<page, inbox, lost>>

\* Mutant of UsbControl: does not look for the transceiver.
UsbControlUnchecked(w, r) ==
    /\ r.type = "OPEN_USB" /\ r.at = "control"
    /\ running' = [running EXCEPT ![w] = (@ \ {r}) \cup {[r EXCEPT !.at = "device"]}]
    /\ tw' = [tw EXCEPT ![w].control = TRUE]
    /\ UNCHANGED <<page, inbox, outbox, lost>>

\* OPEN_USB after initControl.
UsbControl(w, r) ==
    /\ r.type = "OPEN_USB" /\ r.at = "control"
    /\ IF tw[w].trx # 0
       THEN /\ running' = [running EXCEPT ![w] = (@ \ {r}) \cup {[r EXCEPT !.at = "device"]}]
            /\ UNCHANGED outbox
       ELSE Answers(w, r, FALSE) /\ Ended(w, r)
    /\ \E control \in {TRUE, tw[w].control} : tw' = [tw EXCEPT ![w].control = control]
    /\ UNCHANGED <<page, inbox, lost>>

\* OPEN_USB after the device opened, or was not found: the answer is whether
\* there is a device now, this one or one opened before.
UsbDevice(w, r) ==
    /\ r.type = "OPEN_USB" /\ r.at = "device"
    /\ \E found \in BOOLEAN :
          /\ found => tw[w].control
          /\ tw' = [tw EXCEPT ![w].fd = @ \/ found]
          /\ Answers(w, r, tw[w].fd \/ found)
    /\ Ended(w, r)
    /\ UNCHANGED <<page, inbox, lost>>

\* OPEN_WS after its sockets opened; GET_BTS_STATS with a result or an error.
Finished(w, r) ==
    /\ r.at \in {"sockets", "stats"}
    /\ \E ok \in BOOLEAN : (r.at = "sockets" => ok) /\ Answers(w, r, ok)
    /\ Ended(w, r)
    /\ UNCHANGED <<page, tw, inbox, lost>>

\* What is awaited throws: no handler but that of GET_BTS_STATS catches it.
Throws(w, r) ==
    /\ r.at \in {"osmo", "control", "device", "sockets"}
    /\ Ended(w, r)
    /\ lost' = lost \cup {r.id}
    /\ UNCHANGED <<page, tw, inbox, outbox>>

Resume(w, r) ==
    StartOsmo(w, r) \/ StartControl(w, r) \/ UsbControl(w, r) \/ UsbDevice(w, r) \/ Finished(w, r)

Begin(w) == BeginAwaiting(w) \/ AnswerNow(w) \/ BeginClose(w) \/ Unanswered(w)

Next ==
    \/ \E c \in Calls : Call(c)
    \/ \E w \in Workers : OnWorkerMessage(w) \/ Begin(w)
    \/ \E w \in Workers : \E r \in running[w] : Resume(w, r) \/ Throws(w, r)

\* The two event loops run: a message posted is handled and an await ends.
Fairness ==
    /\ \A w \in Workers : WF_vars(OnWorkerMessage(w)) /\ WF_vars(Begin(w))
    /\ \A w \in Workers : WF_vars(\E r \in running[w] : Resume(w, r) \/ Throws(w, r))

Spec == Init /\ [][Next]_vars /\ Fairness

-------------------------------------------------------------------------------
(* Properties.                                                               *)

\* The page's and the workers' fields have their shapes; a transceiver has an
\* Osmo, and only a transceiver has a device.
TrxTypeOK ==
    /\ worker \in 0 .. MaxWorkers
    /\ calls \in [Calls -> [kind : Methods \cup {"none"},
                            state : {"idle", "starting", "waiting", "threw", "resolved", "rejected"}]]
    /\ promises \subseteq Ids
    /\ started \in BOOLEAN
    /\ tw \in [Workers -> [alive : BOOLEAN, module : BOOLEAN, control : BOOLEAN,
                           osmo : Nat, trx : Nat, fd : BOOLEAN]]
    /\ \A w \in Workers : tw[w].trx <= tw[w].osmo /\ (tw[w].fd => tw[w].trx # 0)
    /\ inbox \in [Workers -> Seq(Message)]
    /\ \A w \in Workers : running[w] \subseteq Awaiting
    /\ outbox \in [Workers -> Seq(Answer)]
    /\ lost \subseteq Ids

\* Where a request is: a message, a handler, an answer, or nowhere any more.
PlacesIn(w, id) ==
    {<<"message", w, n>> : n \in {n \in DOMAIN inbox[w] : inbox[w][n].id = id}}
      \cup {<<"handler", w, r.at>> : r \in {r \in running[w] : r.id = id}}
      \cup {<<"answer", w, n>> : n \in {n \in DOMAIN outbox[w] : outbox[w][n].id = id}}

LostPlaces(id) == {<<"lost", 0, 0>> : l \in lost \cap {id}}

Places(id) == (UNION {PlacesIn(w, id) : w \in Workers}) \cup LostPlaces(id)

\* The promise table is exact: a promise is kept if and only if its request is
\* in exactly one place, so no answer comes twice or for a promise already
\* deleted, whatever the handlers' interleaving and whichever worker dies.
PromisesAccounted ==
    \A id \in Ids : Cardinality(Places(id)) = IF id \in promises THEN 1 ELSE 0

\* A worker never replaces its OsmoTrxWorker, which owns the USB device and the
\* websockets, although two STARTs may await initOsmo and initControl at once.
TransceiverKept ==
    [][\A w \in Workers : tw[w].trx # 0 /\ tw'[w].alive => tw'[w].trx = tw[w].trx]_vars

Settled(c) == calls[c].state \in {"resolved", "rejected"}
WorkerStopped == \E c \in Calls : calls[c] = [kind |-> "STOP_WORKER", state |-> "waiting"]

\* A caller gets its answer, whatever else the worker is awaiting, unless the
\* worker is terminated: open_bts, setParameter and close_* always, getBtsStats
\* once every worker has its Osmo.  (START, STOP and sendCommand never settle,
\* and open_usb and open_ws do not when what they await throws.)
CallersAnswered ==
    \A c \in Calls :
        /\ (calls[c].state = "waiting" /\ calls[c].kind \in Closes \cup {"OPEN_BTS", "SET_PARAMETER"})
              ~> (Settled(c) \/ WorkerStopped)
        /\ (/\ calls[c] = [kind |-> "GET_BTS_STATS", state |-> "waiting"]
            /\ <<c, "own">> \notin lost
            /\ \A w \in Workers : tw[w].alive => tw[w].osmo # 0)
              ~> (Settled(c) \/ WorkerStopped)

===============================================================================
