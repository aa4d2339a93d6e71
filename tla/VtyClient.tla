------------------------------ MODULE VtyClient -------------------------------
(***************************************************************************)
(* The VTY client of backend-core (src/osmoctrl/vty.client.ts): a queue of *)
(* command-line requests over one telnet-like connection to an Osmocom     *)
(* server, where an answer ends with a prompt and carries no identity.     *)
(*                                                                         *)
(* Abstracted: a line is told apart by what it is (banner, prompt, echo or *)
(* output) and by the request it is of, two requests having two texts;     *)
(* empty lines, which are skipped or filtered out, are left out, as are    *)
(* the bytes of _rxBuf and telnet negotiation.  connect() and the loss of  *)
(* the socket take effect at once; that connect() gives up after 5 s is    *)
(* seen only in what an error does then (UncaughtError).                   *)
(***************************************************************************)
EXTENDS Naturals, SequencesExt

CONSTANTS
    Requests,      \* calls of exec
    Size,          \* Size[r]: how many lines the server prints for r
    NoRequest,     \* no request
    MaxCloses      \* bound: how often the connection is lost

ASSUME VtyClientAssumption ==
    /\ NoRequest \notin Requests
    /\ Size \in [Requests -> Nat]
    /\ MaxCloses \in Nat

VARIABLES
    link,          \* the socket is "up" or "down"; "ended" when the process has ended
    connected,     \* _connected: the first prompt has been seen
    pending,       \* the request being executed, or Nothing
    queue,         \* requests waiting for it
    outcome,       \* what became of the promise exec returned
    toServer,      \* what the server has yet to read
    toClient,      \* lines the client has yet to read
    clean,         \* history: see Drain
    closes         \* how often the connection was lost

vtyVars == <<link, connected, pending, queue, outcome, toServer, toClient, clean, closes>>

Line(kind, of) == [kind |-> kind, of |-> of]
Banner  == Line("banner", NoRequest)
Prompt  == Line("prompt", NoRequest)
Echo(r) == Line("echo", r)
Output(r) == [n \in 1 .. Size[r] |-> Line("output", r)]

Nothing == [req |-> NoRequest, awaitingEcho |-> FALSE, lines |-> <<>>]
Sent(r) == [req |-> r, awaitingEcho |-> TRUE, lines |-> <<>>]

\* A promise: not asked for, not settled, rejected, resolved with lines, or gone with
\* the process.
Promise(state) == [state |-> state, lines |-> <<>>]
Resolved(lines) == [state |-> "resolved", lines |-> lines]

VtyInit ==
    /\ link = "down" /\ connected = FALSE
    /\ pending = Nothing /\ queue = <<>>
    /\ outcome = [r \in Requests |-> Promise("new")]
    /\ toServer = <<>> /\ toClient = <<>>
    /\ clean = FALSE /\ closes = 0

-------------------------------------------------------------------------------
(* The client.                                                               *)

\* drainQueue, where up, p and q are _connected, pending and queue by then, and
\* rest the lines still on their way.  clean becomes whether nothing of an earlier
\* request is: neither an unread command nor a line other than a prompt.
Drain(up, p, q, rest) ==
    IF up /\ p = Nothing /\ q # <<>>
    THEN /\ pending' = Sent(Head(q))
         /\ queue' = Tail(q)
         /\ toServer' = Append(toServer, Head(q))
         /\ clean' = /\ ToSet(toServer) \subseteq {NoRequest}
                     /\ ToSet(rest) \subseteq {Prompt}
    ELSE /\ pending' = p
         /\ queue' = q
         /\ UNCHANGED <<toServer, clean>>

Exec(r) ==
    /\ outcome[r].state = "new" /\ link # "ended"
    /\ outcome' = [outcome EXCEPT ![r] = Promise("unsettled")]
    /\ Drain(connected, pending, Append(queue, r), toClient)
    /\ UNCHANGED <<link, connected, toClient, closes>>

\* Mutant of Ready: does not start the queue.
ReadyNoDrain(line) ==
    /\ ~connected /\ line = Prompt
    /\ connected' = TRUE
    /\ UNCHANGED <<pending, queue, outcome, toServer, clean>>

\* onLine, for the next line.  Each disjunct is one way through it.
Ready(line) ==
    /\ ~connected /\ line = Prompt
    /\ connected' = TRUE
    /\ Drain(TRUE, pending, queue, Tail(toClient))
    /\ UNCHANGED outcome

Ignored(line) ==
    /\ connected \/ line # Prompt
    /\ pending = Nothing \/ (pending.awaitingEcho /\ line = Prompt)
    /\ UNCHANGED <<connected, pending, queue, outcome, toServer, clean>>

PastEcho(lines) == [req |-> pending.req, awaitingEcho |-> FALSE, lines |-> lines]

EchoSeen(line) ==
    /\ pending # Nothing /\ pending.awaitingEcho /\ line = Echo(pending.req)
    /\ pending' = PastEcho(pending.lines)
    /\ UNCHANGED <<connected, queue, outcome, toServer, clean>>

\* Any other line, in place of an echo or after it, is output.
Collected(line) ==
    /\ pending # Nothing /\ line # Prompt
    /\ pending.awaitingEcho => line # Echo(pending.req)
    /\ pending' = PastEcho(Append(pending.lines, line))
    /\ UNCHANGED <<connected, queue, outcome, toServer, clean>>

\* Mutant of Answered: does not wait for the echo.
AnsweredAtOnce(line) ==
    /\ connected /\ line = Prompt
    /\ pending # Nothing
    /\ outcome' = [outcome EXCEPT ![pending.req] = Resolved(pending.lines)]
    /\ Drain(TRUE, Nothing, queue, Tail(toClient))
    /\ UNCHANGED connected

\* What filter leaves of the lines: all but r's command, wherever it slipped in.
Filtered(lines, r) ==
    LET kept[n \in 0 .. Len(lines)] ==
            IF n = 0 THEN <<>>
            ELSE IF lines[n] = Echo(r) THEN kept[n - 1]
            ELSE Append(kept[n - 1], lines[n])
    IN  kept[Len(lines)]

Answered(line) ==
    /\ connected /\ line = Prompt
    /\ pending # Nothing /\ ~pending.awaitingEcho
    /\ outcome' = [outcome EXCEPT ![pending.req] = Resolved(Filtered(pending.lines, pending.req))]
    /\ Drain(TRUE, Nothing, queue, Tail(toClient))
    /\ UNCHANGED connected

OnLine ==
    /\ toClient # <<>>
    /\ LET line == Head(toClient)
       IN  Ready(line) \/ Ignored(line) \/ EchoSeen(line) \/ Collected(line) \/ Answered(line)
    /\ toClient' = Tail(toClient)
    /\ UNCHANGED <<link, closes>>

\* Mutants of Timeout: one leaves the request pending, one the queue asleep.
TimeoutKeepsPending ==
    /\ pending # Nothing
    /\ outcome' = [outcome EXCEPT ![pending.req] = Promise("rejected")]
    /\ UNCHANGED <<link, connected, pending, queue, toServer, toClient, clean, closes>>

TimeoutNoDrain ==
    /\ pending # Nothing
    /\ outcome' = [outcome EXCEPT ![pending.req] = Promise("rejected")]
    /\ pending' = Nothing
    /\ UNCHANGED <<link, connected, queue, toServer, toClient, clean, closes>>

\* The timer of the pending request, which runs on while the socket is down.
Timeout ==
    /\ pending # Nothing
    /\ outcome' = [outcome EXCEPT ![pending.req] = Promise("rejected")]
    /\ Drain(connected, Nothing, queue, toClient)
    /\ UNCHANGED <<link, connected, toClient, closes>>

\* A caller finds the client not connected (ensureConnected): no code reconnects of
\* itself.  The client writes an empty command, NoRequest here, and the server greets it.
Connect ==
    /\ link = "down"
    /\ link' = "up"
    /\ toServer' = <<NoRequest>>
    /\ toClient' = <<Banner, Prompt>>
    /\ UNCHANGED <<connected, pending, queue, outcome, clean, closes>>

\* The connection ends, with whatever was on its way.
Lost ==
    /\ link = "up" /\ closes < MaxCloses
    /\ link' = "down" /\ connected' = FALSE /\ clean' = FALSE
    /\ toServer' = <<>> /\ toClient' = <<>>
    /\ closes' = closes + 1
    /\ UNCHANGED queue

\* 'close' alone leaves the pending request to its timer.
Closed == Lost /\ UNCHANGED <<pending, outcome>>

\* 'error' before it rejects the pending request.  The client emits it again, and only
\* connect(), while it waits for the first prompt, has a listener for it.
ConnectError ==
    /\ Lost /\ ~connected
    /\ pending' = Nothing
    /\ outcome' = IF pending = Nothing THEN outcome
                  ELSE [outcome EXCEPT ![pending.req] = Promise("rejected")]

\* At any other time, after connect() has given up included, that emit throws out of
\* the socket's callback, which ends the process and every promise with it.
UncaughtError ==
    /\ link = "up"
    /\ link' = "ended" /\ connected' = FALSE /\ clean' = FALSE
    /\ pending' = Nothing /\ queue' = <<>>
    /\ toServer' = <<>> /\ toClient' = <<>>
    /\ outcome' = [r \in Requests |-> IF outcome[r].state = "unsettled" THEN Promise("gone")
                                      ELSE outcome[r]]
    /\ UNCHANGED closes

-------------------------------------------------------------------------------
(* The server (external): it reads one command at a time, may echo it, prints *)
(* its output and prompts.  Some answer an empty command with a prompt.       *)

Respond ==
    /\ toServer # <<>>
    /\ toServer' = Tail(toServer)
    /\ LET r == Head(toServer)
       IN  IF r = NoRequest
           THEN \E answer \in {<<>>, <<Prompt>>} : toClient' = toClient \o answer
           ELSE \E echo \in {<<>>, <<Echo(r)>>} :
                    toClient' = toClient \o echo \o Append(Output(r), Prompt)
    /\ UNCHANGED <<link, connected, pending, queue, outcome, clean, closes>>

VtyNext ==
    \/ \E r \in Requests : Exec(r)
    \/ OnLine \/ Timeout \/ Connect \/ Closed \/ ConnectError \/ UncaughtError \/ Respond

\* Node runs every callback that is due, and a timer that nobody clears fires.  Nobody
\* has to call again, so Connect is not fair, nor is the server's Respond.
VtyFairness == WF_vtyVars(OnLine) /\ WF_vtyVars(Timeout)

VtySpec == VtyInit /\ [][VtyNext]_vtyVars /\ VtyFairness

-------------------------------------------------------------------------------
(* Properties.                                                               *)

IsLine(l) == l.kind \in {"banner", "prompt", "echo", "output"} /\ l.of \in Requests \cup {NoRequest}

\* The fields have their shapes; a request waits or is pending, once, exactly as
\* long as its promise is unsettled; nothing is on its way when the link is not up.
VtyTypeOK ==
    /\ link \in {"up", "down", "ended"} /\ connected \in BOOLEAN /\ clean \in BOOLEAN
    /\ closes \in 0 .. MaxCloses
    /\ pending.req \in Requests \cup {NoRequest} /\ pending.awaitingEcho \in BOOLEAN
    /\ \A n \in DOMAIN pending.lines : IsLine(pending.lines[n])
    /\ \A r \in Requests :
          outcome[r].state \in {"new", "unsettled", "rejected", "resolved", "gone"}
    /\ IsInjective(queue)
    /\ {r \in Requests : outcome[r].state = "unsettled"}
          = ToSet(queue) \cup ({pending.req} \ {NoRequest})
    /\ pending.req \notin ToSet(queue)
    /\ ToSet(toServer) \subseteq Requests \cup {NoRequest}
    /\ \A n \in DOMAIN toClient : IsLine(toClient[n])
    /\ link # "up" => ~connected /\ toServer = <<>> /\ toClient = <<>>

\* No lost wake-up: while the client is connected, requests wait only behind a
\* pending one, whatever errors, timeouts and reconnects came before.
NeverIdleWithWork == connected /\ queue # <<>> => pending # Nothing

Resolves(r) == outcome[r].state # "resolved" /\ outcome'[r].state = "resolved"

\* A request that was sent when nothing of an earlier one was on its way, on the
\* connection that is still up, resolves with all of its output and nothing else,
\* whether the server echoes or not, and whatever prompts were left over.
CleanAnswer ==
    [][\A r \in Requests : Resolves(r) /\ clean => outcome'[r].lines = Output(r)]_vtyVars

Waits(r) == outcome[r].state = "unsettled"

\* A request that was sent settles, by its answer, an error or its timer, whatever
\* becomes of the connection.  One in the queue has no timer yet; it settles, whatever
\* errors and losses it lived through, if the client is connected again and again or for
\* ever, which is up to later callers (only the end of the process ends it otherwise).
EveryRequestSettles ==
    \A r \in Requests :
        /\ pending.req = r ~> ~Waits(r)
        /\ []<>connected => (Waits(r) ~> ~Waits(r))

===============================================================================
