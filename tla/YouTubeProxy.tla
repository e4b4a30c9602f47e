----------------------------- MODULE YouTubeProxy -----------------------------
(***************************************************************************)
(* The second screen proxy of the YouTube app, src/youtube/proxy.cpp, as   *)
(* src/youtube.cpp starts and stops it.                                    *)
(*                                                                         *)
(* The app's own thread runs proxy_start() and proxy_stop(); the accept    *)
(* thread claims a slot of the live table for each connection and starts a *)
(* detached worker for it; the workers carry requests upstream over one    *)
(* TLS context.  The plugin's globals outlive the app's process; threads,  *)
(* sockets, NSSL's users and TLS connections do not.                       *)
(*                                                                         *)
(* What a lock is held over is one step.  What travels is left out: a      *)
(* request is answered here or carried, and a call works or doesn't.       *)
(***************************************************************************)
EXTENDS Integers

CONSTANTS
    Slot,           \* the live table's entries: MAX_CONNECTIONS of them, each with a worker
    MaxFailures,    \* failed accepts in a row before the accept thread gives up
    KnockReaches    \* TRUE: there is always a descriptor to knock with

ASSUME ProxyAssumption ==
    /\ MaxFailures \in Nat
    /\ KnockReaches \in BOOLEAN

VARIABLES
    \* The globals.
    running,        \* sRunning
    up,             \* sUp: the proxy's name is answered locally
    listening,      \* sListen holds a descriptor
    accepting,      \* sAccepting
    tls,            \* sTls holds a context
    nssl,           \* sNssl: this run owes an NSSLFinish
    nonblocking,    \* sNonblockingTls
    client,         \* each entry's client socket
    upstream,       \* and its upstream one
    \* The process.
    main,           \* where the app's thread is
    acceptor,       \* where the accept thread is
    failures,       \* failed accepts in a row
    knocked,        \* a knock is waiting on the port
    worker,         \* where each slot's worker is
    mode,           \* whether its handshake is the non-blocking one
    connection,     \* whether it holds an NSSL connection
    users           \* NSSLInit calls less NSSLFinish calls, the app's own aside

switches == <<running, up, listening, accepting>>
context == <<tls, nssl, users>>
table == <<client, upstream>>
accepted == <<acceptor, failures, knocked>>
local == <<mode, connection>>
vars == <<switches, context, table, accepted, nonblocking, local, worker, main>>

Socket == {"none", "open", "broken"}
Starting == {"start", "tls", "listen", "thread"}
Stopping == {"knock", "join", "close", "break", "drain"}
Upstream == {"resolve", "open", "connect", "create", "write", "await", "refused", "drop",
             "drop_socket", "relay"}

Init ==
    /\ running = FALSE /\ up = FALSE /\ listening = FALSE /\ accepting = FALSE
    /\ tls = FALSE /\ nssl = FALSE /\ users = 0
    /\ nonblocking = TRUE
    /\ client = [s \in Slot |-> "none"]
    /\ upstream = [s \in Slot |-> "none"]
    /\ main = "start"
    /\ acceptor = "none" /\ failures = 0 /\ knocked = FALSE
    /\ worker = [s \in Slot |-> "none"]
    /\ mode = [s \in Slot |-> TRUE]
    /\ connection = [s \in Slot |-> FALSE]

LiveCount == {s \in Slot : client[s] # "none"}

TlsDown ==
    /\ tls' = FALSE
    /\ nssl' = FALSE
    /\ users' = IF nssl THEN users - 1 ELSE users

-----------------------------------------------------------------------------
(***************************************************************************)
(* proxy_start(), from the application start hook.                         *)
(***************************************************************************)
StartUnchanged == UNCHANGED <<accepted, nonblocking, local, worker>>

\* The slip of a start that takes the globals for its own.
ForgetNothing ==
    /\ main = "start"
    /\ main' = "tls"
    /\ UNCHANGED <<switches, context, table>> /\ StartUnchanged

\* What a stop had to leave behind went with its process.
Forget ==
    /\ main = "start"
    /\ main' = "tls"
    /\ tls' = FALSE
    /\ nssl' = FALSE
    /\ client' = [s \in Slot |-> "none"]
    /\ upstream' = [s \in Slot |-> "none"]
    /\ UNCHANGED <<switches, users>> /\ StartUnchanged

\* No NSSL, no context, or both up.
TlsUp ==
    /\ main = "tls"
    /\ \/ main' = "app" /\ UNCHANGED context
       \/ main' = "listen" /\ tls' = TRUE /\ nssl' = TRUE /\ users' = users + 1
    /\ UNCHANGED <<switches, table>> /\ StartUnchanged

Listen ==
    /\ main = "listen"
    /\ \/ /\ main' = "thread"
          /\ listening' = TRUE /\ running' = TRUE /\ up' = TRUE
          /\ UNCHANGED <<accepting, context>>
       \/ main' = "app" /\ TlsDown /\ UNCHANGED switches
    /\ UNCHANGED table /\ StartUnchanged

StartAccepting ==
    /\ main = "thread"
    /\ main' = "app"
    /\ \/ accepting' = TRUE /\ acceptor' = "loop" /\ failures' = 0
          /\ UNCHANGED <<running, up, listening, context>>
       \/ running' = FALSE /\ up' = FALSE /\ listening' = FALSE /\ TlsDown
          /\ UNCHANGED <<accepting, acceptor, failures>>
    /\ UNCHANGED <<table, knocked, nonblocking, local, worker>>

-----------------------------------------------------------------------------
(***************************************************************************)
(* proxy_stop(), from the application end hook.                            *)
(***************************************************************************)
StopUnchanged == UNCHANGED <<acceptor, failures, nonblocking, local, worker>>

\* The slip of waiting for the accept thread without waking it.
StopWithoutKnock ==
    /\ main = "app"
    /\ running' = FALSE
    /\ up' = FALSE
    /\ main' = IF accepting THEN "join" ELSE "close"
    /\ UNCHANGED <<listening, accepting, context, table, knocked>> /\ StopUnchanged

Stop ==
    /\ main = "app"
    /\ running' = FALSE
    /\ up' = FALSE
    /\ main' = IF accepting THEN "knock" ELSE "close"
    /\ UNCHANGED <<listening, accepting, context, table, knocked>> /\ StopUnchanged

Knock ==
    /\ main = "knock"
    /\ main' = "join"
    /\ knocked' \in {TRUE, KnockReaches}
    /\ UNCHANGED <<switches, context, table>> /\ StopUnchanged

Join ==
    /\ main = "join"
    /\ acceptor = "none"
    /\ main' = "close"
    /\ accepting' = FALSE
    /\ UNCHANGED <<running, up, listening, context, table, knocked>> /\ StopUnchanged

CloseListener ==
    /\ main = "close"
    /\ main' = "break"
    /\ listening' = FALSE
    /\ UNCHANGED <<running, up, accepting, context, table, knocked>> /\ StopUnchanged

Broken(sockets) == [s \in Slot |-> IF sockets[s] = "none" THEN "none" ELSE "broken"]

\* The slip of breaking only what the page holds.
BreakClients ==
    /\ main = "break"
    /\ main' = "drain"
    /\ client' = Broken(client)
    /\ UNCHANGED <<upstream, switches, context, knocked>> /\ StopUnchanged

\* live_break_all()
BreakAll ==
    /\ main = "break"
    /\ main' = "drain"
    /\ client' = Broken(client)
    /\ upstream' = Broken(upstream)
    /\ UNCHANGED <<switches, context, knocked>> /\ StopUnchanged

Drained ==
    /\ main = "drain"
    /\ LiveCount = {}
    /\ main' = "stopped"
    /\ TlsDown
    /\ UNCHANGED <<switches, table, knocked>> /\ StopUnchanged

\* The slip of taking TLS down under workers that did not end.
GiveUpAndFinish ==
    /\ main = "drain"
    /\ LiveCount # {}
    /\ main' = "stopped"
    /\ TlsDown
    /\ UNCHANGED <<switches, table, knocked>> /\ StopUnchanged

\* DRAIN_SECONDS went by, and TLS stays up under the workers that are left.
GiveUp ==
    /\ main = "drain"
    /\ LiveCount # {}
    /\ main' = "stopped"
    /\ UNCHANGED <<switches, context, table, knocked>> /\ StopUnchanged

\* The app is gone with everything that was its own, and YouTube starts again.
NextProcess ==
    /\ main = "stopped"
    /\ main' = "start"
    /\ users' = 0
    /\ acceptor' = "none" /\ failures' = 0 /\ knocked' = FALSE
    /\ worker' = [s \in Slot |-> "none"]
    /\ mode' = [s \in Slot |-> TRUE]
    /\ connection' = [s \in Slot |-> FALSE]
    /\ UNCHANGED <<switches, tls, nssl, table, nonblocking>>

Main == Forget \/ TlsUp \/ Listen \/ StartAccepting \/ Knock \/ Join \/ CloseListener
        \/ BreakAll \/ Drained \/ GiveUp

-----------------------------------------------------------------------------
(***************************************************************************)
(* accept_loop()                                                           *)
(***************************************************************************)
AcceptUnchanged == UNCHANGED <<running, listening, accepting, context, nonblocking, main>>

Loop ==
    /\ acceptor = "loop"
    /\ acceptor' = IF running THEN "accept" ELSE "quit"
    /\ UNCHANGED <<up, table, failures, knocked, local, worker>> /\ AcceptUnchanged

\* A connection of the page's or the knock, or an error.
Accept ==
    /\ acceptor = "accept"
    /\ \/ acceptor' = "wake" /\ failures' = 0
       \/ ~running /\ acceptor' = "quit" /\ UNCHANGED failures
       \/ /\ running
          /\ failures' = failures + 1
          /\ acceptor' = IF failures' > MaxFailures THEN "quit" ELSE "loop"
    /\ UNCHANGED <<up, table, knocked, local, worker>> /\ AcceptUnchanged

Wake ==
    /\ acceptor = "wake"
    /\ acceptor' = IF running THEN "serve" ELSE "quit"
    /\ UNCHANGED <<up, table, failures, knocked, local, worker>> /\ AcceptUnchanged

Claim(s) == client' = [client EXCEPT ![s] = "open"] /\ upstream' = [upstream EXCEPT ![s] = "none"]

\* The slip of keeping the slot when no thread could be had for it.
ServeOrLeak ==
    /\ acceptor = "serve"
    /\ acceptor' = "loop"
    /\ \/ \E s \in Slot \ LiveCount :
            Claim(s) /\ (worker' = [worker EXCEPT ![s] = "head"] \/ UNCHANGED worker)
       \/ LiveCount = Slot /\ UNCHANGED <<table, worker>>
    /\ UNCHANGED <<up, failures, knocked, local>> /\ AcceptUnchanged

\* live_claim() and start_worker(): a full table or no thread, and the page is told so.
Serve ==
    /\ acceptor = "serve"
    /\ acceptor' = "loop"
    /\ \/ \E s \in Slot \ LiveCount :
            Claim(s) /\ worker' = [worker EXCEPT ![s] = "head"]
       \/ UNCHANGED <<table, worker>>
    /\ UNCHANGED <<up, failures, knocked, local>> /\ AcceptUnchanged

Quit ==
    /\ acceptor = "quit"
    /\ acceptor' = "none"
    /\ up' = FALSE
    /\ UNCHANGED <<table, failures, knocked, local, worker>> /\ AcceptUnchanged

Acceptor == Loop \/ Accept \/ Wake \/ Serve \/ Quit

-----------------------------------------------------------------------------
(***************************************************************************)
(* serve(): a worker.  Every way out of it goes through "done".            *)
(***************************************************************************)
Goto(s, place) == worker' = [worker EXCEPT ![s] = place]
WorkerUnchanged == UNCHANGED <<switches, context, accepted, main>>

\* Answered here, or by a page that went away; else carried.
Head(s) ==
    /\ worker[s] = "head"
    /\ Goto(s, "resolve") \/ Goto(s, "done")
    /\ UNCHANGED <<table, nonblocking, local>> /\ WorkerUnchanged

Resolve(s) ==
    /\ worker[s] = "resolve"
    /\ mode' = [mode EXCEPT ![s] = nonblocking]
    /\ Goto(s, "open") \/ Goto(s, "done")
    /\ UNCHANGED <<table, nonblocking, connection>> /\ WorkerUnchanged

\* upstream_open(), from its socket to its NSSL connection.
Open(s) ==
    /\ worker[s] = "open"
    /\ \/ upstream' = [upstream EXCEPT ![s] = "open"] /\ Goto(s, "connect")
       \/ UNCHANGED upstream /\ Goto(s, "done")
    /\ UNCHANGED <<client, nonblocking, local>> /\ WorkerUnchanged

\* The mode failing, which only the non-blocking one can.
Refuse(s) == mode[s] /\ Goto(s, "refused")

Connect(s) ==
    /\ worker[s] = "connect"
    /\ Goto(s, "create") \/ Goto(s, "done") \/ Refuse(s)
    /\ UNCHANGED <<table, nonblocking, local>> /\ WorkerUnchanged

Create(s) ==
    /\ worker[s] = "create"
    /\ \/ connection' = [connection EXCEPT ![s] = TRUE] /\ Goto(s, "write")
       \/ UNCHANGED connection /\ (IF mode[s] THEN Refuse(s) ELSE Goto(s, "done"))
    /\ UNCHANGED <<table, nonblocking, mode>> /\ WorkerUnchanged

\* The first write runs the handshake.  The non-blocking one has to wait for it at least once,
\* and waitable() does not begin to wait once the proxy is stopping.
Write(s) ==
    /\ worker[s] = "write"
    /\ IF mode[s] THEN (running /\ Goto(s, "await")) \/ Goto(s, "done") \/ Refuse(s)
                  ELSE Goto(s, "relay") \/ Goto(s, "done")
    /\ UNCHANGED <<table, nonblocking, local>> /\ WorkerUnchanged

Await(s) ==
    /\ worker[s] = "await"
    /\ Goto(s, "relay") \/ Goto(s, "done") \/ Refuse(s)
    /\ UNCHANGED <<table, nonblocking, local>> /\ WorkerUnchanged

Refused(s) ==
    /\ worker[s] = "refused"
    /\ IF running THEN nonblocking' = FALSE /\ Goto(s, "drop")
                  ELSE UNCHANGED nonblocking /\ Goto(s, "done")
    /\ UNCHANGED <<table, local>> /\ WorkerUnchanged

\* upstream_drop(): the TLS connection first, then the socket under it.
Drop(s) ==
    /\ worker[s] = "drop"
    /\ connection' = [connection EXCEPT ![s] = FALSE]
    /\ Goto(s, "drop_socket")
    /\ UNCHANGED <<table, nonblocking, mode>> /\ WorkerUnchanged

DropSocket(s) ==
    /\ worker[s] = "drop_socket"
    /\ upstream' = [upstream EXCEPT ![s] = "none"]
    /\ mode' = [mode EXCEPT ![s] = FALSE]
    /\ Goto(s, "open")
    /\ UNCHANGED <<client, nonblocking, connection>> /\ WorkerUnchanged

\* The body, the answer's headers, and the relay for as long as it lasts.
Relay(s) ==
    /\ worker[s] = "relay"
    /\ Goto(s, "done")
    /\ UNCHANGED <<table, nonblocking, local>> /\ WorkerUnchanged

Done(s) ==
    /\ worker[s] = "done"
    /\ connection' = [connection EXCEPT ![s] = FALSE]
    /\ Goto(s, "close")
    /\ UNCHANGED <<table, nonblocking, mode>> /\ WorkerUnchanged

LiveClose(s) ==
    /\ worker[s] = "close"
    /\ client' = [client EXCEPT ![s] = "none"]
    /\ upstream' = [upstream EXCEPT ![s] = "none"]
    /\ Goto(s, "none")
    /\ UNCHANGED <<nonblocking, local>> /\ WorkerUnchanged

Worker(s) ==
    Head(s) \/ Resolve(s) \/ Open(s) \/ Connect(s) \/ Create(s) \/ Write(s) \/ Await(s)
    \/ Refused(s) \/ Drop(s) \/ DropSocket(s) \/ Relay(s) \/ Done(s) \/ LiveClose(s)

-----------------------------------------------------------------------------
Next ==
    \/ Main \/ Stop \/ NextProcess
    \/ Acceptor
    \/ \E s \in Slot : Worker(s)

Spec == Init /\ [][Next]_vars

\* A call that nothing here ends: the relay's on a socket nobody broke, and the blocking
\* handshake's, "which has none" of the deadlines.
Hangs(s) ==
    \/ worker[s] = "relay" /\ upstream[s] = "open"
    \/ ~mode[s] /\ worker[s] = "connect"
    \/ ~mode[s] /\ worker[s] = "write" /\ upstream[s] = "open"

\* The threads are scheduled.  accept() returns only for someone knocking, and a call on a
\* socket that was shut down returns.
FairSpec ==
    /\ Spec
    /\ WF_vars(Main)
    /\ WF_vars(Acceptor /\ (acceptor = "accept" => knocked))
    /\ \A s \in Slot : WF_vars(Worker(s) /\ ~Hangs(s))

-----------------------------------------------------------------------------
\* The context outlives every TLS connection and every worker that may still make one, and
\* the socket under a connection outlives it, through any stop that drains or gives up.
TlsOutlivesWorkers ==
    \A s \in Slot :
        /\ worker[s] \in Upstream \/ connection[s] => tls
        /\ connection[s] => upstream[s] # "none"

\* What this run says it owes NSSL is what it owes: it never finishes the app's own use of
\* it, and never leaves its own behind in a process that goes on, however a start or a stop
\* ends and whatever an earlier process left in the globals.
NsslBalanced == main # "start" => users = IF nssl THEN 1 ELSE 0

\* A slot that is held has a worker that will give it back, so the cap is a limit and not a
\* countdown.
SlotsHaveWorkers == main # "start" => \A s \in LiveCount : worker[s] # "none"

\* The app's end is never held up for good: a stop returns, whatever the workers do.
StopReturns == main \in Stopping ~> main = "stopped"

\* With the non-blocking handshake no worker is left behind by a stop: breaking the sockets
\* and the deadlines get every one of them out, wherever the stop caught it.
WorkersLeave ==
    \A s \in Slot :
        main \in Stopping /\ nonblocking /\ worker[s] # "none" ~> worker[s] = "none"

==============================================================================
