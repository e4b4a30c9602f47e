--------------------------- MODULE YouTubeProxyProofs ---------------------------
(***************************************************************************)
(* Proofs about YouTubeProxy: what a worker uses outlives it, NSSL is      *)
(* finished as often as it was begun, and no slot is lost, for a live      *)
(* table of any size and an accept thread of any patience.                 *)
(***************************************************************************)
EXTENDS YouTubeProxy, TLAPS

\* The places of a worker that may hold a connection.
Connected == {"write", "await", "refused", "drop", "relay", "done"}
WorkerPlace == {"none", "head", "done", "close"} \cup Upstream

\* The type invariant: the flags, the numbers, and what is at a place.
Flags ==
    /\ running \in BOOLEAN /\ up \in BOOLEAN /\ listening \in BOOLEAN /\ accepting \in BOOLEAN
    /\ tls \in BOOLEAN /\ nssl \in BOOLEAN /\ nonblocking \in BOOLEAN /\ knocked \in BOOLEAN
Numbers == failures \in Nat /\ users \in Int
Places ==
    /\ client \in [Slot -> Socket] /\ upstream \in [Slot -> Socket]
    /\ main \in Starting \cup Stopping \cup {"app", "stopped"}
    /\ acceptor \in {"none", "loop", "accept", "wake", "serve", "quit"}
    /\ worker \in [Slot -> WorkerPlace]
    /\ mode \in [Slot -> BOOLEAN] /\ connection \in [Slot -> BOOLEAN]
TypeOK == Flags /\ Numbers /\ Places

\* A start finds nobody at work, and once it has forgotten what an earlier process left, it
\* owes NSSL what it says.
Begun ==
    /\ main \in Starting => \A s \in Slot : worker[s] = "none"
    /\ main = "start" => users = 0
    /\ main # "start" => (nssl /\ users = 1) \/ (~nssl /\ users = 0)
    /\ main = "tls" => ~nssl
    /\ main \in {"listen", "thread"} => tls

\* An accept thread runs only between its start and the join that a stop cannot skip, with the
\* context up.
Accepts == acceptor # "none" => main \in {"app", "knock", "join"} /\ accepting /\ tls

\* A worker has its slot and the context, and a slot has a worker.  Only a start finds slots
\* without one: those of workers that went with the process before.
Held ==
    \A s \in Slot :
        /\ worker[s] # "none" => client[s] # "none" /\ tls
        /\ main # "start" /\ client[s] # "none" => worker[s] # "none"

\* A connection is between its making and upstream_drop(), on a socket.
Sockets ==
    \A s \in Slot :
        /\ worker[s] \in {"connect", "create"} => upstream[s] # "none"
        /\ connection[s] => worker[s] \in Connected /\ upstream[s] # "none"

IInv == TypeOK /\ Begun /\ Accepts /\ Held /\ Sockets

\* It holds at the first start of the app.
LEMMA InitHolds == Init => IInv
<1> SUFFICES ASSUME Init PROVE IInv
  OBVIOUS
<1>1. Flags
  BY DEF Init, Flags
<1>2. Numbers
  BY DEF Init, Numbers
<1>3. Places
  BY DEF Init, Places, Starting, Socket, WorkerPlace
<1>4. Begun /\ Accepts /\ Held /\ Sockets
  BY DEF Init, Begun, Accepts, Held, Sockets, Starting
<1> QED
  BY <1>1, <1>2, <1>3, <1>4 DEF IInv, TypeOK

\* Taking TLS down leaves nothing owed, for what is owed is what this run says.
LEMMA Finished ==
  ASSUME Begun, main # "start", TlsDown
  PROVE  users' = 0 /\ nssl' = FALSE /\ tls' = FALSE
<1>1. CASE nssl
  BY <1>1 DEF Begun, TlsDown
<1>2. CASE ~nssl
  BY <1>2 DEF Begun, TlsDown
<1> QED
  BY <1>1, <1>2

\* A start: what it forgets no worker holds, and what it puts up it takes down if it fails.
LEMMA StartHolds ==
  ASSUME IInv, Forget \/ TlsUp \/ Listen \/ StartAccepting
  PROVE  IInv'
<1> USE DEF IInv, Begun, Accepts, Held, Sockets, Starting, StartUnchanged,
            switches, context, table, accepted, local
<1>1. CASE Forget
  <2>1. Flags'
    BY <1>1 DEF Forget, TypeOK, Flags
  <2>2. Numbers'
    BY <1>1 DEF Forget, TypeOK, Numbers
  <2>3. Places'
    BY <1>1 DEF Forget, Connected, Socket, TypeOK, Places
  <2>4. Begun' /\ Accepts' /\ Held' /\ Sockets'
    BY <1>1 DEF Forget, Connected, Socket, TypeOK, Places
  <2> QED
    BY <2>1, <2>2, <2>3, <2>4 DEF TypeOK
<1>2. CASE TlsUp
  <2>1. Flags'
    BY <1>2 DEF TlsUp, TypeOK, Flags
  <2>2. Numbers'
    BY <1>2 DEF TlsUp, TypeOK, Numbers
  <2>3. Places'
    BY <1>2 DEF TlsUp, TypeOK, Places
  <2>4. Begun' /\ Accepts' /\ Held' /\ Sockets'
    BY <1>2 DEF TlsUp, TypeOK, Places
  <2> QED
    BY <2>1, <2>2, <2>3, <2>4 DEF TypeOK
<1>3. CASE Listen
  <2>1. Flags'
    BY <1>3, Finished DEF Listen, TypeOK, Flags
  <2>2. Places'
    BY <1>3 DEF Listen, TypeOK, Places
  <2>3. CASE main' = "thread" /\ UNCHANGED context
    <3>1. Numbers'
      BY <1>3, <2>3 DEF Listen, TypeOK, Numbers
    <3>2. Begun' /\ Accepts' /\ Held' /\ Sockets'
      BY <1>3, <2>3 DEF Listen
    <3> QED
      BY <2>1, <2>2, <3>1, <3>2 DEF TypeOK
  <2>4. CASE main' = "app" /\ UNCHANGED switches /\ TlsDown
    <3>1. users' = 0 /\ nssl' = FALSE /\ tls' = FALSE
      BY <1>3, <2>4, Finished DEF Listen
    <3>2. Numbers'
      BY <1>3, <2>4, <3>1 DEF Listen, TypeOK, Numbers
    <3>3. Begun' /\ Accepts' /\ Held' /\ Sockets'
      BY <1>3, <2>4, <3>1 DEF Listen
    <3> QED
      BY <2>1, <2>2, <3>2, <3>3 DEF TypeOK
  <2> QED
    BY <1>3, <2>3, <2>4 DEF Listen
<1>4. CASE StartAccepting
  <2>1. Flags'
    BY <1>4, Finished DEF StartAccepting, TypeOK, Flags
  <2>2. Places'
    BY <1>4 DEF StartAccepting, TypeOK, Places
  <2>3. CASE acceptor' = "loop" /\ accepting' = TRUE /\ failures' = 0 /\ UNCHANGED context
    <3>1. Numbers'
      BY <1>4, <2>3 DEF StartAccepting, TypeOK, Numbers
    <3>2. Begun' /\ Accepts' /\ Held' /\ Sockets'
      BY <1>4, <2>3 DEF StartAccepting
    <3> QED
      BY <2>1, <2>2, <3>1, <3>2 DEF TypeOK
  <2>4. CASE UNCHANGED <<accepting, acceptor, failures>> /\ TlsDown
    <3>1. users' = 0 /\ nssl' = FALSE /\ tls' = FALSE
      BY <1>4, <2>4, Finished DEF StartAccepting
    <3>2. Numbers'
      BY <1>4, <2>4, <3>1 DEF StartAccepting, TypeOK, Numbers
    <3>3. Begun' /\ Accepts' /\ Held' /\ Sockets'
      BY <1>4, <2>4, <3>1 DEF StartAccepting
    <3> QED
      BY <2>1, <2>2, <3>2, <3>3 DEF TypeOK
  <2> QED
    BY <1>4, <2>3, <2>4 DEF StartAccepting
<1> QED
  BY <1>1, <1>2, <1>3, <1>4

\* A stop: the accept thread is gone before the sockets are broken, and the context goes only
\* with the last slot.
LEMMA StopHolds ==
  ASSUME IInv,
         Stop \/ Knock \/ Join \/ CloseListener \/ BreakAll \/ Drained \/ GiveUp \/ NextProcess
  PROVE  IInv'
<1> USE ProxyAssumption DEF IInv, Begun, Accepts, Held, Sockets, Starting, Stopping, StopUnchanged,
            switches, context, table, accepted, local
<1>1. CASE Stop
  <2>1. Flags'
    BY <1>1 DEF Stop, TypeOK, Flags
  <2>2. Numbers'
    BY <1>1 DEF Stop, TypeOK, Numbers
  <2>3. Places'
    BY <1>1 DEF Stop, TypeOK, Places
  <2>4. Begun' /\ Accepts' /\ Held' /\ Sockets'
    BY <1>1 DEF Stop, TypeOK, Places
  <2> QED
    BY <2>1, <2>2, <2>3, <2>4 DEF TypeOK
<1>2. CASE Knock
  <2>1. Flags'
    BY <1>2 DEF Knock, TypeOK, Flags
  <2>2. Numbers'
    BY <1>2 DEF Knock, TypeOK, Numbers
  <2>3. Places'
    BY <1>2 DEF Knock, TypeOK, Places
  <2>4. Begun' /\ Accepts' /\ Held' /\ Sockets'
    BY <1>2 DEF Knock, TypeOK, Places
  <2> QED
    BY <2>1, <2>2, <2>3, <2>4 DEF TypeOK
<1>3. CASE Join
  <2>1. Flags'
    BY <1>3 DEF Join, TypeOK, Flags
  <2>2. Numbers'
    BY <1>3 DEF Join, TypeOK, Numbers
  <2>3. Places'
    BY <1>3 DEF Join, TypeOK, Places
  <2>4. Begun' /\ Accepts' /\ Held' /\ Sockets'
    BY <1>3 DEF Join, TypeOK, Places
  <2> QED
    BY <2>1, <2>2, <2>3, <2>4 DEF TypeOK
<1>4. CASE CloseListener
  <2>1. Flags'
    BY <1>4 DEF CloseListener, TypeOK, Flags
  <2>2. Numbers'
    BY <1>4 DEF CloseListener, TypeOK, Numbers
  <2>3. Places'
    BY <1>4 DEF CloseListener, TypeOK, Places
  <2>4. Begun' /\ Accepts' /\ Held' /\ Sockets'
    BY <1>4 DEF CloseListener, TypeOK, Places
  <2> QED
    BY <2>1, <2>2, <2>3, <2>4 DEF TypeOK
<1>5. CASE BreakAll
  <2>1. Flags'
    BY <1>5 DEF BreakAll, TypeOK, Flags
  <2>2. Numbers'
    BY <1>5 DEF BreakAll, TypeOK, Numbers
  <2>3. Places'
    BY <1>5 DEF BreakAll, Broken, Socket, TypeOK, Places
  <2>4. Begun' /\ Accepts' /\ Held' /\ Sockets'
    BY <1>5 DEF BreakAll, Broken, Socket, TypeOK, Places
  <2> QED
    BY <2>1, <2>2, <2>3, <2>4 DEF TypeOK
<1>6. CASE Drained
  <2>1. main' = "stopped" /\ users' = 0 /\ nssl' = FALSE /\ tls' = FALSE
    BY <1>6, Finished DEF Drained
  <2>2. Flags'
    BY <1>6, <2>1 DEF Drained, TypeOK, Flags
  <2>3. Numbers'
    BY <1>6, <2>1 DEF Drained, TypeOK, Numbers
  <2>4. Places'
    BY <1>6, <2>1 DEF Drained, LiveCount, TypeOK, Places
  <2>5. Begun' /\ Accepts' /\ Held' /\ Sockets'
    BY <1>6, <2>1 DEF Drained, LiveCount, TypeOK, Places
  <2> QED
    BY <2>2, <2>3, <2>4, <2>5 DEF TypeOK
<1>7. CASE GiveUp
  <2>1. Flags'
    BY <1>7 DEF GiveUp, TypeOK, Flags
  <2>2. Numbers'
    BY <1>7 DEF GiveUp, TypeOK, Numbers
  <2>3. Places'
    BY <1>7 DEF GiveUp, TypeOK, Places
  <2>4. Begun' /\ Accepts' /\ Held' /\ Sockets'
    BY <1>7 DEF GiveUp, TypeOK, Places
  <2> QED
    BY <2>1, <2>2, <2>3, <2>4 DEF TypeOK
<1>8. CASE NextProcess
  <2>1. Flags'
    BY <1>8 DEF NextProcess, TypeOK, Flags
  <2>2. Numbers'
    BY <1>8 DEF NextProcess, TypeOK, Numbers
  <2>3. Places'
    BY <1>8 DEF NextProcess, WorkerPlace, TypeOK, Places
  <2>4. Begun' /\ Accepts' /\ Held' /\ Sockets'
    BY <1>8 DEF NextProcess, WorkerPlace, TypeOK, Places
  <2> QED
    BY <2>1, <2>2, <2>3, <2>4 DEF TypeOK
<1> QED
  BY <1>1, <1>2, <1>3, <1>4, <1>5, <1>6, <1>7, <1>8

\* The accept thread claims a slot only with a worker for it, under a context that is up.
LEMMA AcceptorHolds ==
  ASSUME IInv, Acceptor
  PROVE  IInv'
<1> USE DEF IInv, Begun, Accepts, Held, Sockets, Starting, AcceptUnchanged, context, table, local
<1>1. Flags' /\ Numbers'
  <2>1. Flags'
    BY DEF Acceptor, Loop, Accept, Wake, Serve, Quit, TypeOK, Flags
  <2>2. Numbers'
    BY DEF Acceptor, Loop, Accept, Wake, Serve, Quit, TypeOK, Numbers
  <2> QED
    BY <2>1, <2>2
<1>2. CASE Loop \/ Accept \/ Wake \/ Quit
  <2>1. Places' /\ Begun' /\ Accepts' /\ Held' /\ Sockets'
    BY <1>2 DEF Loop, Accept, Wake, Quit, TypeOK, Places
  <2> QED
    BY <1>1, <2>1 DEF TypeOK
<1>3. CASE Serve /\ UNCHANGED <<table, worker>>
  <2>1. Places' /\ Begun' /\ Accepts' /\ Held' /\ Sockets'
    BY <1>3 DEF Serve, TypeOK, Places
  <2> QED
    BY <1>1, <2>1 DEF TypeOK
<1>4. ASSUME Serve, NEW s \in Slot \ LiveCount, Claim(s), worker' = [worker EXCEPT ![s] = "head"]
      PROVE  IInv'
  <2>1. worker[s] = "none" /\ ~connection[s]
    BY <1>4 DEF LiveCount, Connected
  <2>2. Places'
    BY <1>4 DEF Serve, Claim, Socket, WorkerPlace, TypeOK, Places
  <2>3. Begun' /\ Accepts' /\ Held' /\ Sockets'
    BY <1>4, <2>1 DEF Serve, Claim, TypeOK, Places
  <2> QED
    BY <1>1, <2>2, <2>3 DEF TypeOK
<1> QED
  BY <1>2, <1>3, <1>4 DEF Acceptor, Serve

\* A worker, from any place to the next: it has its slot to the end, and drops its connection
\* before the socket.
LEMMA WorkerHolds ==
  ASSUME IInv, NEW s \in Slot, Worker(s)
  PROVE  IInv'
<1> USE DEF IInv, Goto, WorkerUnchanged, switches, context, table, accepted, local
<1>1. Flags'
  BY DEF Worker, Head, Resolve, Open, Connect, Create, Write, Await,
            Refused, Drop, DropSocket, Relay, Done, LiveClose, TypeOK, Flags
<1>2. worker[s] # "none" /\ UNCHANGED <<context, accepted, main, accepting>>
  BY DEF Worker, Head, Resolve, Open, Connect, Create, Write, Await,
            Refused, Drop, DropSocket, Relay, Done, LiveClose
<1>3. Numbers' /\ Accepts'
  BY <1>2 DEF TypeOK, Numbers, Accepts
<1>4. Begun'
  BY <1>2 DEF Begun
<1> USE DEF Places, Held, Sockets, Connected, Socket, WorkerPlace, Upstream, Refuse
<1>5. Head(s) => Places' /\ Held' /\ Sockets'
  BY <1>2 DEF Head, TypeOK
<1>6. Resolve(s) => Places' /\ Held' /\ Sockets'
  <2> HAVE Resolve(s)
  <2>1. nonblocking \in BOOLEAN
    BY DEF TypeOK, Flags
  <2>2. mode' \in [Slot -> BOOLEAN]
    BY <2>1 DEF Resolve, TypeOK
  <2> QED
    BY <1>2, <2>2 DEF Resolve, TypeOK
<1>7. Open(s) => Places' /\ Held' /\ Sockets'
  BY <1>2 DEF Open, TypeOK
<1>8. Connect(s) => Places' /\ Held' /\ Sockets'
  BY <1>2 DEF Connect, TypeOK
<1>9. Create(s) => Places' /\ Held' /\ Sockets'
  BY <1>2 DEF Create, TypeOK
<1>10. Write(s) => Places' /\ Held' /\ Sockets'
  BY <1>2 DEF Write, TypeOK
<1>11. Await(s) => Places' /\ Held' /\ Sockets'
  BY <1>2 DEF Await, TypeOK
<1>12. Refused(s) => Places' /\ Held' /\ Sockets'
  BY <1>2 DEF Refused, TypeOK
<1>13. Drop(s) => Places' /\ Held' /\ Sockets'
  BY <1>2 DEF Drop, TypeOK
<1>14. DropSocket(s) => Places' /\ Held' /\ Sockets'
  BY <1>2 DEF DropSocket, TypeOK
<1>15. Relay(s) => Places' /\ Held' /\ Sockets'
  BY <1>2 DEF Relay, TypeOK
<1>16. Done(s) => Places' /\ Held' /\ Sockets'
  BY <1>2 DEF Done, TypeOK
<1>17. LiveClose(s) => Places' /\ Held' /\ Sockets'
  BY <1>2 DEF LiveClose, TypeOK
<1> QED
  BY <1>1, <1>3, <1>4, <1>5, <1>6, <1>7, <1>8, <1>9, <1>10, <1>11, <1>12, <1>13, <1>14, <1>15,
     <1>16, <1>17 DEF Worker, TypeOK

\* Every step keeps it.
LEMMA NextHolds == IInv /\ [Next]_vars => IInv'
<1> SUFFICES ASSUME IInv, [Next]_vars PROVE IInv'
  OBVIOUS
<1>1. CASE UNCHANGED vars
  BY <1>1 DEF IInv, TypeOK, Flags, Numbers, Places, Begun, Accepts, Held, Sockets, vars, switches,
              context, table, accepted, local
<1> QED
  BY <1>1, StartHolds, StopHolds, AcceptorHolds, WorkerHolds DEF Next, Main

\* So it holds over any number of runs of the app.
LEMMA Inductive == Spec => []IInv
BY InitHolds, NextHolds, PTL DEF Spec

\* The type invariant, of every behaviour.
THEOREM TypeCorrect == Spec => []TypeOK
BY Inductive, PTL DEF IInv

\* TlsOutlivesWorkers: no stop takes the context from under a worker, nor a socket from under
\* its connection.
THEOREM ContextOutlives == Spec => []TlsOutlivesWorkers
<1>1. IInv => TlsOutlivesWorkers
  BY DEF IInv, TypeOK, Places, Held, Sockets, TlsOutlivesWorkers, Connected, Upstream
<1> QED
  BY Inductive, <1>1, PTL

\* NsslBalanced: a run finishes NSSL as often as it began it.
THEOREM Balanced == Spec => []NsslBalanced
<1>1. IInv => NsslBalanced
  BY DEF IInv, Begun, NsslBalanced
<1> QED
  BY Inductive, <1>1, PTL

\* SlotsHaveWorkers: a slot in use is given back by somebody.
THEOREM NoSlotLost == Spec => []SlotsHaveWorkers
<1>1. IInv => SlotsHaveWorkers
  BY DEF IInv, Held, SlotsHaveWorkers, LiveCount
<1> QED
  BY Inductive, <1>1, PTL
-----------------------------------------------------------------------------
\* While the proxy's name is answered locally the port is open and the accept thread is there,
\* or about to be: an accept thread that gives up takes the answer with it.
Served ==
    up => /\ running /\ listening
          /\ main = "thread" \/ (main = "app" /\ acceptor # "none")

\* Every step that takes the answer down takes it first, or all of it.
LEMMA NextServed == Served /\ [Next]_vars => Served'
<1> SUFFICES ASSUME Served, [Next]_vars PROVE Served'
  OBVIOUS
<1> USE DEF Served, switches, context, table, accepted
<1>1. CASE Forget \/ TlsUp \/ Listen \/ StartAccepting
  BY <1>1 DEF Forget, TlsUp, Listen, StartAccepting, StartUnchanged
<1>2. CASE \/ Stop \/ Knock \/ Join \/ CloseListener \/ BreakAll \/ Drained \/ GiveUp
           \/ NextProcess
  BY <1>2 DEF Stop, Knock, Join, CloseListener, BreakAll, Drained, GiveUp, NextProcess,
              StopUnchanged
<1>3. CASE Acceptor
  BY <1>3 DEF Acceptor, Loop, Accept, Wake, Serve, Quit, AcceptUnchanged
<1>4. CASE \E s \in Slot : Worker(s)
  <2>1. UNCHANGED <<up, running, listening, acceptor, main>>
    BY <1>4 DEF Worker, Head, Resolve, Open, Connect, Create, Write, Await, Refused, Drop,
                DropSocket, Relay, Done, LiveClose, WorkerUnchanged
  <2> QED
    BY <2>1
<1>5. CASE UNCHANGED vars
  BY <1>5 DEF vars
<1> QED
  BY <1>1, <1>2, <1>3, <1>4, <1>5 DEF Next, Main

\* No lookup is pointed at a port that nobody serves.
THEOREM ServedWhileUp == Spec => []Served
<1>1. Init => Served
  BY DEF Init, Served
<1> QED
  BY <1>1, NextServed, PTL DEF Spec
=================================================================================
