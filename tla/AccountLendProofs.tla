--------------------------- MODULE AccountLendProofs ---------------------------
(***************************************************************************)
(* Proofs about AccountLend, for any number of requests of either kind     *)
(* and any number of titles started meanwhile, where lends are apart.      *)
(***************************************************************************)
EXTENDS AccountLend, TLAPS

TypeInv ==
    /\ pc \in [Request -> Place]
    /\ mine \in [Request -> BOOLEAN]
    /\ crossed \subseteq Request
    /\ lent \in BOOLEAN
    /\ spoiled \in BOOLEAN

\* One request at a time handles the URL, and no lend is out while it does.
OneHandles ==
    /\ \A r, q \in Request : pc[r] \in Handling /\ pc[q] \in Handling => r = q
    /\ \A r \in Request : pc[r] \in Handling => ~lent

\* What is lent is one request's, but for those that have been reached into, and nobody takes
\* back unasked but the applet.
OneLends ==
    /\ \A r, q \in Request \ crossed : mine[r] /\ mine[q] => r = q
    /\ \A r \in Request \ crossed : mine[r] => lent
    /\ \A r \in Request : mine[r] => pc[r] \in {"call", "back"}
    /\ \A r \in Request : pc[r] = "back" => mine[r] \/ r \in Applet
    /\ \A r \in crossed : mine[r] \/ pc[r] = "mark"

\* The URL is the Miiverse's server's from the write that lends it to the take-back.
PointsThere == \A r \in Request \ crossed : mine[r] \/ pc[r] = "mark" => url = to

\* What has to be put back is in lent_original as long as it is not in the URL.
Ledger ==
    ~spoiled =>
        /\ lent => lent_original = before /\ \E r \in Request : mine[r]
        /\ \A r \in Request :
               pc[r] \in {"write", "undo", "mark", "restore"} => lent_original = before
        /\ ~Owed => url = before

IInv == TypeInv /\ OneHandles /\ OneLends /\ PointsThere /\ Ledger

\* The initial states are at rest.
LEMMA InitIInv == Init => IInv
  BY RequestAssumption DEF Init, IInv, TypeInv, OneHandles, OneLends, PointsThere, Ledger, Owed,
     Request, Place, Handling

\* The steps before the URL is touched: a request is made, looks whether a lend is out, and
\* reads what it would have to put back.
LEMMA BeginKeeps ==
  ASSUME LendsApart, IInv, NEW r \in Request, Ask(r) \/ Check(r) \/ Read(r)
  PROVE  IInv'
<1> USE RequestAssumption DEF IInv, TypeInv, Goto, boot, kept
<1>1. CASE Ask(r)
  <2>1. TypeInv'
    BY <1>1 DEF Ask, Place
  <2>2. OneHandles'
    BY <1>1 DEF Ask, OneHandles, Handling, Request
  <2>3. OneLends' /\ PointsThere'
    BY <1>1 DEF Ask, OneLends, PointsThere
  <2>4. Ledger'
    BY <1>1 DEF Ask, Ledger, Owed
  <2> QED
    BY <2>1, <2>2, <2>3, <2>4
<1>2. CASE Check(r)
  <2>1. TypeInv'
    BY <1>2 DEF Check, Place
  <2>2. OneHandles'
    BY <1>2 DEF Check, OneHandles, Handling, Apart, Request
  <2>3. OneLends' /\ PointsThere'
    BY <1>2 DEF Check, OneLends, PointsThere
  <2>4. Ledger'
    BY <1>2 DEF Check, Ledger, Owed
  <2> QED
    BY <2>1, <2>2, <2>3, <2>4
<1>3. CASE Read(r)
  <2>1. TypeInv' /\ pc[r] = "read" /\ pc'[r] \in {"write", "call"}
    BY <1>3 DEF Read, Place
  <2>2. OneHandles'
    BY <1>3, <2>1 DEF Read, OneHandles, Handling, Request
  <2>3. OneLends' /\ PointsThere'
    BY <1>3 DEF Read, OneLends, PointsThere, OneHandles, Handling
  <2>4. Ledger'
    BY <1>3, <2>1 DEF Read, Ledger, Owed, OneHandles, Handling
  <2> QED
    BY <2>1, <2>2, <2>3, <2>4
<1> QED
  BY <1>1, <1>2, <1>3

\* The steps that lend: nobody else has the URL in hand and no lend is out.
LEMMA LendKeeps ==
  ASSUME LendsApart, IInv, NEW r \in Request, Write(r) \/ Undo(r) \/ Mark(r)
  PROVE  IInv'
<1> USE RequestAssumption DEF IInv, TypeInv, Goto, boot, kept
<1>1. CASE Write(r)
  <2>1. TypeInv' /\ pc[r] = "write" /\ pc'[r] \in {"mark", "undo"}
    BY <1>1 DEF Write, Place
  <2>2. OneHandles'
    BY <1>1, <2>1 DEF Write, OneHandles, Handling, Request
  <2>3. OneLends' /\ PointsThere'
    BY <1>1 DEF Write, OneLends, PointsThere, OneHandles, Handling
  <2>4. Ledger'
    BY <1>1, <2>1 DEF Write, Ledger, Owed, OneHandles, Handling
  <2> QED
    BY <2>1, <2>2, <2>3, <2>4
<1>2. CASE Undo(r)
  <2>1. TypeInv' /\ pc[r] = "undo" /\ pc'[r] = "call"
    BY <1>2 DEF Undo, PutBack, Place
  <2>2. OneHandles'
    BY <1>2, <2>1 DEF Undo, OneHandles, Handling, Request
  <2>3. OneLends' /\ PointsThere'
    BY <1>2 DEF Undo, OneLends, PointsThere, OneHandles, Handling
  <2>4. Ledger'
    BY <1>2, <2>1 DEF Undo, PutBack, Ledger, Owed, OneHandles, Handling
  <2> QED
    BY <2>1, <2>2, <2>3, <2>4
<1>3. CASE Mark(r)
  <2>1. TypeInv' /\ pc[r] = "mark" /\ pc'[r] = "call" /\ ~lent /\ lent'
    BY <1>3 DEF Mark, Place, OneHandles, Handling
  <2>2. OneHandles'
    BY <1>3, <2>1 DEF Mark, OneHandles, Handling, Request
  <2>3. OneLends' /\ PointsThere'
    BY <1>3, <2>1 DEF Mark, OneLends, PointsThere
  <2>4. Ledger'
    BY <1>3, <2>1 DEF Mark, Ledger, Owed
  <2> QED
    BY <2>1, <2>2, <2>3, <2>4
<1> QED
  BY <1>1, <1>2, <1>3

\* The call and the steps after it: only the request that lent takes back, or the applet, which
\* is alone.
LEMMA EndKeeps ==
  ASSUME LendsApart, IInv, NEW r \in Request, Call(r) \/ TakeBack(r) \/ Restore(r) \/ Die(r)
  PROVE  IInv'
<1> USE RequestAssumption DEF IInv, TypeInv, Goto, boot, kept
<1>1. CASE Call(r)
  <2>1. TypeInv' /\ pc[r] = "call" /\ pc'[r] \in {"back", "idle"}
    BY <1>1 DEF Call, Place
  <2>2. OneHandles'
    BY <1>1, <2>1 DEF Call, OneHandles, Handling, Request
  <2>3. OneLends' /\ PointsThere'
    BY <1>1 DEF Call, OneLends, PointsThere
  <2>4. Ledger'
    BY <1>1, <2>1 DEF Call, Ledger, Owed
  <2> QED
    BY <2>1, <2>2, <2>3, <2>4
<1>2. CASE TakeBack(r)
  <2>1. TypeInv' /\ pc[r] = "back" /\ ~lent'
    BY <1>2 DEF TakeBack, Place
  <2>2. OneHandles'
    BY <1>2, <2>1 DEF TakeBack, OneHandles, Handling, Apart, Request
  <2>3. \A q \in Request \ crossed' : q # r => ~mine[q]
    BY <1>2, <2>1 DEF TakeBack, Strays, OneLends
  <2>4. OneLends'
    <3>1. \A q \in Request : mine'[q] => pc'[q] \in {"call", "back"}
      BY <1>2, <2>1 DEF TakeBack, OneLends
    <3>2. \A q \in Request : pc'[q] = "back" => mine'[q] \/ q \in Applet
      BY <1>2, <2>1 DEF TakeBack, OneLends
    <3>3. \A q \in crossed' : mine'[q] \/ pc'[q] = "mark"
      BY <1>2, <2>1 DEF TakeBack, OneLends
    <3>4. \A q \in Request \ crossed' : ~mine'[q]
      BY <1>2, <2>1, <2>3 DEF TakeBack
    <3> QED
      BY <3>1, <3>2, <3>3, <3>4 DEF OneLends
  <2>5. PointsThere'
    BY <1>2, <2>1, <2>3 DEF TakeBack, PointsThere
  <2>6. Ledger'
    BY <1>2, <2>1 DEF TakeBack, Ledger, Owed, Apart, Handling
  <2> QED
    BY <2>1, <2>2, <2>4, <2>5, <2>6
<1>3. CASE Restore(r)
  <2>1. TypeInv' /\ pc[r] = "restore" /\ pc'[r] = "idle"
    BY <1>3 DEF Restore, PutBack, Place
  <2>2. OneHandles'
    BY <1>3, <2>1 DEF Restore, OneHandles, Handling, Request
  <2>3. OneLends' /\ PointsThere'
    BY <1>3 DEF Restore, OneLends, PointsThere, OneHandles, Handling
  <2>4. Ledger'
    BY <1>3, <2>1 DEF Restore, PutBack, Ledger, Owed, OneHandles, Handling
  <2> QED
    BY <2>1, <2>2, <2>3, <2>4
<1>4. CASE Die(r)
  <2>1. TypeInv' /\ pc'[r] = "idle"
    BY <1>4 DEF Die, Place
  <2>2. OneHandles'
    BY <1>4, <2>1 DEF Die, OneHandles, Handling, Request
  <2>3. OneLends' /\ PointsThere'
    BY <1>4 DEF Die, OneLends, PointsThere
  <2>4. Ledger'
    BY <1>4, <2>1 DEF Die, Ledger, Owed, Handling
  <2> QED
    BY <2>1, <2>2, <2>3, <2>4
<1> QED
  BY <1>1, <1>2, <1>3, <1>4

\* A title that starts writes within a lend or outside of any, but never to what is owed.
LEMMA ApplyKeeps ==
  ASSUME IInv, account_apply \/ WritePretendo
  PROVE  IInv'
<1> USE DEF IInv, TypeInv, boot, kept
<1>1. CASE account_apply
  BY <1>1 DEF account_apply, OneHandles, OneLends, PointsThere, Ledger, Owed
<1>2. CASE WritePretendo
  <2>1. TypeInv' /\ OneHandles'
    BY <1>2 DEF WritePretendo, OneHandles
  <2>2. OneLends'
    BY <1>2 DEF WritePretendo, OneLends
  <2>3. PointsThere'
    BY <1>2 DEF WritePretendo, PointsThere
  <2>4. Ledger'
    BY <1>2 DEF WritePretendo, Ledger, Owed
  <2> QED
    BY <2>1, <2>2, <2>3, <2>4
<1> QED
  BY <1>1, <1>2

\* Every step keeps the invariant.
LEMMA NextKeeps ==
  ASSUME LendsApart, IInv, [Next]_vars
  PROVE  IInv'
<1>1. CASE \E r \in Request : Step(r)
  BY <1>1, BeginKeeps, LendKeeps, EndKeeps DEF Step
<1>2. CASE account_apply \/ WritePretendo
  BY <1>2, ApplyKeeps
<1>3. CASE UNCHANGED vars
  BY <1>3 DEF vars, boot, kept, IInv, TypeInv, OneHandles, OneLends, PointsThere, Ledger, Owed
<1> QED
  BY <1>1, <1>2, <1>3 DEF Next

\* The invariant holds throughout, for any number of requests.
THEOREM Inductive == ASSUME LendsApart PROVE Spec => []IInv
<1>1. IInv /\ [Next]_vars => IInv'
  BY NextKeeps
<1> QED
  BY InitIInv, <1>1, PTL DEF Spec

\* A request whose lend succeeded is made to the Miiverse's own account server, unless a title's
\* start or a stray take-back reached into the lend.
THEOREM GoesThere == ASSUME LendsApart PROVE Spec => []LentCallGoesThere
<1>1. IInv => LentCallGoesThere
  BY DEF IInv, PointsThere, LentCallGoesThere
<1> QED
  BY Inductive, <1>1, PTL

\* With no request in flight the URL is what it was before any lend, whatever lends were made,
\* refused, failed, undone or taken back by another since and whatever titles started within
\* them, but for a failed write back or a death that owed one.
THEOREM ComesBack == ASSUME LendsApart PROVE Spec => []RestoredAtRest
<1>1. IInv => RestoredAtRest
  BY DEF IInv, TypeInv, OneLends, Ledger, Owed, RestoredAtRest, AllIdle
<1> QED
  BY Inductive, <1>1, PTL
===============================================================================
