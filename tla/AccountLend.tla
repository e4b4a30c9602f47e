----------------------------- MODULE AccountLend -----------------------------
(***************************************************************************)
(* The account server of src/account.cpp: account_apply() at the start of  *)
(* every title, and account_lend() and account_take_back() for the length  *)
(* of one token request, called by route() and route_applet() of           *)
(* src/token.cpp.                                                          *)
(*                                                                         *)
(* Every process runs the same plugin with the same globals, so requests   *)
(* from the Wii U Menu, a game, the HOME Menu and the Miiverse applet      *)
(* share lent and lent_original, and no lock guards either.  Each read and *)
(* write of the account URL is a call to IOSU that takes a while and can   *)
(* fail, a write after it has moved only some of the bytes.                *)
(***************************************************************************)
EXTENDS FiniteSets

CONSTANTS
    Route,          \* requests that go through route(): the menu's, a game's, the HOME Menu's
    Applet,         \* requests that go through route_applet()
    LendsApart      \* TRUE: no request touches the URL while another one is about to

ASSUME RequestAssumption ==
    /\ Route \cap Applet = {}
    /\ LendsApart \in BOOLEAN

Request == Route \cup Applet

\* The account URL: either server's, something else, or part of one over part of another.
\* "pretendo" is its string over the end of Protarium's longer one, "bare" over another's.
Server == {"protarium", "pretendo"}
Url == Server \cup {"other", "bare", "torn"}

VARIABLES
    to,             \* the Miiverse's own account server, on this boot's pairing
    seen,           \* protarium_url was read at plugin initialization
    url,            \* what the address in IOSU holds
    lent,           \* one lend is out
    lent_original,  \* what the last lend read, to be put back; "none" before any
    pc,             \* where each request is
    open,           \* whether its process could open a handle to IOSU
    mine,           \* whether its own account_lend() succeeded
    starting,       \* account_apply() has found reason to write, and not written yet
    \* Kept for the properties:
    before,         \* what was in the URL last with no lend in it
    crossed,        \* the requests whose lend a title's start or a stray take-back reached
    spoiled         \* a write back failed, or a process died before its own

boot == <<to, seen>>
kept == <<before, crossed, spoiled>>
vars == <<boot, url, lent, lent_original, pc, open, mine, starting, kept>>

Place == {"idle", "lend", "read", "write", "undo", "mark", "call", "back", "restore"}

\* The places from which the request reads or writes the URL next.
Handling == {"read", "write", "undo", "mark", "restore"}

Init ==
    /\ to \in Server
    /\ before \in {"protarium", "other"}
    /\ url = before
    /\ seen \in {FALSE, url = "protarium"}
    /\ lent = FALSE
    /\ lent_original = "none"
    /\ pc = [r \in Request |-> "idle"]
    /\ open = [r \in Request |-> FALSE]
    /\ mine = [r \in Request |-> FALSE]
    /\ starting = FALSE
    /\ crossed = {}
    /\ spoiled = FALSE

AllIdle == \A r \in Request : pc[r] = "idle"

Goto(r, place) == pc' = [pc EXCEPT ![r] = place]

\* Another request is handling the URL.
Apart(r) == LendsApart => \A q \in Request \ {r} : pc[q] \notin Handling

-----------------------------------------------------------------------------
Ask(r) ==
    /\ pc[r] = "idle"
    /\ \E o \in BOOLEAN : open' = [open EXCEPT ![r] = o]
    /\ Goto(r, "lend")
    /\ UNCHANGED <<boot, url, lent, lent_original, mine, starting, kept>>

\* account_lend(): a lend already out, or no handle, and nothing moves.
Check(r) ==
    /\ pc[r] = "lend"
    /\ Apart(r)
    /\ Goto(r, IF lent \/ ~open[r] THEN "call" ELSE "read")
    /\ UNCHANGED <<boot, url, lent, lent_original, open, mine, starting, kept>>

\* prepare_lend_to_pretendo() wants Protarium's mark, which a torn string can still have;
\* prepare_lend_to_protarium() wants Pretendo's over the end of it.
Lendable(u) == u \in IF to = "pretendo" THEN {"protarium", "torn"} ELSE {"pretendo"}

\* The read lands in lent_original before it is looked at, and needs protarium_url first to
\* lend that.
Read(r) ==
    /\ pc[r] = "read"
    /\ \/ /\ to = "protarium" => seen
          /\ lent_original' = url
          /\ \/ Lendable(url) /\ Goto(r, "write")
             \/ (Lendable(url) => url = "torn") /\ Goto(r, "call")
       \/ Goto(r, "call") /\ UNCHANGED lent_original
    /\ UNCHANGED <<boot, url, lent, open, mine, starting, kept>>

Write(r) ==
    /\ pc[r] = "write"
    /\ \/ url' = to /\ Goto(r, "mark")
       \/ url' \in {url, "torn"} /\ Goto(r, "undo")
    /\ UNCHANGED <<boot, lent, lent_original, open, mine, starting, kept>>

\* Putting lent_original back, which can fail as well.
PutBack ==
    \/ url' = lent_original /\ UNCHANGED spoiled
    \/ url' \in {url, "torn"} /\ spoiled' = TRUE

Undo(r) ==
    /\ pc[r] = "undo"
    /\ PutBack
    /\ Goto(r, "call")
    /\ UNCHANGED <<boot, lent, lent_original, open, mine, starting, before, crossed>>

Mark(r) ==
    /\ pc[r] = "mark"
    /\ lent' = TRUE
    /\ mine' = [mine EXCEPT ![r] = TRUE]
    /\ Goto(r, "call")
    /\ UNCHANGED <<boot, url, lent_original, open, starting, kept>>

\* The slip of a route() that takes back without having lent.
CallAndTakeBack(r) ==
    /\ pc[r] = "call"
    /\ Goto(r, "back")
    /\ UNCHANGED <<boot, url, lent, lent_original, open, mine, starting, kept>>

\* The real call.  Only route() remembers whether it has anything to take back.
Call(r) ==
    /\ pc[r] = "call"
    /\ Goto(r, IF mine[r] \/ r \in Applet THEN "back" ELSE "idle")
    /\ UNCHANGED <<boot, url, lent, lent_original, open, mine, starting, kept>>

\* A take-back of what is out, whoever lent it: the applet's whose own lend was refused, or
\* that of a request whose lend is back already.
Strays(r) == lent /\ ((r \in Applet /\ ~mine[r]) \/ r \in crossed)

\* The slip of a take-back that clears lent and puts nothing back.
ForgetTakeBack(r) ==
    /\ pc[r] = "back"
    /\ lent' = FALSE
    /\ mine' = [mine EXCEPT ![r] = FALSE]
    /\ Goto(r, "idle")
    /\ UNCHANGED <<boot, url, lent_original, open, starting, kept>>

\* account_take_back(), which does not ask who lent.
TakeBack(r) ==
    /\ pc[r] = "back"
    /\ Apart(r)
    /\ lent' = FALSE
    /\ mine' = [mine EXCEPT ![r] = FALSE]
    /\ crossed' = (crossed \cup {q \in Request : Strays(r) /\ mine[q]}) \ {r}
    /\ Goto(r, IF lent THEN "restore" ELSE "idle")
    /\ UNCHANGED <<boot, url, lent_original, open, starting, before, spoiled>>

Restore(r) ==
    /\ pc[r] = "restore"
    /\ PutBack
    /\ Goto(r, "idle")
    /\ UNCHANGED <<boot, lent, lent_original, open, mine, starting, before, crossed>>

\* The process closes in the middle of a request, and takes its thread with it.
Die(r) ==
    /\ pc[r] # "idle"
    /\ spoiled' = (spoiled \/ (lent /\ mine[r]) \/ pc[r] \in Handling)
    /\ mine' = [mine EXCEPT ![r] = FALSE]
    /\ crossed' = crossed \ {r}
    /\ Goto(r, "idle")
    /\ UNCHANGED <<boot, url, lent, lent_original, open, starting, before>>

-----------------------------------------------------------------------------
(***************************************************************************)
(* account_apply(), in a title that starts while the requests of other     *)
(* processes go on.  It is passed the account server selected by then,     *)
(* which need not be the one of this boot's pairing.                       *)
(***************************************************************************)
\* Pretendo is selected and its string is not there, and nothing refuses.
account_apply ==
    /\ ~starting
    /\ url \notin {"pretendo", "bare"}
    /\ starting' = TRUE
    /\ UNCHANGED <<boot, url, lent, lent_original, pc, open, mine, kept>>

\* What a write of Pretendo's string over u leaves, which may fail anywhere; over a URL of
\* somebody else's there may be no room.
Overwritten(u) ==
    CASE u = "protarium" -> {"protarium", "torn", "pretendo"}
      [] u = "torn" -> {"torn", "pretendo"}
      [] u = "other" -> {"other", "bare"}
      [] OTHER -> {u}

\* A request has yet to put back what it read.
Owed == lent \/ \E r \in Request : pc[r] \in {"write", "undo", "mark", "restore"}

WritePretendo ==
    /\ starting
    /\ starting' = FALSE
    /\ url' \in Overwritten(url)
    /\ before' = IF Owed THEN before ELSE url'
    /\ crossed' = IF url' = url THEN crossed
                  ELSE crossed \cup {r \in Request : mine[r] \/ pc[r] = "mark"}
    /\ UNCHANGED <<boot, lent, lent_original, pc, open, mine, spoiled>>

Step(r) ==
    \/ Ask(r) \/ Check(r) \/ Read(r) \/ Write(r) \/ Undo(r) \/ Mark(r)
    \/ Call(r) \/ TakeBack(r) \/ Restore(r) \/ Die(r)

Next == account_apply \/ WritePretendo \/ \E r \in Request : Step(r)

Spec == Init /\ [][Next]_vars

-----------------------------------------------------------------------------
\* A request whose lend succeeded is made while the URL names the Miiverse's own server,
\* whatever the other requests do meanwhile, but for the two ways the code has of reaching
\* into somebody else's lend: a title's start, and a take-back of what another has lent.
LentCallGoesThere ==
    \A r \in Request \ crossed : mine[r] /\ pc[r] = "call" => url = to

\* With no request in flight the URL is what it was before any lend, stray take-backs and titles
\* that start within a lend included, unless a write back failed or a process died owing one:
\* "then put back exactly what was there".
RestoredAtRest == AllIdle /\ ~spoiled => url = before /\ ~lent
==============================================================================
