------------------------------- MODULE OlvShare -------------------------------
(***************************************************************************)
(* A share to Miiverse from the YouTube app: src/olv_share.cpp.            *)
(*                                                                         *)
(* The page's requests reach olv_share_start() on the proxy's workers, one *)
(* at a time: share_body() holds a lock around the call.  A request that   *)
(* gets through starts the share thread, which loads the library, checks   *)
(* where it points and asks for the post screen; the console's own screen  *)
(* takes the foreground, and the hook that gets it back reads what came of *)
(* the post.  The thread and the hook take no lock: state is the only      *)
(* thing the three exchange atomically.                                    *)
(***************************************************************************)
EXTENDS Naturals

CONSTANTS
    Caller,         \* the proxy's workers that the page's requests reach
    Hosts,          \* the Miiverses a share can go to
    ThreadFirst     \* TRUE: the share thread has stored Launched by the time the
                    \* post screen is up

ASSUME ShareAssumption ==
    /\ ThreadFirst \in BOOLEAN
    /\ Caller \cap {"thread", "hook"} = {}

Actor == Caller \cup {"thread", "hook"}

VARIABLES
    state,          \* Idle, Running, Launched or Done
    failed,         \* failed_ms is set, and not yet FAILED_HOLD_MS ago
    gap,            \* finished_once, and finished_ms not yet GAP_MS ago
    unusable,       \* a share found the library pointing anywhere else
    pc,             \* where each actor is
    selected,       \* Config::miiverse
    library,        \* which Miiverse nn_olv names, in this process
    community,      \* whose community the share was built for
    screen,         \* the post screen: none, asked for, or open over the app
    \* Kept for the properties:
    last,           \* how the last share ended: short of the screen or through it
    closed,         \* a post screen closed less than a minute ago, and its result was still to
                    \* be read or had been read already
    moved           \* the setting changed between the share's body and its look at the library

miiverses == <<selected, library>>
kept == <<last, closed, moved>>
share_vars == <<state, failed, gap, unusable, pc, miiverses, community, screen, kept>>

ShareState == {"Idle", "Running", "Launched", "Done"}
CallerPlace == {"none", "gap", "thread", "build", "spawn"}
ThreadPlace == {"acquire", "hosts", "set_up", "upload", "launch", "return"}
HookPlace == {"result", "finish", "done", "clear"}
FinishPlace == {"f_stamp", "f_done"}
Place == CallerPlace \cup ThreadPlace \cup HookPlace \cup FinishPlace

\* The library may not be listed, name Nintendo's host, or more than one.
Library == Hosts \cup {"unlisted", "elsewhere"}

Goto(a, place) == pc' = [pc EXCEPT ![a] = place]

ShareInit ==
    /\ state = "Idle"
    /\ failed = FALSE
    /\ gap = FALSE
    /\ unusable = FALSE
    /\ pc = [a \in Actor |-> "none"]
    /\ selected \in Hosts
    /\ library \in Library
    /\ community = selected
    /\ screen = "none"
    /\ last = "none"
    /\ closed = "none"
    /\ moved = FALSE

-----------------------------------------------------------------------------
(***************************************************************************)
(* finish(): failed_ms, then the state.                                    *)
(***************************************************************************)
Stamp(a) ==
    /\ pc[a] = "f_stamp"
    /\ failed' = TRUE
    /\ last' = "short"
    /\ Goto(a, "f_done")
    /\ UNCHANGED <<state, gap, unusable, miiverses, community, screen, closed, moved>>

StoreDone(a) ==
    /\ pc[a] = "f_done"
    /\ state' = "Done"
    /\ Goto(a, IF a = "thread" THEN "return" ELSE "none")
    /\ UNCHANGED <<failed, gap, unusable, miiverses, community, screen, kept>>

Finish(a) == Stamp(a) \/ StoreDone(a)

-----------------------------------------------------------------------------
(***************************************************************************)
(* olv_share_start(), inside share_body()'s lock.  No request reaches it   *)
(* while the post screen is over the app.                                  *)
(***************************************************************************)
Start(w) ==
    /\ \A v \in Caller : pc[v] = "none"
    /\ ~unusable
    /\ screen # "open"
    /\ state \in {"Idle", "Done"}
    /\ state' = "Running"
    /\ Goto(w, "gap")
    /\ UNCHANGED <<failed, gap, unusable, miiverses, community, screen, kept>>

\* The request is turned down after all: the state goes back, and nothing failed.
TurnDown(w) == state' = "Done" /\ Goto(w, "none")
GoOn(w, place) == UNCHANGED state /\ Goto(w, place)

\* The slip of turning a request down without giving the state back.
LeaveRunning(w) ==
    /\ pc[w] = "gap"
    /\ IF gap THEN GoOn(w, "none") ELSE GoOn(w, "thread")
    /\ UNCHANGED <<failed, gap, unusable, miiverses, community, screen, kept>>

CheckGap(w) ==
    /\ pc[w] = "gap"
    /\ IF gap THEN TurnDown(w) ELSE GoOn(w, "thread")
    /\ UNCHANGED <<failed, gap, unusable, miiverses, community, screen, kept>>

\* The slip of taking Done for the thread's end.
TrustDone(w) ==
    /\ pc[w] = "thread"
    /\ GoOn(w, "build")
    /\ UNCHANGED <<failed, gap, unusable, miiverses, community, screen, kept>>

CheckThread(w) ==
    /\ pc[w] = "thread"
    /\ IF pc["thread"] # "none" THEN TurnDown(w) ELSE GoOn(w, "build")
    /\ UNCHANGED <<failed, gap, unusable, miiverses, community, screen, kept>>

BuildBody(w) ==
    /\ pc[w] = "build"
    /\ failed' = FALSE
    /\ community' = selected
    /\ moved' = FALSE
    /\ TurnDown(w) \/ GoOn(w, "spawn")
    /\ UNCHANGED <<gap, unusable, miiverses, screen, last, closed>>

StartThread(w) ==
    /\ pc[w] = "spawn"
    /\ \/ pc' = [pc EXCEPT ![w] = "none", !["thread"] = "acquire"]
       \/ Goto(w, "f_stamp")
    /\ UNCHANGED <<state, failed, gap, unusable, miiverses, community, screen, kept>>

OlvShareStart(w) ==
    Start(w) \/ CheckGap(w) \/ CheckThread(w) \/ BuildBody(w) \/ StartThread(w) \/ Finish(w)

-----------------------------------------------------------------------------
(***************************************************************************)
(* run() and post(): the share thread.                                     *)
(***************************************************************************)
ThreadUnchanged == UNCHANGED <<state, failed, gap, miiverses, community, kept>>

Acquire ==
    /\ pc["thread"] = "acquire"
    /\ Goto("thread", "hosts") \/ Goto("thread", "f_stamp")
    /\ ThreadUnchanged /\ UNCHANGED <<unusable, screen>>

\* olv_scan_hosts() and refuse_library().
CheckHosts ==
    /\ pc["thread"] = "hosts"
    /\ IF library = selected THEN Goto("thread", "set_up") ELSE Goto("thread", "f_stamp")
    /\ unusable' = (unusable \/ library \notin {selected, "unlisted"})
    /\ ThreadUnchanged /\ UNCHANGED screen

\* The exports, the services, the access key and Initialize.
SetUp ==
    /\ pc["thread"] = "set_up"
    /\ Goto("thread", "upload") \/ Goto("thread", "f_stamp")
    /\ ThreadUnchanged /\ UNCHANGED <<unusable, screen>>

Upload ==
    /\ pc["thread"] = "upload"
    /\ \/ screen' = "asked" /\ Goto("thread", "launch")
       \/ UNCHANGED screen /\ Goto("thread", "f_stamp")
    /\ ThreadUnchanged /\ UNCHANGED unusable

StoreLaunched ==
    /\ pc["thread"] = "launch"
    /\ state' = "Launched"
    /\ Goto("thread", "return")
    /\ UNCHANGED <<failed, gap, unusable, miiverses, community, screen, kept>>

Return ==
    /\ pc["thread"] = "return"
    /\ Goto("thread", "none")
    /\ ThreadUnchanged /\ UNCHANGED <<unusable, screen>>

Thread ==
    Acquire \/ CheckHosts \/ SetUp \/ Upload \/ StoreLaunched \/ Return \/ Finish("thread")

-----------------------------------------------------------------------------
(***************************************************************************)
(* olv_share_foreground(), which the post screen's end is not alone in     *)
(* calling: so does the HOME Menu's.                                       *)
(***************************************************************************)
Foreground ==
    /\ pc["hook"] = "none"
    /\ state' = IF state = "Launched" THEN "Running" ELSE state
    /\ Goto("hook", IF state = "Launched" THEN "result" ELSE "none")
    /\ UNCHANGED <<failed, gap, unusable, miiverses, community, last, moved>>

HomeMenu == screen # "open" /\ Foreground /\ UNCHANGED <<screen, closed>>

ScreenCloses ==
    /\ screen = "open"
    /\ Foreground
    /\ screen' = "none"
    /\ closed' = IF state = "Launched" THEN "result due" ELSE "result read"

ScreenOpens ==
    /\ screen = "asked"
    /\ ThreadFirst => pc["thread"] # "launch"
    /\ screen' = "open"
    /\ UNCHANGED <<state, failed, gap, unusable, pc, miiverses, community, kept>>

\* The slip of starting the gap only for a post that went through.
GapIfPosted ==
    /\ pc["hook"] = "result"
    /\ gap' \in {TRUE, gap}
    /\ last' = "screen"
    /\ Goto("hook", "finish")
    /\ UNCHANGED <<state, failed, unusable, miiverses, community, screen, closed, moved>>

\* finish_after_screen(), which finishes the way a failure does and then clears the stamp.
ReadResult ==
    /\ pc["hook"] = "result"
    /\ gap' = TRUE
    /\ last' = "screen"
    /\ Goto("hook", "finish")
    /\ UNCHANGED <<state, failed, unusable, miiverses, community, screen, closed, moved>>

StampResult ==
    /\ pc["hook"] = "finish"
    /\ failed' = TRUE
    /\ Goto("hook", "done")
    /\ UNCHANGED <<state, gap, unusable, miiverses, community, screen, kept>>

StoreResultDone ==
    /\ pc["hook"] = "done"
    /\ state' = "Done"
    /\ Goto("hook", "clear")
    /\ UNCHANGED <<failed, gap, unusable, miiverses, community, screen, kept>>

ClearStamp ==
    /\ pc["hook"] = "clear"
    /\ failed' = FALSE
    /\ Goto("hook", "none")
    /\ UNCHANGED <<state, gap, unusable, miiverses, community, screen, kept>>

Hook == ReadResult \/ StampResult \/ StoreResultDone \/ ClearStamp

-----------------------------------------------------------------------------
(***************************************************************************)
(* Time, the config menu and the next process.  A request is answered, and *)
(* a post screen that was asked for comes up, well within a minute.        *)
(***************************************************************************)
HoldEnds ==
    /\ failed
    /\ failed' = FALSE
    /\ UNCHANGED <<state, gap, unusable, pc, miiverses, community, screen, kept>>

\* The code's minute, from the reading of the result: no sooner than the one from the screen's
\* close, where the close is what had it read.
GapEnds ==
    /\ gap
    /\ screen # "asked"
    /\ closed # "result due"
    /\ \A a \in Caller \cup {"hook"} : pc[a] = "none"
    /\ gap' = FALSE
    /\ UNCHANGED <<state, failed, unusable, pc, miiverses, community, screen, kept>>

MinutePasses ==
    /\ closed # "none"
    /\ closed' = "none"
    /\ UNCHANGED <<state, failed, gap, unusable, pc, miiverses, community, screen, last, moved>>

\* The config menu, at any moment.
SelectMiiverse ==
    /\ selected' \in Hosts \ {selected}
    /\ moved' = (moved \/ pc["thread"] \in {"acquire", "hosts"}
                       \/ \E w \in Caller : pc[w] = "spawn")
    /\ UNCHANGED <<state, failed, gap, unusable, pc, library, community, screen, last, closed>>

\* The process ends with whatever was under way, and olv_share_reset() runs in the next.
NextProcess ==
    /\ state' = "Idle"
    /\ failed' = FALSE
    /\ gap' = FALSE
    /\ unusable' = FALSE
    /\ pc' = [a \in Actor |-> "none"]
    /\ library' \in Library
    /\ screen' = "none"
    /\ last' = "none"
    /\ closed' = "none"
    /\ moved' = FALSE
    /\ UNCHANGED <<selected, community>>

ShareNext ==
    \/ \E w \in Caller : OlvShareStart(w)
    \/ Thread
    \/ Hook
    \/ HomeMenu \/ ScreenOpens \/ ScreenCloses
    \/ HoldEnds \/ GapEnds \/ MinutePasses \/ SelectMiiverse \/ NextProcess

ShareSpec == ShareInit /\ [][ShareNext]_share_vars

\* The threads are scheduled, and a post screen that was asked for comes up.
ShareFairSpec ==
    /\ ShareSpec
    /\ \A w \in Caller : WF_share_vars(OlvShareStart(w) /\ pc[w] # "none")
    /\ WF_share_vars(Thread)
    /\ WF_share_vars(Hook)
    /\ WF_share_vars(ScreenOpens)

-----------------------------------------------------------------------------
\* A post screen is asked for.
Asks == pc["thread"] = "upload" /\ pc'["thread"] = "launch"

\* One OSThread and one stack: a share thread starts only when the last is gone.
OneThread == [][pc'["thread"] = "acquire" => pc["thread"] \in {"none", "acquire"}]_share_vars

\* In one process a post screen is never asked for while another is asked for or open, nor
\* within a minute of another's close, whoever asks: "or within a minute of the last one".  Not
\* where a hook of the HOME Menu had read the result before the screen closed, since the
\* code's minute is over then with the screen still up.
OneScreenAMinute == [][Asks => screen = "none" /\ closed # "result due"]_share_vars

\* The failure of a share is told until its time is up or the next share is built: the hook, which
\* gives the state back before it clears the stamp of a share that was no failure, never clears
\* the stamp of one that failed since.
FailureKept ==
    [][failed /\ ~failed' /\ last = "short" =>
       HoldEnds \/ NextProcess \/ \E w \in Caller : BuildBody(w)]_share_vars

\* What is posted goes to the Miiverse whose community the post was built for, unless the menu
\* changed the setting just between the two reads of it.
PostsWhereBuilt == [][Asks => library = community \/ moved]_share_vars

\* Every share that starts comes to rest: at an end, or with a screen the user can close.
Settles == state \in {"Running", "Launched"} ~> (state \in {"Idle", "Done"} \/ screen = "open")
==============================================================================
