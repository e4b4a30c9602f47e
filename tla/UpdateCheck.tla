----------------------------- MODULE UpdateCheck -----------------------------
(***************************************************************************)
(* The update check of src/update.cpp: one look at GitHub per boot, on a   *)
(* thread that belongs to the Wii U Menu's process and is joined before    *)
(* that process goes.                                                      *)
(*                                                                         *)
(* Two actors: the menu's thread, which runs the hooks of src/main.cpp and *)
(* the config menu, and the check's.  They share the state and the run     *)
(* number; everything else the check finds is written before its state     *)
(* says so.                                                                *)
(***************************************************************************)
EXTENDS Naturals, ReleaseList

CONSTANTS
    LOOKUP_TRIES,   \* requests made while the console has no network yet
    Runs            \* run numbers before they come round again

ASSUME CheckAssumption ==
    /\ LOOKUP_TRIES \in Nat \ {0}
    /\ Runs \in Nat \ {0, 1}

VARIABLES
    state,          \* how far the check got
    enabled,        \* the setting
    started,        \* a check is under way or over, in this boot
    run,            \* which start the running check belongs to
    stop,           \* checker.stop
    found,          \* the highest version there is on the running line, if any
    release,        \* what the newer one lists, for the installer
    right,          \* both are what was published
    posted,         \* the toast was queued
    thread,         \* where the check's thread is
    mine,           \* the run it was started for
    tries,          \* how many requests it has made
    result,         \* what check() answered
    hook,           \* where the menu's thread is
    process         \* whose process is running

check_vars ==
    <<state, enabled, started, run, stop, found, release, right, posted, thread, mine, tries,
      result, hook, process>>

Answer == {"UP_TO_DATE", "NEWER", "NO_VERSION", "FAILED", "UNREADABLE"}
State == {"NOT_RUN", "OFF", "CHECKING", "WRITING", "NO_THREAD", "INTERRUPTED"} \cup Answer
ThreadPlace == {"none", "wait", "look", "gap", "finish", "claim", "store"}

CheckInit ==
    /\ enabled \in BOOLEAN
    /\ state = IF enabled THEN "NOT_RUN" ELSE "OFF"
    /\ started = FALSE
    /\ run = 0
    /\ stop = FALSE
    /\ found = NoVersion
    /\ release = NoRelease
    /\ right = TRUE
    /\ posted = FALSE
    /\ thread = "none"
    /\ mine = 0
    /\ tries = 0
    /\ result = "FAILED"
    /\ hook = "idle"
    /\ process = "menu"

-----------------------------------------------------------------------------
(***************************************************************************)
(* check_thread().                                                         *)
(***************************************************************************)
ThreadUnchanged ==
    UNCHANGED <<enabled, started, run, stop, posted, mine, hook, process>>

\* update_wait(): through the rest of boot, or until the menu goes.
Wait ==
    /\ thread = "wait"
    /\ thread' = IF stop THEN "none" ELSE "look"
    /\ UNCHANGED <<state, found, release, right, tries, result>> /\ ThreadUnchanged

\* One request and classify(), which fills in the fields as it goes.
Look ==
    /\ thread = "look"
    /\ tries' = tries + 1
    /\ \/ result' = "FAILED" /\ UNCHANGED <<found, release, right>> /\ thread' = "finish"
       \/ /\ tries' < LOOKUP_TRIES
          /\ ~stop
          /\ result' = "FAILED" /\ UNCHANGED <<found, release, right>> /\ thread' = "gap"
       \/ \E read \in Classified :
            /\ result' = read.answer.result
            /\ found' = read.answer.found
            /\ release' = IF read.answer.result = "NEWER" THEN read.answer.release ELSE release
            /\ right' = read.right
            /\ thread' = "finish"
    /\ UNCHANGED state /\ ThreadUnchanged

\* The name didn't resolve: wait, and try again.
LookAgain ==
    /\ thread = "gap"
    /\ thread' = IF stop THEN "finish" ELSE "look"
    /\ UNCHANGED <<state, found, release, right, tries, result>> /\ ThreadUnchanged

\* finish(): this run's answer, and only over its own CHECKING.
LoadRun ==
    /\ thread = "finish"
    /\ thread' = IF run = mine THEN "claim" ELSE "none"
    /\ UNCHANGED <<state, found, release, right, tries, result>> /\ ThreadUnchanged

ClaimAnswer ==
    /\ thread = "claim"
    /\ IF state = "CHECKING" THEN state' = "WRITING" /\ thread' = "store"
                             ELSE UNCHANGED state /\ thread' = "none"
    /\ UNCHANGED <<found, release, right, tries, result>> /\ ThreadUnchanged

StoreAnswer ==
    /\ thread = "store"
    /\ state' = result
    /\ thread' = "none"
    /\ UNCHANGED <<found, release, right, tries, result>> /\ ThreadUnchanged

Thread == Wait \/ Look \/ LookAgain \/ LoadRun \/ ClaimAnswer \/ StoreAnswer

-----------------------------------------------------------------------------
(***************************************************************************)
(* The hooks and the setting.                                              *)
(***************************************************************************)
CheckUnchanged == UNCHANGED <<found, release, right, mine, tries, result>>

\* update_start(), which a plugin whose own version can't be read answers at once.
UpdateStart ==
    /\ hook = "idle"
    /\ process = "menu"
    /\ enabled
    /\ ~started
    /\ started' = TRUE
    /\ \/ /\ state' = "NO_VERSION"
          /\ UNCHANGED <<run, hook>>
       \/ /\ run' = (run + 1) % Runs
          /\ state' = "CHECKING"
          /\ hook' = "spawn"
    /\ UNCHANGED <<enabled, stop, posted, thread, process>> /\ CheckUnchanged

\* The slip of handing the thread the number before its own: fetch_add() answers the old one.
SpawnForLastRun ==
    /\ hook = "spawn"
    /\ thread = "none"
    /\ stop' = FALSE
    /\ thread' = "wait" /\ mine' = (run + Runs - 1) % Runs /\ tries' = 0
    /\ hook' = "idle"
    /\ UNCHANGED <<state, enabled, started, run, found, release, right, posted, result, process>>

\* update_spawn(), after its join.
Spawn ==
    /\ hook = "spawn"
    /\ thread = "none"
    /\ stop' = FALSE
    /\ \/ thread' = "wait" /\ mine' = run /\ tries' = 0 /\ UNCHANGED <<state, started>>
       \/ state' = "NO_THREAD" /\ started' = FALSE /\ UNCHANGED <<thread, mine, tries>>
    /\ hook' = "idle"
    /\ UNCHANGED <<enabled, run, found, release, right, posted, result, process>>

\* update_post(), from every hook in every process.
UpdatePost ==
    /\ hook = "idle"
    /\ state = "NEWER"
    /\ ~posted
    /\ posted' = TRUE
    /\ UNCHANGED <<state, enabled, started, run, stop, thread, hook, process>>
    /\ CheckUnchanged

\* update_app_ends() up to its join.  With no thread to hear it the stop means nothing.
Interrupt(again, now) ==
    /\ hook = "idle"
    /\ process = "menu"
    /\ state' = now
    /\ started' = again
    /\ stop' = TRUE
    /\ hook' = "join"
    /\ UNCHANGED <<enabled, run, posted, thread, process>> /\ CheckUnchanged

\* The slip of an interruption that leaves the check marked as started.
AppEndsForGood == Interrupt(started, IF state = "CHECKING" THEN "INTERRUPTED" ELSE state)

\* The slip of interrupting whatever is there.
AppEndsOverAnything == Interrupt(FALSE, "INTERRUPTED")

AppEnds ==
    IF state = "CHECKING" THEN Interrupt(FALSE, "INTERRUPTED") ELSE Interrupt(started, state)

EndProcess ==
    /\ hook = "join"
    /\ thread = "none"
    /\ process' = "other"
    /\ hook' = "idle"
    /\ UNCHANGED <<state, enabled, started, run, stop, posted, thread>> /\ CheckUnchanged

BackToMenu ==
    /\ hook = "idle"
    /\ process = "other"
    /\ process' = "menu"
    /\ UNCHANGED <<state, enabled, started, run, stop, posted, thread, hook>> /\ CheckUnchanged

\* update_set_enabled(), from the config menu.
SetEnabled(on) ==
    /\ hook = "idle"
    /\ enabled' = on
    /\ state' = IF on /\ state = "OFF" THEN "NOT_RUN"
                ELSE IF ~on /\ state = "NOT_RUN" THEN "OFF" ELSE state
    /\ UNCHANGED <<started, run, stop, posted, thread, hook, process>> /\ CheckUnchanged

CheckNext ==
    \/ Thread
    \/ UpdateStart \/ Spawn \/ UpdatePost
    \/ AppEnds \/ EndProcess \/ BackToMenu
    \/ \E on \in BOOLEAN : SetEnabled(on)

CheckSpec == CheckInit /\ [][CheckNext]_check_vars

\* The two threads are scheduled, the user comes back to the Wii U Menu, and a menu that
\* keeps being entered runs its hooks before it goes.
CheckFairSpec ==
    /\ CheckSpec
    /\ WF_check_vars(Thread)
    /\ WF_check_vars(Spawn \/ EndProcess)
    /\ WF_check_vars(BackToMenu)
    /\ SF_check_vars(UpdateStart)

-----------------------------------------------------------------------------
Answered == state \in Answer

\* Wherever the answer was cut, what the installer is offered is a whole release that was
\* published, newer than the plugin and on its line: a body cut off "might have had one past the
\* cut, so the release isn't offered at all".  Nor is it the next best where the highest has to
\* be installed by hand.
OfferedIsPublished == Answered => right

\* An answer stands for the rest of the boot, with the release the installer and the toast
\* read out of it: no later check, stale thread, hook or setting changes either.
AnswerStands == [][Answered => UNCHANGED <<state, found, release>>]_check_vars

\* "A check it cut short runs again in the next menu", and never over what was answered.
InterruptedRunsAgain == state = "INTERRUPTED" ~> (state # "INTERRUPTED" \/ ~enabled)

\* A check that isn't interrupted gets its answer.
CheckEnds == state = "CHECKING" ~> state # "CHECKING"
==============================================================================
