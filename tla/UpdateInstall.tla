---------------------------- MODULE UpdateInstall ----------------------------
(***************************************************************************)
(* The update installer, src/update_install.cpp, with the UpdateThread     *)
(* helper of src/update.cpp and the lifecycle hooks of src/main.cpp that   *)
(* drive it.                                                               *)
(*                                                                         *)
(* Two actors run at once.  "thread" is the install's own thread: it       *)
(* fetches the checksum and the plugin, checks the download and makes the  *)
(* two renames on the SD card.  "menu" is the thread of whichever process  *)
(* is running that calls this plugin's hooks and the config menu's close   *)
(* callback; it is one thread, so its hooks never overlap each other.      *)
(* Both run relaunch_if_ready() and update_install_post(), one atomic      *)
(* access to a shared variable at a time.                                  *)
(*                                                                         *)
(* Steps of one actor that touch nothing the other can see are merged, and *)
(* so are the consecutive stores of update_install_begin() before the      *)
(* state: the thread reads those flags in the reverse order, so no reading *)
(* between two of them tells it anything one before or after would not.    *)
(***************************************************************************)
EXTENDS Naturals

VARIABLES
    slow_menu,          \* nobody here opens the config menu, chooses and backs out of it
                        \* within the last few instructions of an install thread
    state,              \* State: how far the last install got
    menu_foreground,    \* the hooks' word for the Wii U Menu being in front
    relaunch_wanted,    \* a relaunch is owed
    relaunch_claimed,   \* one actor has taken the relaunch
    end_posted,         \* the toast that ends the install was queued
    stop,               \* installer.stop
    pc,                 \* where each actor is
    result,             \* the thread's local result
    got,                \* what the download turned out to hold, before it is on the card
    card,               \* what is in each of the three files
    running,            \* the plugin the console booted with
    renamed,            \* whether that plugin was loaded from another file name
    process,            \* whose process is running
    asked,              \* OSForceFullRelaunch and SYSLaunchMenu were called
    told,               \* end toasts queued since the install began
    calls               \* relaunches made by relaunch_if_ready since it began

flags == <<menu_foreground, relaunch_wanted, relaunch_claimed, end_posted, stop>>
files == <<card, got>>
world == <<running, renamed, process, asked>>
counts == <<told, calls>>
vars == <<slow_menu, state, flags, pc, result, files, world, counts>>

-----------------------------------------------------------------------------
Actor == {"thread", "menu"}

Installed == "wps"
Part == "part"
Backup == "bkup"
File == {Installed, Part, Backup}

\* "cut" is a file not yet written out, "wrong" a whole file that isn't the release.
Content == {"none", "old", "new", "cut", "wrong"}
Plugin == {"old", "new"}

DownloadFailure == {"PLUGIN_FETCH", "TOO_BIG", "NOT_PLUGIN", "WRITE_FAILED"}
ChecksumFailure == {"CHECKSUM_FETCH", "CHECKSUM_UNREADABLE"}
Failure == DownloadFailure \cup ChecksumFailure \cup
           {"NO_THREAD", "INTERRUPTED", "NOT_INSTALLED_HERE", "MISMATCH",
            "SWAP_FAILED", "RESTORE_FAILED"}
InProgress == {"DOWNLOADING", "SWAPPING", "RELAUNCH_WAITING", "RELAUNCHING"}
State == {"IDLE", "RESTART_NEEDED"} \cup InProgress \cup Failure

\* install(), in the order it goes.
Fetching == {"stat", "checksum", "open", "receive", "close", "verify", "claim"}
Swapping == {"drop", "aside", "replace", "putback"}
Ending == {"owe", "store"}
\* relaunch_if_ready() and update_install_post().
Relaunching == {"r_wanted", "r_front", "r_state", "r_claim", "r_mark", "r_call"}
Posting == {"p_posted", "p_state", "p_claim"}
Tail == Relaunching \cup {"tell"} \cup Posting
Beginning == {"b_state", "b_stop", "b_join"}
AppEnding == {"e_stop", "e_join"}
Place == {"none", "idle"} \cup Fetching \cup Swapping \cup Ending \cup Tail
         \cup Beginning \cup AppEnding

Goto(a, place) == pc' = [pc EXCEPT ![a] = place]

Failed(now) == now \in Failure

\* Where the two actors are when nothing is under way.
AtRest == [a \in Actor |-> IF a = "thread" THEN "none" ELSE "idle"]

-----------------------------------------------------------------------------
Init ==
    /\ slow_menu \in BOOLEAN
    /\ state = "IDLE"
    /\ menu_foreground = FALSE
    /\ relaunch_wanted = FALSE
    /\ relaunch_claimed = FALSE
    /\ end_posted = FALSE
    /\ stop = FALSE
    /\ pc = AtRest
    /\ result = "IDLE"
    /\ got = "none"
    /\ renamed \in BOOLEAN
    /\ card = [f \in File |-> IF f = Installed /\ ~renamed THEN "old" ELSE "none"]
    /\ running = "old"
    /\ process = "menu"
    /\ asked = FALSE
    /\ told = 0
    /\ calls = 0

-----------------------------------------------------------------------------
(***************************************************************************)
(* relaunch_if_ready(), which the thread runs when its install is over and *)
(* the menu's hook when it gets the foreground back.  Whose process this   *)
(* is needs no step: the thread lives in the Wii U Menu's, and the hook    *)
(* has asked already.                                                      *)
(***************************************************************************)
AfterRelaunch(a) == IF a = "thread" THEN "tell" ELSE "p_posted"

Ready == state = "RELAUNCH_WAITING" \/ (Failed(state) /\ state # "INTERRUPTED")

LoadWanted(a) ==
    /\ pc[a] = "r_wanted"
    /\ Goto(a, IF relaunch_wanted THEN "r_front" ELSE AfterRelaunch(a))
    /\ UNCHANGED <<state, flags, result, files, world, counts>>

LoadForeground(a) ==
    /\ pc[a] = "r_front"
    /\ Goto(a, IF menu_foreground THEN "r_state" ELSE AfterRelaunch(a))
    /\ UNCHANGED <<state, flags, result, files, world, counts>>

LoadState(a) ==
    /\ pc[a] = "r_state"
    /\ Goto(a, IF Ready THEN "r_claim" ELSE AfterRelaunch(a))
    /\ UNCHANGED <<state, flags, result, files, world, counts>>

\* The slip of a claim that is stored but not looked at.
ClaimAlways(a) ==
    /\ pc[a] = "r_claim"
    /\ relaunch_claimed' = TRUE
    /\ Goto(a, "r_mark")
    /\ UNCHANGED <<state, menu_foreground, relaunch_wanted, end_posted, stop,
                   result, files, world, counts>>

Claim(a) ==
    /\ pc[a] = "r_claim"
    /\ relaunch_claimed' = TRUE
    /\ Goto(a, IF relaunch_claimed THEN AfterRelaunch(a) ELSE "r_mark")
    /\ UNCHANGED <<state, menu_foreground, relaunch_wanted, end_posted, stop,
                   result, files, world, counts>>

MarkRelaunching(a) ==
    /\ pc[a] = "r_mark"
    /\ state' = IF state = "RELAUNCH_WAITING" THEN "RELAUNCHING" ELSE state
    /\ Goto(a, "r_call")
    /\ UNCHANGED <<flags, result, files, world, counts>>

Relaunch(a) ==
    /\ pc[a] = "r_call"
    /\ asked' = TRUE
    /\ calls' = calls + 1
    /\ Goto(a, AfterRelaunch(a))
    /\ UNCHANGED <<state, flags, result, files, running, renamed, process, told>>

RelaunchIfReady(a) ==
    LoadWanted(a) \/ LoadForeground(a) \/ LoadState(a) \/ Claim(a)
    \/ MarkRelaunching(a) \/ Relaunch(a)

-----------------------------------------------------------------------------
(***************************************************************************)
(* update_install_post(): the toast that ends an install.                  *)
(***************************************************************************)
AfterPost(a) == IF a = "thread" THEN "none" ELSE "idle"

LoadPosted(a) ==
    /\ pc[a] = "p_posted"
    /\ Goto(a, IF end_posted THEN AfterPost(a) ELSE "p_state")
    /\ UNCHANGED <<state, flags, result, files, world, counts>>

ChooseToast(a) ==
    /\ pc[a] = "p_state"
    /\ Goto(a, IF state = "RESTART_NEEDED" \/ Failed(state) THEN "p_claim" ELSE AfterPost(a))
    /\ UNCHANGED <<state, flags, result, files, world, counts>>

Post(a) ==
    /\ pc[a] = "p_claim"
    /\ end_posted' = TRUE
    /\ told' = IF end_posted THEN told ELSE told + 1
    /\ Goto(a, AfterPost(a))
    /\ UNCHANGED <<state, menu_foreground, relaunch_wanted, relaunch_claimed, stop,
                   result, files, world, calls>>

UpdateInstallPost(a) == LoadPosted(a) \/ ChooseToast(a) \/ Post(a)

-----------------------------------------------------------------------------
(***************************************************************************)
(* install(), download() and swap(): the thread.                           *)
(***************************************************************************)
ThreadUnchanged == UNCHANGED <<state, flags, world, counts>>

\* install() answers r: install_thread() goes on from there.
Answer(r) == result' = r /\ Goto("thread", "owe")
Proceed(place) == Goto("thread", place) /\ UNCHANGED result

\* A failure that leaves no .part behind.
Discard(r) ==
    /\ Answer(r)
    /\ card' = [card EXCEPT ![Part] = "none"]

\* The slip of taking the file's place for granted.
SkipStat ==
    /\ pc["thread"] = "stat"
    /\ Proceed("checksum")
    /\ UNCHANGED files
    /\ ThreadUnchanged

Stat ==
    /\ pc["thread"] = "stat"
    /\ \/ card[Installed] # "none" /\ Proceed("checksum")
       \/ Answer("NOT_INSTALLED_HERE")    \* missing, not a regular file, or unreadable
    /\ UNCHANGED files
    /\ ThreadUnchanged

FetchChecksum ==
    /\ pc["thread"] = "checksum"
    /\ \/ Proceed("open")
       \/ \E r \in ChecksumFailure : Answer(r)
    /\ UNCHANGED files
    /\ ThreadUnchanged

\* The old .part goes, and a new one is opened over its name.
OpenPart ==
    /\ pc["thread"] = "open"
    /\ \/ card' = [card EXCEPT ![Part] = "cut"] /\ Proceed("receive")
       \/ Discard("WRITE_FAILED")
    /\ UNCHANGED got
    /\ ThreadUnchanged

\* The whole file arrived, or something that says it is; or the fetch, the size, the
\* header or a write to the card failed.
Receive ==
    /\ pc["thread"] = "receive"
    /\ \/ got' \in {"new", "wrong"} /\ Proceed("close") /\ UNCHANGED card
       \/ \E r \in DownloadFailure : Discard(r) /\ UNCHANGED got
    /\ ThreadUnchanged

\* fflush, fsync and fclose.
ClosePart ==
    /\ pc["thread"] = "close"
    /\ \/ card' = [card EXCEPT ![Part] = got] /\ Proceed("verify")
       \/ Discard("WRITE_FAILED")
    /\ UNCHANGED got
    /\ ThreadUnchanged

\* The slip of a checksum that is worked out and not compared.
VerifyNothing ==
    /\ pc["thread"] = "verify"
    /\ Proceed("claim")
    /\ UNCHANGED files
    /\ ThreadUnchanged

Verify ==
    /\ pc["thread"] = "verify"
    /\ IF got = "new" THEN Proceed("claim") /\ UNCHANGED card
                      ELSE Discard("MISMATCH")
    /\ UNCHANGED got
    /\ ThreadUnchanged

\* The compare and exchange that lets the swap begin.
ClaimSwap ==
    /\ pc["thread"] = "claim"
    /\ IF state = "DOWNLOADING"
       THEN state' = "SWAPPING" /\ Proceed("drop") /\ UNCHANGED card
       ELSE Discard("INTERRUPTED") /\ UNCHANGED state
    /\ UNCHANGED <<flags, got, world, counts>>

\* The older backup goes first, when the card lets it.
DropBackup ==
    /\ pc["thread"] = "drop"
    /\ \/ card' = [card EXCEPT ![Backup] = "none"]
       \/ UNCHANGED card
    /\ Proceed("aside")
    /\ UNCHANGED got
    /\ ThreadUnchanged

\* FAT won't rename onto a name that exists, or from one that doesn't.
SetAside ==
    /\ pc["thread"] = "aside"
    /\ \/ /\ card[Installed] # "none"
          /\ card[Backup] = "none"
          /\ card' = [card EXCEPT ![Backup] = card[Installed], ![Installed] = "none"]
          /\ Proceed("replace")
       \/ Discard("SWAP_FAILED")
    /\ UNCHANGED got
    /\ ThreadUnchanged

Replace ==
    /\ pc["thread"] = "replace"
    /\ \/ /\ card' = [card EXCEPT ![Installed] = card[Part], ![Part] = "none"]
          /\ Answer("RELAUNCH_WAITING")
       \/ Proceed("putback") /\ UNCHANGED card
    /\ UNCHANGED got
    /\ ThreadUnchanged

PutBack ==
    /\ pc["thread"] = "putback"
    /\ \/ /\ card' = [card EXCEPT ![Installed] = card[Backup], ![Backup] = "none",
                                  ![Part] = "none"]
          /\ Answer("SWAP_FAILED")
       \/ Answer("RESTORE_FAILED") /\ UNCHANGED card
    /\ UNCHANGED got
    /\ ThreadUnchanged

Owe ==
    /\ pc["thread"] = "owe"
    /\ relaunch_wanted' = (relaunch_wanted \/ result = "RELAUNCH_WAITING")
    /\ Proceed("store")
    /\ UNCHANGED <<state, menu_foreground, relaunch_claimed, end_posted, stop,
                   files, world, counts>>

\* Only over the thread's own states.  The load and the compare and exchange are one step:
\* the exchange fails whenever the state moved in between.
StoreResult ==
    /\ pc["thread"] = "store"
    /\ state' = IF state \in {"DOWNLOADING", "SWAPPING"} THEN result ELSE state
    /\ Proceed("r_wanted")
    /\ UNCHANGED <<flags, files, world, counts>>

\* The slip of leaving a failure to the next hook.
TellLater ==
    /\ pc["thread"] = "tell"
    /\ Proceed("none")
    /\ UNCHANGED files
    /\ ThreadUnchanged

Tell ==
    /\ pc["thread"] = "tell"
    /\ Proceed(IF ~stop /\ Failed(state) THEN "p_posted" ELSE "none")
    /\ UNCHANGED files
    /\ ThreadUnchanged

Thread ==
    \/ Stat \/ FetchChecksum \/ OpenPart \/ Receive \/ ClosePart \/ Verify
    \/ ClaimSwap \/ DropBackup \/ SetAside \/ Replace \/ PutBack
    \/ Owe \/ StoreResult \/ Tell
    \/ RelaunchIfReady("thread") \/ UpdateInstallPost("thread")

-----------------------------------------------------------------------------
(***************************************************************************)
(* The config menu closing in the running process, with menu_closed() and  *)
(* update_install_begin(): yes is the install chosen, changed a setting    *)
(* that asks for a relaunch.  The menu draws over a process in front, so   *)
(* update_install_begin()'s own store of menu_foreground changes nothing.  *)
(***************************************************************************)
Loaded == running \in Plugin
Calm == Loaded /\ pc["menu"] = "idle"

UpdateNewer == running = "old"

\* The slip of starting an install over one that is under way or in place.
CanBeginAnyway == process = "menu" /\ UpdateNewer

CanBegin ==
    /\ process = "menu"
    /\ UpdateNewer
    /\ state \notin InProgress \cup {"RESTART_NEEDED"}

Begin(changed) ==
    /\ slow_menu => pc["thread"] \notin Tail
    /\ end_posted' = FALSE
    /\ relaunch_claimed' = FALSE
    /\ relaunch_wanted' = changed
    /\ told' = 0
    /\ calls' = 0
    /\ Goto("menu", "b_state")
    /\ UNCHANGED <<state, menu_foreground, stop, result, files, world>>

MenuClosed(yes, changed) ==
    /\ Calm
    /\ process = "menu" => menu_foreground
    /\ process \in {"menu", "game"}
    /\ IF yes /\ CanBegin
       THEN Begin(changed)
       ELSE /\ changed
            /\ asked' = TRUE
            /\ UNCHANGED <<state, flags, pc, result, files, running, renamed, process, counts>>

StoreDownloading ==
    /\ pc["menu"] = "b_state"
    /\ state' = "DOWNLOADING"
    /\ Goto("menu", "b_stop")
    /\ UNCHANGED <<flags, result, files, world, counts>>

\* update_spawn() stops and joins whatever the last install left first.  update_stop() stores
\* the flag only with a thread that was not joined yet; without one nothing reads it.
StopLast ==
    /\ pc["menu"] = "b_stop"
    /\ stop' = TRUE
    /\ Goto("menu", "b_join")
    /\ UNCHANGED <<state, menu_foreground, relaunch_wanted, relaunch_claimed, end_posted,
                   result, files, world, counts>>

\* pthread_create() failing leaves menu_closed() to relaunch for the setting itself.
SpawnThread ==
    /\ pc["menu"] = "b_join"
    /\ pc["thread"] = "none"
    /\ stop' = FALSE
    /\ \/ /\ pc' = [pc EXCEPT !["thread"] = "stat", !["menu"] = "idle"]
          /\ UNCHANGED <<state, relaunch_wanted, asked>>
       \/ /\ Goto("menu", "idle")
          /\ state' = "NO_THREAD"
          /\ relaunch_wanted' = FALSE
          /\ asked' = (asked \/ relaunch_wanted)
    /\ UNCHANGED <<menu_foreground, relaunch_claimed, end_posted, result, files,
                   running, renamed, process, counts>>

-----------------------------------------------------------------------------
(***************************************************************************)
(* The hooks of src/main.cpp, in the Wii U Menu's process.                 *)
(***************************************************************************)
Foreground(acquired, place) ==
    /\ Calm
    /\ process = "menu"
    /\ menu_foreground = ~acquired
    /\ menu_foreground' = acquired
    /\ Goto("menu", place)
    /\ UNCHANGED <<state, relaunch_wanted, relaunch_claimed, end_posted, stop, result,
                   files, world, counts>>

\* The slip of leaving an owed relaunch to the thread.
AcquireOnly == Foreground(TRUE, "p_posted")

AcquireForeground == Foreground(TRUE, "r_wanted")
ReleaseForeground == Foreground(FALSE, "p_posted")

\* update_install_app_ends() up to its join: a download under way is marked first.
AppEnds ==
    /\ Calm
    /\ process = "menu"
    /\ menu_foreground' = FALSE
    /\ state' = IF state = "DOWNLOADING" THEN "INTERRUPTED" ELSE state
    /\ relaunch_wanted' = (relaunch_wanted /\ state # "DOWNLOADING")
    /\ Goto("menu", "e_stop")
    /\ UNCHANGED <<relaunch_claimed, end_posted, stop, result, files, world, counts>>

StopInstaller ==
    /\ pc["menu"] = "e_stop"
    /\ stop' = TRUE
    /\ Goto("menu", "e_join")
    /\ UNCHANGED <<state, menu_foreground, relaunch_wanted, relaunch_claimed, end_posted,
                   result, files, world, counts>>

\* The process goes: to another one, or for good once a relaunch was asked for.
NextProcess == IF asked THEN "off" ELSE "starting"

\* The slip of answering the hook without waiting for the thread.
EndUnjoined ==
    /\ pc["menu"] = "e_join"
    /\ state' = IF state = "RELAUNCH_WAITING" THEN "RESTART_NEEDED" ELSE state
    /\ relaunch_wanted' = FALSE
    /\ process' = NextProcess
    /\ Goto("menu", "idle")
    /\ UNCHANGED <<menu_foreground, relaunch_claimed, end_posted, stop, result, files,
                   running, renamed, asked, counts>>

EndProcess ==
    /\ pc["menu"] = "e_join"
    /\ pc["thread"] = "none"
    /\ state' = IF state = "RELAUNCH_WAITING" THEN "RESTART_NEEDED" ELSE state
    /\ relaunch_wanted' = FALSE
    /\ process' = NextProcess
    /\ Goto("menu", "idle")
    /\ UNCHANGED <<menu_foreground, relaunch_claimed, end_posted, stop, result, files,
                   running, renamed, asked, counts>>

\* Every other hook, in every other process, only posts what is left to say.
AppStarts ==
    /\ Calm
    /\ process = "starting"
    /\ process' \in {"menu", "game"}
    /\ Goto("menu", "p_posted")
    /\ UNCHANGED <<state, flags, result, files, running, renamed, asked, counts>>

GameHook ==
    /\ Calm
    /\ process = "game"
    /\ Goto("menu", "p_posted")
    /\ UNCHANGED <<state, flags, result, files, world, counts>>

GameEnds ==
    /\ Calm
    /\ process = "game"
    /\ process' = NextProcess
    /\ UNCHANGED <<state, flags, pc, result, files, running, renamed, asked, counts>>

Menu ==
    \/ StoreDownloading \/ StopLast \/ SpawnThread
    \/ StopInstaller \/ EndProcess
    \/ RelaunchIfReady("menu") \/ UpdateInstallPost("menu")

-----------------------------------------------------------------------------
(***************************************************************************)
(* The console.  A boot loads whatever .wps is there and starts with fresh *)
(* plugin memory; only the card survives.                                  *)
(***************************************************************************)
Restart ==
    /\ state' = "IDLE"
    /\ menu_foreground' = FALSE
    /\ relaunch_wanted' = FALSE
    /\ relaunch_claimed' = FALSE
    /\ end_posted' = FALSE
    /\ stop' = FALSE
    /\ pc' = AtRest
    /\ result' = "IDLE"
    /\ got' = "none"
    /\ running' = IF renamed THEN "old" ELSE card[Installed]
    /\ process' = "menu"
    /\ asked' = FALSE
    /\ told' = 0
    /\ calls' = 0
    /\ UNCHANGED <<card, renamed>>

Boot == process = "off" /\ Restart
PowerLoss == process # "off" /\ Restart

Step ==
    \/ Thread
    \/ Menu
    \/ \E yes, changed \in BOOLEAN : MenuClosed(yes, changed)
    \/ AcquireForeground \/ ReleaseForeground \/ AppEnds
    \/ AppStarts \/ GameHook \/ GameEnds
    \/ Boot \/ PowerLoss

Next == Step /\ UNCHANGED slow_menu

Spec == Init /\ [][Next]_vars

\* Each thread is scheduled; a process that was asked to go does, however many more hooks it
\* answers first, what follows it comes up, and the Wii U Menu comes back to the front.
Fairness ==
    /\ WF_vars(Thread /\ UNCHANGED slow_menu)
    /\ WF_vars(Menu /\ UNCHANGED slow_menu)
    /\ WF_vars(AcquireForeground /\ UNCHANGED slow_menu)
    /\ SF_vars(asked /\ AppEnds /\ UNCHANGED slow_menu)
    /\ SF_vars(asked /\ GameEnds /\ UNCHANGED slow_menu)
    /\ WF_vars(AppStarts /\ UNCHANGED slow_menu)
    /\ WF_vars(Boot /\ UNCHANGED slow_menu)

FairSpec == Spec /\ Fairness

-----------------------------------------------------------------------------
\* Every variable holds what its type in the code can: in particular the thread's result
\* is never a state install() cannot answer.
TypeOK ==
    /\ slow_menu \in BOOLEAN
    /\ state \in State
    /\ menu_foreground \in BOOLEAN
    /\ relaunch_wanted \in BOOLEAN
    /\ relaunch_claimed \in BOOLEAN
    /\ end_posted \in BOOLEAN
    /\ stop \in BOOLEAN
    /\ pc \in [Actor -> Place]
    /\ result \in {"IDLE", "RELAUNCH_WAITING"} \cup (Failure \ {"NO_THREAD"})
    /\ got \in Content
    /\ card \in [File -> Content]
    /\ running \in Plugin \cup {"none"}
    /\ renamed \in BOOLEAN
    /\ process \in {"menu", "game", "starting", "off"}
    /\ asked \in BOOLEAN
    /\ told \in Nat
    /\ calls \in Nat

\* Whatever fails and whenever the power goes, a whole plugin is on the card under its own
\* name or the backup's: swap()'s promise, over any number of installs and boots.
PluginNeverLost ==
    ~renamed => card[Installed] \in Plugin \/ card[Backup] \in Plugin

\* The installed file changes hands only while the state says SWAPPING, which the menu
\* closing can never take back: in particular never after the install was INTERRUPTED.
InstalledChangesOnlySwapping ==
    [][card[Installed]' # card[Installed] => state = "SWAPPING"]_vars

\* What the state tells the user is what the card holds: the new plugin with the old one
\* kept when a restart is due or under way, and never the new one after a failure.
TellsTheTruth ==
    /\ state \in {"RELAUNCH_WAITING", "RELAUNCHING", "RESTART_NEEDED"}
          => card[Installed] = "new" /\ card[Backup] = "old"
    /\ state \in Failure => card[Installed] # "new"

\* update_install_app_ends() leaves nothing behind in the process that is starting: no
\* thread, and no relaunch that is still owed.
NothingOutlivesTheMenu ==
    process # "menu" => pc["thread"] = "none" /\ ~relaunch_wanted

\* An install relaunches at most once and ends with at most one toast, however its thread
\* and the hooks race for them.
OnceOnly == slow_menu => calls <= 1 /\ told <= 1

\* A finished install is running in the end, unless the menu closed on it and the user
\* has been told to restart instead.
OwedRelaunch ==
    slow_menu /\ state = "RELAUNCH_WAITING" ~> (running = "new" \/ state = "RESTART_NEEDED")

\* A failed install is told, without waiting for the user to do anything, before another
\* takes its place.  Only a thread that never started waits for the next hook.
FailureTold ==
    slow_menu /\ Failed(state) /\ state # "NO_THREAD" ~> (end_posted \/ state \in {"DOWNLOADING", "IDLE"})

-----------------------------------------------------------------------------
\* The card alone, as PluginCard describes it.
PluginCard == INSTANCE PluginCard
    WITH installed <- card[Installed], backup <- card[Backup]

\* Every step of the installer is a step of the abstract card or leaves both files alone.
CardSpec == PluginCard!Spec
==============================================================================
