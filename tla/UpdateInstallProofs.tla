------------------------- MODULE UpdateInstallProofs -------------------------
(***************************************************************************)
(* What the installer does to the card, proved for every behaviour of the  *)
(* two actors and every number of installs and boots.                      *)
(***************************************************************************)
EXTENDS UpdateInstall, TLAPS

AtWork == Fetching \cup Swapping \cup Ending

\* Only whole plugins ever have either of the two names.
OnlyPlugins ==
    /\ card[Installed] \in Plugin \cup {"none"}
    /\ card[Backup] \in Plugin \cup {"none"}

\* From the check of the download to the swap's last rename, .part is the new plugin.
PartIsNew ==
    /\ pc["thread"] = "verify" => card[Part] = got
    /\ pc["thread"] \in Swapping \cup {"claim"} => card[Part] = "new"

\* The installed plugin is in place until it is set aside, and then the backup is.
OneInHand ==
    /\ pc["thread"] \in (Fetching \ {"stat"}) \cup {"drop", "aside"} => card[Installed] \in Plugin
    /\ pc["thread"] \in {"replace", "putback"}
          => card[Installed] = "none" /\ card[Backup] \in Plugin

\* While an install is at work the state is one of three, and it is INTERRUPTED only while
\* the hook that marked it waits for the thread.
StateAtWork ==
    /\ pc["thread"] \in AtWork => state \in {"DOWNLOADING", "SWAPPING", "INTERRUPTED"}
    /\ pc["thread"] \in AtWork /\ state = "INTERRUPTED" => pc["menu"] \in AppEnding
    /\ pc["thread"] \in Swapping => state = "SWAPPING"

\* An install begins only when the one before it is as good as over.
BeginsAlone ==
    /\ pc["thread"] \in AtWork \cup Tail \cup {"none"}
    /\ pc["menu"] \in Beginning => pc["thread"] \in Tail \cup {"none"}
    /\ pc["menu"] \in {"b_stop", "b_join"} => state = "DOWNLOADING"

\* The type invariant in two parts: the flags have a proof of their own.
FlagsOK ==
    /\ menu_foreground \in BOOLEAN
    /\ relaunch_wanted \in BOOLEAN
    /\ relaunch_claimed \in BOOLEAN
    /\ end_posted \in BOOLEAN
    /\ stop \in BOOLEAN
    /\ renamed \in BOOLEAN
    /\ asked \in BOOLEAN

DataOK ==
    /\ state \in State
    /\ pc \in [Actor -> Place]
    /\ result \in {"IDLE", "RELAUNCH_WAITING"} \cup (Failure \ {"NO_THREAD"})
    /\ got \in Content
    /\ card \in [File -> Content]
    /\ running \in Plugin \cup {"none"}
    /\ process \in {"menu", "game", "starting", "off"}
    /\ told \in Nat
    /\ calls \in Nat

IInv ==
    /\ DataOK
    /\ OnlyPlugins
    /\ PartIsNew
    /\ OneInHand
    /\ StateAtWork
    /\ BeginsAlone
    /\ PluginNeverLost

-----------------------------------------------------------------------------
USE DEF Actor, Installed, Part, Backup, File, Content, Plugin, DownloadFailure, ChecksumFailure,
        Failure, InProgress, State, Fetching, Swapping, Ending, Relaunching, Posting, Tail,
        Beginning, AppEnding, Place, AtWork

\* A console starts with whole plugins and nobody at work.
LEMMA InitIInv == Init => IInv
<1> SUFFICES ASSUME Init PROVE IInv
  OBVIOUS
<1>1. card \in [File -> Content] /\ card[Installed] \in {"none", "old"} /\ card[Backup] = "none"
  BY DEF Init
<1>2. ~renamed => card[Installed] = "old"
  BY DEF Init
<1>3. pc \in [Actor -> Place] /\ pc["thread"] = "none" /\ pc["menu"] = "idle"
  BY DEF Init, AtRest
<1> QED
  BY <1>1, <1>2, <1>3 DEF Init, IInv, DataOK, OnlyPlugins, PartIsNew, OneInHand, StateAtWork,
     BeginsAlone, PluginNeverLost

\* Both actors run relaunch_if_ready() and update_install_post(), which leave the card alone
\* and keep whoever runs them within the tail of an install or a hook.
LEMMA TailIInv ==
  ASSUME NEW a \in Actor, IInv, RelaunchIfReady(a) \/ UpdateInstallPost(a)
  PROVE  IInv'
<1> USE DEF IInv, DataOK, OnlyPlugins, PartIsNew, OneInHand, StateAtWork, BeginsAlone,
            PluginNeverLost, flags, files, world, counts, Goto, AfterRelaunch, AfterPost
<1>1. CASE LoadWanted(a) BY <1>1 DEF LoadWanted
<1>2. CASE LoadForeground(a) BY <1>2 DEF LoadForeground
<1>3. CASE LoadState(a) BY <1>3 DEF LoadState
<1>4. CASE Claim(a) BY <1>4 DEF Claim
<1>5. CASE MarkRelaunching(a) BY <1>5 DEF MarkRelaunching
<1>6. CASE Relaunch(a) BY <1>6 DEF Relaunch
<1>7. CASE LoadPosted(a) BY <1>7 DEF LoadPosted
<1>8. CASE ChooseToast(a) BY <1>8 DEF ChooseToast
<1>9. CASE Post(a) BY <1>9 DEF Post
<1> QED
  BY <1>1, <1>2, <1>3, <1>4, <1>5, <1>6, <1>7, <1>8, <1>9 DEF RelaunchIfReady, UpdateInstallPost

\* The install thread's own steps: only ClaimSwap and StoreResult touch the state.
LEMMA ThreadIInv == IInv /\ Thread => IInv'
<1> SUFFICES ASSUME IInv, Thread PROVE IInv'
  OBVIOUS
<1> USE DEF IInv, DataOK, OnlyPlugins, PartIsNew, OneInHand, StateAtWork, BeginsAlone,
            PluginNeverLost, flags, files, world, counts, Goto, Answer, Proceed, Discard,
            ThreadUnchanged
<1>1. CASE Stat BY <1>1 DEF Stat
<1>2. CASE FetchChecksum BY <1>2 DEF FetchChecksum
<1>3. CASE OpenPart BY <1>3 DEF OpenPart
<1>4. CASE Receive BY <1>4 DEF Receive
<1>5. CASE ClosePart BY <1>5 DEF ClosePart
<1>6. CASE Verify BY <1>6 DEF Verify
<1>7. CASE ClaimSwap BY <1>7 DEF ClaimSwap
<1>8. CASE DropBackup BY <1>8 DEF DropBackup
<1>9. CASE SetAside BY <1>9 DEF SetAside
<1>10. CASE Replace BY <1>10 DEF Replace
<1>11. CASE PutBack BY <1>11 DEF PutBack
<1>12. CASE Owe BY <1>12 DEF Owe
<1>13. CASE StoreResult BY <1>13 DEF StoreResult
<1>14. CASE Tell BY <1>14 DEF Tell
<1>15. CASE RelaunchIfReady("thread") \/ UpdateInstallPost("thread")
  BY ONLY IInv, <1>15, TailIInv DEF Actor
<1> QED
  BY <1>1, <1>2, <1>3, <1>4, <1>5, <1>6, <1>7, <1>8, <1>9, <1>10, <1>11, <1>12, <1>13, <1>14,
     <1>15 DEF Thread

\* The hooks and the config menu.
LEMMA MenuIInv ==
  ASSUME IInv,
         \/ Menu
         \/ \E yes, changed \in BOOLEAN : MenuClosed(yes, changed)
         \/ AcquireForeground \/ ReleaseForeground \/ AppEnds
         \/ AppStarts \/ GameHook \/ GameEnds
  PROVE  IInv'
<1> USE DEF IInv, DataOK, OnlyPlugins, PartIsNew, OneInHand, StateAtWork, BeginsAlone,
            PluginNeverLost, flags, files, world, counts, Goto, Loaded, Calm, NextProcess
<1>1. CASE StoreDownloading BY <1>1 DEF StoreDownloading
<1>2. CASE StopLast BY <1>2 DEF StopLast
<1>3. CASE SpawnThread BY <1>3 DEF SpawnThread
<1>4. CASE StopInstaller BY <1>4 DEF StopInstaller
<1>5. CASE EndProcess BY <1>5 DEF EndProcess
<1>6. CASE RelaunchIfReady("menu") \/ UpdateInstallPost("menu")
  BY ONLY IInv, <1>6, TailIInv DEF Actor
<1>7. CASE \E yes, changed \in BOOLEAN : MenuClosed(yes, changed)
  <2> PICK yes \in BOOLEAN, changed \in BOOLEAN : MenuClosed(yes, changed)
    BY <1>7
  <2>1. CASE yes /\ CanBegin
    <3>1. Begin(changed) /\ CanBegin /\ pc["menu"] = "idle"
      BY ONLY <2>1, MenuClosed(yes, changed) DEF MenuClosed, Calm
    <3>2. pc["thread"] \notin AtWork
      BY <3>1 DEF CanBegin
    <3>3. /\ pc' = [pc EXCEPT !["menu"] = "b_state"]
          /\ told' = 0 /\ calls' = 0
          /\ UNCHANGED <<state, result, files, world>>
      BY ONLY <3>1 DEF Begin, Goto
    <3> QED BY ONLY IInv, <3>2, <3>3
      DEF IInv, DataOK, OnlyPlugins, PartIsNew, OneInHand, StateAtWork, BeginsAlone,
          PluginNeverLost, files, world
  <2>2. CASE ~(yes /\ CanBegin)
    <3>1. asked' = TRUE
          /\ UNCHANGED <<state, flags, pc, result, files, running, renamed, process, counts>>
      BY ONLY <2>2, MenuClosed(yes, changed) DEF MenuClosed
    <3> QED BY <3>1
  <2> QED BY <2>1, <2>2
<1>8. CASE AcquireForeground BY <1>8 DEF AcquireForeground, Foreground
<1>9. CASE ReleaseForeground BY <1>9 DEF ReleaseForeground, Foreground
<1>10. CASE AppEnds BY <1>10 DEF AppEnds
<1>11. CASE AppStarts BY <1>11 DEF AppStarts
<1>12. CASE GameHook BY <1>12 DEF GameHook
<1>13. CASE GameEnds BY <1>13 DEF GameEnds
<1> QED
  BY <1>1, <1>2, <1>3, <1>4, <1>5, <1>6, <1>7, <1>8, <1>9, <1>10, <1>11, <1>12, <1>13 DEF Menu

\* A boot, whenever it comes, leaves the card as it was and everyone at rest.
LEMMA RestartIInv == IInv /\ Restart => IInv'
<1> SUFFICES ASSUME IInv, Restart PROVE IInv'
  OBVIOUS
<1>1. pc' \in [Actor -> Place] /\ pc'["thread"] = "none" /\ pc'["menu"] = "idle"
  BY DEF Restart, AtRest
<1>2. running' \in Plugin \cup {"none"}
  BY DEF Restart, IInv, OnlyPlugins
<1> QED
  BY <1>1, <1>2 DEF Restart, IInv, DataOK, OnlyPlugins, PartIsNew, OneInHand, StateAtWork,
     BeginsAlone, PluginNeverLost

\* Nothing moves, so nothing breaks.
LEMMA StutterIInv == IInv /\ UNCHANGED vars => IInv'
  BY DEF vars, flags, files, world, counts, IInv, DataOK, OnlyPlugins, PartIsNew, OneInHand,
         StateAtWork, BeginsAlone, PluginNeverLost

\* Every step of the two actors and of the console keeps the inductive invariant.
LEMMA NextIInv == IInv /\ [Next]_vars => IInv'
  BY ThreadIInv, MenuIInv, RestartIInv, StutterIInv DEF Next, Step, Boot, PowerLoss

\* No step stores anything but TRUE or FALSE in a flag.
LEMMA FlagsStep == FlagsOK /\ [Next]_vars => FlagsOK'
<1> SUFFICES ASSUME FlagsOK, [Next]_vars PROVE FlagsOK'
  OBVIOUS
<1> USE DEF FlagsOK, flags, files, world, counts
<1>1. ASSUME NEW a \in Actor, RelaunchIfReady(a) \/ UpdateInstallPost(a) PROVE FlagsOK'
  BY ONLY FlagsOK, <1>1, Zenon
  DEF RelaunchIfReady, LoadWanted, LoadForeground, LoadState, Claim, MarkRelaunching, Relaunch,
      UpdateInstallPost, LoadPosted, ChooseToast, Post
<1>2. CASE Thread
  <2>1. CASE RelaunchIfReady("thread") \/ UpdateInstallPost("thread")
    BY ONLY <1>1, <2>1 DEF Actor
  <2>2. CASE Owe BY ONLY FlagsOK, <2>2, Zenon DEF Owe
  <2>3. CASE ~Owe /\ ~(RelaunchIfReady("thread") \/ UpdateInstallPost("thread"))
    BY ONLY FlagsOK, <1>2, <2>3, Zenon
    DEF Thread, Stat, FetchChecksum, OpenPart, Receive, ClosePart, Verify, ClaimSwap, DropBackup,
        SetAside, Replace, PutBack, StoreResult, Tell, ThreadUnchanged
  <2> QED BY <2>1, <2>2, <2>3
<1>3. CASE Menu
  <2>1. CASE RelaunchIfReady("menu") \/ UpdateInstallPost("menu")
    BY ONLY <1>1, <2>1 DEF Actor
  <2>2. CASE StoreDownloading \/ StopLast \/ SpawnThread \/ StopInstaller \/ EndProcess
    BY ONLY FlagsOK, <2>2, Zenon
    DEF StoreDownloading, StopLast, SpawnThread, StopInstaller, EndProcess
  <2> QED BY <1>3, <2>1, <2>2 DEF Menu
<1>4. CASE \E yes, changed \in BOOLEAN : MenuClosed(yes, changed)
  BY ONLY FlagsOK, <1>4, Zenon DEF MenuClosed, Begin
<1>5. CASE AcquireForeground \/ ReleaseForeground
  BY ONLY FlagsOK, <1>5, Zenon DEF AcquireForeground, ReleaseForeground, Foreground
<1>6. CASE AppEnds \/ AppStarts \/ GameHook \/ GameEnds
  BY ONLY FlagsOK, <1>6, Zenon DEF AppEnds, AppStarts, GameHook, GameEnds
<1>7. CASE Boot \/ PowerLoss
  BY ONLY FlagsOK, <1>7, Zenon DEF Boot, PowerLoss, Restart
<1>8. CASE UNCHANGED vars BY ONLY FlagsOK, <1>8, Zenon DEF vars
<1> QED BY <1>2, <1>3, <1>4, <1>5, <1>6, <1>7, <1>8 DEF Next, Step

\* The inductive invariant holds for as long as the console is used.
THEOREM Inductive == Spec => []IInv
  BY InitIInv, NextIInv, PTL DEF Spec

-----------------------------------------------------------------------------
\* Every variable keeps its type, for either answer to how slow the menu is.
THEOREM TypeCorrect == Spec => []TypeOK
<1>1. Init => FlagsOK BY Zenon DEF Init, FlagsOK
<1>2. Spec => []FlagsOK BY <1>1, FlagsStep, PTL DEF Spec
<1>3. Init => slow_menu \in BOOLEAN BY DEF Init
<1>4. slow_menu \in BOOLEAN /\ [Next]_vars => (slow_menu \in BOOLEAN)' BY DEF Next, vars
<1>5. Spec => [](slow_menu \in BOOLEAN) BY <1>3, <1>4, PTL DEF Spec
<1>6. IInv /\ FlagsOK /\ slow_menu \in BOOLEAN => TypeOK
  BY ONLY Zenon DEF IInv, DataOK, FlagsOK, TypeOK
<1> QED BY <1>2, <1>5, <1>6, Inductive, PTL

\* The card always holds a whole plugin: no interleaving, failure or power cut loses it.
THEOREM NeverLost == Spec => []PluginNeverLost
<1>1. IInv => PluginNeverLost BY DEF IInv
<1> QED BY <1>1, Inductive, PTL

\* A step that changes the installed file is one of the swap's, and the state says so.
THEOREM OnlySwapping == Spec => InstalledChangesOnlySwapping
<1>1. IInv /\ [Next]_vars => [card[Installed]' # card[Installed] => state = "SWAPPING"]_vars
  <2> SUFFICES ASSUME IInv, Next, card[Installed]' # card[Installed] PROVE state = "SWAPPING"
    OBVIOUS
  <2>1. CASE Thread
    <3>1. CASE pc["thread"] \in Swapping
      BY <3>1 DEF IInv, StateAtWork
    <3>2. CASE pc["thread"] \notin Swapping
      BY <2>1, <3>2
      DEF Thread, Stat, FetchChecksum, OpenPart, Receive, ClosePart, Verify, ClaimSwap,
          DropBackup, SetAside, Replace, PutBack, Owe, StoreResult, Tell, RelaunchIfReady,
          LoadWanted, LoadForeground, LoadState, Claim, MarkRelaunching, Relaunch,
          UpdateInstallPost, LoadPosted, ChooseToast, Post, Discard, IInv, DataOK,
          ThreadUnchanged, files
    <3> QED BY <3>1, <3>2
  <2>2. CASE ~Thread
    BY <2>2 DEF Next, Step, Menu, StoreDownloading, StopLast, SpawnThread, StopInstaller, EndProcess,
       RelaunchIfReady, LoadWanted, LoadForeground, LoadState, Claim, MarkRelaunching, Relaunch,
       UpdateInstallPost, LoadPosted, ChooseToast, Post, MenuClosed, Begin, AcquireForeground,
       ReleaseForeground, Foreground, AppEnds, AppStarts, GameHook, GameEnds, Boot, PowerLoss,
       Restart, files
  <2> QED BY <2>1, <2>2
<1> QED BY <1>1, Inductive, PTL DEF Spec, InstalledChangesOnlySwapping

\* The installer implements the abstract card: a step of it moves a whole plugin the way
\* PluginCard allows or leaves both names alone.
THEOREM ImplementsCard == Spec => CardSpec
<1>1. Init => PluginCard!Init
  <2> SUFFICES ASSUME Init PROVE PluginCard!Init
    OBVIOUS
  <2> QED BY DEF Init, PluginCard!Init
<1>2. IInv /\ [Next]_vars => [PluginCard!Next]_<<card[Installed], card[Backup]>>
  <2> SUFFICES ASSUME IInv, Next, ~UNCHANGED <<card[Installed], card[Backup]>>
               PROVE  PluginCard!Next
    BY DEF vars, files
  <2> USE DEF IInv, DataOK, PartIsNew, OneInHand, OnlyPlugins, PluginCard!Next, PluginCard!Plugin
  <2>1. CASE DropBackup BY <2>1 DEF DropBackup, PluginCard!DropBackup
  <2>2. CASE SetAside BY <2>2 DEF SetAside, Discard, PluginCard!SetAside
  <2>3. CASE Replace BY <2>3 DEF Replace, PluginCard!PutNew
  <2>4. CASE PutBack BY <2>4 DEF PutBack, PluginCard!PutBack
  <2>5. CASE Thread /\ ~(DropBackup \/ SetAside \/ Replace \/ PutBack)
    BY <2>5
    DEF Thread, Stat, FetchChecksum, OpenPart, Receive, ClosePart, Verify, ClaimSwap, Owe,
        StoreResult, Tell, RelaunchIfReady, LoadWanted, LoadForeground, LoadState, Claim,
        MarkRelaunching, Relaunch, UpdateInstallPost, LoadPosted, ChooseToast, Post, Discard,
        ThreadUnchanged, files
  <2>6. CASE ~Thread
    BY <2>6 DEF Next, Step, Menu, StoreDownloading, StopLast, SpawnThread, StopInstaller, EndProcess,
       RelaunchIfReady, LoadWanted, LoadForeground, LoadState, Claim, MarkRelaunching, Relaunch,
       UpdateInstallPost, LoadPosted, ChooseToast, Post, MenuClosed, Begin, AcquireForeground,
       ReleaseForeground, Foreground, AppEnds, AppStarts, GameHook, GameEnds, Boot, PowerLoss,
       Restart, files
  <2> QED BY <2>1, <2>2, <2>3, <2>4, <2>5, <2>6 DEF Thread
<1> QED BY <1>1, <1>2, Inductive, PTL DEF Spec, CardSpec, PluginCard!Spec

-----------------------------------------------------------------------------
\* The three states of an install that is through, and a thread that is about to store one.
Done == {"RELAUNCH_WAITING", "RELAUNCHING", "RESTART_NEEDED"}
Replaced == pc["thread"] \in Ending /\ result = "RELAUNCH_WAITING"

\* The new plugin is in place exactly when the state says so, or is about to.  The old one is
\* its backup, and has been since it was set aside.
InPlace ==
    /\ running = "old" => (card[Installed] = "new" <=> (state \in Done \/ Replaced))
    /\ (state \in Done \/ Replaced \/ pc["thread"] \in {"replace", "putback"})
          => card[Backup] = "old"
    /\ Replaced => state = "SWAPPING"
    /\ pc["thread"] \in Ending => result \in Failure \cup {"RELAUNCH_WAITING"}

\* Only the old plugin, under its own name, gets past the first step of an install, and only
\* where no other is in place.
FromTheOld ==
    /\ pc["menu"] \in Beginning => state \notin Done
    /\ running # "old" =>
          state = "IDLE" /\ pc["thread"] = "none" /\ pc["menu"] \notin Beginning
    /\ renamed =>
          /\ running = "old" /\ card[Installed] = "none"
          /\ pc["thread"] \notin (Fetching \ {"stat"}) \cup Swapping

Outcome == InPlace /\ FromTheOld

\* Whatever the two actors share at the end of an install, the outcome is left as it was.
LEMMA TailOutcome ==
  ASSUME NEW a \in Actor, IInv, Outcome, RelaunchIfReady(a) \/ UpdateInstallPost(a)
  PROVE  Outcome'
<1> USE DEF IInv, DataOK, StateAtWork, BeginsAlone, Outcome, InPlace, FromTheOld, Done, Replaced,
            flags, files, world, counts, Goto, AfterRelaunch, AfterPost
<1>1. CASE LoadWanted(a) BY <1>1 DEF LoadWanted
<1>2. CASE LoadForeground(a) BY <1>2 DEF LoadForeground
<1>3. CASE LoadState(a) BY <1>3 DEF LoadState
<1>4. CASE Claim(a) BY <1>4 DEF Claim
<1>5. CASE MarkRelaunching(a) BY <1>5 DEF MarkRelaunching
<1>6. CASE Relaunch(a) BY <1>6 DEF Relaunch
<1>7. CASE LoadPosted(a) BY <1>7 DEF LoadPosted
<1>8. CASE ChooseToast(a) BY <1>8 DEF ChooseToast
<1>9. CASE Post(a) BY <1>9 DEF Post
<1> QED
  BY <1>1, <1>2, <1>3, <1>4, <1>5, <1>6, <1>7, <1>8, <1>9 DEF RelaunchIfReady, UpdateInstallPost

\* The thread: the swap is from the old plugin to the new, and it answers what it did.
LEMMA ThreadOutcome == IInv /\ Outcome /\ Thread => Outcome'
<1> SUFFICES ASSUME IInv, Outcome, Thread PROVE Outcome'
  OBVIOUS
<1> USE DEF IInv, DataOK, OnlyPlugins, PartIsNew, OneInHand, StateAtWork, BeginsAlone, Outcome,
            InPlace, FromTheOld, Done, Replaced, flags, files, world, counts, Goto, Answer, Proceed,
            Discard, ThreadUnchanged
<1>1. CASE Stat BY <1>1 DEF Stat
<1>2. CASE FetchChecksum BY <1>2 DEF FetchChecksum
<1>3. CASE OpenPart BY <1>3 DEF OpenPart
<1>4. CASE Receive BY <1>4 DEF Receive
<1>5. CASE ClosePart BY <1>5 DEF ClosePart
<1>6. CASE Verify BY <1>6 DEF Verify
<1>7. CASE ClaimSwap BY <1>7 DEF ClaimSwap
<1>8. CASE DropBackup BY <1>8 DEF DropBackup
<1>9. CASE SetAside BY <1>9 DEF SetAside
<1>10. CASE Replace BY <1>10 DEF Replace
<1>11. CASE PutBack BY <1>11 DEF PutBack
<1>12. CASE Owe BY <1>12 DEF Owe
<1>13. CASE StoreResult BY <1>13 DEF StoreResult
<1>14. CASE Tell BY <1>14 DEF Tell
<1>15. CASE RelaunchIfReady("thread") \/ UpdateInstallPost("thread")
  BY ONLY IInv, Outcome, <1>15, TailOutcome DEF Actor
<1> QED
  BY <1>1, <1>2, <1>3, <1>4, <1>5, <1>6, <1>7, <1>8, <1>9, <1>10, <1>11, <1>12, <1>13, <1>14,
     <1>15 DEF Thread

\* The hooks and the config menu: an install is never begun over one that is in place.
LEMMA MenuOutcome ==
  ASSUME IInv, Outcome,
         \/ Menu
         \/ \E yes, changed \in BOOLEAN : MenuClosed(yes, changed)
         \/ AcquireForeground \/ ReleaseForeground \/ AppEnds
         \/ AppStarts \/ GameHook \/ GameEnds
  PROVE  Outcome'
<1> USE DEF IInv, DataOK, StateAtWork, BeginsAlone, Outcome, InPlace, FromTheOld, Done, Replaced,
            flags, files, world, counts, Goto, Loaded, Calm, NextProcess
<1>1. CASE StoreDownloading BY <1>1 DEF StoreDownloading
<1>2. CASE StopLast BY <1>2 DEF StopLast
<1>3. CASE SpawnThread BY <1>3 DEF SpawnThread
<1>4. CASE StopInstaller BY <1>4 DEF StopInstaller
<1>5. CASE EndProcess BY <1>5 DEF EndProcess
<1>6. CASE RelaunchIfReady("menu") \/ UpdateInstallPost("menu")
  BY ONLY IInv, Outcome, <1>6, TailOutcome DEF Actor
<1>7. CASE \E yes, changed \in BOOLEAN : MenuClosed(yes, changed)
  <2> PICK yes \in BOOLEAN, changed \in BOOLEAN : MenuClosed(yes, changed)
    BY <1>7
  <2>1. CASE yes /\ CanBegin
    <3>1. Begin(changed) /\ CanBegin
      BY ONLY <2>1, MenuClosed(yes, changed) DEF MenuClosed
    <3>2. running = "old" /\ state \notin Done
      BY ONLY <3>1 DEF CanBegin, UpdateNewer, Done, InProgress
    <3>3. /\ pc' = [pc EXCEPT !["menu"] = "b_state"]
          /\ UNCHANGED <<state, result, files, world>>
      BY ONLY <3>1 DEF Begin, Goto
    <3> QED BY ONLY IInv, Outcome, <3>2, <3>3
      DEF IInv, DataOK, Outcome, InPlace, FromTheOld, Done, Replaced, files, world
  <2>2. CASE ~(yes /\ CanBegin)
    <3>1. UNCHANGED <<state, pc, result, files, running, renamed>>
      BY ONLY <2>2, MenuClosed(yes, changed) DEF MenuClosed
    <3> QED BY <3>1
  <2> QED BY <2>1, <2>2
<1>8. CASE AcquireForeground BY <1>8 DEF AcquireForeground, Foreground
<1>9. CASE ReleaseForeground BY <1>9 DEF ReleaseForeground, Foreground
<1>10. CASE AppEnds BY <1>10 DEF AppEnds
<1>11. CASE AppStarts BY <1>11 DEF AppStarts
<1>12. CASE GameHook BY <1>12 DEF GameHook
<1>13. CASE GameEnds BY <1>13 DEF GameEnds
<1> QED
  BY <1>1, <1>2, <1>3, <1>4, <1>5, <1>6, <1>7, <1>8, <1>9, <1>10, <1>11, <1>12, <1>13 DEF Menu

\* A boot loads what is installed, so what is installed is never newer than what runs.
LEMMA RestartOutcome == IInv /\ Outcome /\ Restart => Outcome'
<1> SUFFICES ASSUME IInv, Outcome, Restart PROVE Outcome'
  OBVIOUS
<1>1. pc'["thread"] = "none" /\ pc'["menu"] = "idle"
  BY DEF Restart, AtRest
<1> QED
  BY <1>1 DEF Restart, IInv, OnlyPlugins, Outcome, InPlace, FromTheOld, Done, Replaced

\* The outcome and the invariant it leans on.
LEMMA NextOutcome == IInv /\ Outcome /\ [Next]_vars => Outcome'
<1>1. Outcome /\ UNCHANGED vars => Outcome'
  BY DEF vars, flags, files, world, counts, Outcome, InPlace, FromTheOld, Done, Replaced
<1> QED
  BY <1>1, ThreadOutcome, MenuOutcome, RestartOutcome DEF Next, Step, Boot, PowerLoss

\* What the menu, the toast and the next boot are told about the card is so.
THEOREM Truthful == Spec => []TellsTheTruth
<1>1. Init => Outcome
  BY DEF Init, AtRest, Outcome, InPlace, FromTheOld, Done, Replaced
<1>2. IInv /\ Outcome => TellsTheTruth
  BY DEF IInv, DataOK, Outcome, InPlace, FromTheOld, Done, Replaced, TellsTheTruth
<1> QED BY <1>1, <1>2, NextOutcome, Inductive, PTL DEF Spec

-----------------------------------------------------------------------------
\* Only the Wii U Menu's process begins an install or ends with one.
OfTheMenu ==
    /\ pc["menu"] \in Beginning \cup AppEnding => process = "menu"
    /\ pc["thread"] # "none" => process = "menu"
    /\ relaunch_wanted => process = "menu"

\* The claim is one actor's, from its exchange to its call.
Calling == {"r_mark", "r_call"}
OneClaim == slow_menu =>
    /\ ~relaunch_claimed => calls = 0 /\ \A a \in Actor : pc[a] \notin Calling
    /\ calls = 0 \/ (calls = 1 /\ \A a \in Actor : pc[a] \notin Calling)
    /\ pc["thread"] \in Calling => pc["menu"] \notin Calling

\* The toast is posted by whoever finds it was not.
OneToast == told = 0 \/ (told = 1 /\ end_posted)

Ends == OfTheMenu /\ OneClaim /\ OneToast

\* The race for the relaunch and the toast is decided by the two exchanges.
LEMMA TailEnds ==
  ASSUME NEW a \in Actor, IInv, Ends, UNCHANGED slow_menu,
         RelaunchIfReady(a) \/ UpdateInstallPost(a)
  PROVE  Ends'
<1> USE DEF IInv, DataOK, Ends, OfTheMenu, OneClaim, OneToast, Calling, flags, files, world, counts,
            Goto, AfterRelaunch, AfterPost
<1>1. CASE LoadWanted(a) BY <1>1 DEF LoadWanted
<1>2. CASE LoadForeground(a) BY <1>2 DEF LoadForeground
<1>3. CASE LoadState(a) BY <1>3 DEF LoadState
<1>4. CASE Claim(a) BY <1>4 DEF Claim
<1>5. CASE MarkRelaunching(a) BY <1>5 DEF MarkRelaunching
<1>6. CASE Relaunch(a) BY <1>6 DEF Relaunch
<1>7. CASE LoadPosted(a) BY <1>7 DEF LoadPosted
<1>8. CASE ChooseToast(a) BY <1>8 DEF ChooseToast
<1>9. CASE Post(a) BY <1>9 DEF Post
<1> QED
  BY <1>1, <1>2, <1>3, <1>4, <1>5, <1>6, <1>7, <1>8, <1>9 DEF RelaunchIfReady, UpdateInstallPost

\* The rest of the thread's steps are its own, and the menu's process is still there for them.
LEMMA ThreadEnds == IInv /\ Ends /\ Thread /\ UNCHANGED slow_menu => Ends'
<1> SUFFICES ASSUME IInv, Ends, Thread, UNCHANGED slow_menu PROVE Ends'
  OBVIOUS
<1> USE DEF IInv, DataOK, BeginsAlone, Ends, OfTheMenu, OneClaim, OneToast, Calling, flags,
            files, world, counts, Goto, Answer, Proceed, Discard, ThreadUnchanged
<1>1. CASE \/ Stat \/ FetchChecksum \/ OpenPart \/ Receive \/ ClosePart \/ Verify \/ ClaimSwap
           \/ DropBackup \/ SetAside \/ Replace \/ PutBack \/ StoreResult \/ Tell
  <2>1. /\ pc["thread"] # "none" /\ pc["thread"] \notin Calling
        /\ \E place \in Place \ Calling : pc' = [pc EXCEPT !["thread"] = place]
        /\ UNCHANGED <<flags, world, counts>>
    BY <1>1
    DEF Stat, FetchChecksum, OpenPart, Receive, ClosePart, Verify, ClaimSwap, DropBackup, SetAside,
        Replace, PutBack, StoreResult, Tell
  <2> QED BY <2>1
<1>2. CASE Owe BY <1>2 DEF Owe
<1>3. CASE RelaunchIfReady("thread") \/ UpdateInstallPost("thread")
  BY ONLY IInv, Ends, UNCHANGED slow_menu, <1>3, TailEnds DEF Actor
<1> QED
  BY <1>1, <1>2, <1>3 DEF Thread

\* The hooks: the flags are cleared for an install when nobody is using them, and a process ends
\* with no thread and nothing owed.
LEMMA MenuEnds ==
  ASSUME IInv, Ends, UNCHANGED slow_menu,
         \/ Menu
         \/ \E yes, changed \in BOOLEAN : MenuClosed(yes, changed)
         \/ AcquireForeground \/ ReleaseForeground \/ AppEnds
         \/ AppStarts \/ GameHook \/ GameEnds
  PROVE  Ends'
<1> USE DEF IInv, DataOK, BeginsAlone, Ends, OfTheMenu, OneClaim, OneToast, Calling, flags,
            files, world, counts, Goto, Loaded, Calm, NextProcess
<1>1. CASE StoreDownloading BY <1>1 DEF StoreDownloading
<1>2. CASE StopLast BY <1>2 DEF StopLast
<1>3. CASE SpawnThread BY <1>3 DEF SpawnThread
<1>4. CASE StopInstaller BY <1>4 DEF StopInstaller
<1>5. CASE EndProcess BY <1>5 DEF EndProcess
<1>6. CASE RelaunchIfReady("menu") \/ UpdateInstallPost("menu")
  BY ONLY IInv, Ends, UNCHANGED slow_menu, <1>6, TailEnds DEF Actor
<1>7. CASE \E yes, changed \in BOOLEAN : MenuClosed(yes, changed)
  <2> PICK yes \in BOOLEAN, changed \in BOOLEAN : MenuClosed(yes, changed)
    BY <1>7
  <2>1. CASE yes /\ CanBegin
    <3>1. Begin(changed) /\ CanBegin /\ pc["menu"] = "idle"
      BY ONLY <2>1, MenuClosed(yes, changed) DEF MenuClosed, Calm
    <3>2. process = "menu" /\ (slow_menu => pc["thread"] \notin Calling)
      BY ONLY <3>1 DEF CanBegin, Begin, Calling, Tail, Relaunching
    <3>3. /\ pc' = [pc EXCEPT !["menu"] = "b_state"]
          /\ ~relaunch_claimed' /\ told' = 0 /\ calls' = 0
          /\ UNCHANGED process
      BY ONLY <3>1 DEF Begin, Goto, world
    <3>4. pc'["thread"] = pc["thread"] /\ pc'["menu"] = "b_state"
      BY ONLY IInv, <3>3 DEF IInv, DataOK
    <3>5. OfTheMenu' /\ OneToast'
      <4>1. OfTheMenu' BY ONLY <3>2, <3>3 DEF OfTheMenu
      <4>2. OneToast' BY ONLY <3>3 DEF OneToast
      <4> QED BY <4>1, <4>2
    <3>6. OneClaim'
      BY ONLY UNCHANGED slow_menu, <3>2, <3>3, <3>4 DEF OneClaim, Calling
    <3> QED BY ONLY <3>5, <3>6 DEF Ends
  <2>2. CASE ~(yes /\ CanBegin)
    <3>1. UNCHANGED <<flags, pc, process, counts>>
      BY ONLY <2>2, MenuClosed(yes, changed) DEF MenuClosed
    <3> QED BY <3>1
  <2> QED BY <2>1, <2>2
<1>8. CASE AcquireForeground BY <1>8 DEF AcquireForeground, Foreground
<1>9. CASE ReleaseForeground BY <1>9 DEF ReleaseForeground, Foreground
<1>10. CASE AppEnds BY <1>10 DEF AppEnds
<1>11. CASE AppStarts BY <1>11 DEF AppStarts
<1>12. CASE GameHook BY <1>12 DEF GameHook
<1>13. CASE GameEnds BY <1>13 DEF GameEnds
<1> QED
  BY <1>1, <1>2, <1>3, <1>4, <1>5, <1>6, <1>7, <1>8, <1>9, <1>10, <1>11, <1>12, <1>13 DEF Menu

\* What the last of an install and the hooks do to each other's flags.
LEMMA NextEnds == IInv /\ Ends /\ [Next]_vars => Ends'
<1>1. Ends /\ UNCHANGED vars => Ends'
  BY DEF vars, flags, files, world, counts, Ends, OfTheMenu, OneClaim, OneToast, Calling
<1>2. Restart => Ends'
  <2> SUFFICES ASSUME Restart PROVE Ends'
    OBVIOUS
  <2>1. pc'["thread"] = "none" /\ pc'["menu"] = "idle"
    BY DEF Restart, AtRest
  <2>2. OfTheMenu' BY ONLY Restart DEF OfTheMenu, Restart
  <2>3. OneToast' BY ONLY Restart DEF OneToast, Restart
  <2>4. OneClaim' BY ONLY Restart, <2>1 DEF OneClaim, Calling, Restart
  <2> QED BY <2>2, <2>3, <2>4 DEF Ends
<1> QED
  BY <1>1, <1>2, ThreadEnds, MenuEnds DEF Next, Step, Boot, PowerLoss

\* The last of an install, for as long as the console is used.
LEMMA EndsHold == Spec => []Ends
<1>1. Init => Ends
  <2> SUFFICES ASSUME Init PROVE Ends
    OBVIOUS
  <2>1. pc["thread"] = "none" /\ pc["menu"] = "idle"
    BY DEF Init, AtRest
  <2>2. OfTheMenu BY ONLY Init DEF OfTheMenu, Init
  <2>3. OneToast BY ONLY Init DEF OneToast, Init
  <2>4. OneClaim BY ONLY Init, <2>1 DEF OneClaim, Calling, Init
  <2> QED BY <2>2, <2>3, <2>4 DEF Ends
<1> QED BY <1>1, NextEnds, Inductive, PTL DEF Spec

\* No thread runs on into another process, and no relaunch is owed to one.
THEOREM EndsWithTheMenu == Spec => []NothingOutlivesTheMenu
<1>1. Ends => NothingOutlivesTheMenu BY DEF Ends, OfTheMenu, NothingOutlivesTheMenu
<1> QED BY <1>1, EndsHold, PTL

\* However the thread and the hooks race, one of them relaunches, and one of them says how it went.
THEOREM RelaunchedOnce == Spec => []OnceOnly
<1>1. Ends => OnceOnly BY DEF Ends, OneClaim, OneToast, OnceOnly
<1> QED BY <1>1, EndsHold, PTL
==============================================================================
