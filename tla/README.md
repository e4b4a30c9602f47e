# JustGetMiiOnline: a verification project

JustGetMiiOnline is an Aroma plugin for the Wii U. It picks the account server the console
signs in against, the Miiverse it talks to and the network SpotPass comes from; it carries a
YouTube patcher with a local proxy; and it updates itself. Nearly everything in it is
sequential code made hard by where it runs: hooks that the console calls in whichever process
is there, threads that belong to a process that may end under them, globals that outlive every
process of a boot, security-processor memory that only a reboot restores, and an SD card that
can lose power.

The modules here are translated from `src/src/`. Line references are in `PROJECT.json`
(`map`), which names the source lines of every definition.

## Inventory

### Where the code runs

| Word | Meaning |
|---|---|
| boot | From power-on or a full relaunch to the next. The plugin is loaded, `INITIALIZE_PLUGIN` runs once, the security processor (IOSU) starts with what Protarium's module wrote. |
| title, process | The Wii U Menu, a game, the HOME Menu, the Miiverse applet. `ON_APPLICATION_START`, `ON_ACQUIRED_FOREGROUND`, `ON_RELEASE_FOREGROUND` and `ON_APPLICATION_ENDS` run in it. Threads and sockets die with it; the plugin's globals do not. |
| config menu | Aroma's. Its items' callbacks run when it closes, and then `menu_closed()`. |

### Components

| Component (source) | State it keeps | Operations | Talks to | What is hard | What makes it correct |
|---|---|---|---|---|---|
| Update installer (`update_install.cpp`) | `state`, `menu_foreground`, `relaunch_wanted`, `relaunch_claimed`, `end_posted`; three files on the card | begin, install thread (checksum, download, verify, swap), foreground and app-end hooks, toast | config menu (`menu_closed`), update check (the release), hooks | thread against hooks, power loss between two renames, process end under the thread | a plugin is always there to boot; the installed one changes only in a claimed swap; the state tells the truth; one relaunch, and that one happens |
| Update check (`update.cpp`) | `state`, `started`, `run`, `checker.stop`, the version and the release found | start at power-on or foreground, thread with retries, reading the answer, post, app end, setting | hooks, installer | a check cut short as it stores its answer, retries while there is no network, an answer longer than its buffer | an answer stands; what is cut short runs again; no thread outlives the menu; what is offered was published whole |
| Account lend (`account.cpp`) | the account URL in IOSU, `lent`, `lent_original` | `account_lend`, `account_take_back`, `account_apply`, `account_observe` | token routing in every process, IOSU | requests of several processes, and titles that start within them, over shared globals with no lock; partial writes | the lent call goes to the right server; afterwards the URL is what it was |
| Token hooks (`token.cpp`) | target, account, the built token with its slot, `routed_token_fresh`, the applet's and the overlay's patches | `route`, `route_applet`, answers from the cache, warm-up, the hook on the account load, the patches of two processes | account lend, Roseverse secret, settings | one cache for every process with no lock, an account that is still being loaded, patches that outlive their process | a token handed out is of the account that is loaded; the cache is warm when the applet asks; a lent applet gets its own server's token |
| Post to Miiverse (`olv_share.cpp`) | `state`, stamps, `unusable`; nn_olv's thread and screen | start, share thread, foreground hook, reset | proxy workers (start), settings (target), the console's post screen | thread against hook with one exchanged variable; a Miiverse changed between the two reads of it | one thread, one screen a minute, a failure that is told, always settles |
| YouTube proxy (`youtube/proxy.cpp`) | switches, TLS context, NSSL users, live table | start, stop, accept thread, workers | YouTube patcher, share endpoint | detached workers, a stop with a deadline, globals of a dead process | TLS outlives workers, NSSL is balanced, slots come back, the stop returns |
| YouTube share endpoint (`youtube/share*.cpp`) | a ring of times, a lock, the token of this start | parse, rate, share, poll | proxy workers, Post to Miiverse | clocks read before the lock is taken, a page of an earlier start, a lock over a call into another component | at most one share at a time, at the rate allowed, from the page of this start |
| YouTube patcher and patches (`youtube.cpp`, `youtube/*.cpp`) | the snapshot of this start, what it holds of ContentRedirection, the load it asks for | start, end, the answer to a lookup, one compare-and-write per patch | proxy, share token, ContentRedirection, name hooks, URL swap's trigger | settings changed between a start and its end; globals that outlive the process | proxy and certificate layer go up and down in pairs; a run is answered as its start said |
| SpotPass (`spotpass.cpp`) | `have_applied`, `applied`, `layout`; four IOSU slots, the policy state's copy | `spotpass_apply` at every application start | settings, IOSU | reads that fail after a cold boot, partial writes, a setting changed mid-boot, a plugin reload | one network per boot; only Protarium's own strings are replaced; retries get there |
| Settings and config menu (`config.cpp`, `choice.h`) | account, miiverse, spotpass, overrides, `change_needs_reboot`; storage in memory and on the card | one callback per item, `menu_closed`, `Config::Init` with repair | everything above | items that were legal when the menu opened; a relaunch handed to an install; storage of other versions | SpotPass is always offered; every change is owed its relaunch; a boot brings the selection back |
| Miiverse URL swap (`olv.cpp`) | the once-per-title gate, the armed trigger, the applet's tracked file handle | three triggers of one sweep, late loads, the applet's open, read and close hooks | settings, scan, IOSU kernel write, Inkay's own hooks | a gate in globals that outlive the title, hooks nested either way, a handle closed and handed out again | every library a title runs with names the selected Miiverse; the applet's URL and allowlist agree; no other file is rewritten |
| DNS hooks (`dns.cpp`) | account, list of recent names, counters | refuse, answer, report | settings, YouTube patcher, Inkay's own hooks | Inkay redirects the same names inside or outside of these hooks; a list shared by all threads with no lock | the same names are refused under either nesting |
| IOSU access (`iosu.cpp`) | none | read, compare, write words | all writers | partial writes | a failed write is reported |
| Roseverse import, plaza reset, scan, SHA-256, notifications, log | see `PROJECT.json` | | | one-shot or pure | |
| Plugin hooks (`main.cpp`) | none | the order of calls in each hook | all | order | as in the components |

### Interactions that matter

* `menu_closed()` saves the settings, offers the relaunch to the installer
  (`update_install_begin(change_needs_reboot)`), and relaunches itself only when that refuses.
* The installer's and the check's threads belong to the Wii U Menu's process; the app-end hook
  stops and joins both, so their last steps run against that hook.
* `account_apply` and `spotpass_apply` run at every application start with the settings of the
  moment, while the name hooks and the token hooks get the account server at boot only.
* The YouTube page's share request runs on a proxy worker, which starts the share thread under
  a lock; the console's post screen takes the foreground, and the foreground hook reads the result.
* A token request of any process may lend the one account URL of the console.
* The trigger in front of a title's first instruction sweeps its library and loads the one YouTube
  needs for sharing; Inkay's module writes just before it, and on every visit to the applet.
* A lookup passes the name hooks and Inkay's, in the order the loader took the plugins in, and the
  YouTube patcher's answer comes between them.

## Modules

| Module | Models | State and actions in terms of the code |
|---|---|---|
| `PluginCard` | the promise of `swap()` | The installed file and its backup, each a whole plugin or none; four moves. The abstract specification of the installer. |
| `UpdateInstall`, `UpdateInstallProofs` | the installer, its thread helper, its hooks | Two actors, `thread` and `menu`; `pc` gives each one's next shared access. One action per atomic access to a shared variable or file operation. `RelaunchIfReady` and `UpdateInstallPost` are run by both. `Restart` is a relaunch's boot or a power cut. |
| `ReleaseList` | what the check reads out of GitHub's answer | Pure operators. The answer is the sequence of its keys, cut anywhere; `scan`, `is_draft`, `read_release` search it as the code does. `Right` is the reference: what a reader of the Releases page would install. |
| `UpdateCheck`, `MCUpdateCheck` | one boot of the check | The check's thread and the menu's; run numbers come round after `Runs`. `Look` takes any answer of `ReleaseList`. Its proofs, and those of `ReleaseList`, are in `BootProofs`. |
| `AccountLend`, `AccountLendProofs`, `MCAccountLend` | `account_apply`, `account_lend`, `account_take_back`, `route`, `route_applet`, over one boot | One action per IOSU call or shared access of each request; each IOSU call may fail, a write part of the way, and a process may die with a lend out. `account_apply` is two actions, its look at the URL and `WritePretendo`, and runs at any moment of any request. `crossed` names the requests whose lend it, or a take-back of another request, reached. |
| `TokenCache`, `TokenCacheProofs`, `MCTokenCache` | `token.cpp` without the inside of a lend | Threads of titles; a build is one action that reads the account and one that stores. `Loading` and `Loaded` are the two ends of the hooked account load. A patch is a count per process. How a lend is granted is `AccountLend`'s. |
| `OlvSweep`, `OlvSweepProofs`, `MCOlvSweep` | `olv.cpp` | The title's start as far as the entry point, the library as a slot per memory range, the applet as its slot and its allowlist record, its files as handles. `Sweep` is shared by the three triggers; `Theirs` and `ModuleWrites` are Inkay's hooks. |
| `NameHooks` | `dns.cpp`'s refusal | Pure operators. A name stands for the kind of host it is. |
| `YouTube`, `YouTubeProofs`, `MCYouTube` | `youtube.cpp`, the start url, the share token, the rate of shares and the order of a share's refusals | The settings as they are and as the start found them; ContentRedirection's own count next to what the patcher believes; a clock, and each worker's reading of it. |
| `OlvShare` | a share | Workers, the share thread and the foreground hook; the post screen as the console shows it; the config menu changes the Miiverse at any moment. Its proofs are in `YouTubeProofs`, with those of the page that asks for the share. |
| `YouTubeProxy`, `YouTubeProxyProofs` | the proxy over many runs of the app | The app's thread, the accept thread, one worker per slot; `NextProcess` leaves the globals and drops threads and sockets. |
| `SpotPass`, `BootProofs` | `spotpass_apply` over one boot | One action per application start, with an outcome for each slot that is tried. `BootProofs` is about what a boot does once: this and the update check. |
| `Pairing` | `choice.h` | Pure operators, no state. |
| `Settings`, `SettingsProofs`, `MCSettings` | `config.cpp` over any number of boots | One action per callback, with the storing and syncing it does; `menu_closed` as `Begin` or `MenuClosed`; `Boot` is `Config::Init`. The installer appears as its state and the relaunch it owes; `UpdateInstall` has its inside. |

## Runs

| Run | Question | Bounds, and why they are enough |
|---|---|---|
| `install` | Do thread, hooks, power cuts and a config menu opened at any moment keep the plugin, and the state true? Does it implement `PluginCard`? Is an owed relaunch made, once, and a failure told? | One thread and one menu thread, as in the code; installs and boots without limit; three files. Counts of toasts and relaunches go back to zero at each install. |
| `lend_apart` | Is the lent call made to the right server, and the URL put back? | Two routed requests and the applet's, over titles without limit. Two are enough for every pair of phases to overlap; a third routed request finds `lent` set like the second. |
| `lend_race` (violation) | The same with two requests inside `account_lend()` | |
| `share` | One thread, one screen until a minute after its close, a failure told while it should be, and rest | Two workers, the first still in its thread when the second asks; two Miiverses. |
| `check_boot` | Does an answer stand, is an interrupted check run again, and is what the installer is offered a whole release? | The code's 4 lookups; 3 run numbers, so that a stale thread differs from both its successors; visits without limit. Every list of at most two releases over five versions, one each side of every comparison, cut after every key: a release is compared with the best so far and bounded by the next, so two of them show each. |
| `proxy_run` | Does the proxy keep TLS, NSSL and its slots in order, and does a stop return? | Two slots of eight: a slot never looks at another, and two reach "full", "one left behind" and "drained". One failure makes the accept thread give up at its second, which exercises counter and reset. Runs of the app without limit. |
| `spotpass_boot` | One network, only Protarium's own strings, and retries that get there | All four slots, all three modules and none, every combination of slot contents; application starts without limit. |
| `settings_boots` | Is SpotPass always one that is offered, each change owed its relaunch, and the selection back after a boot? | All pairings; five cards that between them have missing, illegal and foreign values; menus, titles, installs and boots without limit. |
| `settings_waits` (violation) | Does a change whose install was interrupted wait for the next boot? | |
| `token` | Is the token handed out the loaded account's, the cache warm for the applet, and a lent applet's token its own server's? | Two threads, so that a build runs beside a load; two accounts, so that one can be the wrong one; titles, visits and relaunches without limit. |
| `sweep` | Do the library and the applet follow the selected Miiverse, and is only the list rewritten? | Two ranges, so that one can be missed; two threads and two handles, so that a handle can be closed by one and reused by the other; titles and visits without limit. The proofs have any number of each. |
| `youtube` | Does a run give back what it took, answer as its start said, refuse the same names under either nesting, and keep the shares' rate and token? | Two shares a minute of two steps and a clock of three, so that a minute fills, ends and is overtaken by a late reading; two workers; two starts that make a token, so that a page can be an old one. The proofs have no bound. |

The two violation runs are the findings of `PROJECT.json`:

* **A half-applied account server** (`settings_waits`). A setting changed together with an
  install that is cut off is said to wait for the next boot. The next application start applies
  it to the security processor, while the name hooks and token requests keep the old server.
* **A lend that is put back wrong** (`lend_race`). Two requests inside `account_lend()` at once
  overwrite the saved URL, and the console stays on the other account server.

Six smaller disagreements between comment and code are in the models and are not run:

* `route_applet` calls `account_take_back` when its lend was refused, "a no-op when the lend
  refused" (`token.cpp:591`): it takes back the lend of another request, if one is out. That request's
  call then goes to the wrong server (`crossed` in `AccountLend`).
* `account_apply` writes at the start of every title, with nothing to keep it from a request that another
  process has in its real call: with Protarium's URL lent it writes Pretendo's over it, and that call goes to
  the wrong server too (`crossed`). The take-back afterwards puts right what it wrote.
* A new share is refused "within a minute of the last one that reached the post screen"
  (`olv_share.h:30`): the minute is counted from the reading of the result. A hook of the HOME Menu reads it
  while the screen is only asked for, and the minute may be over when the screen closes (`closed` in `OlvShare`).
* The body takes its community from the setting (`olv_share.cpp:793`), and the library is compared with the
  setting read anew (696), which is meant to keep a post off "another Miiverse": changed in between, the
  post goes to the Miiverse selected last with the other's community (`moved`).
* The non-blocking handshake is "cleared for the rest of the process" (`proxy.cpp:644`): the flag is
  a global, and stays cleared for every later process of the boot.
* An account switch "cannot happen inside a single applet launch" (`token.cpp:441`), so the cached token is
  handed out without asking for its slot: a rebuild that failed after the switch leaves the
  other account's (`excused` in `TokenCache`).

### Assumptions of the runs

| Constant | Says | Where the code leans on it |
|---|---|---|
| `slow_menu` (a variable of `UpdateInstall`, either value) | Nobody opens the config menu, chooses and backs out within the last instructions of an install thread | `update_install_begin` resets flags that thread is still reading. `OnceOnly`, `OwedRelaunch` and `FailureTold` are claimed under it, and `RelaunchedOnce` is proved of it; the rest do without. |
| `LendsApart = TRUE` (`lend_apart`) | No two requests handle the URL at once; they overlap during the real call, and a title starts at any moment | the comment at `account.cpp:548`. `lend_race` is what happens without it. |
| `ThreadFirst = TRUE` (`share`) | The share thread stores `Launched` before the screen it asked for is up | a screen takes seconds to come up, the store is the thread's next instruction. The proofs have it either way. |
| `KnockReaches = TRUE` (`proxy_run`) | A descriptor is left to knock with | `proxy_stop` joins a thread that only the knock wakes; without one the join never returns, which the code cannot help. Only liveness leans on it. |
| `ReloadAlone = TRUE` (`spotpass_boot`) | A plugin reload and a changed setting do not meet in one boot | a reload forgets what was applied. Without it two networks can be written. |

Further limits: a share's request is answered, and the screen it asked for comes up, well within a minute; the minute
between screens is one process's, as in the code; between the store of `Done` and the clearing of the stamp (`olv_share.cpp:402`, `403`)
a posted share reads as failed, of which nothing is claimed; `OlvSweep!Sweep` is one step, though the code sets `foreground_done`
before it swaps (`olv.cpp:644`); `AccountLend`, `SpotPass` and `UpdateCheck` follow one boot each, since a boot restores
everything they keep; in `Settings`, the callbacks of a visit are not cut by an install's thread
other than by the relaunch it makes.

The bounds that stand in a guard are `SHARE_PER_MINUTE`, `MINUTE`, `MaxStarts` and `MaxTime` of
`YouTube`, and the code's own count of lookups in `UpdateCheck`; every other run ends because its states
come round.

Where the code itself gives up, a variable of the model records it and the property
claims nothing for that stretch:

| Variable | Set when | Cleared by |
|---|---|---|
| `excused` (`TokenCache`) | a rebuild failed, or an account was loaded while another thread was between its read and its store | the next build or load without company |
| `strayed` (`TokenCache`) | `act` fetched a token without a lend, or loaded an account, since the last routed fetch | the next fetch through a lend |
| `missed` (`OlvSweep`) | a search was refused, came before the library was whole, or left a place it could not write | the next trigger, or the next title |
| `torn` (`OlvSweep`) | the list is open but its handle is not stored yet, or was left behind by a process that ended | the store, or the close, if no other thread is between its two stores |
| `strayed` (`YouTube`) | the start's trigger was spent before the start was through, or it found a load left over from an earlier process | the next start |
| `crossed` (`AccountLend`) | a title's start wrote over the lend of a request, or another request took it back | the end of that request |
| `spoiled` (`AccountLend`) | the write back failed, or a process died owing it | nothing: the code does not mend it before a boot |
| `closed = "result read"` (`OlvShare`) | the post screen closed and its result had been read before | a minute, or the next process |
| `moved` (`OlvShare`) | the menu changed the Miiverse between a share's body and its look at the library | the next body or process |

### Fairness

* Threads of a process that lives are scheduled (`WF` of each thread's step). A thread's call
  that nothing ends (a relay on a socket nobody broke, the blocking handshake, `accept()` with
  nobody knocking) gets none: `Hangs` names them in `YouTubeProxy`.
* The user comes back to the Wii U Menu (`UpdateInstall`, `UpdateCheck`), which every liveness
  claim of theirs is conditional on. `SF` is used where the hook that must run is disabled now
  and then by the user leaving again, and for a process that was asked to end.
* Titles keep being started, and some can open a handle to IOSU (`SpotPass`); a post screen
  that was asked for comes up (`OlvShare`).
* `AccountLend`, `TokenCache`, `OlvSweep`, `YouTube` and `Settings` state no fairness: their claims are
  of safety only.
* No fairness is put on a failure, a power cut, a user's choice or a retry's success.

## Proofs

The proofs are for every value of the constants and behaviours of any length.

**Installer** (`UpdateInstallProofs`). `PluginNeverLost` is not inductive alone: the swap drops the old
backup and moves the installed file away, so one must know that a plugin is in hand before each.
`IInv` adds: only whole plugins have either name (`OnlyPlugins`); `.part` is the new plugin once
verified (`PartIsNew`); what is in place at each step of the swap (`OneInHand`); the state while the
thread works is DOWNLOADING, SWAPPING, or INTERRUPTED with the hook waiting (`StateAtWork`); and
an install begins only as the last one is over (`BeginsAlone`). `Inductive` proves it, one lemma
per group of actions; `TypeCorrect`, `NeverLost`, `OnlySwapping` and `ImplementsCard` (the
refinement of `PluginCard`, step by step) follow. Two more invariants lean on it. `Outcome`: the new plugin
is in place exactly when the state says so or the thread is about to (`InPlace`), and only the old plugin,
running under its own name, gets as far as a swap (`FromTheOld`); `Truthful` follows. `Ends`: only the menu's
process has a thread or a relaunch (`OfTheMenu`), the claim is one actor's from its exchange to its call
(`OneClaim`, where `slow_menu` holds), and the toast is posted by whoever finds it was not (`OneToast`);
`EndsWithTheMenu` and `RelaunchedOnce` follow.

**SpotPass** (`BootProofs`). What the long slot proves is the module that wrote it, since it holds
a module's string only until this plugin's own replaces it (`Proved`): this makes
`WritesOnlyOverTheirs` inductive, with no assumption. `NeverSplit` needs `ReloadAlone` and a second
invariant (`Written`): what was written names the applied destination, or, after a reload, the setting that
has not changed. `PolicyFollows` is inductive with the type: a policy slot moves only in a call whose refresh
follows.

**Update check** (`BootProofs`). The thread and the hook hand each other the state: a thread is there only
while it is CHECKING or WRITING, or INTERRUPTED with the hook waiting (`AtWork`), and whatever was started or
answered holds the once-per-boot mark (`OnceStarted`). So no actor is at a step that writes over an answer:
`Stands`, for any number of tries and run numbers. `newer()` is the strict order of versions (`NewerIsHigher`), and what
`classify()` takes for an update, out of whatever text, is on the running line and the highest there
(`HighestOfTheLine`), hence `OnlyNewer`. `Offered` is `OfferedIsPublished` for any set of versions and any that runs,
over lists of up to two releases: a text tells of its list what it has come to (`TakenOf`, by way of `Tells` for the
whole text), each search finds what belongs to the release at that tag (`NextTag`, `DraftAt`, `Reads`) or runs into the end
of the text, and a release whose notes were found is all there, so that it is no draft and lists what it was
published with (`Installs`). The concatenation of the list, which the library defines recursively, is
unfolded for each length (`FlattenOne`, `FlattenTwo`); this is why the lists stop at two.

**Settings** (`SettingsProofs`). For any set of stored values. `AlwaysOffered` rests on a fact about
`choice.h` (the default of each pairing is one of its answers); `NeverForgotten` on an invariant that
follows a change from the flag to the install (`Remembered`) and says that a finished install's
relaunch waits only behind something (`WaitsBehind`); `SurvivesBoot` on storage and settings being
level after every callback (`StoredInv`).

**Account lend** (`AccountLendProofs`). For any number of requests of either kind and titles starting at any
moment, from `LendsApart` alone. What is put back is read before the lend and used after the call, so
the invariant is the account of who owes what: one request at a time is inside the handling of the URL
and none while a lend is out (`OneHandles`), a lend is one request's that nothing has crossed (`OneLends`), the URL is the
server's from the lending write on unless it was crossed (`PointsThere`), and `lent_original` holds what was there before
for as long as it is owed, whatever a title's start writes meanwhile (`Ledger`). `GoesThere` and `ComesBack` follow;
only the first excepts `crossed`.

**YouTube** (`YouTubeProofs`). For any number of workers, starts and any rate. The invariant says that
the snapshot is the one this process began with (`Snapshot`), that what ContentRedirection holds is
what `youtube.cpp` believes it holds (`Layering`), that a token that is known is this page's or no
page's (`Tokens`), and how far the library's load has come (`Loads`). `GivenBack`, `AsStarted`
and `AsOffered` follow. `EitherWay` is about the tables of `NameHooks` and `getaddrinfo()` only.

**Rate of shares** (`YouTubeProofs`). `RateKept`, for any limit, minute and order of readings. The ring's oldest
entry is what a take is compared with, so takes at one place of the ring are a minute apart by the times that were
read; takes within a minute therefore lie at different places, and there are no more of these than the limit.

**A share** (`YouTubeProofs`). For any number of workers. Whoever turned the state to Running owns it, and hands it on:
the worker to the thread it starts, the thread to the screen, the screen to the hook (`OneOwner`). A worker that has looked
finds no thread for as long as it goes on (`ThreadGone`), the body is the selected Miiverse's and then the
library the body's, unless the setting `moved` in between (`BuiltForIt`), who has found no gap finds no screen either, and a result
that is due is in the gap or with the hook (`NoScreen`), and the hook stamps and clears inside the gap of its own share
(`HookClears`): `OneAtATime`, `ScreensApart`, `FailureStays` and `PostedWhereBuilt` follow, the last of which no run checks.

**Token hooks** (`TokenCacheProofs`). For any number of threads and accounts. What is built once the account is all there is
built from it, whether it is still to be stored or is stored (`BuiltFromIt`); where a token can be built it is there or a
thread is at it (`WarmOrWarming`); and what act keeps since a routed fetch is the Miiverse's own server's
(`KeepsOwn`). `OfTheAccount`, `AppletFindsOne` and `AppletGetsOwn` follow, with the excuses the properties name.

**Proxy** (`YouTubeProxyProofs`). For any number of slots and failures. A start finds nobody at work and owes NSSL what it says
once it has forgotten the process before (`Begun`); an accept thread lives between its start and a join that no stop skips,
with the context up (`Accepts`); a worker has its slot and the context, and a slot a worker (`Held`); a connection is on a
socket, between its making and its drop (`Sockets`). `ContextOutlives`, `Balanced` and `NoSlotLost` follow, and, by an
invariant of its own, `ServedWhileUp`: no lookup is answered with a port that nobody serves.

**URL swap** (`OlvSweepProofs`). For any number of ranges, threads and handles. Three invariants, which
share nothing but the settings. For the library: all ranges hold the same slot unless one was missed
(`Together`), which one it is before the sweep (`Unswept`), and that the gate is still open and the
trigger armed there (`Gate`); then `SweepEffect` says what the sweep leaves (`Left`). For the applet the property
is inductive with its type. For its files: two threads never have one handle, and a handle being kept
is the list's (`Held`, `Kept`). `TitleFollows`, `VisitFollows` and `ListOnly` follow.

The type invariants, `OnlySwapping`, `OnlyNewer` with the two it rests on, `PostedWhereBuilt` and `ServedWhileUp` are theorems which
no run checks by name.

Every safety property that a passing run checks is a theorem. Only model-checked: liveness (`OwedRelaunch`,
`FailureTold`, `Settles`, `InterruptedRunsAgain`, `CheckEnds`, `StopReturns`, `WorkersLeave`, `GetsThere`), which is
outside the prover's reach, and lists of more than two releases, which neither has. The two violations are TLC's.

## Not modelled

* The app patches but for the start url, the memory scan, the plaza reset and the Roseverse import:
  straight-line code with one actor, whose risk is in the bytes.
* Output: log, trace, status lines, toasts' wording.
* What travels through the proxy and how requests are rewritten: a choice of outcome.
* The share endpoint's form parser, and an allowlist key that lies over the end of one read: both are about
  single bytes.
* A lock that stays held because its process ended inside it (`share_body()`, `sNsslLock`): the locks are
  folded into the steps they guard. They are listed as hazards without a property.
* The list of recent names of `dns.cpp`: shared with no lock, but read by the Debug page only.

## Plan

In the order of what matters most to the system. Done: the installer with its card and proofs; the
lend with its proofs; the share, the check with its release list, and the proxy; SpotPass and the settings with their
proofs; the token hooks; the URL swap and the YouTube patcher; the proofs of all of them. Left:

1. Proofs: `Offered` for lists of any length, by induction on the list (through the well-foundedness of the naturals, since a
   theorem with an operator parameter cannot be instantiated); the safety halves of the liveness claims, where they
   can be stated as an owner or a measure (who is left to wake the stop, to tell the failure).
2. `YouTubeProxy` with the NSSL lock of a worker that dies and the share endpoint's lock, composed with
   `OlvShare` at the worker.
3. `TokenCache` composed with `AccountLend` at the request, in place of a granted lend as an outcome; `Settings`
   shown to see the installer as `UpdateInstall` has it.
4. Pure algorithms over bounded inputs: the form parser (`split_form` of `youtube/share.cpp`), the rewriting of host
   names over read boundaries (`olv.cpp`), and the recent names of `dns.cpp` under two threads.
