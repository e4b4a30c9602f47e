----------------------------- MODULE TokenCache -----------------------------
(***************************************************************************)
(* The Miiverse token: src/token.cpp without the lend itself.              *)
(*                                                                         *)
(* On Roseverse a title's request is answered with a token built here, and *)
(* the applet's and the overlay's with the one built last.  On a routed    *)
(* pairing the request goes to the Miiverse's own account server, and the  *)
(* applet may take the token act (the console's account library) holds.    *)
(* Nothing is locked: a build reads the account in one moment and stores   *)
(* what it made in another.  How a lend comes to be granted or refused is  *)
(* AccountLend's.                                                          *)
(***************************************************************************)
EXTENDS Naturals, Pairing

CONSTANTS
    Thread,         \* threads of titles whose requests and hooks answer() and the hooks serve
    Slot            \* accounts of the console

Server == Account
NoToken == [slot |-> "none", whole |-> FALSE]
Token == [slot : Slot, whole : BOOLEAN] \cup {NoToken}

VARIABLES
    account, target,        \* the snapshots of the two settings
    have_cached,            \* cached_token may be handed out
    cached_slot,            \* the slot it was built for
    cached_token,           \* the account it was built from, and whether that was loaded by then
    routed_token_fresh,     \* a routed fetch has come back with a token
    applet_patches,         \* handlers in the applet's token function; applet_patch_installed
    overlay_patches,        \* the same for the overlay
    applet, overlay,        \* whether the process runs
    pc,                     \* where each thread is
    slot,                   \* the slot it builds for
    made,                   \* what it has built and not stored yet
    loaded,                 \* act: the account, and whether it has been loaded all the way
    held,                   \* act: the server that issued the Miiverse token it keeps
    keyed,                  \* the accounts a token can be built for on this console
    got,                    \* the server whose token the applet's last lent request came by
    relaunch,               \* the menu owes the console a relaunch
    warmed,                 \* a title has started under this target
    excused,                \* the last rebuild failed, or an account was loaded beside a build
    strayed                 \* what act keeps came another way since the last routed fetch

settings == <<account, target, relaunch>>
cache == <<have_cached, cached_slot, cached_token>>
patches == <<applet_patches, overlay_patches, applet, overlay>>
work == <<pc, slot, made>>
act == <<loaded, held>>
excuses == <<warmed, excused, strayed>>
vars == <<settings, cache, routed_token_fresh, patches, work, act, keyed, got, excuses>>

\* "loading" is inside the real LoadConsoleAccount; "rebuild" is a build for its hook.
Building == {"build", "warm", "rebuild"}
Storing == {"store_build", "store_warm", "store_rebuild"}
Place == {"idle", "copy", "pass", "route", "loading"} \cup Building \cup Storing

Routed == target # "Roseverse" /\ target # miiverse_for(account)

\* route()'s destination: on a routed pairing the account server that is not selected.
Own == IF account = "Protarium" THEN "Pretendo" ELSE "Protarium"

Fresh ==
    /\ have_cached = FALSE
    /\ cached_slot = "none"
    /\ cached_token = NoToken
    /\ routed_token_fresh = FALSE
    /\ applet_patches = 0
    /\ overlay_patches = 0
    /\ got = "none"
    /\ warmed = FALSE
    /\ excused = FALSE
    /\ strayed = FALSE

Init ==
    /\ account \in Account
    /\ target \in Miiverse
    /\ relaunch = FALSE
    /\ Fresh
    /\ applet = FALSE /\ overlay = FALSE
    /\ pc = [t \in Thread |-> "idle"]
    /\ slot = [t \in Thread |-> "none"]
    /\ made = [t \in Thread |-> NoToken]
    /\ loaded \in [slot : Slot, whole : {FALSE}]
    /\ held \in Server \cup {"none"}
    /\ keyed \in SUBSET Slot

Goto(t, place) == pc' = [pc EXCEPT ![t] = place]

-----------------------------------------------------------------------------
\* The cache is of the account act has now.
AnswersCached == have_cached /\ loaded.slot = cached_slot

\* answer(): a request for Miiverse's token in the Wii U Menu, a game, the HOME Menu or the
\* browser.
Ask(t) ==
    /\ pc[t] = "idle"
    /\ IF target = "Roseverse" /\ ~AnswersCached
       THEN Goto(t, "build") /\ slot' = [slot EXCEPT ![t] = loaded.slot]
       ELSE /\ Goto(t, IF target = "Roseverse" THEN "copy" ELSE IF Routed THEN "route" ELSE "pass")
            /\ UNCHANGED slot
    /\ UNCHANGED <<settings, cache, routed_token_fresh, patches, made, act, keyed, got, excuses>>

After(place) ==
    CASE place = "build" -> "store_build" [] place = "warm" -> "store_warm"
      [] place = "rebuild" -> "store_rebuild"

\* build_token(), up to the token: it reads the account act has now.  Before that one is
\* loaded nobody may be signed in, or only half of it may be there.
Build(t) ==
    /\ pc[t] \in Building
    /\ \/ /\ loaded.slot \in keyed
          /\ made' = [made EXCEPT ![t] = loaded]
          /\ Goto(t, After(pc[t]))
          /\ UNCHANGED <<slot, excused>>
       \/ /\ loaded.slot \notin keyed \/ ~loaded.whole
          /\ Goto(t, IF pc[t] = "build" THEN "pass" ELSE "idle")
          /\ slot' = [slot EXCEPT ![t] = "none"]
          /\ excused' = TRUE
          /\ UNCHANGED made
    /\ UNCHANGED <<settings, cache, routed_token_fresh, patches, act, keyed, got, warmed, strayed>>

\* The end of build_token(), and of build_token_from().
Store(t) ==
    /\ pc[t] \in Storing
    /\ cached_token' = made[t]
    /\ cached_slot' = slot[t]
    /\ have_cached' = TRUE
    /\ made' = [made EXCEPT ![t] = NoToken]
    /\ slot' = [slot EXCEPT ![t] = "none"]
    /\ Goto(t, IF pc[t] = "store_build" THEN "copy" ELSE "idle")
    /\ UNCHANGED <<settings, routed_token_fresh, patches, act, keyed, got, excuses>>

\* copy_token(): the caller has its answer.
Copy(t) ==
    /\ pc[t] = "copy"
    /\ Goto(t, "idle")
    /\ UNCHANGED <<settings, cache, routed_token_fresh, patches, slot, made, act, keyed, got,
                   excuses>>

-----------------------------------------------------------------------------
\* The real call, asked for a new token or willing to take the one act holds, and where it
\* gets one: `from` is the server that issued what the caller is handed.
Real(new, lent, from) ==
    \/ /\ ~new /\ from = held /\ held # "none"
       /\ UNCHANGED <<held, strayed>>
    \/ /\ from = IF lent THEN Own ELSE account
       /\ held' = from
       /\ strayed' = ~lent
    \/ /\ from = "none"
       /\ UNCHANGED <<held, strayed>>

\* Every wrapper's last line.
Pass(t) ==
    /\ pc[t] = "pass"
    /\ \E from \in Server \cup {"none"} : Real(FALSE, FALSE, from)
    /\ Goto(t, "idle")
    /\ UNCHANGED <<settings, cache, routed_token_fresh, patches, slot, made, loaded, keyed, got,
                   warmed, excused>>

\* route()
Route(t) ==
    /\ pc[t] = "route"
    /\ \E lent \in BOOLEAN, from \in Server \cup {"none"} :
        /\ Real(lent, lent, from)
        /\ routed_token_fresh' = (routed_token_fresh \/ (lent /\ from # "none"))
    /\ Goto(t, "idle")
    /\ UNCHANGED <<settings, cache, patches, slot, made, loaded, keyed, got, warmed, excused>>

-----------------------------------------------------------------------------
\* token_warm_cache() and token_reset_overlay_hook(): a title starts, and what ran over the
\* one before it is gone.
ApplicationStart(t) ==
    /\ pc = [q \in Thread |-> "idle"]
    /\ ~applet
    /\ overlay' = FALSE
    /\ overlay_patches' = 0
    /\ warmed' = TRUE
    /\ IF target = "Roseverse" /\ ~AnswersCached
       THEN Goto(t, "warm") /\ slot' = [slot EXCEPT ![t] = loaded.slot]
       ELSE UNCHANGED <<pc, slot>>
    /\ UNCHANGED <<settings, cache, routed_token_fresh, applet_patches, applet, made, act, keyed,
                   got, excused, strayed>>

\* load_console_account(), into the real function: act changes accounts in there.
Load(t, s) ==
    /\ pc[t] = "idle"
    /\ ~applet /\ ~overlay
    /\ \A q \in Thread : pc[q] # "loading"
    /\ loaded' = [slot |-> s, whole |-> FALSE]
    /\ held' \in Server \cup {"none"}
    /\ strayed' = TRUE
    /\ Goto(t, "loading")
    /\ UNCHANGED <<settings, cache, routed_token_fresh, patches, slot, made, keyed, got, warmed,
                   excused>>

\* The slip of a rebuild that is spared when the cache is for this slot already.
LoadedUnlessCached(t) ==
    /\ pc[t] = "loading"
    /\ loaded' = [loaded EXCEPT !.whole = TRUE]
    /\ excused' = (\E q \in Thread \ {t} : pc[q] \in Building \cup Storing)
    /\ IF target = "Roseverse" /\ cached_slot # loaded.slot
       THEN Goto(t, "rebuild") /\ slot' = [slot EXCEPT ![t] = loaded.slot]
       ELSE Goto(t, "idle") /\ UNCHANGED slot
    /\ UNCHANGED <<settings, cache, routed_token_fresh, patches, made, held, keyed, got,
                   warmed, strayed>>

\* The slip this hook began as: it marks the token stale and builds nothing.
LoadedMarksStale(t) ==
    /\ pc[t] = "loading"
    /\ loaded' = [loaded EXCEPT !.whole = TRUE]
    /\ have_cached' = FALSE
    /\ excused' = FALSE
    /\ Goto(t, "idle")
    /\ UNCHANGED <<settings, cached_slot, cached_token, routed_token_fresh, patches, slot, made,
                   held, keyed, got, warmed, strayed>>

\* The real function is back, and only now is what a token is built from true.
Loaded(t) ==
    /\ pc[t] = "loading"
    /\ loaded' = [loaded EXCEPT !.whole = TRUE]
    /\ excused' = (\E q \in Thread \ {t} : pc[q] \in Building \cup Storing)
    /\ IF target = "Roseverse"
       THEN Goto(t, "rebuild") /\ slot' = [slot EXCEPT ![t] = loaded.slot]
       ELSE Goto(t, "idle") /\ UNCHANGED slot
    /\ UNCHANGED <<settings, cache, routed_token_fresh, patches, made, held, keyed, got,
                   warmed, strayed>>

-----------------------------------------------------------------------------
\* resolve_act_token_function() and the patch: nn_act may not be loaded in that process, and
\* the patcher may refuse.
Installs == {0, 1}

\* token_apply_applet_hook(), from the applet's own file open: what an earlier visit left
\* comes out, and the handler goes in where there is something to do and nn_act is loaded.
AppletOpens ==
    /\ ~applet
    /\ \A t \in Thread : pc[t] \notin {"loading", "rebuild", "store_rebuild"}
    /\ applet' = TRUE
    /\ applet_patches' \in IF target = "Roseverse" \/ Routed THEN Installs ELSE {0}
    /\ UNCHANGED <<settings, cache, routed_token_fresh, overlay_patches, overlay, work, act,
                   keyed, got, excuses>>

\* The process goes, and the patch added in it is still registered.
AppletCloses ==
    /\ applet
    /\ applet' = FALSE
    /\ got' = "none"
    /\ UNCHANGED <<settings, cache, routed_token_fresh, applet_patches, overlay_patches, overlay,
                   work, act, keyed, excuses>>

\* aist_miiverse: answer_from_cache(), with nothing built and no slot asked for.
AppletAnswered == applet_patches = 1 /\ target = "Roseverse" /\ have_cached

\* The slip of an applet that always takes what act holds.
NeverSentZero(lent) == FALSE

\* `sent` of route_applet() is zero: a new token, whatever duration the applet asked for.
SentZero(lent) == lent /\ ~routed_token_fresh

\* route_applet()
AppletRoutes ==
    /\ applet /\ applet_patches = 1 /\ Routed
    /\ \E lent \in BOOLEAN, from \in Server \cup {"none"} :
        /\ Real(SentZero(lent), lent, from)
        /\ got' = IF lent THEN from ELSE "none"
        /\ routed_token_fresh' = (routed_token_fresh \/ (lent /\ from # "none"))
    /\ UNCHANGED <<settings, cache, patches, work, loaded, keyed, warmed, excused>>

\* The applet's request with no handler, or one that had nothing for it.
AppletPasses ==
    /\ applet
    /\ applet_patches = 0 \/ (~AppletAnswered /\ ~Routed)
    /\ \E from \in Server \cup {"none"} : Real(FALSE, FALSE, from)
    /\ UNCHANGED <<settings, cache, routed_token_fresh, patches, work, loaded, keyed, got,
                   warmed, excused>>

-----------------------------------------------------------------------------
\* fs_open_overlay() and token_apply_overlay_hook(): tried at every file open until it takes.
OverlayOpensFile ==
    /\ \A t \in Thread : pc[t] \notin {"loading", "rebuild", "store_rebuild"}
    /\ overlay' = TRUE
    /\ overlay_patches' \in IF overlay_patches = 1 \/ target # "Roseverse"
                            THEN {overlay_patches} ELSE Installs
    /\ UNCHANGED <<settings, cache, routed_token_fresh, applet_patches, applet, work, act, keyed,
                   got, excuses>>

\* aist_mini: on a routed pairing the overlay's own request is not lent anything.
OverlayPasses ==
    /\ overlay
    /\ ~(overlay_patches = 1 /\ target = "Roseverse" /\ have_cached)
    /\ \E from \in Server \cup {"none"} : Real(FALSE, FALSE, from)
    /\ UNCHANGED <<settings, cache, routed_token_fresh, patches, work, loaded, keyed, got,
                   warmed, excused>>

-----------------------------------------------------------------------------
\* token_set_target()
SetTarget(chosen) ==
    /\ target' = chosen
    /\ have_cached' = FALSE
    /\ warmed' = FALSE
    /\ UNCHANGED excused

\* A Miiverse chosen in the config menu, which the applet's process has none of.
Choose(chosen) ==
    /\ ~applet /\ ~overlay
    /\ chosen # target
    /\ SetTarget(chosen)
    /\ relaunch' = TRUE
    /\ UNCHANGED <<account, cached_slot, cached_token, routed_token_fresh, patches, work, act,
                   keyed, got, strayed>>

\* The relaunch the menu forces: the plugin starts over with what is stored, and act keeps
\* what it holds.  The account is loaded anew.
Relaunch ==
    /\ relaunch
    /\ relaunch' = FALSE
    /\ account' \in Account
    /\ have_cached' = FALSE /\ cached_slot' = "none" /\ cached_token' = NoToken
    /\ routed_token_fresh' = FALSE
    /\ applet_patches' = 0 /\ overlay_patches' = 0
    /\ applet' = FALSE /\ overlay' = FALSE
    /\ pc' = [t \in Thread |-> "idle"]
    /\ made' = [t \in Thread |-> NoToken]
    /\ slot' = [t \in Thread |-> "none"]
    /\ loaded' \in [slot : Slot, whole : {FALSE}]
    /\ got' = "none"
    /\ warmed' = FALSE /\ excused' = FALSE /\ strayed' = FALSE
    /\ UNCHANGED <<target, held, keyed>>

Next ==
    \/ \E t \in Thread : \/ Ask(t) \/ Build(t) \/ Store(t) \/ Copy(t) \/ Pass(t) \/ Route(t)
                         \/ ApplicationStart(t) \/ Loaded(t)
                         \/ \E s \in Slot : Load(t, s)
    \/ AppletOpens \/ AppletCloses \/ AppletRoutes \/ AppletPasses
    \/ OverlayOpensFile \/ OverlayPasses
    \/ \E chosen \in Miiverse : Choose(chosen)
    \/ Relaunch

Spec == Init /\ [][Next]_vars

-----------------------------------------------------------------------------
\* With an account loaded and its rebuild over, a token the applet could be handed is of that
\* account, and was built once it was all there, unless that build failed or ran beside
\* another: "that left a token built at an application start standing".
TokenOfTheAccount ==
    /\ loaded.whole /\ have_cached /\ target = "Roseverse" /\ ~excused
    /\ \A t \in Thread : pc[t] \notin {"rebuild", "store_rebuild"}
    => cached_token = loaded

\* Once a title has started and the account is loaded the cache is not empty when the applet
\* asks, wherever a token can be built at all: the applet cannot build one.
WarmForTheApplet ==
    /\ warmed /\ target = "Roseverse" /\ loaded.whole /\ loaded.slot \in keyed
    /\ \A t \in Thread : pc[t] = "idle"
    => have_cached

\* What the applet is handed under a lend was issued by the Miiverse's own account server,
\* unless act has come by another token since the last routed fetch: from a request that was
\* not lent anything, or with another account.
LentAppletGetsOwn ==
    [][got' # got /\ ~strayed => got' \in {"none", Own}]_vars

==============================================================================
