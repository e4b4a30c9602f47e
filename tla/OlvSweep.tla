------------------------------ MODULE OlvSweep ------------------------------
(***************************************************************************)
(* The Miiverse URL swap: src/olv.cpp.                                     *)
(*                                                                         *)
(* Inkay, Protarium's module, writes its discovery host over Nintendo's in *)
(* every title that has the Miiverse library loaded when the title starts, *)
(* and in the applet every time that opens.  What it leaves behind is the  *)
(* key this plugin searches for and writes the selected Miiverse over: once*)
(* per title in the gap before the title's first instruction, in the       *)
(* foreground or at a token request, and in a library loaded later when the*)
(* loader reports it.  In the applet the browser's allowlist goes with it, *)
(* and one file is rewritten as it is read.  A slot and an allowlist record*)
(* are named for the service they name.                                    *)
(***************************************************************************)
EXTENDS Pairing

CONSTANTS
    Thread,         \* the applet's threads
    Handle,         \* file handles the applet can hold at once
    Place           \* ranges of the library that hold a discovery slot

\* What Inkay's two generations of builds write.
Build == {"Protaverse .lol", "Protaverse .online"}
Slot == {"Nintendo", "Juxt", "Roseverse"} \cup Build
Nothing == "nothing"

VARIABLES
    target,             \* the snapshot of the selected Miiverse
    relaunch,           \* the menu owes the console a relaunch
    build,              \* the Inkay installed
    account_url,        \* whether account.cpp has read which one that is, at the boot
    title,              \* how far the process has come; none between two of them
    library,            \* what each place holds, "absent" while it is not loaded
    watching,           \* rpl_loaded() is on this process's callback list
    premain_armed,
    foreground_done,
    missed,             \* a search of this library was refused, spent too early or left a place
    applet,             \* the Miiverse applet: its state, its slot and its allowlist record
    file,               \* what each of the applet's handles is open on
    pc,                 \* where each of its threads is in a file hook
    tld_open, tld_handle,
    torn,               \* tld_open is set beside a handle that is not the list's, or was left
    spoiled             \* bytes of another file have been rewritten

boot == <<target, relaunch, build, account_url>>
process == <<title, library, watching, premain_armed, foreground_done, missed>>
reads == <<file, pc, tld_open, tld_handle, torn, spoiled>>
vars == <<boot, process, applet, reads>>

Closed == [state |-> "closed", slot |-> Nothing, allowed |-> Nothing, missed |-> FALSE]
NoFiles == [h \in Handle |-> "free"]
Idle == [step |-> "idle", handle |-> Nothing]

Init ==
    /\ target \in Miiverse
    /\ relaunch = FALSE
    /\ build \in Build
    /\ account_url \in BOOLEAN
    /\ title = "none"
    /\ library = [p \in Place |-> "absent"]
    /\ watching = FALSE /\ premain_armed = FALSE /\ foreground_done = FALSE
    /\ missed = "no"
    /\ applet = Closed
    /\ file = NoFiles
    /\ pc = [t \in Thread |-> Idle]
    /\ tld_open = FALSE /\ tld_handle = Nothing
    /\ torn = FALSE /\ spoiled = FALSE

Loaded == \E p \in Place : library[p] # "absent"

-----------------------------------------------------------------------------
\* url_replacement(): on Protaverse there is nothing to write.
url_replacement == IF target = "Protaverse" THEN Nothing ELSE target

\* late_replacement(): a late load holds Nintendo's slot on every setting.
late_replacement ==
    IF target # "Protaverse" THEN target
    ELSE IF account_url THEN build ELSE Nothing

\* The places a search in all of `range` finds something to write over in: the newer
\* build's slot, and the older one's only where that found nothing.
Hits(slots, range) ==
    LET Of(key) == {p \in range : slots[p] = key}
    IN  IF Of("Protaverse .online") # {} THEN Of("Protaverse .online") ELSE Of("Protaverse .lol")

\* A sweep bounded to the library's own ranges searches each of them by itself; the fallback
\* searches all of MEM2 at once.
SweepHits == UNION {Hits(library, {p}) : p \in Place}
FallbackHits == Hits(library, Place)

\* swap_all(): every hit is written but those with no physical address.
Swapped(slots, hits, left, replacement) ==
    [p \in DOMAIN slots |-> IF p \in hits \ left THEN replacement ELSE slots[p]]

\* apply_sweep(): once per title, and only with the library loaded.
Sweep ==
    IF url_replacement = Nothing \/ foreground_done \/ ~Loaded
    THEN UNCHANGED <<library, foreground_done, missed>>
    ELSE \/ \E hits \in {SweepHits, FallbackHits}, left \in SUBSET Place :
                /\ left \subseteq hits
                /\ library' = Swapped(library, hits, left, url_replacement)
                /\ foreground_done' = TRUE
                /\ missed' = IF missed = "for good" \/ left # {} \/ title = "starting"
                             THEN "for good" ELSE "no"
         \/ \* neither the ranges nor the memory bounds: the next trigger has another turn
            /\ missed' = IF missed = "for good" THEN missed ELSE "this turn"
            /\ UNCHANGED <<library, foreground_done>>

-----------------------------------------------------------------------------
\* The slip of a gate that is not opened again: plugin globals outlive the process.
StartBehindGate(early) ==
    /\ title = "none"
    /\ title' = "starting"
    /\ library' = [p \in Place |-> IF early THEN "Nintendo" ELSE "absent"]
    /\ missed' = "no"
    /\ watching' = TRUE
    /\ premain_armed' = TRUE
    /\ UNCHANGED <<boot, foreground_done, applet, reads>>

\* ON_APPLICATION_START: reset_olv_sweep(), olv_watch_late_loads(), olv_arm_premain().  The
\* title may have the library loaded already.
ApplicationStart(early) ==
    /\ title = "none"
    /\ title' = "starting"
    /\ library' = [p \in Place |-> IF early THEN "Nintendo" ELSE "absent"]
    /\ foreground_done' = FALSE /\ missed' = "no"
    /\ watching' = TRUE
    /\ premain_armed' = TRUE
    /\ UNCHANGED <<boot, applet, reads>>

\* Inkay's all-starts-done hook.
ModuleWrites ==
    /\ title = "starting"
    /\ title' = "written"
    /\ library' = [p \in Place |-> IF library[p] = "Nintendo" THEN build ELSE library[p]]
    /\ UNCHANGED <<boot, watching, premain_armed, foreground_done, missed, applet, reads>>

\* OSCheckActiveThreads(): the first call after the arming, which should be the loader's on
\* its way to the title's entry point, but is any other caller's that comes before it.
OSCheckActiveThreads ==
    /\ title \in {"starting", "written"}
    /\ IF premain_armed
       THEN premain_armed' = FALSE /\ Sweep
       ELSE UNCHANGED <<premain_armed, library, foreground_done, missed>>
    /\ title' = IF title = "written" THEN "running" ELSE title
    /\ UNCHANGED <<boot, watching, applet, reads>>

\* olv_apply_foreground() and olv_apply_for_token().
ForegroundOrToken ==
    /\ title = "running"
    /\ Sweep
    /\ UNCHANGED <<boot, title, watching, premain_armed, applet, reads>>

\* rpl_loaded(): every key the slot can hold, the selected Miiverse's own excepted.
LateSwapped(slots, left) ==
    IF ~watching \/ late_replacement = Nothing THEN slots
    ELSE Swapped(slots, {p \in Place : slots[p] \in {"Nintendo"} \cup Build}, left, late_replacement)

\* The title loads the library for itself.
LateLoad ==
    /\ title = "running" /\ ~Loaded
    /\ \E left \in SUBSET Place :
        /\ library' = LateSwapped([p \in Place |-> "Nintendo"], left)
        /\ missed' = IF left = {} THEN "no" ELSE "for good"
    /\ UNCHANGED <<boot, title, watching, premain_armed, foreground_done, applet, reads>>

\* And lets it go.
Unload ==
    /\ title = "running" /\ Loaded
    /\ library' = [p \in Place |-> "absent"]
    /\ UNCHANGED <<boot, title, watching, premain_armed, foreground_done, missed, applet,
                   reads>>

\* The process ends, and its callback list with it.
TitleEnds ==
    /\ title = "running" /\ applet.state = "closed"
    /\ title' = "none"
    /\ library' = [p \in Place |-> "absent"]
    /\ watching' = FALSE
    /\ missed' = "no"
    /\ UNCHANGED <<boot, premain_armed, foreground_done, applet, reads>>

-----------------------------------------------------------------------------
\* The applet opens over the title, in a process of its own.
AppletOpens ==
    /\ title = "running" /\ applet.state = "closed"
    /\ applet' = [state |-> "open", slot |-> "Nintendo", allowed |-> "Nintendo", missed |-> FALSE]
    /\ UNCHANGED <<boot, process, reads>>

\* Inkay's hook on the same call: it writes the slot and the record every time.
Theirs(a) == [a EXCEPT !.slot = build, !.allowed = build]

\* repoint_applet(): the URL where the memory bounds can be read, the record in a window of
\* its own either way.  A write that does not take leaves either as it was.
Repointed(a) ==
    IF url_replacement = Nothing THEN {a}
    ELSE LET Over(field, taken) ==
               IF taken /\ field \in Build THEN url_replacement ELSE field
         IN  {[a EXCEPT !.slot = Over(@, "slot" \in took), !.allowed = Over(@, "allowed" \in took),
                        !.missed = took # {"slot", "allowed"}] : took \in SUBSET {"slot", "allowed"}}

\* The slip of a swap before the open it hooks: where the hooks nest the other way round,
\* Inkay has not had its turn.
PointedFirst(a) ==
    Repointed(Theirs(a)) \cup {Theirs(b) : b \in Repointed(a)}

\* FSOpenFile on initial.oma: the real call first, so that Inkay's work is done whichever of
\* the two is outermost.
Pointed(a) == Repointed(Theirs(a))

OpenTrigger ==
    /\ applet.state = "open"
    /\ \E pointed \in Pointed(applet) : applet' = [pointed EXCEPT !.state = "pointed"]
    /\ UNCHANGED <<boot, process, reads>>

\* FSOpenFile on any other file.  The list's handle is kept on Roseverse, in two stores.
OpenFile(t) ==
    /\ applet.state = "pointed" /\ pc[t] = Idle
    /\ \E h \in Handle, on \in {"list", "other"} :
        /\ file[h] = "free"
        /\ file' = [file EXCEPT ![h] = on]
        /\ IF on = "list" /\ target = "Roseverse"
           THEN /\ pc' = [pc EXCEPT ![t] = [step |-> "store", handle |-> h]]
                /\ tld_open' = TRUE
                /\ torn' = (torn \/ tld_handle # h)
           ELSE UNCHANGED <<pc, tld_open, torn>>
    /\ UNCHANGED <<boot, process, applet, tld_handle, spoiled>>

StoreHandle(t) ==
    /\ pc[t].step = "store"
    /\ tld_handle' = pc[t].handle
    /\ pc' = [pc EXCEPT ![t] = Idle]
    /\ torn' = (torn /\ \E q \in Thread \ {t} : pc[q].step = "store")
    /\ UNCHANGED <<boot, process, applet, file, tld_open, spoiled>>

\* FSReadFile: rewrite_tld() over what was read, for the handle that is tracked.
ReadFile(t) ==
    /\ pc[t] = Idle
    /\ \E h \in Handle :
        /\ file[h] # "free"
        /\ spoiled' = (spoiled \/ (tld_open /\ tld_handle = h /\ file[h] = "other" /\ ~torn))
    /\ UNCHANGED <<boot, process, applet, file, pc, tld_open, tld_handle, torn>>

\* The slip of a handle forgotten once the close is back.
CloseFileThenForget(t) ==
    \/ /\ pc[t] = Idle
       /\ \E h \in Handle :
            /\ file[h] # "free" /\ \A q \in Thread : pc[q].handle # h
            /\ file' = [file EXCEPT ![h] = "free"]
            /\ pc' = [pc EXCEPT ![t] = [step |-> "close", handle |-> h]]
       /\ UNCHANGED <<boot, process, applet, tld_open, tld_handle, torn, spoiled>>
    \/ /\ pc[t].step = "close"
       /\ tld_open' = (tld_open /\ tld_handle # pc[t].handle)
       /\ pc' = [pc EXCEPT ![t] = Idle]
       /\ UNCHANGED <<boot, process, applet, file, tld_handle, torn, spoiled>>

\* FSCloseFile: the handle is forgotten, and then closed, unless the close fails.
CloseFile(t) ==
    \/ /\ pc[t] = Idle
       /\ \E h \in Handle :
            /\ file[h] # "free" /\ \A q \in Thread : pc[q].handle # h
            /\ tld_open' = (tld_open /\ tld_handle # h)
            /\ torn' = (torn /\ (tld_open' \/ \E q \in Thread : pc[q].step = "store"))
            /\ pc' = [pc EXCEPT ![t] = [step |-> "close", handle |-> h]]
       /\ UNCHANGED <<boot, process, applet, file, tld_handle, spoiled>>
    \/ /\ pc[t].step = "close"
       /\ file' \in {file, [file EXCEPT ![pc[t].handle] = "free"]}
       /\ pc' = [pc EXCEPT ![t] = Idle]
       /\ UNCHANGED <<boot, process, applet, tld_open, tld_handle, torn, spoiled>>

\* The applet's process ends with what it had open.  The globals keep the handle.
AppletCloses ==
    /\ applet.state # "closed"
    /\ applet' = Closed
    /\ file' = NoFiles
    /\ pc' = [t \in Thread |-> Idle]
    /\ torn' = tld_open
    /\ UNCHANGED <<boot, process, tld_open, tld_handle, spoiled>>

-----------------------------------------------------------------------------
\* olv_set_target(), from the config menu, which the applet has none of.
Choose(chosen) ==
    /\ title = "running" /\ applet.state = "closed" /\ chosen # target
    /\ target' = chosen
    /\ relaunch' = TRUE
    /\ UNCHANGED <<build, account_url, process, applet, reads>>

\* account_init() reads off the account URL which build wrote it, if IOSU can be read.
account_init == account_url' \in BOOLEAN

Relaunch ==
    /\ relaunch /\ applet.state = "closed"
    /\ relaunch' = FALSE
    /\ account_init
    /\ title' = "none"
    /\ library' = [p \in Place |-> "absent"]
    /\ watching' = FALSE /\ premain_armed' = FALSE /\ foreground_done' = FALSE
    /\ missed' = "no"
    /\ tld_open' = FALSE /\ tld_handle' = Nothing /\ torn' = FALSE
    /\ UNCHANGED <<target, build, applet, file, pc, spoiled>>

Next ==
    \/ \E early \in BOOLEAN : ApplicationStart(early)
    \/ ModuleWrites \/ OSCheckActiveThreads \/ ForegroundOrToken
    \/ LateLoad \/ Unload \/ TitleEnds
    \/ AppletOpens \/ OpenTrigger \/ AppletCloses
    \/ \E t \in Thread : OpenFile(t) \/ StoreHandle(t) \/ ReadFile(t) \/ CloseFile(t)
    \/ \E chosen \in Miiverse : Choose(chosen)
    \/ Relaunch

Spec == Init /\ [][Next]_vars

-----------------------------------------------------------------------------
\* The slots the library may be left with: the selected Miiverse's, and on Protaverse what
\* Inkay wrote, or Nintendo's in a late load where its build is not known.
Wanted ==
    IF target # "Protaverse" THEN {target}
    ELSE {build} \cup (IF account_url THEN {} ELSE {"Nintendo"})

\* A title that runs reads the selected Miiverse's discovery host however its library came to
\* be loaded, early, late or again, unless a search was refused or spent before Inkay's
\* write: "it lands after their Miiverse write whatever order the modules loaded in".
LibraryFollows ==
    /\ title = "running" /\ Loaded /\ missed = "no" /\ ~relaunch
       => \A p \in Place : library[p] \in Wanted

\* On every visit the applet's slot and the only domain its browser opens name one service,
\* the selected one, unless a write of this visit did not take: "it has to follow the
\* discovery URL, or the applet refuses the page it was just sent to".
AppletFollows ==
    applet.state = "pointed" /\ ~applet.missed
        => /\ applet.slot = applet.allowed
           /\ applet.slot = IF target = "Protaverse" THEN build ELSE target

\* No file but the suffix list is ever rewritten, with handles reused by other threads as
\* soon as they are closed: "four bytes written into the middle of a file this has no
\* business touching".  Not while the two stores of an open are apart, or after a visit that
\* ended with the list open (torn).
OnlyTheList == ~spoiled
==============================================================================
