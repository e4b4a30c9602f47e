------------------------------ MODULE SpotPass ------------------------------
(***************************************************************************)
(* Moving SpotPass: spotpass_apply() of src/spotpass.cpp, over one boot of *)
(* the console.                                                            *)
(*                                                                         *)
(* Every application start calls it, in whichever title that is.  The long *)
(* tasksheet slot says which of Protarium's modules the console has, once; *)
(* each slot is then moved if it still holds exactly what that module      *)
(* leaves there.  Reads fail for a while after a cold boot, a write can    *)
(* fail at any word, and no result but the layout and the destination      *)
(* outlives the call.  A slot's string is named by whose it is.            *)
(***************************************************************************)
CONSTANTS
    ReloadAlone     \* TRUE: no plugin reload in a boot where the setting changed without one

ASSUME SpotPassAssumption == ReloadAlone \in BOOLEAN

Slot == {"long", "short", "list", "host"}
Policy == {"list", "host"}

Layout == {"api", "npts", "online"}
Destination == {"pretendo", "roseverse"}

\* A slot's string: a module's, a destination's, part of one over part of another, or none
\* that this plugin knows.
String == Layout \cup Destination \cup {"torn", "other"}

VARIABLES
    module,         \* which module wrote the slots at boot; "other": none of the three
    before,         \* what this boot began with in each slot
    slots,          \* what each holds
    loaded,         \* the policy pair as the BOSS policy state last loaded it
    answering,      \* the addresses can be read by now
    chosen,         \* Config::spotpass
    applied,        \* have_applied, and applied with it
    layout,         \* the module this plugin has proved
    changed,        \* the setting changed since the boot, with no reboot
    reloaded,       \* the plugin was reloaded since
    failed          \* a write failed since

boot == <<module, before>>
console == <<slots, loaded>>
records == <<applied, layout>>
vars == <<boot, console, records, answering, chosen, changed, reloaded, failed>>

\* incumbent_for(): the older module leaves the policy pair on Pretendo.
Incumbent(s, l) == IF l = "api" /\ s \in Policy THEN "pretendo" ELSE l

Init ==
    /\ module \in Layout \cup {"other"}
    /\ before \in [Slot -> String \ {"torn"}]
    /\ \A s \in Slot :
        before[s] \in IF module = "other" THEN Destination \cup {"other"}
                                          ELSE {Incumbent(s, module), "other"}
    /\ slots = before
    /\ loaded = [s \in Policy |-> before[s]]
    /\ answering = FALSE
    /\ chosen \in Destination \cup {"protarium"}
    /\ applied = "none"
    /\ layout = "NotRead"
    /\ changed = FALSE
    /\ reloaded = FALSE
    /\ failed = FALSE

-----------------------------------------------------------------------------
(***************************************************************************)
(* spotpass_apply(), in a title's process that can open a handle to IOSU.  *)
(***************************************************************************)
\* The slip of moving again what has moved once in this boot.
AppliesAnew == chosen \in Destination

\* destination_for() leaves Protarium's alone, and "reboot to move" a second destination.
Applies == chosen \in Destination /\ applied \in {"none", chosen}

\* layout_of()
LayoutOf(string) == IF string \in Layout THEN string ELSE "NotRecognized"

\* recognize(), once per boot.
Recognizes(l) ==
    IF layout \in Layout THEN l = layout
                         ELSE l = LayoutOf(slots["long"]) \/ (~answering /\ l = "NotRead")

\* concerns()
Concerns(s, l) == ~(s \in Policy /\ chosen = "pretendo" /\ l = "api")

\* The slip of writing over any string that is not the destination's.
HoldsAnother(s, l) == slots[s] # chosen

\* The full-width comparisons of move_slot(): not there yet, and exactly the module's.
Holds(s, l) == slots[s] # chosen /\ slots[s] = Incumbent(s, l)

Moving(l) == {s \in Slot : l \in Layout /\ Concerns(s, l) /\ Holds(s, l)}

\* What comes of move_slot(): no read, a write that failed with none, some or all of the
\* bytes that differ in place, or a write.
Failure == {"kept", "torn", "whole"}
Outcome == Failure \cup {"written"} \cup (IF answering THEN {} ELSE {"unread"})

After(s, outcome) ==
    CASE outcome \in {"whole", "written"} -> chosen
      [] outcome = "torn" -> "torn"
      [] OTHER -> slots[s]

\* The slip of remembering only what came of the last slot.
MovedLast(outcomes) == "host" \in DOMAIN outcomes /\ outcomes["host"] = "written"

Moved(outcomes) == \E s \in DOMAIN outcomes : outcomes[s] = "written"

\* The calls for one destination.  After any move the policy state is told to load the pair
\* again, and nobody looks at whether it was.
Try ==
    \E l \in Layout \cup {"NotRead", "NotRecognized"} :
        /\ Recognizes(l)
        /\ layout' = l
        /\ \E outcomes \in [Moving(l) -> Outcome] : \E refreshed \in BOOLEAN :
            /\ refreshed => Moved(outcomes)
            /\ slots' = [s \in Slot |->
                    IF s \in DOMAIN outcomes THEN After(s, outcomes[s]) ELSE slots[s]]
            /\ loaded' = IF refreshed THEN [s \in Policy |-> slots'[s]] ELSE loaded
            /\ failed' = (failed \/ refreshed # Moved(outcomes)
                            \/ \E s \in DOMAIN outcomes : outcomes[s] \in Failure)

\* The slip of trying again only in a boot that has not written anything yet.
ApplyOnce ==
    /\ chosen \in Destination /\ applied = "none"
    /\ applied' = chosen
    /\ Try
    /\ UNCHANGED <<boot, answering, chosen, changed, reloaded>>

Apply ==
    /\ Applies
    /\ applied' = chosen
    /\ Try
    /\ UNCHANGED <<boot, answering, chosen, changed, reloaded>>

-----------------------------------------------------------------------------
\* The boot gets far enough for the addresses to answer.
Answers ==
    /\ ~answering
    /\ answering' = TRUE
    /\ UNCHANGED <<boot, console, records, chosen, changed, reloaded, failed>>

\* The setting changes and the relaunch for it does not come: an install took it over.
Change ==
    /\ ReloadAlone => ~reloaded
    /\ chosen' \in (Destination \cup {"protarium"}) \ {chosen}
    /\ changed' = TRUE
    /\ UNCHANGED <<boot, console, records, answering, reloaded, failed>>

\* "A plugin reloaded mid-session starts over with this boot's records gone, while its own
\* earlier writes are still in the slots."
Reload ==
    /\ ReloadAlone => ~changed
    /\ applied' = "none"
    /\ layout' = "NotRead"
    /\ reloaded' = TRUE
    /\ UNCHANGED <<boot, console, answering, chosen, changed, failed>>

Next == Apply \/ Answers \/ Change \/ Reload

Spec == Init /\ [][Next]_vars

\* Titles keep being started, and some of them can open a handle.
FairSpec == Spec /\ WF_vars(Apply) /\ WF_vars(Answers)

-----------------------------------------------------------------------------
\* The slots and the records hold what spotpass.cpp can put there: Protarium is never a
\* destination that was applied.
TypeOK ==
    /\ module \in Layout \cup {"other"}
    /\ before \in [Slot -> String]
    /\ slots \in [Slot -> String]
    /\ loaded \in [Policy -> String]
    /\ chosen \in Destination \cup {"protarium"}
    /\ applied \in Destination \cup {"none"}
    /\ layout \in Layout \cup {"NotRead", "NotRecognized"}
    /\ {answering, changed, reloaded, failed} \subseteq BOOLEAN

\* What this boot has written over.
Touched == {s \in Slot : slots[s] # before[s]}

\* "tasksheets on one network and the policy list on the other, which is the split this file
\* exists to prevent": whatever this plugin has written in a boot names one network.
OneNetwork ==
    \A s, t \in Touched : slots[s] # "torn" /\ slots[t] # "torn" => slots[s] = slots[t]

\* Only a string of the module the console really has is ever written over, judged by the
\* long slot and the slot itself, and never Pretendo's with Pretendo's.
OnlyTheirs ==
    \A s \in Touched :
        /\ module \in Layout
        /\ before["long"] = module
        /\ before[s] = Incumbent(s, module)

\* The policy state has loaded what the policy pair holds, unless a write failed: a boot's
\* later moves are told to it like its first ones.
PolicyFresh == failed \/ \A s \in Policy : loaded[s] = slots[s]

\* A destination that is applied gets every slot that was the module's own, over however
\* many application starts the addresses take to answer.
GetsThere ==
    \A d \in Destination :
        applied = d /\ module \in Layout /\ before["long"] = module
            ~> \/ \A s \in Slot : slots[s] = d \/ before[s] = "other"
               \/ failed \/ reloaded \/ chosen # d
=============================================================================
