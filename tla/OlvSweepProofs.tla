----------------------------- MODULE OlvSweepProofs ----------------------------
(***************************************************************************)
(* Proofs about OlvSweep, for any number of ranges, threads and handles:   *)
(* which host a title's library and the applet are left with, and which    *)
(* file the applet's hooks rewrite.                                        *)
(***************************************************************************)
EXTENDS OlvSweep, TLAPS

BootType == target \in Miiverse /\ relaunch \in BOOLEAN /\ build \in Build /\ account_url \in BOOLEAN

TitleType ==
    /\ title \in {"none", "starting", "written", "running"}
    /\ library \in [Place -> Slot \cup {"absent"}]
    /\ watching \in BOOLEAN /\ premain_armed \in BOOLEAN /\ foreground_done \in BOOLEAN
    /\ missed \in {"no", "this turn", "for good"}

FileType ==
    /\ file \in [Handle -> {"free", "list", "other"}]
    /\ pc \in [Thread -> [step : {"idle", "store", "close"}, handle : Handle \cup {Nothing}]]
    /\ \A t \in Thread : pc[t].step # "idle" => pc[t].handle \in Handle
    /\ tld_open \in BOOLEAN /\ torn \in BOOLEAN /\ spoiled \in BOOLEAN

\* As long as no search was missed for good, every range holds the same slot, and which one
\* follows from how far the title has come.
Together == missed # "for good" => \A p, q \in Place : library[p] = library[q]
Unswept ==
    /\ title = "none" => \A p \in Place : library[p] = "absent"
    /\ title = "starting" => \A p \in Place : library[p] \in {"absent", "Nintendo"}
    /\ title = "written" => \A p \in Place : library[p] \in {"absent", build}
    /\ title = "running" => watching
    /\ title \in {"starting", "written"} => watching

\* The gate is open up to the sweep, and the trigger armed unless there was nothing to do.
Gate ==
    title \in {"starting", "written"} /\ missed # "for good" =>
        /\ ~foreground_done
        /\ missed = "no" /\ target # "Protaverse" /\ Loaded => premain_armed

\* What a running title can be left with: Inkay's, while the next trigger has another turn.
Left ==
    title = "running" /\ missed # "for good" /\ ~relaunch =>
        \A p \in Place :
            library[p] \in Wanted \cup {"absent"} \cup (IF missed = "no" THEN {} ELSE {build})

LibraryInv == BootType /\ TitleType /\ Together /\ Unswept /\ Gate /\ Left

\* A handle in a thread's hands is open, and no other thread has it; one that is being kept is
\* the list's, and the one that is kept is neither being closed nor another file.
Held ==
    /\ \A t \in Thread : pc[t].step # "idle" => file[pc[t].handle] # "free"
    /\ \A t \in Thread : pc[t].step = "store" => file[pc[t].handle] = "list"
    /\ \A t, q \in Thread :
           pc[t].step # "idle" /\ pc[q].step # "idle" /\ pc[t].handle = pc[q].handle => t = q
Kept ==
    tld_open /\ ~torn =>
        /\ tld_handle \in Handle /\ file[tld_handle] = "list"
        /\ \A t \in Thread : pc[t].step = "close" => pc[t].handle # tld_handle

FileInv == FileType /\ Held /\ Kept /\ ~spoiled
AppletType ==
    applet \in [state : {"closed", "open", "pointed"}, slot : Slot \cup {Nothing},
                allowed : Slot \cup {Nothing}, missed : BOOLEAN]
AppletInv == BootType /\ AppletType /\ AppletFollows

-----------------------------------------------------------------------------
(***************************************************************************)
(* The library                                                             *)
(***************************************************************************)

\* What url_replacement() is.
LEMMA Replacement ==
  ASSUME BootType
  PROVE  /\ url_replacement = IF target = "Protaverse" THEN Nothing ELSE target
         /\ target = "Protaverse" <=> url_replacement = Nothing
  BY DEF BootType, url_replacement, Miiverse, Nothing

\* Bounded or not, a search finds every place that holds what Inkay wrote.
LEMMA AllHit ==
  ASSUME TitleType, Together, missed # "for good"
  PROVE  /\ SweepHits = {p \in Place : library[p] \in Build}
         /\ FallbackHits = {p \in Place : library[p] \in Build}
<1>1. SweepHits = {p \in Place : library[p] \in Build}
  <2>1. ASSUME NEW p \in Place
        PROVE  Hits(library, {p}) = IF library[p] \in Build THEN {p} ELSE {}
    <3>1. \A key : {q \in {p} : library[q] = key} = IF library[p] = key THEN {p} ELSE {}
      OBVIOUS
    <3>2. Hits(library, {p}) = IF library[p] = "Protaverse .online" THEN {p}
                               ELSE IF library[p] = "Protaverse .lol" THEN {p} ELSE {}
      BY <3>1 DEF Hits
    <3> QED
      BY <3>2 DEF Build
  <2>2. \A q : q \in SweepHits <=> \E p \in Place : q \in Hits(library, {p})
    BY DEF SweepHits
  <2>3. ASSUME NEW q PROVE q \in SweepHits <=> q \in Place /\ library[q] \in Build
    <3>1. ASSUME NEW p \in Place
          PROVE  q \in Hits(library, {p}) <=> q = p /\ library[p] \in Build
      BY <2>1
    <3> QED
      BY <2>2, <3>1
  <2> QED
    BY <2>3
<1>2. FallbackHits = {p \in Place : library[p] \in Build}
  BY DEF FallbackHits, Hits, Build, Together
<1> QED
  BY <1>1, <1>2

\* What a sweep comes to.
LEMMA SweepEffect ==
  ASSUME LibraryInv, Sweep
  PROVE  \/ /\ UNCHANGED <<library, foreground_done, missed>>
            /\ target = "Protaverse" \/ foreground_done \/ ~Loaded
         \/ /\ foreground_done' = TRUE
            /\ missed' = "for good"
            /\ library' \in [Place -> Slot \cup {"absent"}]
            /\ title # "none"
         \/ /\ foreground_done' = TRUE
            /\ missed' = "no" /\ missed # "for good" /\ title # "starting" /\ title # "none"
            /\ target # "Protaverse"
            /\ library' =
                   [p \in Place |-> IF library[p] \in Build THEN target ELSE library[p]]
         \/ /\ UNCHANGED <<library, foreground_done>>
            /\ missed' = IF missed = "for good" THEN missed ELSE "this turn"
            /\ target # "Protaverse"
<1> USE Replacement DEF LibraryInv
<1>1. CASE url_replacement = Nothing \/ foreground_done \/ ~Loaded
  BY <1>1 DEF Sweep
<1>2. CASE ~(url_replacement = Nothing \/ foreground_done \/ ~Loaded)
  <2>1. url_replacement = target /\ target # "Protaverse" /\ target \in Slot
    BY <1>2 DEF BootType, Miiverse, Slot
  <2>2. title # "none"
    BY <1>2 DEF Unswept, Loaded
  <2>3. ASSUME NEW hits \in {SweepHits, FallbackHits}, NEW left \in SUBSET Place,
               left \subseteq hits,
               library' = Swapped(library, hits, left, url_replacement),
               foreground_done' = TRUE,
               missed' = IF missed = "for good" \/ left # {} \/ title = "starting"
                         THEN "for good" ELSE "no"
        PROVE  \/ missed' = "for good" /\ library' \in [Place -> Slot \cup {"absent"}]
               \/ /\ missed' = "no" /\ missed # "for good" /\ title # "starting"
                  /\ library' =
                        [p \in Place |-> IF library[p] \in Build THEN target ELSE library[p]]
    <3>1. library' = [p \in Place |-> IF p \in hits \ left THEN target ELSE library[p]]
      BY <2>1, <2>3 DEF Swapped, TitleType
    <3>2. CASE missed = "for good" \/ left # {} \/ title = "starting"
      BY <2>1, <2>3, <3>1, <3>2 DEF TitleType
    <3>3. CASE ~(missed = "for good" \/ left # {} \/ title = "starting")
      <4>1. hits = {p \in Place : library[p] \in Build}
        BY <3>3, AllHit
      <4> QED
        BY <2>3, <3>1, <3>3, <4>1
    <3> QED
      BY <3>2, <3>3
  <2> QED
    BY <1>2, <2>1, <2>2, <2>3 DEF Sweep
<1> QED
  BY <1>1, <1>2

\* Before Inkay's hook there is nothing to find.
LEMMA StartingUntouched ==
  ASSUME TitleType, Unswept, title = "starting", Sweep
  PROVE  \A p \in Place : library'[p] = library[p]
<1>1. \A p \in Place : library[p] \notin Build
  BY DEF Unswept, Build
<1>2. \A range \in SUBSET Place : Hits(library, range) = {}
  BY <1>1 DEF Hits, Build
<1>3. SweepHits = {} /\ FallbackHits = {}
  <2>1. Place \in SUBSET Place /\ \A p \in Place : {p} \in SUBSET Place
    OBVIOUS
  <2>2. \A p \in Place : Hits(library, {p}) = {}
    BY <1>2, <2>1
  <2>3. \A q : q \notin UNION {Hits(library, {p}) : p \in Place}
    BY <2>2
  <2> QED
    BY <1>2, <2>1, <2>3 DEF SweepHits, FallbackHits
<1> QED
  BY <1>3 DEF Sweep, Swapped, TitleType

\* A title's start opens the gate, arms the trigger and watches the loader.
LEMMA StartKeeps ==
  ASSUME LibraryInv, NEW early \in BOOLEAN, ApplicationStart(early)
  PROVE  LibraryInv'
<1> USE DEF LibraryInv, ApplicationStart, boot
<1>1. BootType' /\ TitleType'
  BY DEF BootType, TitleType, Slot
<1>2. Together' /\ Unswept' /\ Gate' /\ Left'
  BY DEF Together, Unswept, Gate, Left
<1> QED
  BY <1>1, <1>2

\* Inkay writes over what is Nintendo's.
LEMMA ModuleKeeps == LibraryInv /\ ModuleWrites => LibraryInv'
<1> SUFFICES ASSUME LibraryInv, ModuleWrites PROVE LibraryInv'
  OBVIOUS
<1> USE DEF LibraryInv, ModuleWrites, boot
<1>1. BootType' /\ TitleType'
  BY DEF BootType, TitleType, Slot
<1>2. \A p \in Place :
          library'[p] = IF library[p] = "Nintendo" THEN build ELSE library[p]
  OBVIOUS
<1>3. \A p \in Place : library[p] \in {"absent", "Nintendo"}
  BY DEF Unswept
<1>4. Together' /\ Unswept'
  BY <1>2, <1>3 DEF Together, Unswept
<1>5. Loaded' => Loaded
  BY <1>2 DEF Loaded
<1>6. Gate' /\ Left'
  BY <1>5 DEF Gate, Left
<1> QED
  BY <1>1, <1>4, <1>6

\* The gap before the title's first instruction, or a caller that came before it.
LEMMA TriggerKeeps == LibraryInv /\ OSCheckActiveThreads => LibraryInv'
<1> SUFFICES ASSUME LibraryInv, OSCheckActiveThreads PROVE LibraryInv'
  OBVIOUS
<1> USE DEF LibraryInv, OSCheckActiveThreads, boot
<1>0. BootType'
  BY DEF BootType
<1>1. CASE ~premain_armed
  <2>0. /\ library' = library /\ missed' = missed /\ target' = target /\ build' = build
        /\ premain_armed' <=> premain_armed
        /\ foreground_done' <=> foreground_done
        /\ watching' <=> watching
        /\ relaunch' <=> relaunch
        /\ account_url' <=> account_url
        /\ title' = IF title = "written" THEN "running" ELSE title
        /\ title \in {"starting", "written"}
    BY <1>1
  <2>1. TitleType' /\ Together' /\ Unswept'
    BY <1>1 DEF TitleType, Together, Unswept
  <2>2. Gate'
    BY <2>0 DEF Gate, Loaded
  <2>3. Left'
    BY <1>1, <2>0 DEF Left, Gate, Unswept, Loaded, Wanted, BootType, TitleType
  <2> QED
    BY <1>0, <2>1, <2>2, <2>3
<1>2. CASE premain_armed
  <2>1. premain_armed' = FALSE /\ Sweep /\ watching
    BY <1>2 DEF Unswept
  <2>2. CASE /\ UNCHANGED <<library, foreground_done, missed>>
             /\ target = "Protaverse" \/ foreground_done \/ ~Loaded
    <3>1. TitleType' /\ Together' /\ Unswept'
      BY <2>1, <2>2 DEF TitleType, Together, Unswept
    <3>2. Gate'
      BY <2>1, <2>2 DEF Gate, Loaded
    <3>3. Left'
      BY <2>1, <2>2 DEF Left, Gate, Unswept, Loaded, Wanted, BootType
    <3> QED
      BY <1>0, <3>1, <3>2, <3>3
  <2>3. CASE /\ missed' = "for good" /\ foreground_done' = TRUE
             /\ library' \in [Place -> Slot \cup {"absent"}]
    <3>1. title = "starting" => \A p \in Place : library'[p] \in {"absent", "Nintendo"}
      BY <2>1, StartingUntouched DEF Unswept
    <3>2. TitleType' /\ Together' /\ Unswept'
      BY <2>1, <2>3, <3>1 DEF TitleType, Together, Unswept
    <3>3. Gate' /\ Left'
      BY <2>3 DEF Gate, Left
    <3> QED
      BY <1>0, <3>2, <3>3
  <2>4. CASE /\ foreground_done' = TRUE
             /\ missed' = "no" /\ missed # "for good" /\ title # "starting"
             /\ target # "Protaverse"
             /\ library' =
                    [p \in Place |-> IF library[p] \in Build THEN target ELSE library[p]]
    <3>1. title = "written" /\ title' = "running"
      BY <2>4
    <3>2. \A p \in Place : library'[p] \in {target, "absent"}
      BY <2>4, <3>1 DEF Unswept, BootType
    <3>3. TitleType'
      BY <2>1, <2>4, <3>1, <3>2 DEF TitleType, BootType, Miiverse, Slot
    <3>4. Together' /\ Unswept' /\ Gate'
      BY <2>1, <2>4, <3>1 DEF Together, Unswept, Gate
    <3>5. Left'
      BY <2>4, <3>1, <3>2 DEF Left, Wanted
    <3> QED
      BY <1>0, <3>3, <3>4, <3>5
  <2>5. CASE /\ UNCHANGED <<library, foreground_done>>
             /\ missed' = IF missed = "for good" THEN missed ELSE "this turn"
    <3>1. TitleType' /\ Together' /\ Unswept'
      BY <2>1, <2>5 DEF TitleType, Together, Unswept
    <3>2. Gate'
      BY <2>5 DEF Gate
    <3>3. Left'
      BY <2>5 DEF Left, Unswept, TitleType
    <3> QED
      BY <1>0, <3>1, <3>2, <3>3
  <2> QED
    BY <2>1, <2>2, <2>3, <2>4, <2>5, SweepEffect
<1> QED
  BY <1>1, <1>2

\* The other two triggers, in a title that runs.
LEMMA ForegroundKeeps == LibraryInv /\ ForegroundOrToken => LibraryInv'
<1> SUFFICES ASSUME LibraryInv, ForegroundOrToken PROVE LibraryInv'
  OBVIOUS
<1> USE DEF LibraryInv, ForegroundOrToken, boot
<1>1. BootType' /\ title = "running" /\ title' = "running" /\ watching /\ watching'
  BY DEF BootType, Unswept
<1>2. CASE UNCHANGED <<library, foreground_done, missed>>
  BY <1>1, <1>2 DEF TitleType, Together, Unswept, Gate, Left, Wanted
<1>3. CASE /\ missed' = "for good" /\ foreground_done' = TRUE
           /\ library' \in [Place -> Slot \cup {"absent"}]
  BY <1>1, <1>3 DEF TitleType, Together, Unswept, Gate, Left
<1>4. CASE /\ foreground_done' = TRUE
           /\ missed' = "no" /\ missed # "for good" /\ target # "Protaverse"
           /\ library' =
                  [p \in Place |-> IF library[p] \in Build THEN target ELSE library[p]]
  <2>1. TitleType'
    BY <1>1, <1>4 DEF TitleType, BootType, Miiverse, Slot
  <2>2. Together' /\ Unswept' /\ Gate'
    BY <1>1, <1>4 DEF Together, Unswept, Gate
  <2>3. ~relaunch => \A p \in Place : library[p] \in {target, "absent", build}
    BY <1>1, <1>4 DEF Left, Wanted
  <2>4. Left'
    BY <1>1, <1>4, <2>3 DEF Left, Wanted, BootType
  <2> QED
    BY <1>1, <2>1, <2>2, <2>4
<1>5. CASE /\ UNCHANGED <<library, foreground_done>>
           /\ missed' = IF missed = "for good" THEN missed ELSE "this turn"
  <2>1. TitleType' /\ Together' /\ Unswept' /\ Gate'
    BY <1>1, <1>5 DEF TitleType, Together, Unswept, Gate
  <2>2. Left'
    BY <1>1, <1>5 DEF Left, Wanted, TitleType
  <2> QED
    BY <1>1, <2>1, <2>2
<1> QED
  BY <1>2, <1>3, <1>4, <1>5, SweepEffect

\* A library loaded for the title is swept as it comes in.
LEMMA LateKeeps == LibraryInv /\ LateLoad => LibraryInv'
<1> SUFFICES ASSUME LibraryInv, LateLoad PROVE LibraryInv'
  OBVIOUS
<1> USE DEF LibraryInv, LateLoad, boot
<1>1. PICK left \in SUBSET Place :
        /\ library' = LateSwapped([p \in Place |-> "Nintendo"], left)
        /\ missed' = IF left = {} THEN "no" ELSE "for good"
  OBVIOUS
<1>2. BootType' /\ title = "running" /\ title' = "running" /\ watching /\ watching'
  BY DEF BootType, Unswept
<1>3. late_replacement \in Slot \cup {Nothing}
  BY DEF late_replacement, BootType, Miiverse, Slot
<1>4. library' \in [Place -> Slot \cup {"absent"}]
  BY <1>1, <1>2, <1>3 DEF LateSwapped, Swapped, Slot
<1>5. left = {} => \A p \in Place :
          library'[p] = IF late_replacement = Nothing THEN "Nintendo" ELSE late_replacement
  BY <1>1, <1>2 DEF LateSwapped, Swapped
<1>6. IF late_replacement = Nothing THEN "Nintendo" \in Wanted ELSE late_replacement \in Wanted
  BY DEF late_replacement, Wanted, BootType, Miiverse, Build, Nothing
<1>7. TitleType'
  BY <1>1, <1>4 DEF TitleType
<1>8. Together' /\ Unswept' /\ Gate'
  BY <1>1, <1>2, <1>5 DEF Together, Unswept, Gate
<1>9. Left'
  BY <1>1, <1>2, <1>5, <1>6 DEF Left, Wanted
<1> QED
  BY <1>2, <1>7, <1>8, <1>9

\* The rest: the library is let go, the title or the boot ends, or the applet's own affairs.
LEMMA RestKeeps ==
  ASSUME LibraryInv,
         \/ Unload \/ TitleEnds \/ Relaunch
         \/ \E chosen \in Miiverse : Choose(chosen)
         \/ UNCHANGED <<boot, process>>
  PROVE  LibraryInv'
<1> USE DEF LibraryInv, boot, process
<1>1. CASE Unload
  BY <1>1 DEF Unload, BootType, TitleType, Together, Unswept, Gate, Left
<1>2. CASE TitleEnds
  BY <1>2 DEF TitleEnds, BootType, TitleType, Together, Unswept, Gate, Left
<1>3. CASE Relaunch
  BY <1>3 DEF Relaunch, account_init, BootType, TitleType, Together, Unswept, Gate, Left
<1>4. ASSUME NEW chosen \in Miiverse, Choose(chosen) PROVE LibraryInv'
  BY <1>4 DEF Choose, BootType, TitleType, Together, Unswept, Gate, Left
<1>5. CASE UNCHANGED <<boot, process>>
  BY <1>5 DEF BootType, TitleType, Together, Unswept, Gate, Left, Loaded, Wanted
<1> QED
  BY <1>1, <1>2, <1>3, <1>4, <1>5

\* A title that runs reads the selected Miiverse's host.
THEOREM TitleFollows == Spec => []LibraryFollows
<1>1. Init => LibraryInv
  BY DEF Init, LibraryInv, BootType, TitleType, Together, Unswept, Gate, Left
<1>2. LibraryInv /\ [Next]_vars => LibraryInv'
  <2> SUFFICES ASSUME LibraryInv, [Next]_vars PROVE LibraryInv'
    OBVIOUS
  <2>1. CASE \/ AppletOpens \/ OpenTrigger \/ AppletCloses
             \/ \E t \in Thread : OpenFile(t) \/ StoreHandle(t) \/ ReadFile(t) \/ CloseFile(t)
    BY <2>1, RestKeeps DEF AppletOpens, OpenTrigger, AppletCloses, OpenFile, StoreHandle,
       ReadFile, CloseFile
  <2>2. CASE UNCHANGED vars
    BY <2>2, RestKeeps DEF vars
  <2> QED
    BY <2>1, <2>2, StartKeeps, ModuleKeeps, TriggerKeeps, ForegroundKeeps, LateKeeps, RestKeeps
       DEF Next
<1>3. LibraryInv => LibraryFollows
  BY DEF LibraryInv, LibraryFollows, Left, Unswept, Loaded, Together
<1> QED
  BY <1>1, <1>2, <1>3, PTL DEF Spec

-----------------------------------------------------------------------------
(***************************************************************************)
(* The applet                                                              *)
(***************************************************************************)

\* The applet's slot and its allowlist name the selected Miiverse.
THEOREM VisitFollows == Spec => []AppletFollows
<1>1. Init => AppletInv
  <2> SUFFICES ASSUME Init PROVE AppletInv
    OBVIOUS
  <2>1. BootType
    BY DEF Init, BootType
  <2>2. AppletType /\ AppletFollows
    BY DEF Init, AppletType, AppletFollows, Closed
  <2> QED
    BY <2>1, <2>2 DEF AppletInv
<1>2. AppletInv /\ [Next]_vars => AppletInv'
  <2> SUFFICES ASSUME AppletInv, [Next]_vars PROVE AppletInv'
    OBVIOUS
  <2> USE DEF AppletInv, boot
  <2>1. BootType'
    BY DEF BootType, Next, vars, ApplicationStart, ModuleWrites, OSCheckActiveThreads,
       ForegroundOrToken, LateLoad, Unload, TitleEnds, AppletOpens, OpenTrigger, AppletCloses,
       OpenFile, StoreHandle, ReadFile, CloseFile, Choose, Relaunch, account_init
  <2>2. CASE OpenTrigger
    <3>1. PICK pointed \in Pointed(applet) : applet' = [pointed EXCEPT !.state = "pointed"]
      BY <2>2 DEF OpenTrigger
    <3>2. UNCHANGED boot
      BY <2>2 DEF OpenTrigger
    <3>3. CASE url_replacement = Nothing
      <4>1. applet' = [[applet EXCEPT !.slot = build, !.allowed = build]
                            EXCEPT !.state = "pointed"]
        BY <3>1, <3>3 DEF Pointed, Repointed, Theirs
      <4>2. /\ applet' \in [state : {"closed", "open", "pointed"}, slot : Slot \cup {Nothing},
                            allowed : Slot \cup {Nothing}, missed : BOOLEAN]
            /\ applet'.slot = build /\ applet'.allowed = build
        BY <4>1 DEF AppletType, BootType, Slot
      <4> QED
        BY <2>1, <3>2, <3>3, <4>2, Replacement DEF AppletType, AppletFollows
    <3>4. CASE url_replacement # Nothing
      <4> DEFINE Over(field, taken) ==
                   IF taken /\ field \in Build THEN url_replacement ELSE field
      <4>0. PICK took \in SUBSET {"slot", "allowed"} :
                pointed = [Theirs(applet) EXCEPT !.slot = Over(@, "slot" \in took),
                                                 !.allowed = Over(@, "allowed" \in took),
                                                 !.missed = took # {"slot", "allowed"}]
        BY <3>1, <3>4, Zenon DEF Pointed, Repointed
      <4>1. applet' = [[[applet EXCEPT !.slot = build, !.allowed = build]
                     EXCEPT !.slot = Over(@, "slot" \in took),
                            !.allowed = Over(@, "allowed" \in took),
                            !.missed = took # {"slot", "allowed"}] EXCEPT !.state = "pointed"]
        BY <3>1, <4>0, Zenon DEF Theirs
      <4>2. url_replacement = target /\ target \in Slot /\ build \in Slot /\ build \in Build
        BY <3>4, Replacement DEF BootType, Miiverse, Slot
      <4>3. /\ applet'.slot = IF "slot" \in took THEN target ELSE build
            /\ applet'.allowed = IF "allowed" \in took THEN target ELSE build
            /\ applet'.missed <=> took # {"slot", "allowed"}
            /\ applet'.state = "pointed"
        BY <4>1, <4>2 DEF AppletType
      <4>4. AppletType'
        BY <4>1, <4>2 DEF AppletType
      <4> QED
        BY <2>1, <3>2, <3>4, <4>3, <4>4, Replacement DEF AppletFollows
    <3> QED
      BY <3>3, <3>4
  <2>3. CASE AppletOpens \/ AppletCloses
    <3>1. AppletType'
      <4>1. {"Nintendo", Nothing} \subseteq Slot \cup {Nothing}
        BY DEF Slot
      <4>2. CASE AppletOpens
        <5>1. applet' = [state |-> "open", slot |-> "Nintendo", allowed |-> "Nintendo", missed |-> FALSE]
          BY <4>2 DEF AppletOpens
        <5> QED
          BY <4>1, <5>1 DEF AppletType
      <4>3. CASE AppletCloses
        <5>1. applet' = [state |-> "closed", slot |-> Nothing, allowed |-> Nothing, missed |-> FALSE]
          BY <4>3 DEF AppletCloses, Closed
        <5> QED
          BY <4>1, <5>1 DEF AppletType
      <4> QED
        BY <2>3, <4>2, <4>3
    <3>2. applet'.state # "pointed"
      BY <2>3 DEF AppletOpens, AppletCloses, Closed
    <3> QED
      BY <2>1, <3>1, <3>2 DEF AppletFollows
  <2>4. CASE Relaunch \/ \E chosen \in Miiverse : Choose(chosen)
    BY <2>1, <2>4 DEF Relaunch, Choose, AppletType, AppletFollows
  <2>5. CASE UNCHANGED <<applet, target, build>>
    BY <2>1, <2>5 DEF AppletType, AppletFollows
  <2> QED
    BY <2>2, <2>3, <2>4, <2>5 DEF Next, vars, ApplicationStart, ModuleWrites,
       OSCheckActiveThreads, ForegroundOrToken, LateLoad, Unload, TitleEnds, OpenFile,
       StoreHandle, ReadFile, CloseFile
<1>3. AppletInv => AppletFollows
  BY DEF AppletInv
<1> QED
  BY <1>1, <1>2, <1>3, PTL DEF Spec

-----------------------------------------------------------------------------
(***************************************************************************)
(* Its files                                                               *)
(***************************************************************************)

\* A file is opened on a handle nobody has.
LEMMA OpenKeeps ==
  ASSUME FileInv, NEW t \in Thread, OpenFile(t)
  PROVE  FileInv'
<1> USE DEF FileInv
<1>1. PICK h \in Handle, on \in {"list", "other"} :
        /\ file[h] = "free"
        /\ file' = [file EXCEPT ![h] = on]
        /\ IF on = "list" /\ target = "Roseverse"
           THEN /\ pc' = [pc EXCEPT ![t] = [step |-> "store", handle |-> h]]
                /\ tld_open' = TRUE
                /\ torn' = (torn \/ tld_handle # h)
           ELSE UNCHANGED <<pc, tld_open, torn>>
  BY DEF OpenFile
<1>2. pc[t].step = "idle" /\ tld_handle' = tld_handle /\ spoiled' = spoiled
  BY DEF OpenFile, Idle
<1>3. FileType'
  <2>1. file' \in [Handle -> {"free", "list", "other"}]
    BY <1>1 DEF FileType
  <2>2. /\ pc' \in [Thread -> [step : {"idle", "store", "close"}, handle : Handle \cup {Nothing}]]
        /\ \A q \in Thread : pc'[q].step # "idle" => pc'[q].handle \in Handle
    BY <1>1 DEF FileType
  <2>3. tld_open' \in BOOLEAN /\ torn' \in BOOLEAN
    BY <1>1 DEF FileType
  <2> QED
    BY <1>2, <2>1, <2>2, <2>3 DEF FileType
<1>4. \A k \in Handle : file'[k] = IF k = h THEN on ELSE file[k]
  BY <1>1 DEF FileType
<1>5. \A q \in Thread : pc[q].step # "idle" => pc[q].handle \in Handle /\ pc[q].handle # h
  BY <1>1 DEF FileType, Held
<1>6. CASE on = "list" /\ target = "Roseverse"
  <2>1. \A q \in Thread : q # t => pc'[q] = pc[q]
    BY <1>1, <1>6 DEF FileType
  <2>2. pc'[t].step = "store" /\ pc'[t].handle = h
    BY <1>1, <1>6 DEF FileType
  <2>3. Held'
    BY <1>4, <1>5, <1>6, <2>1, <2>2 DEF Held
  <2>4. tld_open' /\ ~torn' => ~torn /\ tld_handle' = h
    BY <1>1, <1>2, <1>6 DEF FileType
  <2>5. Kept'
    BY <1>4, <1>5, <1>6, <2>1, <2>2, <2>4 DEF Kept
  <2> QED
    BY <1>2, <1>3, <2>3, <2>5
<1>7. CASE ~(on = "list" /\ target = "Roseverse")
  <2>1. pc' = pc /\ (tld_open' <=> tld_open) /\ (torn' <=> torn)
    BY <1>1, <1>7
  <2>2. Held'
    BY <1>4, <1>5, <2>1 DEF Held
  <2>3. Kept'
    BY <1>1, <1>2, <1>4, <2>1 DEF Kept
  <2> QED
    BY <1>2, <1>3, <2>2, <2>3
<1> QED
  BY <1>6, <1>7

\* The second of the two stores.
LEMMA StoreKeeps ==
  ASSUME FileInv, NEW t \in Thread, StoreHandle(t)
  PROVE  FileInv'
<1> USE DEF FileInv, StoreHandle, Idle
<1>1. FileType'
  BY DEF FileType
<1>2. Held'
  BY <1>1 DEF FileType, Held
<1>3. Kept'
  BY DEF FileType, Held, Kept
<1> QED
  BY <1>1, <1>2, <1>3

\* What is read is rewritten for the list's handle only.
LEMMA ReadKeeps ==
  ASSUME FileInv, NEW t \in Thread, ReadFile(t)
  PROVE  FileInv'
  BY DEF FileInv, ReadFile, FileType, Held, Kept

\* A handle is forgotten before it can be handed out again.
LEMMA CloseKeeps ==
  ASSUME FileInv, NEW t \in Thread, CloseFile(t)
  PROVE  FileInv'
<1> USE DEF FileInv, CloseFile, Idle
<1>1. FileType'
  BY DEF FileType
<1>2. Held'
  BY DEF FileType, Held
<1>3. CASE pc[t].step = "close"
  <2>1. pc' = [pc EXCEPT ![t] = Idle] /\ tld_handle' = tld_handle /\ spoiled' = spoiled
    BY <1>3 DEF Idle
  <2>2. (tld_open' <=> tld_open) /\ (torn' <=> torn)
    BY <1>3
  <2>3. \A q \in Thread : pc'[q].step = "close" => q # t /\ pc'[q] = pc[q]
    BY <2>1 DEF FileType
  <2>4. \A h \in Handle : h # pc[t].handle => file'[h] = file[h]
    BY <1>3 DEF FileType
  <2>5. Kept'
    BY <1>3, <2>1, <2>2, <2>3, <2>4 DEF FileType, Kept
  <2> QED
    BY <1>1, <1>2, <2>1, <2>5
<1>4. CASE pc[t] = Idle
  <2>1. PICK h \in Handle :
            /\ file[h] # "free" /\ \A q \in Thread : pc[q].handle # h
            /\ tld_open' = (tld_open /\ tld_handle # h)
            /\ torn' = (torn /\ (tld_open' \/ \E q \in Thread : pc[q].step = "store"))
            /\ pc' = [pc EXCEPT ![t] = [step |-> "close", handle |-> h]]
            /\ UNCHANGED <<file, tld_handle, spoiled>>
    BY <1>4
  <2>2. tld_open' /\ ~torn' => tld_open /\ tld_handle # h /\ ~torn
    BY <2>1 DEF FileType
  <2>3. \A q \in Thread : pc'[q].step = "close" => q = t \/ pc'[q] = pc[q]
    BY <2>1 DEF FileType
  <2>4. pc'[t].handle = h
    BY <2>1 DEF FileType
  <2>5. Kept'
    BY <2>1, <2>2, <2>3, <2>4 DEF Kept
  <2> QED
    BY <1>1, <1>2, <2>1, <2>5
<1> QED
  BY <1>3, <1>4

\* No file but the suffix list is rewritten.
THEOREM ListOnly == Spec => []OnlyTheList
<1>1. Init => FileInv
  <2> SUFFICES ASSUME Init PROVE FileInv
    OBVIOUS
  <2>1. /\ \A t \in Thread : pc[t].step = "idle"
        /\ pc \in [Thread -> [step : {"idle", "store", "close"}, handle : Handle \cup {Nothing}]]
        /\ file \in [Handle -> {"free", "list", "other"}]
    BY DEF Init, NoFiles, Idle
  <2>2. ~tld_open /\ tld_open \in BOOLEAN /\ torn \in BOOLEAN /\ spoiled \in BOOLEAN /\ ~spoiled
    BY DEF Init
  <2> QED
    BY <2>1, <2>2 DEF FileInv, FileType, Held, Kept
<1>2. FileInv /\ [Next]_vars => FileInv'
  <2> SUFFICES ASSUME FileInv, [Next]_vars PROVE FileInv'
    OBVIOUS
  <2>1. CASE AppletCloses
    BY <2>1 DEF AppletCloses, FileInv, FileType, Held, Kept, NoFiles, Idle
  <2>2. CASE Relaunch
    BY <2>2 DEF Relaunch, FileInv, FileType, Held, Kept
  <2>3. CASE UNCHANGED reads
    BY <2>3 DEF reads, FileInv, FileType, Held, Kept
  <2> QED
    BY <2>1, <2>2, <2>3, OpenKeeps, StoreKeeps, ReadKeeps, CloseKeeps DEF Next, vars,
       ApplicationStart, ModuleWrites, OSCheckActiveThreads, ForegroundOrToken, LateLoad,
       Unload, TitleEnds, AppletOpens, OpenTrigger, Choose
<1>3. FileInv => OnlyTheList
  BY DEF FileInv, OnlyTheList
<1> QED
  BY <1>1, <1>2, <1>3, PTL DEF Spec
================================================================================
