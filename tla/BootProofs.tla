----------------------------- MODULE BootProofs -----------------------------
(***************************************************************************)
(* What a boot does once, proved.  SpotPass: what spotpass_apply() writes  *)
(* over, and that it never leaves this plugin with strings of two networks *)
(* in one boot.  The update check: what its thread and the menu's hand     *)
(* each other, and that what is offered to the installer was published.    *)
(***************************************************************************)
EXTENDS SpotPass, UpdateCheck, SequenceTheorems, TLAPS

\* What the long slot proves is the module that wrote it, for it holds a module's string only
\* until this plugin's own is written over it.
Proved ==
    /\ \A s \in Slot : before[s] \in {Incumbent(s, module), "other"} \/ module = "other"
    /\ module = "other" => \A s \in Slot : before[s] \notin Layout
    /\ layout \in Layout => layout = module /\ before["long"] = module
    /\ \A s \in Touched : slots[s] \in Destination \cup {"torn"}

\* Every slot that was written over names the destination of the records, or of the setting
\* when it has not changed; of these one at least is still to be had.
Written ==
    /\ ~changed => applied \in {"none", chosen}
    /\ \A s \in Touched :
        /\ ~reloaded => slots[s] \in {applied, "torn"}
        /\ ~changed => slots[s] \in {chosen, "torn"}

\* The inductive invariant without the assumption on the constant.
Sound == TypeOK /\ Proved /\ OnlyTheirs

\* Type correctness and OnlyTheirs hold in the initial states, with what makes them inductive.
LEMMA InitSound == Init => Sound
  BY DEF Init, Sound, TypeOK, Proved, OnlyTheirs, Touched, Incumbent, String, Layout,
         Destination, Slot, Policy

\* One application start keeps them: it writes only over a string of the module it proved.
LEMMA ApplySound == Sound /\ Apply => Sound'
<1> SUFFICES ASSUME Sound, Apply PROVE Sound'
  OBVIOUS
<1> USE DEF Sound
<1>1. PICK l \in Layout \cup {"NotRead", "NotRecognized"} :
        /\ Recognizes(l)
        /\ layout' = l
        /\ \E outcomes \in [Moving(l) -> Outcome] : \E refreshed \in BOOLEAN :
            /\ refreshed => Moved(outcomes)
            /\ slots' = [s \in Slot |->
                    IF s \in DOMAIN outcomes THEN After(s, outcomes[s]) ELSE slots[s]]
            /\ loaded' = IF refreshed THEN [s \in Policy |-> slots'[s]] ELSE loaded
            /\ failed' = (failed \/ refreshed # Moved(outcomes)
                            \/ \E s \in DOMAIN outcomes : outcomes[s] \in Failure)
  BY DEF Apply, Try
<1>2. PICK outcomes \in [Moving(l) -> Outcome], refreshed \in BOOLEAN :
        /\ slots' = [s \in Slot |->
                IF s \in Moving(l) THEN After(s, outcomes[s]) ELSE slots[s]]
        /\ loaded' = IF refreshed THEN [s \in Policy |-> slots'[s]] ELSE loaded
        /\ failed' \in BOOLEAN
  BY <1>1 DEF TypeOK
<1>3. \A s \in Slot : slots'[s] = slots[s] \/ (s \in Moving(l) /\ slots'[s] \in {chosen, "torn"})
  BY <1>2 DEF After
<1>4. chosen \in Destination /\ applied' = chosen
  BY DEF Apply, Applies
<1>5. l \in Layout => l = module /\ before["long"] = module
  <2>1. slots["long"] \in Layout => slots["long"] = before["long"]
    BY DEF Touched, Slot, Layout, Destination, Proved
  <2>2. before["long"] \in Layout => before["long"] = module
    BY DEF Proved, Incumbent, Slot, Policy, Layout
  <2> QED
    BY <1>1, <2>1, <2>2 DEF Recognizes, LayoutOf, Proved, Layout
<1>6. TypeOK'
  BY <1>1, <1>2, <1>3, <1>4 DEF Apply, TypeOK, boot, String, Destination, Policy, Slot
<1>7. Proved'
  BY <1>1, <1>3, <1>4, <1>5 DEF Apply, Proved, boot, Incumbent, Touched, Moving
<1>8. OnlyTheirs'
  BY <1>3, <1>5 DEF Apply, OnlyTheirs, Touched, Moving, Holds, boot, Incumbent
<1> QED
  BY <1>6, <1>7, <1>8

\* Every step keeps them: the rest of a boot touches neither the slots nor the module.
LEMMA NextSound == Sound /\ [Next]_vars => Sound'
<1> SUFFICES ASSUME Sound, [Next]_vars PROVE Sound'
  OBVIOUS
<1> USE DEF Sound, TypeOK, Proved, OnlyTheirs, Touched, boot, console, records
<1>1. CASE Apply
  BY <1>1, ApplySound
<1>2. CASE Answers
  BY <1>2 DEF Answers
<1>3. CASE Change
  BY <1>3 DEF Change
<1>4. CASE Reload
  BY <1>4 DEF Reload, Layout, Destination
<1>5. CASE UNCHANGED vars
  BY <1>5 DEF vars
<1> QED
  BY <1>1, <1>2, <1>3, <1>4, <1>5 DEF Next

\* Type correctness of the boot's records, the slots and the policy state.
THEOREM TypeCorrect == Spec => []TypeOK
<1>1. Sound => TypeOK
  BY DEF Sound
<1> QED
  BY <1>1, InitSound, NextSound, PTL DEF Spec

\* OnlyTheirs: nothing is written over a string but the proved module's own, in any boot with
\* any reloads and changes of the setting, whichever reads and writes fail.
THEOREM WritesOnlyOverTheirs == Spec => []OnlyTheirs
<1>1. Sound => OnlyTheirs
  BY DEF Sound
<1> QED
  BY <1>1, InitSound, NextSound, PTL DEF Spec

-----------------------------------------------------------------------------
\* With reloads and changes kept apart, the records of a boot and the setting agree on what
\* was written.
LEMMA NextWritten ==
    ASSUME ReloadAlone
    PROVE  Sound /\ ~(changed /\ reloaded) /\ Written /\ [Next]_vars
             => ~(changed /\ reloaded)' /\ Written'
<1> SUFFICES ASSUME Sound, ~(changed /\ reloaded), Written, [Next]_vars
             PROVE  ~(changed /\ reloaded)' /\ Written'
  OBVIOUS
<1> USE DEF Written, Touched, boot, console, records
<1>1. CASE Apply
  <2>1. PICK l \in Layout \cup {"NotRead", "NotRecognized"} :
          \E outcomes \in [Moving(l) -> Outcome] :
              slots' = [s \in Slot |->
                    IF s \in DOMAIN outcomes THEN After(s, outcomes[s]) ELSE slots[s]]
    BY <1>1 DEF Apply, Try
  <2>2. \A s \in Slot : slots'[s] = slots[s] \/ slots'[s] \in {chosen, "torn"}
    BY <2>1 DEF After
  <2>3. applied' = chosen /\ applied \in {"none", chosen} /\ chosen \in Destination
    BY <1>1 DEF Apply, Applies
  <2>4. \A s \in Touched : slots[s] \in {chosen, "torn"}
    <3>1. CASE ~changed
      BY <3>1
    <3>2. CASE changed
      BY <3>2, <2>3 DEF Sound, Proved, Destination
    <3> QED
      BY <3>1, <3>2
  <2> QED
    BY <1>1, <2>2, <2>3, <2>4 DEF Apply, Sound, TypeOK
<1>2. CASE Answers
  BY <1>2 DEF Answers
<1>3. CASE Change
  BY <1>3 DEF Change, Sound, TypeOK
<1>4. CASE Reload
  BY <1>4 DEF Reload, Sound, TypeOK
<1>5. CASE UNCHANGED vars
  BY <1>5 DEF vars
<1> QED
  BY <1>1, <1>2, <1>3, <1>4, <1>5 DEF Next

\* OneNetwork: as long as no boot has both a reload and a setting changed without a reboot,
\* the slots this plugin wrote never name two networks.
THEOREM NeverSplit ==
    ASSUME ReloadAlone
    PROVE  Spec => []OneNetwork
<1> DEFINE IInv == Sound /\ ~(changed /\ reloaded) /\ Written
<1>1. Init => IInv
  BY InitSound DEF Init, Written, Touched
<1>2. IInv /\ [Next]_vars => IInv'
  BY NextSound, NextWritten, ReloadAlone
<1>3. IInv => OneNetwork
  BY DEF OneNetwork, Written, Sound, TypeOK
<1> HIDE DEF IInv
<1> QED
  BY <1>1, <1>2, <1>3, PTL DEF Spec

-----------------------------------------------------------------------------
\* An application start that fails nowhere either moves a slot, and the policy state is told to
\* load the pair as it is then, or moves none.
LEMMA ApplyFresh == Sound /\ PolicyFresh /\ Apply => PolicyFresh'
<1> SUFFICES ASSUME Sound, PolicyFresh, Apply, ~failed'
             PROVE  \A s \in Policy : loaded'[s] = slots'[s]
  BY DEF PolicyFresh
<1>1. PICK l \in Layout \cup {"NotRead", "NotRecognized"} :
        \E outcomes \in [Moving(l) -> Outcome] : \E refreshed \in BOOLEAN :
            /\ slots' = [s \in Slot |->
                    IF s \in DOMAIN outcomes THEN After(s, outcomes[s]) ELSE slots[s]]
            /\ loaded' = IF refreshed THEN [s \in Policy |-> slots'[s]] ELSE loaded
            /\ failed' = (failed \/ refreshed # Moved(outcomes)
                            \/ \E s \in DOMAIN outcomes : outcomes[s] \in Failure)
  BY DEF Apply, Try
<1>2. PICK outcomes \in [Moving(l) -> Outcome], refreshed \in BOOLEAN :
        /\ slots' = [s \in Slot |->
                IF s \in DOMAIN outcomes THEN After(s, outcomes[s]) ELSE slots[s]]
        /\ loaded' = IF refreshed THEN [s \in Policy |-> slots'[s]] ELSE loaded
        /\ failed' = (failed \/ refreshed # Moved(outcomes)
                        \/ \E s \in DOMAIN outcomes : outcomes[s] \in Failure)
  BY <1>1
<1>3. /\ ~failed /\ refreshed = Moved(outcomes)
      /\ \A s \in DOMAIN outcomes : outcomes[s] \notin Failure
  BY <1>2, Zenon
<1>4. CASE refreshed
  BY <1>2, <1>4
<1>5. CASE ~refreshed
  <2>1. \A s \in DOMAIN outcomes : After(s, outcomes[s]) = slots[s]
    <3> SUFFICES ASSUME NEW s \in DOMAIN outcomes PROVE After(s, outcomes[s]) = slots[s]
      OBVIOUS
    <3>1. outcomes[s] \notin {"whole", "written", "torn"}
      BY <1>3, <1>5 DEF Moved, Failure
    <3> QED
      BY <3>1 DEF After
  <2>2. slots' = slots
    BY <1>2, <2>1 DEF Sound, TypeOK
  <2> QED
    BY <1>2, <1>3, <1>5, <2>2 DEF PolicyFresh
<1> QED
  BY <1>4, <1>5

\* PolicyFresh: in a boot of any number of application starts, reloads and changes, the policy
\* state has the pair as the slots have it unless something failed.
THEOREM PolicyFollows == Spec => []PolicyFresh
<1>1. Init => PolicyFresh
  BY DEF Init, PolicyFresh
<1>2. Sound /\ PolicyFresh /\ [Next]_vars => PolicyFresh'
  <2> SUFFICES ASSUME Sound, PolicyFresh, [Next]_vars PROVE PolicyFresh'
    OBVIOUS
  <2>1. CASE Apply
    BY <2>1, ApplyFresh
  <2>2. CASE Answers \/ Change \/ Reload \/ UNCHANGED vars
    BY <2>2 DEF Answers, Change, Reload, vars, console, PolicyFresh
  <2> QED
    BY <2>1, <2>2 DEF Next
<1> QED
  BY <1>1, <1>2, InitSound, NextSound, PTL DEF Spec

-----------------------------------------------------------------------------
(***************************************************************************)
(* The update check.  Its thread and the menu's hand each other the state: *)
(* CHECKING is the hook's to interrupt or the thread's to claim, and what  *)
(* a thread finds is its own until it says so.                             *)
(***************************************************************************)
\* What the thread and the hook are at, by the state.  A thread that is left over from an
\* interrupted check has a hook waiting for its end.
AtWork ==
    /\ thread \in ThreadPlace /\ state \in State /\ result \in Answer
    /\ thread # "none" =>
        state \in {"CHECKING", "WRITING"} \/ (state = "INTERRUPTED" /\ hook = "join")
    /\ state = "WRITING" <=> thread = "store"
    /\ hook = "spawn" => state = "CHECKING" /\ thread = "none"

\* While it is started, and once it has answered, no other is.
OnceStarted == state \in Answer \cup {"CHECKING", "WRITING"} => started

CheckInv == AtWork /\ OnceStarted

\* classify() makes one of the answers out of whatever came.
LEMMA AnAnswer == \A read \in Classified : read.answer.result \in Answer
BY DEF Classified, classify, Answer

\* It holds at power-on.
LEMMA CheckBegins == CheckInit => CheckInv
BY DEF CheckInit, CheckInv, AtWork, OnceStarted, ThreadPlace, State, Answer

\* Every step of either actor keeps it.
LEMMA CheckKeeps == CheckInv /\ [CheckNext]_check_vars => CheckInv'
<1> SUFFICES ASSUME CheckInv, [CheckNext]_check_vars PROVE CheckInv'
  OBVIOUS
<1> USE DEF CheckInv, AtWork, OnceStarted, ThreadPlace, State, Answer
<1>1. CASE Look
  <2>1. result' \in Answer /\ thread' \in {"finish", "gap"}
    BY <1>1, AnAnswer DEF Look
  <2>2. thread = "look" /\ UNCHANGED state /\ ThreadUnchanged
    BY <1>1 DEF Look
  <2> QED
    BY <2>1, <2>2 DEF ThreadUnchanged
<1>2. CASE Wait \/ LookAgain \/ LoadRun
  BY <1>2 DEF Wait, LookAgain, LoadRun, ThreadUnchanged
<1>3. CASE ClaimAnswer
  BY <1>3 DEF ClaimAnswer, ThreadUnchanged
<1>4. CASE StoreAnswer
  BY <1>4 DEF StoreAnswer, ThreadUnchanged
<1>5. CASE UpdateStart
  BY <1>5 DEF UpdateStart, CheckUnchanged
<1>6. CASE Spawn
  BY <1>6 DEF Spawn
<1>7. CASE AppEnds
  BY <1>7 DEF AppEnds, Interrupt, CheckUnchanged
<1>8. CASE UpdatePost \/ EndProcess \/ BackToMenu
  BY <1>8 DEF UpdatePost, EndProcess, BackToMenu, CheckUnchanged
<1>9. CASE \E on \in BOOLEAN : SetEnabled(on)
  BY <1>9 DEF SetEnabled, CheckUnchanged
<1>10. CASE UNCHANGED check_vars
  BY <1>10 DEF check_vars
<1> QED
  BY <1>1, <1>2, <1>3, <1>4, <1>5, <1>6, <1>7, <1>8, <1>9, <1>10 DEF CheckNext, Thread

\* So it holds throughout the boot.
LEMMA CheckInductive == CheckSpec => []CheckInv
BY CheckBegins, CheckKeeps, PTL DEF CheckSpec

\* AnswerStands: however the hooks fall and the run numbers come round, and whatever is listed.
THEOREM Stands == CheckSpec => AnswerStands
<1>1. CheckInv /\ [CheckNext]_check_vars =>
        [Answered => UNCHANGED <<state, found, release>>]_check_vars
  <2> SUFFICES ASSUME CheckInv, CheckNext, Answered
               PROVE  UNCHANGED <<state, found, release>>
    BY DEF check_vars
  <2>1. thread = "none" /\ started /\ hook # "spawn" /\ state \notin {"CHECKING", "NOT_RUN", "OFF"}
    BY DEF CheckInv, AtWork, OnceStarted, Answered, Answer
  <2> QED
    BY <2>1 DEF CheckNext, Thread, Wait, Look, LookAgain, LoadRun, ClaimAnswer, StoreAnswer,
                UpdateStart, Spawn, UpdatePost, AppEnds, Interrupt, EndProcess, BackToMenu,
                SetEnabled, CheckUnchanged
<1> QED
  BY CheckInductive, <1>1, PTL DEF CheckSpec, AnswerStands

\* The comparison of versions is the reader's, number by number from the left, and it is strict:
\* no version is newer than itself, nor than one that is newer.
THEOREM NewerIsHigher ==
  ASSUME NEW a \in Version, NEW b \in Version, NEW c \in Version
  PROVE  /\ newer(a, b) <=> Higher(a, b)
         /\ ~(newer(a, b) /\ newer(b, a))
         /\ newer(a, b) /\ newer(b, c) => newer(a, c)
         /\ newer(a, b) \/ newer(b, a) \/ a = b
<1>1. /\ a \in Int \X Int \X Int /\ b \in Int \X Int \X Int /\ c \in Int \X Int \X Int
  BY VersionAssumption
<1>2. Higher(a, b) <=>
        \/ a[1] > b[1]
        \/ a[2] > b[2] /\ a[1] = b[1]
        \/ a[3] > b[3] /\ a[1] = b[1] /\ a[2] = b[2]
  BY <1>1 DEF Higher
<1> QED
  BY <1>1, <1>2 DEF newer

\* What classify() takes for an update, of an answer that holds anything and is cut anywhere: a
\* tag that is there and no draft's, on the line that runs, newer than that and than which no
\* other there is.
Update(answer, found_) ==
    \E at \in DOMAIN answer :
        /\ found_ = answer[at].value /\ found_ \in Version /\ ~is_draft(answer, at)
        /\ found_[1] = running[1] /\ newer(found_, running)
        /\ \A o \in tags(answer) :
               answer[o].value[1] = running[1] => ~newer(answer[o].value, found_)

\* classify() answers "NEWER" with an update only.
THEOREM HighestOfTheLine ==
  ASSUME NEW answer, classify(answer).result = "NEWER"
  PROVE  Update(answer, classify(answer).found)
<1> DEFINE best == scan(answer)
           at == CHOOSE at \in best : TRUE
<1>1. best # {} /\ newer(answer[at].value, running) /\ classify(answer).found = answer[at].value
  BY DEF classify
<1>2. at \in best
  BY <1>1
<1>3. at \in tags(answer)
  BY <1>2 DEF scan
<1> QED
  BY <1>1, <1>2, <1>3 DEF scan, tags, Update

\* What the installer is offered is of the line that runs, and newer.
NewerFound ==
    /\ state = "NEWER" \/ (thread \in {"finish", "claim", "store"} /\ result = "NEWER") =>
        found \in Version /\ found[1] = running[1] /\ newer(found, running)
    /\ thread = "gap" => result = "FAILED"

\* Only a look at the answer finds a version, and only a new start forgets the result.
LEMMA NewerKeeps == CheckInv /\ NewerFound /\ [CheckNext]_check_vars => NewerFound'
<1> SUFFICES ASSUME CheckInv, NewerFound, [CheckNext]_check_vars PROVE NewerFound'
  OBVIOUS
<1> USE DEF CheckInv, AtWork, OnceStarted, NewerFound, Answer
<1>1. CASE Look
  <2>1. thread = "look" /\ UNCHANGED state /\ state # "NEWER"
    BY <1>1 DEF Look
  <2>2. CASE result' = "FAILED"
    BY <2>1, <2>2
  <2>3. ASSUME NEW read \in Classified, result' = read.answer.result, found' = read.answer.found,
               thread' = "finish"
        PROVE  NewerFound'
    <3>1. PICK answer : read.answer = classify(answer)
      BY DEF Classified
    <3> QED
      BY <2>1, <2>3, <3>1, HighestOfTheLine DEF Update
  <2> QED
    BY <1>1, <2>2, <2>3 DEF Look
<1>2. CASE Wait \/ LookAgain \/ LoadRun
  BY <1>2 DEF Wait, LookAgain, LoadRun, ThreadUnchanged
<1>3. CASE ClaimAnswer \/ StoreAnswer
  BY <1>3 DEF ClaimAnswer, StoreAnswer, ThreadUnchanged
<1>4. CASE UpdateStart \/ Spawn
  BY <1>4 DEF UpdateStart, Spawn, CheckUnchanged
<1>5. CASE AppEnds
  BY <1>5 DEF AppEnds, Interrupt, CheckUnchanged
<1>6. CASE UpdatePost \/ EndProcess \/ BackToMenu \/ \E on \in BOOLEAN : SetEnabled(on)
  BY <1>6 DEF UpdatePost, EndProcess, BackToMenu, SetEnabled, CheckUnchanged
<1>7. CASE UNCHANGED check_vars
  BY <1>7 DEF check_vars
<1> QED
  BY <1>1, <1>2, <1>3, <1>4, <1>5, <1>6, <1>7 DEF CheckNext, Thread

\* Whatever is published and wherever the answer is cut, an update is never the version that
\* runs, an older one or one of another line.
THEOREM OnlyNewer == CheckSpec => []NewerFound
<1>1. CheckInit => NewerFound
  BY DEF CheckInit, NewerFound
<1> QED
  BY <1>1, NewerKeeps, CheckInductive, PTL DEF CheckSpec

-----------------------------------------------------------------------------
(***************************************************************************)
(* What is read out of an answer that may be cut.  A text tells of a list  *)
(* what it has come to (TakenOf); what read_release() finds at a tag is    *)
(* then that release's (Reads, Installs), or lacks the notes; and so what  *)
(* classify() makes of it is right (RightOf).                              *)
(***************************************************************************)
\* What a key can say.
Said ==
    Version \cup {NoVersion} \cup BOOLEAN
        \cup ((Version \cup {NoVersion}) \X {"wps", "checksum"})
Name == {"tag_name", "draft", "browser_download_url", "body"}
Part == [key : Name, value : Said]

\* Such a key with such a value is part of a text.
LEMMA APart == ASSUME NEW name \in Name, NEW value \in Said PROVE Key(name, value) \in Part
BY DEF Key, Part

\* A release lists no link, the plugin, or the plugin and its checksum.
LEMMA LinksOf ==
  ASSUME NEW r \in Release
  PROVE  /\ r.links \in Seq({"wps", "checksum"}) /\ Len(r.links) \in 0 .. 2
         /\ DOMAIN r.links = 1 .. Len(r.links)
<1>1. r.links \in {<<>>, <<"wps">>, <<"wps", "checksum">>}
  BY DEF Release
<1>2. CASE r.links = <<>>
  BY <1>2
<1>3. CASE r.links = <<"wps">>
  BY <1>3
<1>4. CASE r.links = <<"wps", "checksum">>
  BY <1>4
<1> QED
  BY <1>1, <1>2, <1>3, <1>4

\* The keys of a release: its tag, whether it is a draft, its links and its notes.
LEMMA KeysOf ==
  ASSUME NEW r \in Release
  PROVE  /\ Keys(r) \in Seq(Part) /\ Len(Keys(r)) = Len(r.links) + 3
         /\ Keys(r)[1] = Key("tag_name", r.tag) /\ Keys(r)[2] = Key("draft", r.draft)
         /\ \A i \in 1 .. Len(r.links) :
               Keys(r)[i + 2] = Key("browser_download_url", <<r.tag, r.links[i]>>)
         /\ Keys(r)[Len(r.links) + 3] = Key("body", r.manual)
<1> DEFINE n == Len(r.links)
           head == <<Key("tag_name", r.tag), Key("draft", r.draft)>>
           links == [i \in DOMAIN r.links |-> Key("browser_download_url", <<r.tag, r.links[i]>>)]
           notes == <<Key("body", r.manual)>>
<1>1. r.tag \in Version \cup {NoVersion} /\ r.draft \in BOOLEAN /\ r.manual \in BOOLEAN
  BY DEF Release
<1>2. n \in Nat /\ DOMAIN r.links = 1 .. n /\ \A i \in 1 .. n : r.links[i] \in {"wps", "checksum"}
  BY LinksOf, LenProperties
<1>3. Key("tag_name", r.tag) \in Part
  BY <1>1, APart DEF Said, Name
<1>4. Key("draft", r.draft) \in Part
  BY <1>1, APart DEF Said, Name
<1>5. Key("body", r.manual) \in Part
  BY <1>1, APart DEF Said, Name
<1>6. \A i \in 1 .. n : Key("browser_download_url", <<r.tag, r.links[i]>>) \in Part
  <2> TAKE i \in 1 .. n
  <2>1. <<r.tag, r.links[i]>> \in Said
    BY <1>1, <1>2 DEF Said
  <2> QED
    BY <2>1, APart DEF Name
<1>7. head \in Seq(Part) /\ Len(head) = 2 /\ head[1] = Key("tag_name", r.tag)
      /\ head[2] = Key("draft", r.draft)
  BY <1>3, <1>4
<1>8. links \in Seq(Part) /\ Len(links) = n
  <2>1. links \in [1 .. n -> Part]
    BY <1>6, <1>2
  <2> QED
    BY <2>1, <1>2
<1>9. notes \in Seq(Part) /\ Len(notes) = 1 /\ notes[1] = Key("body", r.manual)
  BY <1>5
<1>10. \A i \in 1 .. n : links[i] = Key("browser_download_url", <<r.tag, r.links[i]>>)
  BY <1>2
<1>11. Keys(r) = (head \o links) \o notes
  BY DEF Keys
<1> HIDE DEF head, links, notes, n
<1>12. head \o links \in Seq(Part) /\ Len(head \o links) = n + 2
      /\ \A i \in 1 .. n + 2 : (head \o links)[i] = IF i <= 2 THEN head[i] ELSE links[i - 2]
  <2>1. /\ head \o links \in Seq(Part) /\ Len(head \o links) = Len(head) + Len(links)
        /\ \A i \in 1 .. Len(head) + Len(links) :
               (head \o links)[i] = IF i <= Len(head) THEN head[i] ELSE links[i - Len(head)]
    BY ONLY <1>7, <1>8, ConcatProperties, Zenon
  <2>2. 2 + n = n + 2
    BY <1>2
  <2> QED
    BY ONLY <2>1, <2>2, <1>7, <1>8, Zenon
<1>13. /\ Keys(r) \in Seq(Part) /\ Len(Keys(r)) = n + 3
      /\ \A i \in 1 .. n + 3 :
             Keys(r)[i] = IF i <= n + 2 THEN (head \o links)[i] ELSE notes[i - (n + 2)]
  <2> DEFINE front == head \o links
  <2>1. front \in Seq(Part) /\ Len(front) = n + 2
    BY <1>12
  <2> HIDE DEF front
  <2>2. /\ front \o notes \in Seq(Part) /\ Len(front \o notes) = Len(front) + Len(notes)
        /\ \A i \in 1 .. Len(front) + Len(notes) :
               (front \o notes)[i] = IF i <= Len(front) THEN front[i] ELSE notes[i - Len(front)]
    BY ONLY <2>1, <1>9, ConcatProperties, Zenon
  <2>3. (n + 2) + 1 = n + 3
    BY <1>2
  <2>4. Keys(r) = front \o notes
    BY <1>11 DEF front
  <2>5. /\ Keys(r) \in Seq(Part) /\ Len(Keys(r)) = n + 3
        /\ \A i \in 1 .. n + 3 :
               Keys(r)[i] = IF i <= n + 2 THEN front[i] ELSE notes[i - (n + 2)]
    BY ONLY <2>1, <2>2, <2>3, <2>4, <1>9, Zenon
  <2> QED
    BY ONLY <2>5 DEF front
<1>14. /\ Keys(r)[1] = head[1] /\ Keys(r)[2] = head[2] /\ Keys(r)[n + 3] = notes[1]
       /\ \A i \in 1 .. n : Keys(r)[i + 2] = links[i]
  <2> DEFINE front == head \o links
             keys == Keys(r)
  <2>1. \A i \in 1 .. n + 2 : front[i] = IF i <= 2 THEN head[i] ELSE links[i - 2]
    BY <1>12
  <2>2. \A i \in 1 .. n + 3 : keys[i] = IF i <= n + 2 THEN front[i] ELSE notes[i - (n + 2)]
    BY <1>13
  <2> HIDE DEF front, keys
  <2>3. keys[1] = head[1] /\ keys[2] = head[2] /\ keys[n + 3] = notes[1]
    BY ONLY <1>2, <2>1, <2>2
  <2>4. \A i \in 1 .. n : keys[i + 2] = links[i]
    BY ONLY <1>2, <2>1, <2>2
  <2> QED
    BY ONLY <2>3, <2>4 DEF keys
<1> QED
  BY <1>2, <1>7, <1>9, <1>13, <1>10, <1>14 DEF n

\* strstr() finds the first, or comes to the end.
LEMMA FindIs ==
  ASSUME NEW t \in Seq(Part), NEW from \in Nat, NEW name, NEW at \in from + 1 .. Len(t) + 1,
         at <= Len(t) => t[at].key = name,
         \A earlier \in from + 1 .. at - 1 : t[earlier].key # name
  PROVE  find_in(t, from, name) = at
<1> DEFINE First(x) == /\ x <= Len(t) => t[x].key = name
                       /\ \A earlier \in from + 1 .. x - 1 : t[earlier].key # name
           there == find_in(t, from, name)
<1>1. Len(t) \in Nat
  BY LenProperties
<1>2. there \in from + 1 .. Len(t) + 1 /\ First(there)
  BY DEF find_in
<1> HIDE DEF there
<1>3. ~(there < at)
  <2> SUFFICES ASSUME there < at PROVE FALSE
    OBVIOUS
  <2>1. there \in from + 1 .. at - 1 /\ there <= Len(t)
    BY <1>1, <1>2
  <2> QED
    BY <2>1, <1>2
<1>4. ~(at < there)
  <2> SUFFICES ASSUME at < there PROVE FALSE
    OBVIOUS
  <2>1. at \in from + 1 .. there - 1 /\ at <= Len(t)
    BY <1>1, <1>2
  <2> QED
    BY <2>1, <1>2
<1>5. there = at
  BY <1>1, <1>2, <1>3, <1>4
<1> QED
  BY <1>5 DEF there

\* A release's keys stand in the text from its tag on, up to the next tag or the end of the
\* text, which may have come before theirs.
Listed(t, tag, to, r) ==
    /\ tag \in 1 .. Len(t) /\ to \in tag + 1 .. Len(t) + 1 /\ to - tag <= Len(Keys(r))
    /\ \A i \in tag .. to - 1 : t[i] = Keys(r)[i - tag + 1]
    /\ to <= Len(t) => t[to].key = "tag_name"
    /\ to - tag < Len(Keys(r)) => to = Len(t) + 1

\* What a release's keys are called, by where they stand.
LEMMA KeysAt ==
  ASSUME NEW t \in Seq(Part), NEW r \in Release, NEW tag, NEW to, Listed(t, tag, to, r)
  PROVE  /\ Len(t) \in Nat /\ Len(r.links) \in 0 .. 2 /\ Len(Keys(r)) = Len(r.links) + 3
         /\ t[tag] = Key("tag_name", r.tag)
         /\ tag + 1 < to => t[tag + 1] = Key("draft", r.draft)
         /\ \A i \in 1 .. Len(r.links) : tag + i + 1 < to =>
               t[tag + i + 1] = Key("browser_download_url", <<r.tag, r.links[i]>>)
         /\ tag + Len(r.links) + 2 < to => t[tag + Len(r.links) + 2] = Key("body", r.manual)
<1>1. Len(t) \in Nat /\ Len(r.links) \in 0 .. 2
  BY LenProperties, LinksOf
<1> DEFINE keys == Keys(r)
           n == Len(r.links)
<1>2. /\ Len(keys) = n + 3
      /\ keys[1] = Key("tag_name", r.tag) /\ keys[2] = Key("draft", r.draft)
      /\ \A i \in 1 .. n : keys[i + 2] = Key("browser_download_url", <<r.tag, r.links[i]>>)
      /\ keys[n + 3] = Key("body", r.manual)
  BY KeysOf
<1>3. /\ tag \in 1 .. Len(t) /\ to \in tag + 1 .. Len(t) + 1
      /\ \A i \in tag .. to - 1 : t[i] = keys[i - tag + 1]
  BY DEF Listed
<1>4. n \in 0 .. 2
  BY <1>1
<1> HIDE DEF keys, n
<1>5. \A i \in Nat : tag + i < to => t[tag + i] = keys[i + 1]
  <2> SUFFICES ASSUME NEW i \in Nat, tag + i < to PROVE t[tag + i] = keys[i + 1]
    OBVIOUS
  <2>1. tag + i \in tag .. to - 1 /\ tag + i - tag + 1 = i + 1
    BY <1>1, <1>3
  <2> QED
    BY <2>1, <1>3
<1>6. t[tag] = keys[1]
  <2>1. tag + 0 = tag /\ tag < to /\ 0 + 1 = 1
    BY <1>1, <1>3
  <2> QED
    BY <2>1, <1>5
<1>7. tag + 1 < to => t[tag + 1] = keys[2]
  BY <1>5
<1>8. \A i \in 1 .. n : tag + i + 1 < to => t[tag + i + 1] = keys[i + 2]
  <2> SUFFICES ASSUME NEW i \in 1 .. n, tag + i + 1 < to PROVE t[tag + i + 1] = keys[i + 2]
    OBVIOUS
  <2>1. i + 1 \in Nat /\ tag + (i + 1) = tag + i + 1 /\ (i + 1) + 1 = i + 2
    BY <1>1, <1>3, <1>4
  <2> QED
    BY <2>1, <1>5
<1>9. tag + n + 2 < to => t[tag + n + 2] = keys[n + 3]
  <2>1. n + 2 \in Nat /\ tag + (n + 2) = tag + n + 2 /\ (n + 2) + 1 = n + 3
    BY <1>1, <1>3, <1>4
  <2> QED
    BY <2>1, <1>5
<1>10. \A i \in 1 .. n : tag + i + 1 < to =>
          t[tag + i + 1] = Key("browser_download_url", <<r.tag, r.links[i]>>)
  BY <1>2, <1>8
<1> QED
  BY <1>1, <1>2, <1>6, <1>7, <1>9, <1>10 DEF keys, n

\* Each key once, and no tag before the next release's.
LEMMA EachOnce ==
  ASSUME NEW t \in Seq(Part), NEW r \in Release, NEW tag, NEW to, Listed(t, tag, to, r)
  PROVE  \A i \in tag + 1 .. to - 1 :
            /\ i = tag + 1 => t[i] = Key("draft", r.draft)
            /\ i = tag + Len(r.links) + 2 => t[i] = Key("body", r.manual)
            /\ i # tag + 1 /\ i # tag + Len(r.links) + 2 =>
                  /\ i - tag - 1 \in 1 .. Len(r.links)
                  /\ t[i] = Key("browser_download_url", <<r.tag, r.links[i - tag - 1]>>)
<1> TAKE i \in tag + 1 .. to - 1
<1> DEFINE n == Len(r.links)
<1>1. /\ Len(t) \in Nat /\ n \in 0 .. 2 /\ Len(Keys(r)) = n + 3
      /\ tag + 1 < to => t[tag + 1] = Key("draft", r.draft)
      /\ \A j \in 1 .. n : tag + j + 1 < to =>
            t[tag + j + 1] = Key("browser_download_url", <<r.tag, r.links[j]>>)
      /\ tag + n + 2 < to => t[tag + n + 2] = Key("body", r.manual)
  BY KeysAt
<1>2. tag \in Int /\ to \in Int /\ to - tag <= n + 3
  BY <1>1 DEF Listed
<1> HIDE DEF n
<1>3. i \in Int /\ i < to /\ i > tag
  BY <1>2
<1>4. i = tag + 1 => t[i] = Key("draft", r.draft)
  BY <1>1, <1>3
<1>5. i = tag + n + 2 => t[i] = Key("body", r.manual)
  BY <1>1, <1>3
<1>6. ASSUME i # tag + 1, i # tag + n + 2
      PROVE  /\ i - tag - 1 \in 1 .. n
             /\ t[i] = Key("browser_download_url", <<r.tag, r.links[i - tag - 1]>>)
  <2> DEFINE j == i - tag - 1
  <2>1. j \in 1 .. n /\ tag + j + 1 = i
    BY <1>1, <1>2, <1>3, <1>6
  <2> HIDE DEF j
  <2>2. t[i] = Key("browser_download_url", <<r.tag, r.links[j]>>)
    BY <1>1, <1>3, <2>1
  <2> QED
    BY <2>1, <2>2 DEF j
<1> QED
  BY <1>4, <1>5, <1>6 DEF n

\* So each key is found by its name, once.
LEMMA KeyNames ==
  ASSUME NEW t \in Seq(Part), NEW r \in Release, NEW tag, NEW to, Listed(t, tag, to, r)
  PROVE  \A i \in tag + 1 .. to - 1 :
            /\ t[i].key # "tag_name"
            /\ t[i].key = "draft" <=> i = tag + 1
            /\ t[i].key = "body" <=> i = tag + Len(r.links) + 2
<1>1. tag + 1 # tag + Len(r.links) + 2
  BY KeysAt DEF Listed
<1>2. \A name, value : Key(name, value).key = name
  BY DEF Key
<1> TAKE i \in tag + 1 .. to - 1
<1>3. /\ i = tag + 1 => t[i] = Key("draft", r.draft)
      /\ i = tag + Len(r.links) + 2 => t[i] = Key("body", r.manual)
      /\ i # tag + 1 /\ i # tag + Len(r.links) + 2 =>
            t[i] = Key("browser_download_url", <<r.tag, r.links[i - tag - 1]>>)
  BY EachOnce
<1> QED
  BY <1>1, <1>2, <1>3

\* The next tag is the next release's, or there is none.
LEMMA NextTag ==
  ASSUME NEW t \in Seq(Part), NEW r \in Release, NEW tag, NEW to, Listed(t, tag, to, r)
  PROVE  find_in(t, tag, "tag_name") = to
<1>1. tag \in Nat /\ to \in tag + 1 .. Len(t) + 1 /\ (to <= Len(t) => t[to].key = "tag_name")
  BY KeysAt DEF Listed
<1>2. \A earlier \in tag + 1 .. to - 1 : t[earlier].key # "tag_name"
  BY KeyNames
<1> QED
  BY <1>1, <1>2, FindIs

\* is_draft() is the release's own word, where the text has come to it.
LEMMA DraftAt ==
  ASSUME NEW t \in Seq(Part), NEW r \in Release, NEW tag, NEW to, Listed(t, tag, to, r)
  PROVE  is_draft(t, tag) <=> (tag + 1 < to /\ r.draft)
<1>1. tag \in Nat /\ to \in tag + 1 .. Len(t) + 1 /\ Len(t) \in Nat
      /\ Len(Keys(r)) = Len(r.links) + 3 /\ Len(r.links) \in 0 .. 2
      /\ (to - tag < Len(Keys(r)) => to = Len(t) + 1)
  <2>1. Len(t) \in Nat /\ Len(r.links) \in 0 .. 2 /\ Len(Keys(r)) = Len(r.links) + 3
    BY KeysAt
  <2> QED
    BY <2>1 DEF Listed
<1>2. find_in(t, tag, "tag_name") = to
  BY NextTag
<1>3. CASE tag + 1 < to
  <2>1. tag + 1 \in tag + 1 .. to - 1 /\ t[tag + 1] = Key("draft", r.draft)
    BY <1>1, <1>3, KeysAt
  <2>2. find_in(t, tag, "draft") = tag + 1
    <3>1. tag + 1 \in tag + 1 .. Len(t) + 1 /\ t[tag + 1].key = "draft"
      BY <1>1, <2>1 DEF Key
    <3>2. \A earlier \in tag + 1 .. (tag + 1) - 1 : t[earlier].key # "draft"
      BY <1>1
    <3> QED
      BY ONLY <1>1, <3>1, <3>2, FindIs, t \in Seq(Part)
  <2>3. tag + 1 <= Len(t) /\ t[tag + 1].value = r.draft
    BY <1>1, <1>3, <2>1 DEF Key
  <2> QED
    BY <1>2, <1>3, <2>2, <2>3 DEF is_draft
<1>4. CASE ~(tag + 1 < to)
  <2>1. to = tag + 1 /\ to = Len(t) + 1
    BY <1>1, <1>4
  <2>2. find_in(t, tag, "draft") = to
    <3>1. \A earlier \in tag + 1 .. to - 1 : FALSE
      BY <1>1, <2>1
    <3> QED
      BY <1>1, <2>1, <3>1, FindIs
  <2> QED
    BY <1>1, <1>2, <1>4, <2>2 DEF is_draft
<1> QED
  BY <1>3, <1>4

\* read_release() finds the notes whole only where all of the release is there, and then reads
\* what it lists.
LEMMA Reads ==
  ASSUME NEW t \in Seq(Part), NEW r \in Release, NEW tag, NEW to, Listed(t, tag, to, r)
  PROVE  LET read == read_release(t, tag)
         IN  /\ read.notes_whole <=> to - tag = Len(Keys(r))
             /\ read.notes_whole =>
                   /\ read.manual = r.manual
                   /\ \A link \in {"wps", "checksum"} :
                        (\E at \in tag .. to - 1 :
                            /\ t[at].key = "browser_download_url"
                            /\ t[at].value = <<t[tag].value, link>>) <=> link \in Range(r.links)
<1> DEFINE n == Len(r.links)
           body == find_in(t, tag, "body")
           read == read_release(t, tag)
<1>1. /\ tag \in Nat /\ to \in tag + 1 .. Len(t) + 1 /\ Len(t) \in Nat
      /\ Len(Keys(r)) = n + 3 /\ n \in 0 .. 2 /\ DOMAIN r.links = 1 .. n
      /\ (to - tag < Len(Keys(r)) => to = Len(t) + 1) /\ to - tag <= Len(Keys(r))
  <2>1. Len(t) \in Nat /\ Len(r.links) \in 0 .. 2 /\ Len(Keys(r)) = Len(r.links) + 3
    BY KeysAt
  <2>2. DOMAIN r.links = 1 .. n
    BY LinksOf
  <2> QED
    BY <2>1, <2>2 DEF Listed
<1>2. find_in(t, tag, "tag_name") = to
  BY NextTag
<1>3. /\ read.notes_whole <=> body < to
      /\ read.manual = (body < to /\ t[body].value)
  BY <1>2 DEF read_release
<1> HIDE DEF read
<1>4. \A i \in tag + 1 .. to - 1 : /\ t[i].key = "draft" <=> i = tag + 1
                                   /\ t[i].key = "body" <=> i = tag + n + 2
  BY KeyNames
<1>5. \A i \in tag + 1 .. to - 1 :
            /\ i = tag + 1 => t[i] = Key("draft", r.draft)
            /\ i = tag + n + 2 => t[i] = Key("body", r.manual)
            /\ i # tag + 1 /\ i # tag + n + 2 =>
                  /\ i - tag - 1 \in 1 .. n
                  /\ t[i] = Key("browser_download_url", <<r.tag, r.links[i - tag - 1]>>)
  BY EachOnce
<1>6. \A name, value : Key(name, value).key = name /\ Key(name, value).value = value
  BY DEF Key
<1>7. CASE to - tag = n + 3
  <2>1. tag + n + 2 \in tag + 1 .. to - 1
    BY <1>1, <1>7
  <2>2. t[tag + n + 2] = Key("body", r.manual)
    BY <2>1, <1>5
  <2>3. body = tag + n + 2
    <3>1. tag + n + 2 \in tag + 1 .. Len(t) + 1 /\ t[tag + n + 2].key = "body"
      BY <1>1, <2>1, <2>2 DEF Key
    <3>2. ASSUME NEW earlier \in tag + 1 .. (tag + n + 2) - 1 PROVE t[earlier].key # "body"
      <4>1. earlier \in tag + 1 .. to - 1 /\ earlier # tag + n + 2
        BY <1>1, <2>1
      <4> QED
        BY <4>1, <1>4
    <3> HIDE DEF n
    <3> QED
      BY ONLY <1>1, <3>1, <3>2, FindIs, t \in Seq(Part)
  <2>4. body < to /\ t[body].value = r.manual
    BY <1>1, <2>1, <2>2, <2>3 DEF Key
  <2>5. r.manual \in BOOLEAN
    BY DEF Release
  <2>6. ASSUME NEW link \in {"wps", "checksum"}
        PROVE  (\E at \in tag .. to - 1 :
                    /\ t[at].key = "browser_download_url"
                    /\ t[at].value = <<t[tag].value, link>>) <=> link \in Range(r.links)
    <3>1. t[tag] = Key("tag_name", r.tag)
      BY KeysAt
    <3>2. ASSUME NEW at \in tag .. to - 1, t[at].key = "browser_download_url",
                 t[at].value = <<t[tag].value, link>>
          PROVE  link \in Range(r.links)
      <4>1. at # tag
        BY <3>1, <3>2 DEF Key
      <4>2. at \in tag + 1 .. to - 1
        BY <1>1, <4>1
      <4>3. at # tag + 1 /\ at # tag + n + 2
        BY <3>2, <4>2, <1>4
      <4>4. at - tag - 1 \in 1 .. n /\ t[at].value = <<r.tag, r.links[at - tag - 1]>>
        <5>1. /\ at - tag - 1 \in 1 .. n
              /\ t[at] = Key("browser_download_url", <<r.tag, r.links[at - tag - 1]>>)
          BY ONLY <4>2, <4>3, <1>5, Zenon
        <5> QED
          BY ONLY <5>1, <1>6
      <4>5. link = r.links[at - tag - 1]
        BY <3>2, <4>4
      <4> QED
        BY <1>1, <4>4, <4>5 DEF Range
    <3>3. ASSUME link \in Range(r.links)
          PROVE  \E at \in tag .. to - 1 :
                    /\ t[at].key = "browser_download_url"
                    /\ t[at].value = <<t[tag].value, link>>
      <4>1. PICK j \in 1 .. n : link = r.links[j]
        BY <1>1, <3>3 DEF Range
      <4>2. tag + j + 1 < to /\ tag + j + 1 \in tag .. to - 1
        BY <1>1, <1>7
      <4>3. t[tag + j + 1] = Key("browser_download_url", <<r.tag, link>>)
        BY <4>1, <4>2, KeysAt
      <4> QED
        BY <3>1, <4>2, <4>3 DEF Key
    <3> QED
      BY <3>2, <3>3
  <2> QED
    BY <1>1, <1>3, <1>7, <2>4, <2>5, <2>6 DEF read
<1>8. CASE to - tag # n + 3
  <2>1. to = Len(t) + 1 /\ to <= tag + n + 2
    BY <1>1, <1>8
  <2>2. body = to
    <3>1. \A earlier \in tag + 1 .. to - 1 : t[earlier].key # "body"
      BY <1>1, <1>4, <2>1
    <3> QED
      BY ONLY <1>1, <2>1, <3>1, FindIs, t \in Seq(Part)
  <2>3. ~read.notes_whole
    <3>1. ~(to < to)
      BY <1>1
    <3> QED
      BY ONLY <1>3, <2>2, <3>1, Zenon
  <2> QED
    BY <1>1, <1>8, <2>3 DEF read
<1> QED
  BY <1>7, <1>8

\* Two sequences of keys, one after the other.
LEMMA FlattenTwo ==
  ASSUME NEW keys, Len(keys) = 2
  PROVE  FlattenSeq(keys) = keys[1] \o keys[2]
<1> DEFINE whole(f) == f = [i \in 1 .. Len(keys) |-> IF i = 1 THEN keys[i] ELSE f[i - 1] \o keys[i]]
           flatten == CHOOSE f : whole(f)
<1>1. \E f : whole(f)
  <2> DEFINE g == [i \in 1 .. 2 |-> IF i = 1 THEN keys[1] ELSE keys[1] \o keys[2]]
  <2>1. whole(g)
    OBVIOUS
  <2> QED
    BY <2>1
<1>2. FlattenSeq(keys) = flatten[2]
  BY DEF FlattenSeq
<1>3. whole(flatten)
  BY <1>1
<1> HIDE DEF flatten
<1>4. flatten[1] = keys[1] /\ flatten[2] = flatten[2 - 1] \o keys[2]
  BY <1>3
<1>5. 2 - 1 = 1
  OBVIOUS
<1>6. flatten[2] = flatten[1] \o keys[2]
  BY <1>4, <1>5
<1> QED
  BY <1>2, <1>4, <1>6

\* And one.
LEMMA FlattenOne ==
  ASSUME NEW keys, Len(keys) = 1
  PROVE  FlattenSeq(keys) = keys[1]
<1> DEFINE whole(f) == f = [i \in 1 .. Len(keys) |-> IF i = 1 THEN keys[i] ELSE f[i - 1] \o keys[i]]
           flatten == CHOOSE f : whole(f)
<1>1. \E f : whole(f)
  <2> DEFINE g == [i \in 1 .. 1 |-> keys[1]]
  <2>1. whole(g)
    OBVIOUS
  <2> QED
    BY <2>1
<1>2. FlattenSeq(keys) = flatten[1]
  BY DEF FlattenSeq
<1>3. whole(flatten)
  BY <1>1
<1> HIDE DEF flatten
<1>4. flatten[1] = keys[1]
  BY <1>3
<1> QED
  BY <1>2, <1>4

\* A release is its tag and two to four more keys.
LEMMA KeyWords ==
  ASSUME NEW r \in Release
  PROVE  /\ Keys(r) \in Seq(Part) /\ Len(Keys(r)) \in 3 .. 5 /\ Keys(r)[1].key = "tag_name"
         /\ \A j \in 2 .. Len(Keys(r)) : Keys(r)[j].key # "tag_name"
<1> DEFINE n == Len(r.links)
           ks == Keys(r)
<1>1. n \in 0 .. 2
  BY LinksOf
<1>2. /\ ks \in Seq(Part) /\ Len(ks) = n + 3
      /\ ks[1] = Key("tag_name", r.tag) /\ ks[2] = Key("draft", r.draft)
      /\ \A j \in 1 .. n : ks[j + 2] = Key("browser_download_url", <<r.tag, r.links[j]>>)
      /\ ks[n + 3] = Key("body", r.manual)
  BY KeysOf
<1>3. \A name, value : Key(name, value).key = name
  BY DEF Key
<1> HIDE DEF n, ks
<1>4. ASSUME NEW j \in 2 .. Len(ks) PROVE ks[j].key # "tag_name"
  <2>1. j = 2 \/ j = n + 3 \/ (j - 2 \in 1 .. n /\ (j - 2) + 2 = j)
    BY <1>1, <1>2
  <2>2. CASE j = 2
    BY <1>2, <1>3, <2>2
  <2>3. CASE j = n + 3
    BY <1>2, <1>3, <2>3
  <2>4. CASE j - 2 \in 1 .. n /\ (j - 2) + 2 = j
    <3>1. ks[j] = Key("browser_download_url", <<r.tag, r.links[j - 2]>>)
      BY <1>2, <2>4
    <3> QED
      BY <1>3, <3>1
  <2> QED
    BY <2>1, <2>2, <2>3, <2>4
<1>5. Len(ks) \in 3 .. 5 /\ ks[1].key = "tag_name"
  BY <1>1, <1>2, <1>3
<1> QED
  BY <1>2, <1>4, <1>5 DEF ks

\* Where the i-th release of a list begins in the text.
TagOf(list, i) == IF i = 1 THEN 1 ELSE Len(Keys(list[1])) + 1

\* A text that is that of a list: each release's keys from its place on, and no other tag.
Tells(text, list) ==
    /\ text \in Seq(Part) /\ Len(text) \in 0 .. 10
    /\ \A i \in 1 .. Len(list) :
          LET tag == TagOf(list, i)
              to == tag + Len(Keys(list[i]))
          IN  /\ tag \in 1 .. Len(text) /\ to - 1 <= Len(text)
              /\ \A j \in tag .. to - 1 : text[j] = Keys(list[i])[j - tag + 1]
              /\ to <= Len(text) => text[to].key = "tag_name"
    /\ \A at \in 1 .. Len(text) : text[at].key = "tag_name" =>
          \E i \in 1 .. Len(list) : at = TagOf(list, i)

\* A list is of no release, of one, or of two.
LEMMA ListOf ==
  ASSUME NEW list \in Published
  PROVE  /\ Len(list) \in 0 .. 2 /\ DOMAIN list = 1 .. Len(list)
         /\ \A i \in 1 .. Len(list) : list[i] \in Release
<1>1. PICK m \in 0 .. 2 : list \in [1 .. m -> Release]
  BY DEF Published, SeqOf
<1>2. Len(list) = m
  BY <1>1
<1> QED
  BY <1>1, <1>2

\* What is published is such a text before it is cut.
LEMMA TextOf ==
  ASSUME NEW list \in Published
  PROVE  Tells(FlattenSeq([i \in DOMAIN list |-> Keys(list[i])]), list)
<1> DEFINE keys == [i \in DOMAIN list |-> Keys(list[i])]
           text == FlattenSeq(keys)
<1>1. /\ Len(list) \in 0 .. 2 /\ DOMAIN list = 1 .. Len(list)
      /\ \A i \in 1 .. Len(list) : list[i] \in Release
  BY ListOf
<1>2. Len(keys) = Len(list) /\ \A i \in 1 .. Len(list) : keys[i] = Keys(list[i])
  BY <1>1
<1> HIDE DEF keys
<1>3. CASE Len(list) = 0
  <2>1. text = keys /\ Len(text) = 0
    BY <1>2, <1>3 DEF FlattenSeq
  <2>2. text \in Seq(Part)
    BY <1>1, <1>3 DEF keys, FlattenSeq
  <2> HIDE DEF text
  <2>3. Tells(text, list)
    BY <1>3, <2>1, <2>2 DEF Tells
  <2> QED
    BY <2>3 DEF text, keys
<1>4. CASE Len(list) = 1
  <2>1. text = Keys(list[1])
    BY <1>2, <1>4, FlattenOne
  <2>2. /\ text \in Seq(Part) /\ Len(text) \in 3 .. 5 /\ text[1].key = "tag_name"
        /\ \A j \in 2 .. Len(text) : text[j].key # "tag_name"
    BY <1>1, <1>4, <2>1, KeyWords
  <2> HIDE DEF text
  <2>3. \A i \in 1 .. Len(list) : TagOf(list, i) = 1 /\ Keys(list[i]) = text
    BY <1>4, <2>1 DEF TagOf
  <2>4. \A j \in Int : j - 1 + 1 = j
    OBVIOUS
  <2>5. /\ Len(text) \in 3 .. 5
        /\ \A j \in 1 .. (1 + Len(text)) - 1 : text[j] = text[j - 1 + 1]
        /\ \A at \in 1 .. Len(text) : text[at].key = "tag_name" => at = 1
    BY <2>2, <2>4
  <2>6. \A i \in 1 .. Len(list) :
           LET tag == TagOf(list, i)
               to == tag + Len(Keys(list[i]))
           IN  /\ tag \in 1 .. Len(text) /\ to - 1 <= Len(text)
               /\ \A j \in tag .. to - 1 : text[j] = Keys(list[i])[j - tag + 1]
               /\ to <= Len(text) => text[to].key = "tag_name"
    <3> TAKE i \in 1 .. Len(list)
    <3>1. TagOf(list, i) = 1 /\ Keys(list[i]) = text
      BY ONLY <2>3, i \in 1 .. Len(list), Zenon
    <3>2. /\ 1 \in 1 .. Len(text) /\ 1 + Len(text) - 1 <= Len(text)
          /\ \A j \in 1 .. 1 + Len(text) - 1 : text[j] = text[j - 1 + 1]
          /\ ~(1 + Len(text) <= Len(text))
      BY ONLY <2>5
    <3>3. \A tag, ks : tag = 1 /\ ks = text =>
             /\ tag \in 1 .. Len(text) /\ tag + Len(ks) - 1 <= Len(text)
             /\ \A j \in tag .. tag + Len(ks) - 1 : text[j] = ks[j - tag + 1]
             /\ tag + Len(ks) <= Len(text) => text[tag + Len(ks)].key = "tag_name"
      BY ONLY <3>2, Zenon
    <3> QED
      BY ONLY <3>1, <3>3
  <2>7. \A at \in 1 .. Len(text) : text[at].key = "tag_name" =>
           \E i \in 1 .. Len(list) : at = TagOf(list, i)
    BY ONLY <1>4, <2>3, <2>5
  <2>8. Len(text) \in 0 .. 10
    BY <2>5
  <2>9. Tells(text, list)
    BY <2>2, <2>6, <2>7, <2>8 DEF Tells
  <2> QED
    BY <2>9 DEF text, keys
<1>5. CASE Len(list) = 2
  <2> DEFINE a == Keys(list[1])
             b == Keys(list[2])
  <2>1. text = a \o b
    <3>1. keys[1] = a /\ keys[2] = b
      BY <1>2, <1>5
    <3> QED
      BY <1>2, <1>5, <3>1, FlattenTwo
  <2>2. /\ a \in Seq(Part) /\ Len(a) \in 3 .. 5 /\ a[1].key = "tag_name"
        /\ \A j \in 2 .. Len(a) : a[j].key # "tag_name"
    BY <1>1, <1>5, KeyWords
  <2>3. /\ b \in Seq(Part) /\ Len(b) \in 3 .. 5 /\ b[1].key = "tag_name"
        /\ \A j \in 2 .. Len(b) : b[j].key # "tag_name"
    BY <1>1, <1>5, KeyWords
  <2>4. TagOf(list, 1) = 1 /\ TagOf(list, 2) = Len(a) + 1
    BY DEF TagOf
  <2> HIDE DEF a, b, text
  <2>5. /\ text \in Seq(Part) /\ Len(text) = Len(a) + Len(b)
        /\ \A j \in 1 .. Len(a) + Len(b) : text[j] = IF j <= Len(a) THEN a[j] ELSE b[j - Len(a)]
    BY <2>1, <2>2, <2>3, ConcatProperties, Zenon
  <2>6. /\ Len(a) \in 3 .. 5 /\ Len(b) \in 3 .. 5 /\ Len(text) = Len(a) + Len(b)
        /\ \A j \in 1 .. Len(a) + Len(b) : text[j] = IF j <= Len(a) THEN a[j] ELSE b[j - Len(a)]
    BY <2>2, <2>3, <2>5, Zenon
  <2>7. /\ \A j \in 1 .. Len(a) : text[j] = a[j]
        /\ \A j \in 1 .. Len(b) : text[j + Len(a)] = b[j]
    <3>1. ASSUME NEW j \in 1 .. Len(a) PROVE text[j] = a[j]
      BY ONLY <2>6
    <3>2. ASSUME NEW j \in 1 .. Len(b) PROVE text[j + Len(a)] = b[j]
      <4>1. j + Len(a) \in 1 .. Len(a) + Len(b) /\ ~(j + Len(a) <= Len(a))
            /\ j + Len(a) - Len(a) = j
        BY ONLY <2>6
      <4> QED
        BY ONLY <4>1, <2>6
    <3> QED
      BY <3>1, <3>2
  <2>8. \A at \in 1 .. Len(text) : text[at].key = "tag_name" => at = 1 \/ at = Len(a) + 1
    <3> SUFFICES ASSUME NEW at \in 1 .. Len(text), at # 1, at # Len(a) + 1
                 PROVE  text[at].key # "tag_name"
      OBVIOUS
    <3>1. CASE at \in 2 .. Len(a)
      BY <3>1, <2>2, <2>6
    <3>2. CASE at - Len(a) \in 2 .. Len(b)
      <4>1. text[at] = b[at - Len(a)]
        BY ONLY <3>2, <2>6, at \in 1 .. Len(text)
      <4> QED
        BY <3>2, <4>1, <2>3
    <3>3. at \in 2 .. Len(a) \/ at - Len(a) \in 2 .. Len(b)
      BY ONLY <2>6, at \in 1 .. Len(text), at # 1, at # Len(a) + 1
    <3> QED
      BY <3>1, <3>2, <3>3
  <2>9. Tells(text, list)
    <3>1. \A at \in 1 .. Len(text) : text[at].key = "tag_name" =>
             \E i \in 1 .. Len(list) : at = TagOf(list, i)
      BY <1>5, <2>4, <2>8
    <3>2. Len(text) \in 0 .. 10
      <4>1. Len(a) \in 3 .. 5 /\ Len(b) \in 3 .. 5 /\ Len(text) = Len(a) + Len(b)
        BY ONLY <2>6, Zenon
      <4>2. \A i, j \in 3 .. 5 : i + j \in 0 .. 10
        OBVIOUS
      <4> QED
        BY ONLY <4>1, <4>2, Zenon
    <3>3. ASSUME NEW i \in 1 .. Len(list)
          PROVE  LET tag == TagOf(list, i)
                     to == tag + Len(Keys(list[i]))
                 IN  /\ tag \in 1 .. Len(text) /\ to - 1 <= Len(text)
                     /\ \A j \in tag .. to - 1 : text[j] = Keys(list[i])[j - tag + 1]
                     /\ to <= Len(text) => text[to].key = "tag_name"
      <4>1. CASE i = 1
        <5>1. TagOf(list, i) = 1 /\ Keys(list[i]) = a
          BY <2>4, <4>1 DEF a
        <5>2. \A j \in 1 .. (1 + Len(a)) - 1 : text[j] = a[j - 1 + 1]
          BY <2>2, <2>7
        <5>3. text[1 + Len(a)].key = "tag_name"
          BY <2>2, <2>3, <2>7
        <5> QED
          BY <2>2, <2>3, <2>5, <5>1, <5>2, <5>3
      <4>2. CASE i = 2
        <5>1. TagOf(list, i) = Len(a) + 1 /\ Keys(list[i]) = b
          BY <2>4, <4>2 DEF b
        <5>2. \A j \in Len(a) + 1 .. (Len(a) + 1 + Len(b)) - 1 :
                 text[j] = b[j - (Len(a) + 1) + 1]
          BY <2>2, <2>3, <2>5
        <5> QED
          BY <2>2, <2>3, <2>5, <5>1, <5>2
      <4> QED
        BY <1>5, <4>1, <4>2
    <3> QED
      BY <2>5, <3>1, <3>2, <3>3 DEF Tells
  <2> QED
    BY <2>9 DEF text, keys
<1> QED
  BY <1>1, <1>3, <1>4, <1>5

\* Where its keys end: with the last of them, or with the text.
EndOf(t, list, i) ==
    LET whole == TagOf(list, i) + Len(Keys(list[i]))
    IN  IF whole <= Len(t) THEN whole ELSE Len(t) + 1

\* What fits of the text tells of the list what it has come to.
LEMMA TakenOf ==
  ASSUME NEW list \in Published, NEW room \in Rooms
  PROVE  LET t == take_answer(list, room)
         IN  /\ t \in Seq(Part) /\ Len(t) \in Nat
             /\ \A i \in 1 .. Len(list) :
                   /\ TagOf(list, i) <= Len(t) =>
                         Listed(t, TagOf(list, i), EndOf(t, list, i), list[i])
                   /\ room = 10 => /\ TagOf(list, i) <= Len(t)
                                   /\ EndOf(t, list, i) = TagOf(list, i) + Len(Keys(list[i]))
             /\ \A at \in 1 .. Len(t) : t[at].key = "tag_name" =>
                   \E i \in 1 .. Len(list) : at = TagOf(list, i)
<1> DEFINE text == FlattenSeq([i \in DOMAIN list |-> Keys(list[i])])
           k == IF room < Len(text) THEN room ELSE Len(text)
           t == take_answer(list, room)
<1>1. Tells(text, list)
  BY TextOf
<1>2. t = SubSeq(text, 1, k)
  BY DEF take_answer
<1> HIDE DEF text, t
<1>3. text \in Seq(Part) /\ Len(text) \in 0 .. 10 /\ room \in 0 .. 10
  BY <1>1 DEF Tells, Rooms
<1>4. /\ Len(text) \in 0 .. 10 /\ k \in 0 .. 10 /\ k <= Len(text)
      /\ room = 10 => k = Len(text)
  <2>1. \A l \in 0 .. 10 :
           LET m == IF room < l THEN room ELSE l
           IN  m \in 0 .. 10 /\ m <= l /\ (room = 10 => m = l)
    BY <1>3
  <2> QED
    BY ONLY <1>3, <2>1, Zenon
<1> HIDE DEF k
<1>5. \A j \in 1 .. k : text[j] \in Part
  BY <1>3, <1>4, LenProperties
<1>6. /\ t \in Seq(Part) /\ Len(t) = IF 1 <= k THEN k - 1 + 1 ELSE 0
      /\ \A j \in 1 .. k - 1 + 1 : t[j] = text[1 + j - 1]
  BY ONLY <1>2, <1>4, <1>5, SubSeqProperties
<1>7. Len(t) = k /\ \A j \in 1 .. k : t[j] = text[j]
  BY <1>4, <1>6
<1>8. ASSUME NEW i \in 1 .. Len(list)
      PROVE  /\ TagOf(list, i) <= Len(t) => Listed(t, TagOf(list, i), EndOf(t, list, i), list[i])
             /\ room = 10 => /\ TagOf(list, i) <= Len(t)
                             /\ EndOf(t, list, i) = TagOf(list, i) + Len(Keys(list[i]))
  <2> DEFINE tag == TagOf(list, i)
             ks == Keys(list[i])
             to == EndOf(t, list, i)
  <2>1. /\ tag \in 1 .. Len(text) /\ tag + Len(ks) - 1 <= Len(text)
        /\ \A j \in tag .. tag + Len(ks) - 1 : text[j] = ks[j - tag + 1]
        /\ tag + Len(ks) <= Len(text) => text[tag + Len(ks)].key = "tag_name"
    BY <1>1 DEF Tells
  <2>2. Len(ks) \in 3 .. 5
    BY ListOf, KeyWords
  <2>3. to = IF tag + Len(ks) <= k THEN tag + Len(ks) ELSE k + 1
    BY <1>7 DEF EndOf
  <2> HIDE DEF tag, ks, to
  <2>4. tag <= k =>
           /\ tag \in 1 .. k /\ to \in tag + 1 .. k + 1 /\ to - tag <= Len(ks)
           /\ to - tag < Len(ks) => to = k + 1
    <3>1. tag \in Nat \ {0} /\ k \in 0 .. 10 /\ Len(ks) \in 3 .. 5
      BY ONLY <1>4, <2>1, <2>2
    <3> DEFINE l == Len(ks)
    <3>2. tag \in Nat \ {0} /\ k \in 0 .. 10 /\ l \in 3 .. 5
          /\ to = IF tag + l <= k THEN tag + l ELSE k + 1
      BY ONLY <2>3, <3>1, Zenon
    <3> HIDE DEF l
    <3>3. tag <= k => /\ tag \in 1 .. k /\ to \in tag + 1 .. k + 1 /\ to - tag <= l
                      /\ to - tag < l => to = k + 1
      BY ONLY <3>2
    <3> QED
      BY ONLY <3>3, Zenon DEF l
  <2>5. tag <= k => \A j \in tag .. to - 1 : t[j] = ks[j - tag + 1]
    <3> SUFFICES ASSUME tag <= k, NEW j \in tag .. to - 1 PROVE t[j] = ks[j - tag + 1]
      OBVIOUS
    <3>1. j \in 1 .. k /\ j \in tag .. tag + Len(ks) - 1
      BY <1>4, <2>1, <2>2, <2>3
    <3> QED
      BY <1>7, <2>1, <3>1
  <2>6. to <= k => t[to].key = "tag_name"
    <3> SUFFICES ASSUME to <= k PROVE t[to].key = "tag_name"
      OBVIOUS
    <3>1. to = tag + Len(ks) /\ to \in 1 .. k /\ to <= Len(text)
      BY ONLY <1>4, <2>1, <2>2, <2>3, to <= k
    <3> QED
      BY <1>7, <2>1, <3>1
  <2>7. tag <= Len(t) => Listed(t, tag, to, list[i])
    BY <1>7, <2>4, <2>5, <2>6 DEF Listed, ks
  <2>8. room = 10 => tag <= Len(t) /\ to = tag + Len(ks)
    BY <1>4, <1>7, <2>1, <2>2, <2>3
  <2> QED
    BY <2>7, <2>8 DEF tag, ks, to
<1>9. \A at \in 1 .. Len(t) : t[at].key = "tag_name" =>
         \E i \in 1 .. Len(list) : at = TagOf(list, i)
  <2> SUFFICES ASSUME NEW at \in 1 .. Len(t), t[at].key = "tag_name"
               PROVE  \E i \in 1 .. Len(list) : at = TagOf(list, i)
    OBVIOUS
  <2>1. at \in 1 .. Len(text) /\ text[at].key = "tag_name"
    BY <1>4, <1>7
  <2> QED
    BY <1>1, <2>1 DEF Tells
<1> QED
  BY <1>4, <1>6, <1>7, <1>8, <1>9 DEF t

\* What is read at a tag can be installed where all of the release has come and is complete.
LEMMA Installs ==
  ASSUME NEW t \in Seq(Part), NEW r \in Release, NEW tag, NEW to, Listed(t, tag, to, r)
  PROVE  installable(read_release(t, tag)) <=> (to - tag = Len(Keys(r)) /\ Complete(r))
<1> DEFINE read == read_release(t, tag)
           lists(link) == \E at \in tag .. to - 1 : /\ t[at].key = "browser_download_url"
                                                    /\ t[at].value = <<t[tag].value, link>>
<1>1. /\ read.notes_whole <=> to - tag = Len(Keys(r))
      /\ read.notes_whole =>
            /\ read.manual = r.manual
            /\ \A link \in {"wps", "checksum"} : lists(link) <=> link \in Range(r.links)
  BY Reads
<1>2. (read.has_wps <=> lists("wps")) /\ (read.has_checksum <=> lists("checksum"))
  BY NextTag DEF read_release
<1> HIDE DEF read, lists
<1>3. ("wps" \in Range(r.links) /\ "checksum" \in Range(r.links))
        <=> Range(r.links) = {"wps", "checksum"}
  <2>1. Range(r.links) \subseteq {"wps", "checksum"}
    BY LinksOf, LenProperties DEF Range
  <2> QED
    BY <2>1
<1> QED
  BY <1>1, <1>2, <1>3 DEF installable, Complete, read

\* The tags that count are those of releases, drafts excepted once the text says so.
LEMMA TagsOf ==
  ASSUME NEW list \in Published, NEW room \in Rooms, NEW t, t = take_answer(list, room)
  PROVE  /\ \A at \in tags(t) : \E i \in 1 .. Len(list) : at = TagOf(list, i)
         /\ \A i \in 1 .. Len(list) : TagOf(list, i) <= Len(t) =>
               LET r == list[i]
                   tag == TagOf(list, i)
                   told == EndOf(t, list, i) - tag
               IN  /\ t[tag].value = r.tag
                   /\ tag \in tags(t) <=> r.tag \in Version /\ ~(told > 1 /\ r.draft)
                   /\ installable(read_release(t, tag)) <=> told = Len(Keys(r)) /\ Complete(r)
                   /\ told = Len(Keys(r)) => told > 1
         /\ \A at \in tags(t) : at <= Len(t)
         /\ room = 10 => \A i \in 1 .. Len(list) :
               /\ TagOf(list, i) <= Len(t)
               /\ EndOf(t, list, i) - TagOf(list, i) = Len(Keys(list[i]))
<1>1. /\ t \in Seq(Part) /\ Len(t) \in Nat /\ DOMAIN t = 1 .. Len(t)
      /\ \A i \in 1 .. Len(list) :
            /\ TagOf(list, i) <= Len(t) => Listed(t, TagOf(list, i), EndOf(t, list, i), list[i])
            /\ room = 10 => /\ TagOf(list, i) <= Len(t)
                            /\ EndOf(t, list, i) = TagOf(list, i) + Len(Keys(list[i]))
      /\ \A at \in 1 .. Len(t) : t[at].key = "tag_name" =>
            \E i \in 1 .. Len(list) : at = TagOf(list, i)
  BY TakenOf, LenProperties
<1>2. \A at \in tags(t) : at \in 1 .. Len(t) /\ t[at].key = "tag_name"
  BY <1>1 DEF tags
<1>3. \A i \in 1 .. Len(list) : list[i] \in Release /\ Len(Keys(list[i])) \in 3 .. 5
  BY ListOf, KeyWords
<1>4. ASSUME NEW i \in 1 .. Len(list), TagOf(list, i) <= Len(t)
      PROVE  LET r == list[i]
                 tag == TagOf(list, i)
                 told == EndOf(t, list, i) - tag
             IN  /\ t[tag].value = r.tag
                 /\ tag \in tags(t) <=> r.tag \in Version /\ ~(told > 1 /\ r.draft)
                 /\ installable(read_release(t, tag)) <=> told = Len(Keys(r)) /\ Complete(r)
                 /\ told = Len(Keys(r)) => told > 1
  <2> DEFINE r == list[i]
             tag == TagOf(list, i)
             to == EndOf(t, list, i)
  <2>1. r \in Release /\ Listed(t, tag, to, r) /\ Len(Keys(r)) \in 3 .. 5
    BY <1>1, <1>3, <1>4
  <2> HIDE DEF r, tag, to
  <2>2. t[tag] = Key("tag_name", r.tag)
    BY <1>1, <2>1, KeysAt
  <2>3. is_draft(t, tag) <=> (tag + 1 < to /\ r.draft)
    BY <1>1, <2>1, DraftAt
  <2>4. installable(read_release(t, tag)) <=> (to - tag = Len(Keys(r)) /\ Complete(r))
    BY <1>1, <2>1, Installs
  <2>5. tag \in 1 .. Len(t) /\ to \in Int /\ (to - tag > 1 <=> tag + 1 < to)
    BY <1>1, <2>1 DEF Listed
  <2>6. tag \in tags(t) <=> r.tag \in Version /\ ~(to - tag > 1 /\ r.draft)
    <3>1. t[tag].key = "tag_name" /\ t[tag].value = r.tag
      BY <2>2 DEF Key
    <3> QED
      BY <1>1, <2>3, <2>5, <3>1 DEF tags
  <2>7. t[tag].value = r.tag /\ (to - tag = Len(Keys(r)) => to - tag > 1)
    <3>1. t[tag].value = r.tag
      BY <2>2 DEF Key
    <3>2. \A l \in 3 .. 5 : to - tag = l => to - tag > 1
      BY <2>5
    <3> QED
      BY <2>1, <3>1, <3>2, Zenon
  <2> QED
    BY <2>4, <2>6, <2>7 DEF r, tag, to
<1>5. room = 10 => \A i \in 1 .. Len(list) :
         /\ TagOf(list, i) <= Len(t)
         /\ EndOf(t, list, i) - TagOf(list, i) = Len(Keys(list[i]))
  <2> SUFFICES ASSUME room = 10, NEW i \in 1 .. Len(list)
               PROVE  /\ TagOf(list, i) <= Len(t)
                      /\ EndOf(t, list, i) - TagOf(list, i) = Len(Keys(list[i]))
    OBVIOUS
  <2>1. TagOf(list, i) \in Int
    BY <1>1 DEF Listed
  <2> QED
    BY <1>1, <1>3, <2>1
<1>6. \A at \in tags(t) : \E i \in 1 .. Len(list) : at = TagOf(list, i)
  BY <1>1, <1>2
<1>7. \A at \in tags(t) : at <= Len(t)
  BY <1>1, <1>2
<1> QED
  BY <1>4, <1>5, <1>6, <1>7

\* Whatever is published and wherever its answer is cut, what is made of it is right.
LEMMA RightOf == ASSUME NEW list \in Published, NEW room \in Rooms PROVE Right(list, room)
<1> DEFINE t == take_answer(list, room)
           offer == classify(t)
           offered == offer.result = "NEWER" /\ installable(offer.release)
           at == CHOOSE at \in scan(t) : TRUE
           highest == {r \in Updates(list) : \A q \in Updates(list) : ~Higher(q.tag, r.tag)}
<1>1. /\ Len(list) \in 0 .. 2 /\ DOMAIN list = 1 .. Len(list)
      /\ \A i \in 1 .. Len(list) : list[i] \in Release
  BY ListOf
<1>2. \A i \in 1 .. Len(list) :
         list[i] \in Updates(list) <=>
            /\ list[i].tag \in Version /\ ~list[i].draft
            /\ list[i].tag[1] = running[1] /\ Higher(list[i].tag, running)
  BY <1>1 DEF Updates, Range
<1>3. \A r \in Updates(list) : \E i \in 1 .. Len(list) : r = list[i]
  BY <1>1 DEF Updates, Range
<1>4. \A a, b \in Version : newer(a, b) <=> Higher(a, b)
  BY NewerIsHigher
<1>5. /\ \A x \in tags(t) : \E i \in 1 .. Len(list) : x = TagOf(list, i)
      /\ \A x \in tags(t) : x <= Len(t)
      /\ \A i \in 1 .. Len(list) : TagOf(list, i) <= Len(t) =>
            LET r == list[i]
                tag == TagOf(list, i)
                told == EndOf(t, list, i) - tag
            IN  /\ t[tag].value = r.tag
                /\ tag \in tags(t) <=> r.tag \in Version /\ ~(told > 1 /\ r.draft)
                /\ installable(read_release(t, tag)) <=> told = Len(Keys(r)) /\ Complete(r)
                /\ told = Len(Keys(r)) => told > 1
      /\ room = 10 => \A i \in 1 .. Len(list) :
            /\ TagOf(list, i) <= Len(t)
            /\ EndOf(t, list, i) - TagOf(list, i) = Len(Keys(list[i]))
  BY TagsOf
<1> HIDE DEF t, offer, highest
<1>6. offer = classify(t)
  BY DEF offer
\* What is offered is what a release at some tag is.
<1>7. ASSUME offered
      PROVE  \E i \in 1 .. Len(list) :
                /\ at = TagOf(list, i) /\ at \in scan(t) /\ at \in tags(t)
                /\ offer.found = list[i].tag /\ Complete(list[i]) /\ list[i] \in Updates(list)
  <2>1. /\ at \in scan(t) /\ newer(t[at].value, running)
        /\ offer.found = t[at].value /\ offer.release = read_release(t, at)
    <3>1. /\ scan(t) # {} /\ newer(t[at].value, running)
          /\ offer.found = t[at].value /\ offer.release = read_release(t, at)
      BY <1>6, <1>7 DEF classify
    <3> QED
      BY <3>1
  <2> HIDE DEF at
  <2>2. at \in tags(t) /\ t[at].value[1] = running[1]
    BY <2>1 DEF scan
  <2>3. PICK i \in 1 .. Len(list) : at = TagOf(list, i)
    BY <1>5, <2>2
  <2>4. /\ t[at].value = list[i].tag /\ list[i].tag \in Version
        /\ Complete(list[i]) /\ ~list[i].draft
    <3>1. at <= Len(t) /\ installable(read_release(t, at))
      BY <1>5, <1>7, <2>1, <2>2
    <3> QED
      BY <1>5, <2>2, <2>3, <3>1
  <2>5. list[i] \in Updates(list)
    BY <1>2, <1>4, <2>1, <2>2, <2>4, VersionAssumption
  <2> QED
    BY <2>1, <2>2, <2>3, <2>4, <2>5
<1>8. offered => \E r \in Updates(list) : Complete(r) /\ r.tag = offer.found
  BY <1>7
\* Of a list that is all there it is the highest.
<1>9. ASSUME room = 10, offered
      PROVE  \E r \in highest : Complete(r) /\ offer.found = r.tag
  <2>1. PICK i \in 1 .. Len(list) :
           /\ at = TagOf(list, i) /\ at \in scan(t) /\ at \in tags(t)
           /\ offer.found = list[i].tag /\ Complete(list[i]) /\ list[i] \in Updates(list)
    BY <1>7, <1>9
  <2> HIDE DEF at
  <2>2. ASSUME NEW q \in Updates(list) PROVE ~Higher(q.tag, list[i].tag)
    <3>1. PICK j \in 1 .. Len(list) : q = list[j]
      BY <1>3
    <3>2. TagOf(list, j) \in tags(t) /\ t[TagOf(list, j)].value = q.tag
      BY <1>2, <1>5, <1>9, <2>2, <3>1
    <3>3. t[at].value = list[i].tag
      BY <1>5, <2>1
    <3>4. ~newer(q.tag, list[i].tag)
      BY <1>2, <2>1, <2>2, <3>1, <3>2, <3>3 DEF scan
    <3>5. q.tag \in Version /\ list[i].tag \in Version
      BY <1>2, <2>1, <3>1
    <3> QED
      BY <1>4, <3>4, <3>5
  <2> QED
    BY <2>1, <2>2 DEF highest
\* And the highest, where it is complete, is offered.
<1>10. ASSUME room = 10, NEW r \in highest, Complete(r), offer.found = r.tag
       PROVE  offered
  <2>1. PICK i \in 1 .. Len(list) : r = list[i]
    BY <1>3 DEF highest
  <2>2. /\ r \in Updates(list) /\ r.tag \in Version /\ ~r.draft
        /\ r.tag[1] = running[1] /\ newer(r.tag, running)
    BY <1>2, <1>4, <2>1, VersionAssumption DEF highest
  <2>3. TagOf(list, i) \in tags(t)
    BY <1>5, <1>10, <2>1, <2>2
  <2>4. offer.found # NoVersion
    BY <1>10, <2>2, VersionAssumption DEF NoVersion
  <2>5. scan(t) # {} /\ offer.found = t[at].value
    BY <1>6, <2>3, <2>4 DEF classify
  <2>6. at \in scan(t)
    BY <2>5
  <2>7. offer.result = "NEWER" /\ offer.release = read_release(t, at)
    BY <1>6, <1>10, <2>2, <2>3, <2>5 DEF classify
  <2> HIDE DEF at
  <2>8. at \in tags(t)
    BY <2>6 DEF scan
  <2>9. PICK j \in 1 .. Len(list) : at = TagOf(list, j)
    BY <1>5, <2>8
  <2>10. /\ t[at].value = list[j].tag /\ list[j].tag = r.tag /\ ~list[j].draft
         /\ installable(read_release(t, at)) <=> Complete(list[j])
    BY <1>5, <1>10, <2>5, <2>8, <2>9
  <2>11. list[j] = r
    BY <1>1, <2>1, <2>2, <2>4, <2>10, <1>10 DEF Published
  <2> QED
    BY <1>10, <2>7, <2>10, <2>11
<1> QED
  BY <1>8, <1>9, <1>10 DEF Right, highest, offer, t

\* OfferedIsPublished: of every answer, and so of the one that stands.
THEOREM Offered == CheckSpec => []OfferedIsPublished
<1>1. \A read \in Classified : read.right
  <2> SUFFICES ASSUME NEW read \in Classified PROVE read.right
    OBVIOUS
  <2>1. PICK list \in Published, room \in Rooms : read.right = Right(list, room)
    BY DEF Classified
  <2> QED
    BY <2>1, RightOf
<1>2. CheckInit => right
  BY DEF CheckInit
<1>3. right /\ [CheckNext]_check_vars => right'
  <2> SUFFICES ASSUME right, CheckNext, right' # right PROVE right'
    BY DEF check_vars
  <2>1. \E read \in Classified : right' = read.right
    BY DEF CheckNext, Thread, Wait, Look, LookAgain, LoadRun, ClaimAnswer, StoreAnswer,
           UpdateStart, Spawn, UpdatePost, AppEnds, Interrupt, EndProcess, BackToMenu,
           SetEnabled, CheckUnchanged
  <2> QED
    BY <1>1, <2>1
<1>4. right => OfferedIsPublished
  BY DEF OfferedIsPublished
<1> QED
  BY <1>2, <1>3, <1>4, PTL DEF CheckSpec
=============================================================================
