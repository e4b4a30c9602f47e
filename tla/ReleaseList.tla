----------------------------- MODULE ReleaseList -----------------------------
(***************************************************************************)
(* What the update check reads out of GitHub's answer: src/update.cpp.     *)
(*                                                                         *)
(* The answer is searched as text, key by key, and not as the releases it  *)
(* holds: here it is the sequence of its keys with their values.  One that *)
(* is longer than the buffer is cut anywhere, and a key whose value is cut *)
(* is found by none of the searches.                                       *)
(***************************************************************************)
EXTENDS Integers, SequencesExt

CONSTANTS
    Version,        \* the versions a tag can name: <<major, minor, patch>>
    running         \* the one that runs

ASSUME VersionAssumption == running \in Version /\ Version \subseteq Int \X Int \X Int

\* No version: what parse_version() makes of any other name.
NoVersion == <<>>

-----------------------------------------------------------------------------
\* A release as it was published, by a tag that names a version or none.
Release == [tag : Version \cup {NoVersion}, draft : BOOLEAN,
            links : {<<>>, <<"wps">>, <<"wps", "checksum">>}, manual : BOOLEAN]

\* Two of them, the newest first.  Only a draft can name the version of another.
Published == {list \in SeqOf(Release, 2) :
                 Len(list) = 2 /\ list[1].tag = list[2].tag =>
                     list[1].draft \/ list[2].draft \/ list[1].tag = NoVersion}

Key(name, value) == [key |-> name, value |-> value]

\* "GitHub lists tag_name before assets and body".
Keys(r) ==
    <<Key("tag_name", r.tag), Key("draft", r.draft)>>
        \o [i \in DOMAIN r.links |->
               Key("browser_download_url", <<r.tag, r.links[i]>>)]
        \o <<Key("body", r.manual)>>

\* take_answer(): what doesn't fit is dropped.
take_answer(list, room) ==
    LET text == FlattenSeq([i \in DOMAIN list |-> Keys(list[i])])
    IN  SubSeq(text, 1, IF room < Len(text) THEN room ELSE Len(text))

-----------------------------------------------------------------------------
\* The slip of a comparison number by number.
NewerInAny(a, b) == \E i \in 1 .. 3 : a[i] > b[i]

newer(a, b) ==
    \/ a[1] > b[1]
    \/ a[1] = b[1] /\ a[2] > b[2]
    \/ a[1] = b[1] /\ a[2] = b[2] /\ a[3] > b[3]

\* strstr(): where the next key of that name is; past the end where there is none.
find_in(answer, from, name) ==
    CHOOSE at \in from + 1 .. Len(answer) + 1 :
        /\ at <= Len(answer) => answer[at].key = name
        /\ \A before \in from + 1 .. at - 1 : answer[before].key # name

\* Whether the release whose tag is there is a draft, by the first such key before the next tag.
is_draft(answer, tag) ==
    LET draft == find_in(answer, tag, "draft")
    IN  /\ draft < find_in(answer, tag, "tag_name") /\ draft <= Len(answer)
        /\ answer[draft].value

\* scan(): the tags that are versions, and which of them is the highest on the running major
\* line, the first of two that are alike.
tags(answer) ==
    {at \in DOMAIN answer : /\ answer[at].key = "tag_name" /\ answer[at].value \in Version
                            /\ ~is_draft(answer, at)}

scan(answer) ==
    {at \in tags(answer) :
        LET tag == answer[at].value
            others == {answer[o].value : o \in {o \in tags(answer) : o < at}}
        IN  /\ tag[1] = running[1]
            /\ tag \notin others
            /\ \A o \in tags(answer) :
                   answer[o].value[1] = running[1] => ~newer(answer[o].value, tag)}

\* read_release(): what the release at that tag lists, up to the next one's tag.
read_release(answer, tag) ==
    LET to == find_in(answer, tag, "tag_name")
        lists(link) == \E at \in tag .. to - 1 :
                          /\ answer[at].key = "browser_download_url"
                          /\ answer[at].value = <<answer[tag].value, link>>
        body == find_in(answer, tag, "body")
    IN  [has_wps |-> lists("wps"), has_checksum |-> lists("checksum"),
         notes_whole |-> body < to, manual |-> body < to /\ answer[body].value]

NoRelease == [has_wps |-> FALSE, has_checksum |-> FALSE, notes_whole |-> FALSE, manual |-> FALSE]

\* installable(), what the installer is offered.
installable(r) == r.has_wps /\ r.has_checksum /\ r.notes_whole /\ ~r.manual

\* classify() of an answer that came.
classify(answer) ==
    LET best == scan(answer)
        at == CHOOSE at \in best : TRUE
    IN  IF tags(answer) = {}
        THEN [result |-> "UNREADABLE", found |-> NoVersion, release |-> NoRelease]
        ELSE IF best # {} /\ newer(answer[at].value, running)
        THEN [result |-> "NEWER", found |-> answer[at].value, release |-> read_release(answer, at)]
        ELSE [result |-> "UP_TO_DATE",
              found |-> IF best = {} THEN NoVersion ELSE answer[at].value, release |-> NoRelease]

\* Room for everything two releases can have.
Rooms == 0 .. 10

-----------------------------------------------------------------------------
\* One version is higher than another by the first number they differ in.
Higher(a, b) == \E i \in 1 .. 3 : a[i] > b[i] /\ \A j \in 1 .. i - 1 : a[j] = b[j]

\* What a reader of the Releases page takes for updates, and for one that can be installed.
Updates(list) == {r \in Range(list) : r.tag \in Version /\ ~r.draft /\ r.tag[1] = running[1]
                                        /\ Higher(r.tag, running)}
Complete(r) == Range(r.links) = {"wps", "checksum"} /\ ~r.manual

\* Whether what is made of the list, cut there, is right: offered is only what is complete, and
\* of an uncut list the highest, if that one is complete, and else nothing.
Right(list, room) ==
    LET offer == classify(take_answer(list, room))
        offered == offer.result = "NEWER" /\ installable(offer.release)
        highest == {r \in Updates(list) : \A q \in Updates(list) : ~Higher(q.tag, r.tag)}
    IN  /\ offered => \E r \in Updates(list) : Complete(r) /\ r.tag = offer.found
        /\ room = 10 => (offered <=> \E r \in highest : Complete(r) /\ offer.found = r.tag)

\* What comes of them all.
Classified ==
    {[answer |-> classify(take_answer(list, room)), right |-> Right(list, room)] :
        list \in Published, room \in Rooms}
==============================================================================
