------------------------------ MODULE YouTube ------------------------------
(***************************************************************************)
(* The YouTube patcher, src/youtube.cpp, with the start url and the share  *)
(* token and share requests of src/youtube, and the names dns.cpp answers. *)
(*                                                                         *)
(* A start of the app takes a snapshot of the settings, makes the token of *)
(* this start, starts the proxy and lays the certificate over the app's    *)
(* own.  Everything later, the end too, follows the snapshot, while the    *)
(* menu goes on changing the settings and plugin globals outlive the       *)
(* process they were set in.  The listener's workers take shares, as many  *)
(* a minute as a ring of times allows, each with the time it read before   *)
(* it took the lock.                                                       *)
(***************************************************************************)
EXTENDS NameHooks, Integers, FiniteSets

CONSTANTS
    Worker,             \* the listener's workers that have a share request
    SHARE_PER_MINUTE,
    MINUTE,             \* MINUTE_MS, in steps of the clock
    MaxStarts,          \* bound: the starts that make a token
    MaxTime             \* bound: the clock

ASSUME RateAssumption == SHARE_PER_MINUTE \in Nat \ {0} /\ MINUTE \in Nat \ {0} /\ MaxTime \in Nat

VARIABLES
    patcher, current, share,    \* the settings: the version is Current (Official) or hosted anew
    title, stage,               \* what runs, and how far its start has come
    premain_armed,
    active, hosted,             \* the snapshot of this start
    preload_wanted,
    redirection, cert_layer,    \* what youtube.cpp believes it holds of ContentRedirection
    uses, layers,               \* what ContentRedirection holds for it
    running,                    \* proxy_running()
    token,                      \* the listener's, 0 for one that could not be made
    page,                       \* the one on this start's url, 0 for none
    known,                      \* every token a page was ever given
    starts,
    preloaded,                  \* the Miiverse library was asked for in this process
    began,                      \* the settings this process began with
    strayed,                    \* its trigger was spent early, or it found a load left over
    rate,                       \* share_rate_take()'s ring
    now, stamp,                 \* the clock, and what each worker has read off it
    taken,                      \* how many takes bear each time
    shared                      \* the token of the last share handed on

settings == <<patcher, current, share>>
process == <<title, stage, premain_armed, began, strayed>>
snapshot == <<active, hosted>>
layering == <<redirection, cert_layer, uses, layers>>
tokens == <<token, page, known, starts>>
preloads == <<preload_wanted, preloaded>>
requests == <<rate, stamp, taken, shared>>
vars == <<settings, process, snapshot, layering, running, tokens, preloads, requests, now>>

NoStamp == -1
NoneYet == -1
Unbegun == [patched |-> FALSE, current |-> FALSE, share |-> FALSE]

Init ==
    /\ patcher \in BOOLEAN /\ current \in BOOLEAN /\ share \in BOOLEAN
    /\ title = "none" /\ stage = "none" /\ premain_armed = FALSE
    /\ began = Unbegun /\ strayed = FALSE
    /\ active = FALSE /\ hosted = FALSE
    /\ redirection = FALSE /\ cert_layer = FALSE /\ uses = 0 /\ layers = 0
    /\ running = FALSE
    /\ token = 0 /\ page = 0 /\ known = {} /\ starts = 0
    /\ preload_wanted = FALSE /\ preloaded = FALSE
    /\ rate = [at |-> [i \in 0 .. SHARE_PER_MINUTE - 1 |-> 0], next |-> 0, used |-> 0]
    /\ stamp = [w \in Worker |-> NoStamp]
    /\ now = 0 /\ taken = [t \in 0 .. MaxTime |-> 0] /\ shared = NoneYet

-----------------------------------------------------------------------------
\* The menu, from inside any title.  Nothing is read again before the next start.
Change ==
    /\ stage = "running"
    /\ patcher' \in BOOLEAN /\ current' \in BOOLEAN /\ share' \in BOOLEAN
    /\ settings' # settings
    /\ UNCHANGED <<process, snapshot, layering, running, tokens, preloads, requests, now>>

\* ON_APPLICATION_START up to olv_arm_premain().
Begin(t) ==
    /\ title = "none"
    /\ title' = t /\ stage' = "arming"
    /\ premain_armed' = TRUE
    /\ preloaded' = FALSE /\ page' = 0 /\ shared' = NoneYet
    /\ began' = [patched |-> t = "youtube" /\ patcher, current |-> current, share |-> share]
    /\ strayed' = preload_wanted
    /\ UNCHANGED <<settings, snapshot, layering, running, token, known, starts,
                   preload_wanted, rate, stamp, taken, now>>

\* The slip of a token kept for as long as the plugin is loaded.
share_token_once ==
    /\ starts < MaxStarts /\ starts' = starts + 1
    /\ token' \in IF token = 0 THEN {0, starts + 1} ELSE {token}

\* share_token_new(): a clock that shows no jitter makes none.
share_token_new ==
    /\ starts < MaxStarts /\ starts' = starts + 1
    /\ token' \in {0, starts + 1}

\* start_url_point(): the token rides on the url with Share on, if the app's own is found.
start_url_point ==
    /\ page' \in {0, IF share THEN token' ELSE 0}
    /\ known' = known \cup ({page'} \ {0})

\* deploy_certificate(), the library and the layer, each of which can refuse.
lay_certificate ==
    \/ UNCHANGED layering
    \/ /\ redirection' = TRUE /\ uses' = uses + 1
       /\ \/ cert_layer' = TRUE /\ layers' = layers + 1
          \/ UNCHANGED <<cert_layer, layers>>

\* youtube_start(), the last of the hook that reads a setting.
youtube_start ==
    /\ stage = "arming" /\ stage' = "started"
    /\ IF title # "youtube" THEN UNCHANGED <<snapshot, tokens, preload_wanted, running, layering>>
       ELSE /\ active' = patcher
            /\ IF patcher THEN hosted' = current ELSE UNCHANGED hosted
            /\ IF patcher /\ ~current
               THEN /\ share_token_new
                    /\ preload_wanted' = share
                    /\ start_url_point
                    /\ running' \in BOOLEAN
                    /\ lay_certificate
               ELSE UNCHANGED <<tokens, preload_wanted, running, layering>>
    /\ UNCHANGED <<settings, title, premain_armed, began, strayed, preloaded, requests, now>>

\* youtube_premain(): spent by any title, and a load only in YouTube.
youtube_premain ==
    /\ preloaded' = (preloaded \/ (preload_wanted /\ title = "youtube"))
    /\ preload_wanted' = FALSE

\* OSCheckActiveThreads(): the loader's call before the title's first instruction, or another
\* caller's that comes before the start hook is through and spends the shot.
OSCheckActiveThreads ==
    /\ stage \in {"arming", "started"}
    /\ IF premain_armed THEN youtube_premain ELSE UNCHANGED preloads
    /\ premain_armed' = FALSE
    /\ stage' = IF stage = "started" THEN "running" ELSE stage
    /\ strayed' = (strayed \/ stage = "arming")
    /\ UNCHANGED <<settings, title, began, snapshot, layering, running, tokens, requests, now>>

\* The slip of an end that asks the menu.
EndIfPatcher ==
    IF ~patcher THEN UNCHANGED <<snapshot, running, layering>>
    ELSE /\ active' = FALSE /\ running' = (running /\ hosted)
         /\ cert_layer' = FALSE /\ layers' = layers - (IF cert_layer THEN 1 ELSE 0)
         /\ redirection' = FALSE /\ uses' = uses - (IF redirection THEN 1 ELSE 0)
         /\ UNCHANGED hosted

\* youtube_end(): what the start set up, whatever the menu says by now.
youtube_end ==
    IF ~active THEN UNCHANGED <<snapshot, running, layering>>
    ELSE /\ active' = FALSE /\ running' = (running /\ hosted)
         /\ cert_layer' = FALSE /\ layers' = layers - (IF cert_layer THEN 1 ELSE 0)
         /\ redirection' = FALSE /\ uses' = uses - (IF redirection THEN 1 ELSE 0)
         /\ UNCHANGED hosted

\* ON_APPLICATION_ENDS, and the process with its workers.
ApplicationEnds ==
    /\ stage = "running"
    /\ youtube_end
    /\ title' = "none" /\ stage' = "none"
    /\ stamp' = [w \in Worker |-> NoStamp]
    /\ UNCHANGED <<settings, premain_armed, began, strayed, tokens, preloads, rate, taken,
                   shared, now>>

\* The accept thread gives up.
ProxyQuits ==
    /\ running /\ stage = "running"
    /\ running' = FALSE
    /\ UNCHANGED <<settings, process, snapshot, layering, tokens, preloads, requests, now>>

-----------------------------------------------------------------------------
\* The slip of an answer that follows the menu.
AnswerByMenu(name) ==
    LET ours == patcher /\ title = "youtube"
    IN  CASE ours /\ name = "www.youtube.com" /\ ~current -> "the revival host"
          [] ours /\ name = "the proxy" /\ running -> "this console"
          [] OTHER -> name

\* youtube_answer()
youtube_answer(name) ==
    LET ours == active /\ title = "youtube"
    IN  CASE ours /\ name = "www.youtube.com" /\ ~hosted -> "the revival host"
          [] ours /\ name = "the proxy" /\ running -> "this console"
          [] OTHER -> name

\* getaddrinfo() with both hooks on it, up to what the resolver is asked for.
getaddrinfo(boot, name) ==
    LET arrives == IF boot.outer = "theirs" THEN Redirected(boot.build, name) ELSE name
        leaves == youtube_answer(arrives)
    IN  IF refuse(boot.account, arrives) THEN "refused"
        ELSE IF boot.outer = "ours" THEN Redirected(boot.build, leaves) ELSE leaves

\* The proxy's own lookups go past the answer.
proxy_resolve(boot, name) == IF boot.outer = "ours" THEN Redirected(boot.build, name) ELSE name

-----------------------------------------------------------------------------
\* A clock behind the oldest take counts as inside the minute; as an unsigned difference it
\* would be a long time after it.
WithinWrapped(n, oldest) == n >= oldest /\ n - oldest < MINUTE
Within(n, oldest) == n < oldest \/ n - oldest < MINUTE

\* share_rate_take()
Allowed(n) == rate.used = SHARE_PER_MINUTE => ~Within(n, rate.at[rate.next])

share_rate_take(n) ==
    /\ rate' = [at |-> [rate.at EXCEPT ![rate.next] = n],
                next |-> (rate.next + 1) % SHARE_PER_MINUTE,
                used |-> IF rate.used = SHARE_PER_MINUTE THEN rate.used ELSE rate.used + 1]
    /\ taken' = [taken EXCEPT ![n] = @ + 1]

\* answer_share(): a worker has the head and the body, and reads the clock.
ReadClock(w) ==
    /\ stage = "running" /\ running /\ stamp[w] = NoStamp
    /\ stamp' = [stamp EXCEPT ![w] = now]
    /\ UNCHANGED <<settings, process, snapshot, layering, running, tokens, preloads, rate,
                   taken, shared, now>>

\* share_body() with a token that some page was given, or another: refused for its token, for
\* its minute or for its fields, or handed to proxy_share(), which asks the menu once more.
ShareBody(w) ==
    /\ stamp[w] # NoStamp
    /\ \E given \in known \cup {0}, fields \in BOOLEAN :
        IF given # token \/ token = 0 \/ ~Allowed(stamp[w])
        THEN UNCHANGED <<rate, taken, shared>>
        ELSE /\ share_rate_take(stamp[w])
             /\ shared' = IF fields /\ share THEN given ELSE shared
    /\ stamp' = [stamp EXCEPT ![w] = NoStamp]
    /\ UNCHANGED <<settings, process, snapshot, layering, running, tokens, preloads, now>>

Tick ==
    /\ now < MaxTime
    /\ now' = now + 1
    /\ UNCHANGED <<settings, process, snapshot, layering, running, tokens, preloads, requests>>

Next ==
    \/ Change \/ \E t \in {"youtube", "another"} : Begin(t)
    \/ youtube_start \/ OSCheckActiveThreads \/ ApplicationEnds \/ ProxyQuits
    \/ \E w \in Worker : ReadClock(w) \/ ShareBody(w)
    \/ Tick

Spec == Init /\ [][Next]_vars

-----------------------------------------------------------------------------
\* Whether this process is a run the patcher redirected.
Redirecting == began.patched /\ ~began.current

\* Outside a redirected run of YouTube nothing of ContentRedirection's is held, and in one at
\* most one use and one layer, however the menu is changed between a start and its end: "one of
\* these without a matching init pulls it out from under whatever else on the console is
\* holding it".
LayersBalanced ==
    /\ uses \in 0 .. 1 /\ layers \in 0 .. uses
    /\ title = "none" \/ ~Redirecting => uses = 0 /\ layers = 0

\* From its start to its end a run looks up www.youtube.com where its own start said, whatever
\* the menu says since: at the revival host where it was redirected, and there alone; and the
\* proxy, forwarding to the real one, never gets that answer, which would be "in a circle".
AnswersAsStarted ==
    stage = "running" => \A boot \in Boot :
        /\ getaddrinfo(boot, "www.youtube.com") =
               IF Redirecting THEN "the revival host" ELSE "www.youtube.com"
        /\ getaddrinfo(boot, "the proxy") = "this console" => Redirecting
        /\ proxy_resolve(boot, "www.youtube.com") = "www.youtube.com"

\* Which of the two hooks is outer decides nothing: on Pretendo the same names are refused, a
\* game's under every build and Nintendo's CDN under none, and no program reaches one of
\* Protarium's hosts that it would be refused by its own name.
RefusedEitherWay ==
    \A boot \in Boot, name \in Asked :
        LET answer == getaddrinfo(boot, name)
            refused == {"game", "game by rule", "their game", "their spotpass"}
        IN  /\ (answer = "refused") <=> boot.account = "Pretendo" /\ name \in refused
            /\ boot.account = "Pretendo" => answer \notin refused

\* A share is handed on only with the token of the page this start made, and the Miiverse library
\* is loaded in just the redirected runs that began with Share on: "loading it is what costs a
\* slower start".  Not where the trigger was spent before the hook was through, or the run
\* before left a load.
SharesAsOffered ==
    /\ shared # NoneYet => Redirecting /\ began.share /\ shared = page
    /\ stage = "running" /\ ~strayed => preloaded = (Redirecting /\ began.share)

\* No minute has more takes than the limit, by the times the workers read, though they take in
\* any order and the ring goes by the order they take in.
RateHolds ==
    \A t \in 0 .. MaxTime :
        LET minute == {s \in t .. t + MINUTE - 1 : s \in DOMAIN taken}
            takes == {p \in minute \X (1 .. 1 + SHARE_PER_MINUTE) : p[2] <= taken[p[1]]}
        IN  Cardinality(takes) <= SHARE_PER_MINUTE
=============================================================================
