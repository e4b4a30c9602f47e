----------------------------- MODULE YouTubeProofs -----------------------------
(***************************************************************************)
(* Proofs about YouTube and, at the end, about what its page starts, a     *)
(* share to Miiverse.  Whatever the menu changes and ContentRedirection    *)
(* refuses, a run gives back what its start took, answers names as its     *)
(* start said, and hands on a share only with the token of its own page    *)
(* and no more of them than the rate allows.  A share that was handed on   *)
(* has one thread and one screen, and goes where it was built for.         *)
(***************************************************************************)
EXTENDS YouTube, OlvShare, FiniteSetTheorems, TLAPS

\* The type invariant, the switches and the numbers apart.
Switches ==
    /\ patcher \in BOOLEAN /\ current \in BOOLEAN /\ share \in BOOLEAN
    /\ title \in {"none", "youtube", "another"}
    /\ stage \in {"none", "arming", "started", "running"}
    /\ premain_armed \in BOOLEAN /\ active \in BOOLEAN /\ hosted \in BOOLEAN
    /\ preload_wanted \in BOOLEAN /\ preloaded \in BOOLEAN /\ strayed \in BOOLEAN
    /\ redirection \in BOOLEAN /\ cert_layer \in BOOLEAN /\ running \in BOOLEAN
Numbers ==
    /\ began \in [patched : BOOLEAN, current : BOOLEAN, share : BOOLEAN]
    /\ starts \in Nat /\ now \in Nat
    /\ stamp \in [Worker -> Int]
TypeInv == Switches /\ Numbers

\* The snapshot is the one this process began with, and what the proxy serves depends on it.
Snapshot ==
    /\ stage = "none" <=> title = "none"
    /\ stage \in {"none", "arming"} => ~active
    /\ stage = "arming" =>
           began = [patched |-> title = "youtube" /\ patcher, current |-> current, share |-> share]
    /\ stage \in {"started", "running"} =>
           (active <=> began.patched) /\ (active => (hosted <=> began.current))
    /\ stage # "none" /\ began.patched => title = "youtube"
    /\ running => active /\ ~hosted
    /\ \A w \in Worker : stamp[w] # NoStamp => stage = "running" /\ Redirecting

\* What ContentRedirection holds is what youtube.cpp believes it holds.
Layering ==
    /\ redirection => active /\ ~hosted
    /\ cert_layer => redirection
    /\ uses = IF redirection THEN 1 ELSE 0
    /\ layers = IF cert_layer THEN 1 ELSE 0

\* Each start that makes a token makes a new one, and gives it to its own page or to none.
Tokens ==
    /\ token \in 0 .. starts
    /\ known \subseteq 1 .. starts
    /\ stage = "arming" => page = 0 /\ shared = NoneYet
    /\ stage \in {"started", "running"} /\ Redirecting =>
           /\ page # 0 => began.share
           /\ token \in known => page = token
    /\ shared # NoneYet => shared # 0 /\ Redirecting /\ began.share /\ shared = page

\* The load is wanted from the start to the trigger, and had from there.
Loads ==
    ~strayed =>
        /\ stage = "arming" => premain_armed /\ ~preload_wanted /\ ~preloaded
        /\ stage = "started" => /\ premain_armed /\ ~preloaded
                                /\ preload_wanted <=> Redirecting /\ began.share
        /\ stage = "running" => (preloaded <=> Redirecting /\ began.share)

IInv == TypeInv /\ Snapshot /\ Layering /\ Tokens /\ Loads

\* A boot starts with nothing held.
LEMMA InitIInv == Init => IInv
<1> SUFFICES ASSUME Init PROVE IInv
  OBVIOUS
<1> USE DEF Init, NoStamp, NoneYet, Unbegun
<1>1. TypeInv
  <2>1. Switches
    BY DEF Switches
  <2>2. Numbers
    BY DEF Numbers
  <2> QED
    BY <2>1, <2>2 DEF TypeInv
<1>2. Snapshot
  BY DEF Snapshot
<1>3. Layering /\ Tokens /\ Loads
  BY DEF Layering, Tokens, Loads
<1> QED
  BY <1>1, <1>2, <1>3 DEF IInv

\* The menu's settings may change under a run: nothing of it is read from them.
LEMMA ChangeKeeps == IInv /\ Change => IInv'
<1> SUFFICES ASSUME IInv, Change PROVE IInv'
  OBVIOUS
<1> USE DEF IInv, Change, process, snapshot, layering, tokens, preloads, requests
<1>1. TypeInv'
  <2>1. Switches'
    BY DEF TypeInv, Switches
  <2>2. Numbers'
    BY DEF TypeInv, Numbers
  <2> QED
    BY <2>1, <2>2 DEF TypeInv
<1>2. Snapshot'
  BY DEF Snapshot, Redirecting
<1>3. Layering' /\ Tokens' /\ Loads'
  BY DEF Layering, Tokens, Loads, Redirecting
<1> QED
  BY <1>1, <1>2, <1>3

\* A process begins with the settings of the moment, and nothing of the last page.
LEMMA BeginKeeps ==
  ASSUME IInv, NEW t \in {"youtube", "another"}, Begin(t)
  PROVE  IInv'
<1> USE DEF IInv, Begin, settings, snapshot, layering
<1>1. TypeInv'
  <2>1. Switches'
    BY DEF TypeInv, Switches
  <2>2. Numbers'
    <3>1. (t = "youtube" /\ patcher) \in BOOLEAN
      OBVIOUS
    <3>2. began' \in [patched : BOOLEAN, current : BOOLEAN, share : BOOLEAN]
      BY <3>1 DEF TypeInv, Switches
    <3>3. UNCHANGED <<starts, now, stamp>>
      OBVIOUS
    <3> QED
      BY <3>2, <3>3 DEF TypeInv, Numbers
  <2> QED
    BY <2>1, <2>2 DEF TypeInv
<1>2. Snapshot'
  BY DEF TypeInv, Switches, Numbers, Snapshot, Redirecting
<1>3. Layering' /\ Tokens'
  BY DEF Layering, Tokens
<1>4. Loads'
  BY DEF Loads
<1> QED
  BY <1>1, <1>2, <1>3, <1>4

\* The start takes its snapshot of settings that are still those the process began with.
LEMMA StartKeeps == IInv /\ youtube_start => IInv'
<1> SUFFICES ASSUME IInv, youtube_start PROVE IInv'
  OBVIOUS
<1> USE DEF IInv, settings, requests
<1>1. /\ stage = "arming" /\ stage' = "started" /\ ~active /\ ~redirection /\ ~cert_layer
      /\ ~running /\ page = 0 /\ shared = NoneYet
      /\ began = [patched |-> title = "youtube" /\ patcher, current |-> current, share |-> share]
      /\ began' = began /\ title' = title /\ strayed' = strayed /\ preloaded' = preloaded
      /\ shared' = shared /\ premain_armed' = premain_armed /\ stamp' = stamp /\ now' = now
      /\ settings' = settings
      /\ \A w \in Worker : stamp[w] = NoStamp
  BY DEF youtube_start, Snapshot, Layering, Tokens
<1>2. CASE title = "youtube" /\ patcher /\ ~current
  <2>1. /\ active' /\ ~hosted' /\ running' \in BOOLEAN
        /\ starts' = starts + 1 /\ token' \in {0, starts + 1}
        /\ page' \in {0, IF share THEN token' ELSE 0}
        /\ known' = known \cup ({page'} \ {0})
        /\ preload_wanted' = share
        /\ lay_certificate
    BY <1>1, <1>2 DEF youtube_start, share_token_new, start_url_point
  <2>2. redirection' \in BOOLEAN /\ cert_layer' \in BOOLEAN /\ hosted' \in BOOLEAN
    BY <1>1, <1>2, <2>1 DEF TypeInv, Switches, Numbers, youtube_start, lay_certificate, layering
  <2>3. TypeInv'
    BY <1>1, <2>1, <2>2 DEF TypeInv, Switches, Numbers
  <2>4. began'.patched /\ ~began'.current
    BY <1>1, <1>2
  <2>5. Snapshot'
    BY <1>1, <1>2, <2>1, <2>4 DEF Snapshot
  <2>6. Layering'
    BY <1>1, <2>1 DEF Layering, lay_certificate, layering
  <2>7. Tokens'
    BY <1>1, <1>2, <2>1 DEF TypeInv, Switches, Numbers, Tokens, Redirecting
  <2>8. Loads'
    BY <1>1, <1>2, <2>1 DEF TypeInv, Switches, Numbers, Loads, Redirecting
  <2> QED
    BY <2>3, <2>5, <2>6, <2>7, <2>8
<1>3. CASE ~(title = "youtube" /\ patcher /\ ~current)
  <2>1. UNCHANGED <<tokens, preload_wanted, running, layering>>
    BY <1>3 DEF youtube_start, TypeInv, Switches, Numbers
  <2>2. IF title = "youtube" THEN active' = patcher /\ (patcher => hosted' = current)
                             ELSE active' = active
    BY <1>3 DEF youtube_start, snapshot
  <2>3. hosted' \in BOOLEAN
    BY DEF youtube_start, TypeInv, Switches, Numbers, snapshot
  <2>4. ~began.patched \/ began.current
    BY <1>1, <1>3 DEF TypeInv, Switches, Numbers
  <2>5. TypeInv'
    BY <1>1, <2>1, <2>2, <2>3 DEF TypeInv, Switches, Numbers, youtube_start, tokens, layering
  <2>6. Snapshot'
    BY <1>1, <2>1, <2>2, <2>4 DEF TypeInv, Switches, Numbers, Snapshot, Redirecting
  <2>7. Layering' /\ Tokens'
    BY <1>1, <2>1, <2>4 DEF Layering, Tokens, tokens, layering, Redirecting
  <2>8. Loads'
    BY <1>1, <2>1, <2>4 DEF TypeInv, Switches, Numbers, Loads, Redirecting
  <2> QED
    BY <2>5, <2>6, <2>7, <2>8
<1> QED
  BY <1>2, <1>3

\* The trigger, spent by the loader or by another caller.
LEMMA TriggerKeeps == IInv /\ OSCheckActiveThreads => IInv'
<1> SUFFICES ASSUME IInv, OSCheckActiveThreads PROVE IInv'
  OBVIOUS
<1> USE DEF IInv, OSCheckActiveThreads, youtube_premain, settings, snapshot, layering, tokens,
        requests, preloads
<1>1. TypeInv'
  <2>1. Switches'
    BY DEF TypeInv, Switches
  <2>2. Numbers'
    BY DEF TypeInv, Numbers
  <2> QED
    BY <2>1, <2>2 DEF TypeInv
<1>2. Snapshot'
  BY DEF TypeInv, Switches, Numbers, Snapshot, Redirecting
<1>3. Layering'
  BY DEF Layering
<1>4. Tokens'
  BY DEF Tokens, Redirecting
<1>5. Loads'
  BY DEF TypeInv, Switches, Numbers, Snapshot, Loads, Redirecting
<1> QED
  BY <1>1, <1>2, <1>3, <1>4, <1>5

\* The end gives back by the snapshot.
LEMMA EndKeeps == IInv /\ ApplicationEnds => IInv'
<1> SUFFICES ASSUME IInv, ApplicationEnds PROVE IInv'
  OBVIOUS
<1> USE DEF IInv, ApplicationEnds, youtube_end, settings, snapshot, layering, tokens, preloads
<1>1. TypeInv'
  <2>1. Switches'
    BY DEF TypeInv, Switches
  <2>2. Numbers'
    BY DEF TypeInv, Numbers, NoStamp
  <2> QED
    BY <2>1, <2>2 DEF TypeInv
<1>2. Snapshot' /\ Layering'
  BY DEF TypeInv, Switches, Numbers, Snapshot, Layering, Redirecting, NoStamp
<1>3. Tokens' /\ Loads'
  BY DEF Tokens, Loads, Redirecting
<1> QED
  BY <1>1, <1>2, <1>3

\* A share is for the page whose token it bears, and a worker is only there in a redirected run.
LEMMA ShareKeeps ==
  ASSUME IInv, NEW w \in Worker, ShareBody(w)
  PROVE  IInv'
<1> USE DEF IInv, ShareBody, settings, process, snapshot, layering, tokens, preloads
<1>1. TypeInv'
  <2>1. Switches'
    BY DEF TypeInv, Switches
  <2>2. Numbers'
    BY DEF TypeInv, Numbers, NoStamp
  <2> QED
    BY <2>1, <2>2 DEF TypeInv
<1>2. Snapshot'
  BY DEF TypeInv, Switches, Numbers, Snapshot, Redirecting
<1>3. Layering' /\ Loads'
  BY DEF Layering, Loads, Redirecting
<1>4. Tokens'
  <2>1. stage = "running" /\ Redirecting
    BY DEF Snapshot
  <2>2. shared' = shared \/ (shared' = token /\ token # 0 /\ token \in known)
    OBVIOUS
  <2> QED
    BY <2>1, <2>2 DEF TypeInv, Tokens, Redirecting
<1> QED
  BY <1>1, <1>2, <1>3, <1>4

\* The clock is read, moves on, or the proxy quits.
LEMMA RestKeeps ==
  ASSUME IInv, Tick \/ ProxyQuits \/ \E w \in Worker : ReadClock(w)
  PROVE  IInv'
<1> USE DEF IInv, settings, process, snapshot, layering, tokens, preloads, requests
<1>1. CASE Tick
  BY <1>1 DEF Tick, TypeInv, Switches, Numbers, Snapshot, Layering, Tokens, Loads, Redirecting
<1>2. CASE ProxyQuits
  <2>1. TypeInv'
    <3>1. Switches'
      BY <1>2 DEF ProxyQuits, TypeInv, Switches
    <3>2. Numbers'
      BY <1>2 DEF ProxyQuits, TypeInv, Numbers
    <3> QED
      BY <3>1, <3>2 DEF TypeInv
  <2>2. Snapshot'
    BY <1>2 DEF ProxyQuits, Snapshot, Redirecting
  <2>3. Layering' /\ Tokens' /\ Loads'
    BY <1>2 DEF ProxyQuits, Layering, Tokens, Loads, Redirecting
  <2> QED
    BY <2>1, <2>2, <2>3
<1>3. ASSUME NEW w \in Worker, ReadClock(w) PROVE IInv'
  BY <1>3 DEF ReadClock, TypeInv, Switches, Numbers, Snapshot, Layering, Tokens, Loads,
              Redirecting
<1> QED
  BY <1>1, <1>2, <1>3

\* Every step keeps the invariant.
LEMMA NextKeeps == IInv /\ [Next]_vars => IInv'
<1> SUFFICES ASSUME IInv, [Next]_vars PROVE IInv'
  OBVIOUS
<1>1. CASE UNCHANGED vars
  BY <1>1 DEF vars, settings, process, snapshot, layering, tokens, preloads, requests,
     IInv, TypeInv, Switches, Numbers, Snapshot, Layering, Tokens, Loads, Redirecting
<1> QED
  BY <1>1, ChangeKeeps, BeginKeeps, StartKeeps, TriggerKeeps, EndKeeps, ShareKeeps, RestKeeps
     DEF Next

\* The invariant holds throughout.
THEOREM Inductive == Spec => []IInv
  BY InitIInv, NextKeeps, PTL DEF Spec

\* ContentRedirection gets back what it gave, and nobody else's.
THEOREM GivenBack == Spec => []LayersBalanced
<1>1. IInv => LayersBalanced
  BY DEF IInv, TypeInv, Switches, Numbers, Snapshot, Layering, LayersBalanced, Redirecting
<1> QED
  BY Inductive, <1>1, PTL

\* What a run of YouTube answers a lookup with.
LEMMA AnswersFollow ==
  ASSUME IInv, stage = "running"
  PROVE  /\ active /\ title = "youtube" /\ ~hosted <=> Redirecting
         /\ active /\ title = "youtube" /\ running => Redirecting
  BY DEF IInv, TypeInv, Switches, Snapshot, Redirecting

\* A name is answered as the start of the run said, under every account server, Inkay and nesting.
THEOREM AsStarted == Spec => []AnswersAsStarted
<1>1. ASSUME IInv, stage = "running", NEW boot \in Boot
      PROVE  /\ getaddrinfo(boot, "www.youtube.com") =
                    IF Redirecting THEN "the revival host" ELSE "www.youtube.com"
             /\ getaddrinfo(boot, "the proxy") = "this console" => Redirecting
             /\ proxy_resolve(boot, "www.youtube.com") = "www.youtube.com"
  <2>1. /\ youtube_answer("www.youtube.com") =
               IF Redirecting THEN "the revival host" ELSE "www.youtube.com"
        /\ youtube_answer("the proxy") \in
               {"the proxy"} \cup (IF Redirecting THEN {"this console"} ELSE {})
    BY <1>1, AnswersFollow DEF youtube_answer
  <2>2. \A name \in {"www.youtube.com", "the proxy"} :
            ~refuse(boot.account, name) /\ Redirected(boot.build, name) = name
    BY DEF refuse, should_refuse, is_protarium, GAME_ORIGINALS, Redirected
  <2>3. \A name \in {"the revival host", "this console"} : Redirected(boot.build, name) = name
    BY DEF Redirected
  <2> QED
    BY <2>1, <2>2, <2>3 DEF getaddrinfo, proxy_resolve
<1>2. IInv => AnswersAsStarted
  BY <1>1 DEF AnswersAsStarted
<1> QED
  BY Inductive, <1>2, PTL

\* Which of the two hooks is the outer one decides nothing about what is refused.
THEOREM EitherWay == Spec => []RefusedEitherWay
<1> DEFINE Refused == {"game", "game by rule", "their game", "their spotpass"}
<1>1. ASSUME NEW boot \in Boot, NEW name \in Asked
      PROVE  /\ (getaddrinfo(boot, name) = "refused") <=>
                    boot.account = "Pretendo" /\ name \in Refused
             /\ boot.account = "Pretendo" => getaddrinfo(boot, name) \notin Refused
  <2>1. \A n \in {"game", "game by rule", "nintendo cdn", "their game", "their cdn", "their disc",
                  "their spotpass", "elsewhere"} : youtube_answer(n) = n
    BY DEF youtube_answer
  <2>2. youtube_answer("www.youtube.com") \in {"www.youtube.com", "the revival host"}
    BY DEF youtube_answer
  <2>3. youtube_answer("the proxy") \in {"the proxy", "this console"}
    BY DEF youtube_answer
  <2>4. CASE name \in GAME_ORIGINALS
    BY <2>1, <2>4 DEF getaddrinfo, Redirected, refuse, should_refuse, is_protarium,
       GAME_ORIGINALS, PROTARIUM_KEEP
  <2>5. CASE name = "nintendo cdn"
    BY <2>1, <2>5 DEF getaddrinfo, Redirected, refuse, should_refuse, is_protarium,
       GAME_ORIGINALS, PROTARIUM_KEEP
  <2>6. CASE name \in {"their game", "their disc", "their spotpass", "elsewhere"}
    <3>1. Redirected(boot.build, name) = name /\ youtube_answer(name) = name
      BY <2>1, <2>6 DEF Redirected
    <3>2. should_refuse(name) <=> name \in Refused
      BY <2>6 DEF should_refuse, is_protarium, GAME_ORIGINALS, PROTARIUM_KEEP
    <3> QED
      BY <2>6, <3>1, <3>2 DEF getaddrinfo, refuse
  <2>7. CASE name \in {"www.youtube.com", "the proxy"}
    BY <2>2, <2>3, <2>7 DEF getaddrinfo, Redirected, refuse, should_refuse, is_protarium,
       GAME_ORIGINALS, PROTARIUM_KEEP
  <2> QED
    BY <2>4, <2>5, <2>6, <2>7 DEF Asked, GAME_ORIGINALS
<1>2. RefusedEitherWay
  BY <1>1 DEF RefusedEitherWay
<1> QED
  BY <1>2, PTL

\* The token, the switch and the library of a share are those of one start.
THEOREM AsOffered == Spec => []SharesAsOffered
<1>1. ASSUME IInv PROVE SharesAsOffered
  <2>1. shared # NoneYet => Redirecting /\ began.share /\ shared = page
    BY <1>1 DEF IInv, Tokens
  <2>2. stage = "running" /\ ~strayed => (preloaded <=> Redirecting /\ began.share)
    BY <1>1 DEF IInv, Loads
  <2>3. preloaded \in BOOLEAN /\ (Redirecting /\ began.share) \in BOOLEAN
    BY <1>1 DEF IInv, TypeInv, Switches
  <2> QED
    BY <2>1, <2>2, <2>3 DEF SharesAsOffered
<1> QED
  BY Inductive, <1>1, PTL

-----------------------------------------------------------------------------
(***************************************************************************)
(* The rate of shares.  The takes of one entry of the ring are a minute    *)
(* apart, whatever the order they are made in, because the one that takes  *)
(* an entry has looked at the time it bears.  So no minute has two takes   *)
(* of one entry, and there are as many takes as entries at most.           *)
(***************************************************************************)
\* The entries of share_rate_take()'s ring.
Entry == 0 .. SHARE_PER_MINUTE - 1
Time == 0 .. MaxTime

Clocks == now \in Time /\ stamp \in [Worker -> Time \cup {NoStamp}]
Ring ==
    /\ taken \in [Time -> Nat]
    /\ rate \in [at : [Entry -> Time], next : Entry, used : 0 .. SHARE_PER_MINUTE]
    /\ rate.used < SHARE_PER_MINUTE => rate.next = rate.used

\* A book says which entries have borne each time.  An entry's times are a minute apart, and it
\* bears the last of them now.
Booking(book) ==
    /\ \A t \in Time : taken[t] = Cardinality(book[t])
    /\ \A t \in Time : \A i \in book[t] : t <= rate.at[i] /\ i < rate.used
    /\ \A t, u \in Time : \A i \in book[t] \cap book[u] : t < u => u - t >= MINUTE
Booked == \E book \in [Time -> SUBSET Entry] : Booking(book)

RateInv == Clocks /\ Ring /\ Booked

\* The next entry of the ring.
LEMMA NextEntry ==
  ASSUME NEW i \in Entry
  PROVE  (i + 1) % SHARE_PER_MINUTE = IF i + 1 = SHARE_PER_MINUTE THEN 0 ELSE i + 1
<1> USE RateAssumption DEF Entry
<1>1. CASE i + 1 = SHARE_PER_MINUTE
  BY <1>1
<1>2. CASE i + 1 < SHARE_PER_MINUTE
  BY <1>2
<1> QED
  BY <1>1, <1>2

\* A take keeps the ring a ring.
LEMMA TakeRing ==
  ASSUME Ring, NEW n \in Time, share_rate_take(n)
  PROVE  Ring'
<1> USE RateAssumption
<1>1. taken' \in [Time -> Nat]
  BY DEF Ring, share_rate_take
<1>2. rate.next \in Entry /\ rate.used \in 0 .. SHARE_PER_MINUTE /\ rate.at \in [Entry -> Time]
  BY DEF Ring
<1>3. /\ rate'.at = [rate.at EXCEPT ![rate.next] = n]
      /\ rate'.next = IF rate.next + 1 = SHARE_PER_MINUTE THEN 0 ELSE rate.next + 1
      /\ rate'.used = IF rate.used = SHARE_PER_MINUTE THEN rate.used ELSE rate.used + 1
  BY <1>2, NextEntry DEF share_rate_take
<1>4. rate' = [at |-> rate'.at, next |-> rate'.next, used |-> rate'.used]
  BY DEF share_rate_take
<1>5. rate'.at \in [Entry -> Time] /\ rate'.next \in Entry /\ rate'.used \in 0 .. SHARE_PER_MINUTE
  BY <1>2, <1>3 DEF Entry
<1>6. rate'.used < SHARE_PER_MINUTE => rate'.next = rate'.used
  BY <1>2, <1>3 DEF Ring, Entry
<1> QED
  BY <1>1, <1>4, <1>5, <1>6 DEF Ring

\* A take is entered in the book, for the entry that it takes.
LEMMA TakeBooked ==
  ASSUME Ring, Booked, NEW n \in Time, Allowed(n), share_rate_take(n)
  PROVE  Booked'
<1> USE RateAssumption
<1>1. PICK book \in [Time -> SUBSET Entry] : Booking(book)
  BY DEF Booked
<1> DEFINE i == rate.next
           entered == [book EXCEPT ![n] = book[n] \cup {i}]
<1>2. /\ i \in Entry /\ rate.used \in 0 .. SHARE_PER_MINUTE /\ rate.at \in [Entry -> Time]
      /\ rate.used < SHARE_PER_MINUTE => i = rate.used
  BY DEF Ring
<1>3. /\ rate'.at = [rate.at EXCEPT ![i] = n]
      /\ rate'.used = IF rate.used = SHARE_PER_MINUTE THEN rate.used ELSE rate.used + 1
      /\ taken' = [taken EXCEPT ![n] = taken[n] + 1]
  BY DEF share_rate_take
<1>4. \A t \in Time : i \in book[t] => n - t >= MINUTE
  <2> SUFFICES ASSUME NEW t \in Time, i \in book[t] PROVE n - t >= MINUTE
    OBVIOUS
  <2>1. t <= rate.at[i] /\ i < rate.used
    BY <1>1 DEF Booking
  <2>2. rate.used = SHARE_PER_MINUTE
    BY <1>2, <2>1 DEF Entry
  <2>3. ~(n < rate.at[i]) /\ ~(n - rate.at[i] < MINUTE)
    BY <2>2 DEF Allowed, Within
  <2> QED
    BY <1>2, <2>1, <2>3 DEF Time, Entry
<1>5. i \notin book[n]
  BY <1>4 DEF Time
<1>6. entered \in [Time -> SUBSET Entry]
  BY <1>2
<1>7. \A t \in Time : taken'[t] = Cardinality(entered[t])
  <2> SUFFICES ASSUME NEW t \in Time PROVE taken'[t] = Cardinality(entered[t])
    OBVIOUS
  <2>1. taken[t] = Cardinality(book[t])
    BY <1>1 DEF Booking
  <2>2. CASE t = n
    <3>1. IsFiniteSet(Entry)
      BY FS_Interval DEF Entry
    <3>2. book[n] \in SUBSET Entry
      OBVIOUS
    <3>3. IsFiniteSet(book[n])
      BY <3>1, <3>2, FS_Subset
    <3>4. Cardinality(book[n] \cup {i}) = Cardinality(book[n]) + 1
      BY <1>5, <3>3, FS_AddElement
    <3> QED
      BY <1>3, <2>1, <2>2, <3>4 DEF Ring
  <2>3. CASE t # n
    BY <1>3, <2>1, <2>3 DEF Ring
  <2> QED
    BY <2>2, <2>3
<1>8. \A t \in Time : \A j \in entered[t] : t <= rate'.at[j] /\ j < rate'.used
  <2> SUFFICES ASSUME NEW t \in Time, NEW j \in entered[t]
               PROVE  t <= rate'.at[j] /\ j < rate'.used
    OBVIOUS
  <2>1. j \in Entry
    BY <1>6
  <2>2. CASE j = i
    <3>1. rate'.at[j] = n
      BY <1>2, <1>3, <2>2
    <3>2. t = n \/ n - t >= MINUTE
      BY <1>4, <2>2
    <3> QED
      BY <1>2, <1>3, <2>2, <3>1, <3>2 DEF Time, Entry
  <2>3. CASE j # i
    <3>1. j \in book[t]
      BY <2>3
    <3>2. t <= rate.at[j] /\ j < rate.used
      BY <1>1, <3>1 DEF Booking
    <3> QED
      BY <1>2, <1>3, <2>1, <2>3, <3>2 DEF Entry
  <2> QED
    BY <2>2, <2>3
<1>9. \A t, u \in Time : \A j \in entered[t] \cap entered[u] : t < u => u - t >= MINUTE
  <2> SUFFICES ASSUME NEW t \in Time, NEW u \in Time, NEW j \in entered[t] \cap entered[u], t < u
               PROVE  u - t >= MINUTE
    OBVIOUS
  <2>1. CASE j \in book[t] /\ j \in book[u]
    BY <1>1, <2>1 DEF Booking
  <2>2. CASE j \notin book[u]
    <3>1. u = n /\ j = i
      BY <2>2
    <3>2. t # n
      BY <3>1 DEF Time
    <3>3. j \in book[t]
      BY <3>2
    <3> QED
      BY <1>4, <3>1, <3>3
  <2>3. CASE j \notin book[t]
    <3>1. t = n /\ j = i
      BY <2>3
    <3>2. u # n
      BY <3>1 DEF Time
    <3>3. j \in book[u]
      BY <3>2
    <3>4. n - u >= MINUTE
      BY <1>4, <3>1, <3>3
    <3> QED
      BY <3>1, <3>4 DEF Time
  <2> QED
    BY <2>1, <2>2, <2>3
<1>10. PICK after \in [Time -> SUBSET Entry] : after = entered
  BY <1>6
<1>11. Booking(after)'
  BY <1>7, <1>8, <1>9, <1>10 DEF Booking
<1> QED
  BY <1>11 DEF Booked

\* Every step keeps the ring, the clocks and the book: the time a worker takes with is one it read.
LEMMA NextRate == RateInv /\ [Next]_vars => RateInv'
<1> SUFFICES ASSUME RateInv, [Next]_vars PROVE RateInv'
  OBVIOUS
<1> USE RateAssumption DEF RateInv, Clocks, Time
<1>1. ASSUME UNCHANGED <<rate, taken>> PROVE Ring' /\ Booked'
  BY <1>1 DEF Ring, Booked, Booking
<1>2. CASE \E w \in Worker : ShareBody(w)
  <2>1. PICK w \in Worker : ShareBody(w)
    BY <1>2
  <2>2. Clocks'
    BY <2>1 DEF ShareBody
  <2>3. CASE UNCHANGED <<rate, taken>>
    BY <1>1, <2>2, <2>3
  <2>4. CASE Allowed(stamp[w]) /\ share_rate_take(stamp[w])
    <3>1. stamp[w] \in Time
      BY <2>1 DEF ShareBody
    <3> QED
      BY <2>2, <2>4, <3>1, TakeRing, TakeBooked
  <2> QED
    BY <2>1, <2>3, <2>4 DEF ShareBody
<1>3. CASE \E w \in Worker : ReadClock(w)
  <2>1. UNCHANGED <<rate, taken>>
    BY <1>3 DEF ReadClock
  <2>2. Clocks'
    BY <1>3 DEF ReadClock
  <2> QED
    BY <1>1, <2>1, <2>2
<1>4. CASE Tick
  <2>1. UNCHANGED <<rate, taken>>
    BY <1>4 DEF Tick, requests
  <2>2. Clocks'
    BY <1>4 DEF Tick, requests
  <2> QED
    BY <1>1, <2>1, <2>2
<1>5. CASE ApplicationEnds
  <2>1. UNCHANGED <<rate, taken>>
    BY <1>5 DEF ApplicationEnds
  <2>2. Clocks'
    BY <1>5 DEF ApplicationEnds
  <2> QED
    BY <1>1, <2>1, <2>2
<1>6. CASE \/ Change \/ \E t \in {"youtube", "another"} : Begin(t)
           \/ youtube_start \/ OSCheckActiveThreads \/ ProxyQuits \/ UNCHANGED vars
  <2>1. UNCHANGED <<rate, taken, stamp, now>>
    BY <1>6 DEF Change, Begin, youtube_start, OSCheckActiveThreads, ProxyQuits, vars, requests
  <2> QED
    BY <1>1, <2>1
<1> QED
  BY <1>2, <1>3, <1>4, <1>5, <1>6 DEF Next

\* What the book says of a minute: its takes are as many as entries that bear them.
LEMMA MinuteHolds ==
  ASSUME Ring, Booked, NEW t \in Time
  PROVE  LET minute == {s \in t .. t + MINUTE - 1 : s \in DOMAIN taken}
             takes == {p \in minute \X (1 .. 1 + SHARE_PER_MINUTE) : p[2] <= taken[p[1]]}
         IN  Cardinality(takes) <= SHARE_PER_MINUTE
<1> DEFINE minute == {s \in t .. t + MINUTE - 1 : s \in DOMAIN taken}
           takes == {p \in minute \X (1 .. 1 + SHARE_PER_MINUTE) : p[2] <= taken[p[1]]}
<1> USE RateAssumption
<1>1. PICK book \in [Time -> SUBSET Entry] : Booking(book)
  BY DEF Booked
<1>2. IsFiniteSet(Entry) /\ Cardinality(Entry) = SHARE_PER_MINUTE
  BY FS_Interval DEF Entry
<1>3. \A s \in Time : taken[s] \in Nat /\ ExistsBijection(1 .. taken[s], book[s])
  <2> SUFFICES ASSUME NEW s \in Time
               PROVE  taken[s] \in Nat /\ ExistsBijection(1 .. taken[s], book[s])
    OBVIOUS
  <2>1. book[s] \in SUBSET Entry
    OBVIOUS
  <2>2. IsFiniteSet(book[s])
    BY <1>2, <2>1, FS_Subset
  <2> QED
    BY <1>1, <2>2, FS_CardinalityType DEF Booking
<1> DEFINE nth == [s \in Time |-> CHOOSE f \in Bijection(1 .. taken[s], book[s]) : TRUE]
<1>4. \A s \in Time : nth[s] \in Bijection(1 .. taken[s], book[s])
  BY <1>3 DEF ExistsBijection
<1> HIDE DEF nth
<1>5. minute \subseteq Time /\ \A s, u \in minute : u - s < MINUTE
  BY DEF Ring, Time
<1>6. \A p \in takes : /\ p[1] \in minute /\ p[2] \in 1 .. taken[p[1]]
                       /\ p = <<p[1], p[2]>>
  <2> SUFFICES ASSUME NEW p \in takes
               PROVE  p[1] \in minute /\ p[2] \in 1 .. taken[p[1]] /\ p = <<p[1], p[2]>>
    OBVIOUS
  <2>1. PICK s \in minute, k \in 1 .. 1 + SHARE_PER_MINUTE : p = <<s, k>> /\ k <= taken[s]
    OBVIOUS
  <2>2. taken[s] \in Nat
    BY <1>3, <1>5
  <2> QED
    BY <2>1, <2>2
<1> DEFINE entry == [p \in takes |-> nth[p[1]][p[2]]]
<1> HIDE DEF takes
<1>7. \A p \in takes : entry[p] \in book[p[1]] /\ entry[p] \in Entry
  <2> SUFFICES ASSUME NEW p \in takes PROVE entry[p] \in book[p[1]] /\ entry[p] \in Entry
    OBVIOUS
  <2>1. p[1] \in Time /\ p[2] \in 1 .. taken[p[1]]
    BY <1>5, <1>6
  <2>2. nth[p[1]] \in [1 .. taken[p[1]] -> book[p[1]]]
    BY <1>4, <2>1 DEF Bijection, Injection
  <2> QED
    BY <2>1, <2>2
<1>8. \A p, q \in takes : entry[p] = entry[q] => p = q
  <2> SUFFICES ASSUME NEW p \in takes, NEW q \in takes, entry[p] = entry[q] PROVE p = q
    OBVIOUS
  <2>1. /\ p[1] \in minute /\ q[1] \in minute /\ p[1] \in Time /\ q[1] \in Time
        /\ p[2] \in 1 .. taken[p[1]] /\ q[2] \in 1 .. taken[q[1]]
    BY <1>5, <1>6
  <2>2. p[1] = q[1]
    <3>1. entry[p] \in book[p[1]] \cap book[q[1]]
      BY <1>7
    <3>2. p[1] < q[1] => q[1] - p[1] >= MINUTE
      BY <1>1, <2>1, <3>1 DEF Booking
    <3>3. q[1] < p[1] => p[1] - q[1] >= MINUTE
      BY <1>1, <2>1, <3>1 DEF Booking
    <3>4. q[1] - p[1] < MINUTE /\ p[1] - q[1] < MINUTE
      BY <1>5, <2>1
    <3> HIDE DEF minute, entry
    <3> QED
      BY <2>1, <3>2, <3>3, <3>4 DEF Time
  <2>3. IsInjective(nth[p[1]]) /\ DOMAIN nth[p[1]] = 1 .. taken[p[1]]
    BY <1>4, <2>1 DEF Bijection, Injection
  <2>4. nth[p[1]][p[2]] = nth[p[1]][q[2]]
    BY <2>2
  <2>5. p[2] = q[2]
    BY <2>1, <2>2, <2>3, <2>4 DEF IsInjective
  <2> QED
    BY <1>6, <2>2, <2>5
<1>9. entry \in Injection(takes, Entry)
  BY <1>7, <1>8 DEF Injection, IsInjective
<1>10. Cardinality(takes) <= Cardinality(Entry)
  BY <1>2, <1>9, FS_Injection
<1> QED
  BY <1>2, <1>10 DEF takes

\* RateHolds: for any limit, minute and number of workers, and clocks read in any order.
THEOREM RateKept == Spec => []RateHolds
<1>1. Init => RateInv
  <2> SUFFICES ASSUME Init PROVE RateInv
    OBVIOUS
  <2> USE RateAssumption DEF Init, Entry, Time
  <2>1. Clocks /\ Ring
    BY DEF Clocks, Ring
  <2>2. Booking([t \in Time |-> {}])
    BY FS_EmptySet DEF Booking
  <2> QED
    BY <2>1, <2>2 DEF RateInv, Booked
<1>2. RateInv => RateHolds
  BY MinuteHolds DEF RateInv, RateHolds, Time
<1> QED
  BY <1>1, <1>2, NextRate, PTL DEF Spec

-----------------------------------------------------------------------------
(***************************************************************************)
(* The share that a request starts.  Nobody holds a lock from the worker   *)
(* over the share thread to the hook: the state is handed on, and with it  *)
(* the right to change it.                                                 *)
(***************************************************************************)
\* Who is inside the handling of a share.
Owns(a) == pc[a] \notin {"none", IF a = "thread" THEN "return" ELSE "clear"}

\* One is, and the state says so.
OneOwner ==
    /\ \A a, b \in Actor : Owns(a) /\ Owns(b) => a = b
    /\ state = "Running" <=> \E a \in Actor : Owns(a)

Posting == {"acquire", "hosts", "set_up", "upload"}

\* A worker that has looked finds no thread for as long as it goes on.
ThreadGone == \A w \in Caller : pc[w] \in {"build", "spawn"} => pc["thread"] = "none"

\* What was built is for the Miiverse selected until the thread has looked at the library, and
\* the library names it from then on, unless the setting changed in between.
BuiltForIt ==
    /\ \A w \in Caller : pc[w] = "spawn" => community = selected \/ moved
    /\ pc["thread"] \in {"acquire", "hosts"} => community = selected \/ moved
    /\ pc["thread"] \in {"set_up", "upload"} => library = community \/ moved

\* A screen that was asked for is either still the business of the share that asked, or the gap
\* has begun, and so it is with the result of one that closed; and who has found no gap finds no
\* screen either.
NoScreen ==
    /\ screen = "asked" =>
        gap \/ state = "Launched" \/ pc["hook"] = "result" \/ pc["thread"] = "launch"
    /\ closed = "result due" => gap \/ pc["hook"] = "result"
    /\ \A w \in Caller : pc[w] = "gap" => screen = "none" \/ gap
    /\ (\E w \in Caller : pc[w] \in {"thread", "build", "spawn", "f_stamp"})
            \/ pc["thread"] \in Posting \cup {"f_stamp"} =>
        screen = "none" /\ ~gap

\* The hook is past the result of a share that got as far as its screen, and in the gap after it.
HookClears == pc["hook"] \in {"finish", "done", "clear"} => gap /\ last = "screen"

Typed == pc \in [Actor -> Place] /\ screen \in {"none", "asked", "open"}

ShareInv == Typed /\ OneOwner /\ ThreadGone /\ BuiltForIt /\ NoScreen /\ HookClears

\* No share is under way at first.
LEMMA ShareBegins == ShareInit => ShareInv
BY ShareAssumption DEF ShareInit, ShareInv, Typed, Place, CallerPlace, OneOwner, Owns, ThreadGone,
                       BuiltForIt, NoScreen, HookClears, Actor, Posting

\* A worker, from the request to the share thread.
LEMMA CallerKeeps ==
  ASSUME ShareInv, NEW w \in Caller, OlvShareStart(w)
  PROVE  ShareInv'
<1> USE ShareAssumption DEF ShareInv, Typed, Goto, Actor, kept
<1>1. w \in Actor /\ w # "thread" /\ w # "hook" /\ "thread" \in Actor /\ "hook" \in Actor
  OBVIOUS
<1>2. CASE Start(w)
  <2>1. Typed'
    BY <1>1, <1>2 DEF Start, Place, CallerPlace, ThreadPlace, HookPlace, FinishPlace
  <2>2. OneOwner'
    BY <1>1, <1>2 DEF Start, OneOwner, Owns
  <2>3. ThreadGone' /\ BuiltForIt'
    BY <1>1, <1>2 DEF Start, OneOwner, Owns, ThreadGone, BuiltForIt, Posting, miiverses
  <2>4. NoScreen'
    BY <1>1, <1>2 DEF Start, OneOwner, Owns, NoScreen, Posting
  <2>5. HookClears'
    BY <1>1, <1>2 DEF Start, HookClears
  <2> QED
    BY <2>1, <2>2, <2>3, <2>4, <2>5
<1>3. CASE CheckGap(w)
  <2>1. Typed'
    BY <1>1, <1>3 DEF CheckGap, TurnDown, GoOn, Place, CallerPlace, ThreadPlace, HookPlace,
                      FinishPlace
  <2>2. OneOwner'
    BY <1>1, <1>3 DEF CheckGap, TurnDown, GoOn, OneOwner, Owns
  <2>3. ThreadGone' /\ BuiltForIt'
    BY <1>1, <1>3 DEF CheckGap, TurnDown, GoOn, OneOwner, Owns, ThreadGone, BuiltForIt, Posting,
                      miiverses
  <2>4. NoScreen'
    <3>1. pc["hook"] # "result" /\ pc["thread"] # "launch" /\ state = "Running"
      BY <1>1, <1>3 DEF CheckGap, OneOwner, Owns
    <3>2. CASE gap
      BY <1>1, <1>3, <3>1, <3>2 DEF CheckGap, TurnDown, NoScreen
    <3>3. CASE ~gap
      BY <1>1, <1>3, <3>1, <3>3 DEF CheckGap, GoOn, NoScreen
    <3> QED
      BY <3>2, <3>3
  <2>5. HookClears'
    BY <1>1, <1>3 DEF CheckGap, TurnDown, GoOn, HookClears
  <2> QED
    BY <2>1, <2>2, <2>3, <2>4, <2>5
<1>4. CASE CheckThread(w)
  <2>1. Typed'
    BY <1>1, <1>4 DEF CheckThread, TurnDown, GoOn, Place, CallerPlace, ThreadPlace, HookPlace,
                      FinishPlace
  <2>2. OneOwner'
    BY <1>1, <1>4 DEF CheckThread, TurnDown, GoOn, OneOwner, Owns
  <2>3. ThreadGone' /\ BuiltForIt'
    BY <1>1, <1>4 DEF CheckThread, TurnDown, GoOn, OneOwner, Owns, ThreadGone, BuiltForIt,
                      Posting, miiverses
  <2>4. NoScreen'
    BY <1>1, <1>4 DEF CheckThread, TurnDown, GoOn, OneOwner, Owns, NoScreen, Posting
  <2>5. HookClears'
    BY <1>1, <1>4 DEF CheckThread, TurnDown, GoOn, HookClears
  <2> QED
    BY <2>1, <2>2, <2>3, <2>4, <2>5
<1>5. CASE BuildBody(w)
  <2>1. Typed'
    BY <1>1, <1>5 DEF BuildBody, TurnDown, GoOn, Place, CallerPlace, ThreadPlace, HookPlace,
                      FinishPlace
  <2>2. OneOwner'
    BY <1>1, <1>5 DEF BuildBody, TurnDown, GoOn, OneOwner, Owns
  <2>3. ThreadGone' /\ BuiltForIt'
    BY <1>1, <1>5 DEF BuildBody, TurnDown, GoOn, OneOwner, Owns, ThreadGone, BuiltForIt, Posting,
                      miiverses
  <2>4. NoScreen'
    BY <1>1, <1>5 DEF BuildBody, TurnDown, GoOn, OneOwner, Owns, NoScreen, Posting
  <2>5. HookClears'
    BY <1>1, <1>5 DEF BuildBody, TurnDown, GoOn, HookClears
  <2> QED
    BY <2>1, <2>2, <2>3, <2>4, <2>5
<1>6. CASE StartThread(w)
  <2>1. Typed'
    BY <1>1, <1>6 DEF StartThread, Place, CallerPlace, ThreadPlace, HookPlace, FinishPlace
  <2>2. OneOwner'
    BY <1>1, <1>6 DEF StartThread, OneOwner, Owns
  <2>3. ThreadGone' /\ BuiltForIt'
    BY <1>1, <1>6 DEF StartThread, OneOwner, Owns, ThreadGone, BuiltForIt, Posting, miiverses
  <2>4. NoScreen'
    BY <1>1, <1>6 DEF StartThread, OneOwner, Owns, NoScreen, Posting
  <2>5. HookClears'
    BY <1>1, <1>6 DEF StartThread, HookClears
  <2> QED
    BY <2>1, <2>2, <2>3, <2>4, <2>5
<1>7. CASE Finish(w)
  <2>1. Typed'
    BY <1>1, <1>7 DEF Finish, Stamp, StoreDone, Place, CallerPlace, ThreadPlace, HookPlace,
                      FinishPlace
  <2>2. OneOwner'
    BY <1>1, <1>7 DEF Finish, Stamp, StoreDone, OneOwner, Owns
  <2>3. ThreadGone' /\ BuiltForIt'
    BY <1>1, <1>7 DEF Finish, Stamp, StoreDone, OneOwner, Owns, ThreadGone, BuiltForIt, Posting,
                      miiverses
  <2>4. NoScreen'
    BY <1>1, <1>7 DEF Finish, Stamp, StoreDone, OneOwner, Owns, NoScreen, Posting
  <2>5. HookClears'
    BY <1>1, <1>7 DEF Finish, Stamp, StoreDone, OneOwner, Owns, NoScreen, HookClears, Posting
  <2> QED
    BY <2>1, <2>2, <2>3, <2>4, <2>5
<1> QED
  BY <1>2, <1>3, <1>4, <1>5, <1>6, <1>7 DEF OlvShareStart

\* The share thread, from the library to the screen.
LEMMA ThreadKeeps ==
  ASSUME ShareInv, Thread
  PROVE  ShareInv'
<1> USE ShareAssumption DEF ShareInv, Typed, Goto, Actor, ThreadUnchanged, kept
<1>1. "thread" \in Actor /\ "thread" \notin Caller /\ "hook" \in Actor
  OBVIOUS
<1>2. CASE Acquire
  <2>1. Typed'
    BY <1>1, <1>2 DEF Acquire, Place, CallerPlace, ThreadPlace, HookPlace, FinishPlace
  <2>2. OneOwner'
    BY <1>1, <1>2 DEF Acquire, OneOwner, Owns
  <2>3. ThreadGone' /\ BuiltForIt'
    BY <1>1, <1>2 DEF Acquire, OneOwner, Owns, ThreadGone, BuiltForIt, Posting, miiverses
  <2>4. NoScreen'
    BY <1>1, <1>2 DEF Acquire, OneOwner, Owns, NoScreen, Posting
  <2>5. HookClears'
    BY <1>1, <1>2 DEF Acquire, HookClears
  <2> QED
    BY <2>1, <2>2, <2>3, <2>4, <2>5
<1>3. CASE CheckHosts
  <2>1. Typed'
    BY <1>1, <1>3 DEF CheckHosts, Place, CallerPlace, ThreadPlace, HookPlace, FinishPlace
  <2>2. OneOwner'
    BY <1>1, <1>3 DEF CheckHosts, OneOwner, Owns
  <2>3. ThreadGone' /\ BuiltForIt'
    BY <1>1, <1>3 DEF CheckHosts, OneOwner, Owns, ThreadGone, BuiltForIt, Posting, miiverses
  <2>4. NoScreen'
    BY <1>1, <1>3 DEF CheckHosts, OneOwner, Owns, NoScreen, Posting
  <2>5. HookClears'
    BY <1>1, <1>3 DEF CheckHosts, HookClears
  <2> QED
    BY <2>1, <2>2, <2>3, <2>4, <2>5
<1>4. CASE SetUp
  <2>1. Typed'
    BY <1>1, <1>4 DEF SetUp, Place, CallerPlace, ThreadPlace, HookPlace, FinishPlace
  <2>2. OneOwner'
    BY <1>1, <1>4 DEF SetUp, OneOwner, Owns
  <2>3. ThreadGone' /\ BuiltForIt'
    BY <1>1, <1>4 DEF SetUp, OneOwner, Owns, ThreadGone, BuiltForIt, Posting, miiverses
  <2>4. NoScreen'
    BY <1>1, <1>4 DEF SetUp, OneOwner, Owns, NoScreen, Posting
  <2>5. HookClears'
    BY <1>1, <1>4 DEF SetUp, HookClears
  <2> QED
    BY <2>1, <2>2, <2>3, <2>4, <2>5
<1>5. CASE Upload
  <2>1. Typed'
    BY <1>1, <1>5 DEF Upload, Place, CallerPlace, ThreadPlace, HookPlace, FinishPlace
  <2>2. OneOwner'
    BY <1>1, <1>5 DEF Upload, OneOwner, Owns
  <2>3. ThreadGone' /\ BuiltForIt'
    BY <1>1, <1>5 DEF Upload, OneOwner, Owns, ThreadGone, BuiltForIt, Posting, miiverses
  <2>4. NoScreen'
    BY <1>1, <1>5 DEF Upload, OneOwner, Owns, NoScreen, Posting
  <2>5. HookClears'
    BY <1>1, <1>5 DEF Upload, HookClears
  <2> QED
    BY <2>1, <2>2, <2>3, <2>4, <2>5
<1>6. CASE StoreLaunched
  <2>1. Typed'
    BY <1>1, <1>6 DEF StoreLaunched, Place, CallerPlace, ThreadPlace, HookPlace, FinishPlace
  <2>2. OneOwner'
    BY <1>1, <1>6 DEF StoreLaunched, OneOwner, Owns
  <2>3. ThreadGone' /\ BuiltForIt'
    BY <1>1, <1>6 DEF StoreLaunched, OneOwner, Owns, ThreadGone, BuiltForIt, Posting, miiverses
  <2>4. NoScreen'
    BY <1>1, <1>6 DEF StoreLaunched, OneOwner, Owns, NoScreen, Posting
  <2>5. HookClears'
    BY <1>1, <1>6 DEF StoreLaunched, HookClears
  <2> QED
    BY <2>1, <2>2, <2>3, <2>4, <2>5
<1>7. CASE Return
  <2>1. Typed'
    BY <1>1, <1>7 DEF Return, Place, CallerPlace, ThreadPlace, HookPlace, FinishPlace
  <2>2. OneOwner'
    BY <1>1, <1>7 DEF Return, OneOwner, Owns
  <2>3. ThreadGone' /\ BuiltForIt'
    BY <1>1, <1>7 DEF Return, OneOwner, Owns, ThreadGone, BuiltForIt, Posting, miiverses
  <2>4. NoScreen'
    BY <1>1, <1>7 DEF Return, OneOwner, Owns, NoScreen, Posting
  <2>5. HookClears'
    BY <1>1, <1>7 DEF Return, HookClears
  <2> QED
    BY <2>1, <2>2, <2>3, <2>4, <2>5
<1>8. CASE Finish("thread")
  <2>1. Typed'
    BY <1>1, <1>8 DEF Finish, Stamp, StoreDone, Place, CallerPlace, ThreadPlace, HookPlace,
                      FinishPlace
  <2>2. OneOwner'
    BY <1>1, <1>8 DEF Finish, Stamp, StoreDone, OneOwner, Owns
  <2>3. ThreadGone' /\ BuiltForIt'
    BY <1>1, <1>8 DEF Finish, Stamp, StoreDone, OneOwner, Owns, ThreadGone, BuiltForIt, Posting,
                      miiverses
  <2>4. NoScreen'
    BY <1>1, <1>8 DEF Finish, Stamp, StoreDone, OneOwner, Owns, NoScreen, Posting
  <2>5. HookClears'
    BY <1>1, <1>8 DEF Finish, Stamp, StoreDone, OneOwner, Owns, NoScreen, HookClears, Posting
  <2> QED
    BY <2>1, <2>2, <2>3, <2>4, <2>5
<1> QED
  BY <1>2, <1>3, <1>4, <1>5, <1>6, <1>7, <1>8 DEF Thread

\* The hook, and what happens around the three.
LEMMA HookKeeps ==
  ASSUME ShareInv, Hook \/ HomeMenu \/ ScreenOpens \/ ScreenCloses
  PROVE  ShareInv'
<1> USE ShareAssumption DEF ShareInv, Typed, Goto, Actor, kept
<1>1. "hook" \in Actor /\ "hook" \notin Caller /\ "thread" \in Actor
  OBVIOUS
<1>2. CASE ReadResult
  <2>1. Typed'
    BY <1>1, <1>2 DEF ReadResult, Place, CallerPlace, ThreadPlace, HookPlace, FinishPlace
  <2>2. OneOwner'
    BY <1>1, <1>2 DEF ReadResult, OneOwner, Owns
  <2>3. ThreadGone' /\ BuiltForIt'
    BY <1>1, <1>2 DEF ReadResult, OneOwner, Owns, ThreadGone, BuiltForIt, Posting, miiverses
  <2>4. NoScreen'
    BY <1>1, <1>2 DEF ReadResult, OneOwner, Owns, NoScreen, Posting
  <2>5. HookClears'
    BY <1>1, <1>2 DEF ReadResult, HookClears
  <2> QED
    BY <2>1, <2>2, <2>3, <2>4, <2>5
<1>3. CASE StampResult
  <2>1. Typed'
    BY <1>1, <1>3 DEF StampResult, Place, CallerPlace, ThreadPlace, HookPlace, FinishPlace
  <2>2. OneOwner'
    BY <1>1, <1>3 DEF StampResult, OneOwner, Owns
  <2>3. ThreadGone' /\ BuiltForIt'
    BY <1>1, <1>3 DEF StampResult, OneOwner, Owns, ThreadGone, BuiltForIt, Posting, miiverses
  <2>4. NoScreen'
    BY <1>1, <1>3 DEF StampResult, OneOwner, Owns, NoScreen, Posting
  <2>5. HookClears'
    BY <1>1, <1>3 DEF StampResult, HookClears
  <2> QED
    BY <2>1, <2>2, <2>3, <2>4, <2>5
<1>4. CASE StoreResultDone
  <2>1. Typed'
    BY <1>1, <1>4 DEF StoreResultDone, Place, CallerPlace, ThreadPlace, HookPlace, FinishPlace
  <2>2. OneOwner'
    BY <1>1, <1>4 DEF StoreResultDone, OneOwner, Owns
  <2>3. ThreadGone' /\ BuiltForIt'
    BY <1>1, <1>4 DEF StoreResultDone, OneOwner, Owns, ThreadGone, BuiltForIt, Posting, miiverses
  <2>4. NoScreen'
    BY <1>1, <1>4 DEF StoreResultDone, OneOwner, Owns, NoScreen, Posting
  <2>5. HookClears'
    BY <1>1, <1>4 DEF StoreResultDone, HookClears
  <2> QED
    BY <2>1, <2>2, <2>3, <2>4, <2>5
<1>5. CASE ClearStamp
  <2>1. Typed'
    BY <1>1, <1>5 DEF ClearStamp, Place, CallerPlace, ThreadPlace, HookPlace, FinishPlace
  <2>2. OneOwner'
    BY <1>1, <1>5 DEF ClearStamp, OneOwner, Owns
  <2>3. ThreadGone' /\ BuiltForIt'
    BY <1>1, <1>5 DEF ClearStamp, OneOwner, Owns, ThreadGone, BuiltForIt, Posting, miiverses
  <2>4. NoScreen'
    BY <1>1, <1>5 DEF ClearStamp, OneOwner, Owns, NoScreen, Posting
  <2>5. HookClears'
    BY <1>1, <1>5 DEF ClearStamp, HookClears
  <2> QED
    BY <2>1, <2>2, <2>3, <2>4, <2>5
<1>6. CASE HomeMenu
  <2>1. Typed'
    BY <1>1, <1>6 DEF HomeMenu, Foreground, Place, CallerPlace, ThreadPlace, HookPlace,
                      FinishPlace
  <2>2. OneOwner'
    BY <1>1, <1>6 DEF HomeMenu, Foreground, OneOwner, Owns
  <2>3. ThreadGone' /\ BuiltForIt'
    BY <1>1, <1>6 DEF HomeMenu, Foreground, OneOwner, Owns, ThreadGone, BuiltForIt, Posting,
                      miiverses
  <2>4. NoScreen'
    BY <1>1, <1>6 DEF HomeMenu, Foreground, OneOwner, Owns, NoScreen, Posting
  <2>5. HookClears'
    BY <1>1, <1>6 DEF HomeMenu, Foreground, HookClears
  <2> QED
    BY <2>1, <2>2, <2>3, <2>4, <2>5
<1>7. CASE ScreenOpens
  <2>1. Typed'
    BY <1>1, <1>7 DEF ScreenOpens, Place, CallerPlace, ThreadPlace, HookPlace, FinishPlace
  <2>2. OneOwner'
    BY <1>1, <1>7 DEF ScreenOpens, OneOwner, Owns
  <2>3. ThreadGone' /\ BuiltForIt'
    BY <1>1, <1>7 DEF ScreenOpens, OneOwner, Owns, ThreadGone, BuiltForIt, Posting, miiverses
  <2>4. NoScreen'
    BY <1>1, <1>7 DEF ScreenOpens, OneOwner, Owns, NoScreen, Posting
  <2>5. HookClears'
    BY <1>1, <1>7 DEF ScreenOpens, HookClears
  <2> QED
    BY <2>1, <2>2, <2>3, <2>4, <2>5
<1>8. CASE ScreenCloses
  <2>1. Typed'
    BY <1>1, <1>8 DEF ScreenCloses, Foreground, Place, CallerPlace, ThreadPlace, HookPlace,
                      FinishPlace
  <2>2. OneOwner'
    BY <1>1, <1>8 DEF ScreenCloses, Foreground, OneOwner, Owns
  <2>3. ThreadGone' /\ BuiltForIt'
    BY <1>1, <1>8 DEF ScreenCloses, Foreground, OneOwner, Owns, ThreadGone, BuiltForIt, Posting,
                      miiverses
  <2>4. NoScreen'
    BY <1>1, <1>8 DEF ScreenCloses, Foreground, OneOwner, Owns, NoScreen, Posting
  <2>5. HookClears'
    BY <1>1, <1>8 DEF ScreenCloses, Foreground, HookClears
  <2> QED
    BY <2>1, <2>2, <2>3, <2>4, <2>5
<1> QED
  BY <1>2, <1>3, <1>4, <1>5, <1>6, <1>7, <1>8 DEF Hook

\* What the console and the user do leaves it so.
LEMMA OutsideKeeps ==
  ASSUME ShareInv, HoldEnds \/ GapEnds \/ MinutePasses \/ SelectMiiverse \/ NextProcess
                       \/ UNCHANGED share_vars
  PROVE  ShareInv'
<1> USE ShareAssumption DEF ShareInv, Typed, Actor, kept
<1>1. "hook" \in Actor /\ "thread" \in Actor
  OBVIOUS
<1>2. CASE HoldEnds \/ GapEnds \/ MinutePasses
  <2>1. Typed'
    BY <1>1, <1>2 DEF HoldEnds, GapEnds, MinutePasses, Place, CallerPlace, ThreadPlace, HookPlace, FinishPlace
  <2>2. OneOwner'
    BY <1>1, <1>2 DEF HoldEnds, GapEnds, MinutePasses, OneOwner, Owns
  <2>3. ThreadGone' /\ BuiltForIt'
    BY <1>1, <1>2 DEF HoldEnds, GapEnds, MinutePasses, OneOwner, Owns, ThreadGone, BuiltForIt, Posting,
                      miiverses
  <2>4. NoScreen'
    <3>1. CASE HoldEnds
      BY <3>1 DEF HoldEnds, NoScreen
    <3>2. CASE GapEnds
      BY <3>2 DEF GapEnds, NoScreen
    <3>3. CASE MinutePasses
      BY <3>3 DEF MinutePasses, NoScreen
    <3> QED
      BY <1>2, <3>1, <3>2, <3>3
  <2>5. HookClears'
    BY <1>1, <1>2 DEF HoldEnds, GapEnds, MinutePasses, HookClears
  <2> QED
    BY <2>1, <2>2, <2>3, <2>4, <2>5
<1>3. CASE SelectMiiverse
  <2>1. Typed'
    BY <1>1, <1>3 DEF SelectMiiverse, Place, CallerPlace, ThreadPlace, HookPlace, FinishPlace
  <2>2. OneOwner'
    BY <1>1, <1>3 DEF SelectMiiverse, OneOwner, Owns
  <2>3. ThreadGone' /\ BuiltForIt'
    BY <1>1, <1>3 DEF SelectMiiverse, OneOwner, Owns, ThreadGone, BuiltForIt, Posting, miiverses
  <2>4. NoScreen'
    BY <1>1, <1>3 DEF SelectMiiverse, OneOwner, Owns, NoScreen, Posting
  <2>5. HookClears'
    BY <1>1, <1>3 DEF SelectMiiverse, HookClears
  <2> QED
    BY <2>1, <2>2, <2>3, <2>4, <2>5
<1>4. CASE NextProcess
  <2>1. Typed'
    BY <1>1, <1>4 DEF NextProcess, Place, CallerPlace, ThreadPlace, HookPlace, FinishPlace
  <2>2. OneOwner'
    BY <1>1, <1>4 DEF NextProcess, OneOwner, Owns
  <2>3. ThreadGone' /\ BuiltForIt'
    BY <1>1, <1>4 DEF NextProcess, OneOwner, Owns, ThreadGone, BuiltForIt, Posting, miiverses
  <2>4. NoScreen'
    BY <1>1, <1>4 DEF NextProcess, OneOwner, Owns, NoScreen, Posting
  <2>5. HookClears'
    BY <1>1, <1>4 DEF NextProcess, HookClears
  <2> QED
    BY <2>1, <2>2, <2>3, <2>4, <2>5
<1>5. CASE UNCHANGED share_vars
  <2>1. Typed'
    BY <1>1, <1>5 DEF share_vars, Place, CallerPlace, ThreadPlace, HookPlace, FinishPlace
  <2>2. OneOwner'
    BY <1>1, <1>5 DEF share_vars, OneOwner, Owns
  <2>3. ThreadGone' /\ BuiltForIt'
    BY <1>1, <1>5 DEF share_vars, OneOwner, Owns, ThreadGone, BuiltForIt, Posting, miiverses
  <2>4. NoScreen'
    BY <1>1, <1>5 DEF share_vars, OneOwner, Owns, NoScreen, Posting
  <2>5. HookClears'
    BY <1>1, <1>5 DEF share_vars, HookClears
  <2> QED
    BY <2>1, <2>2, <2>3, <2>4, <2>5
<1> QED
  BY <1>2, <1>3, <1>4, <1>5

\* So it holds throughout.
LEMMA ShareInductive == ShareSpec => []ShareInv
<1>1. ShareInv /\ [ShareNext]_share_vars => ShareInv'
  BY CallerKeeps, ThreadKeeps, HookKeeps, OutsideKeeps DEF ShareNext
<1> QED
  BY ShareBegins, <1>1, PTL DEF ShareSpec

\* OneThread: for any number of workers, a share thread starts only when the last is gone.
THEOREM OneAtATime == ShareSpec => OneThread
<1>1. ShareInv /\ [ShareNext]_share_vars =>
        [pc'["thread"] = "acquire" => pc["thread"] \in {"none", "acquire"}]_share_vars
  <2> SUFFICES ASSUME ShareInv, ShareNext, pc'["thread"] = "acquire"
               PROVE  pc["thread"] \in {"none", "acquire"}
    BY DEF share_vars
  <2> USE ShareAssumption DEF ShareInv, Typed, Goto, Actor
  <2>1. CASE \E w \in Caller : OlvShareStart(w)
    <3>1. PICK w \in Caller : OlvShareStart(w)
      BY <2>1
    <3>2. CASE StartThread(w)
      BY <3>2 DEF StartThread, ThreadGone
    <3>3. CASE Start(w) \/ CheckGap(w) \/ CheckThread(w) \/ BuildBody(w) \/ Finish(w)
      BY <3>3 DEF Start, CheckGap, CheckThread, BuildBody, Finish, Stamp, StoreDone, TurnDown,
                  GoOn
    <3> QED
      BY <3>1, <3>2, <3>3 DEF OlvShareStart
  <2>2. CASE Thread
    BY <2>2 DEF Thread, Acquire, CheckHosts, SetUp, Upload, StoreLaunched, Return, Finish, Stamp,
                StoreDone
  <2>3. CASE Hook \/ HomeMenu \/ ScreenOpens \/ ScreenCloses
    BY <2>3 DEF Hook, ReadResult, StampResult, StoreResultDone, ClearStamp, HomeMenu, ScreenOpens,
                ScreenCloses, Foreground
  <2>4. CASE HoldEnds \/ GapEnds \/ MinutePasses \/ SelectMiiverse \/ NextProcess
    BY <2>4 DEF HoldEnds, GapEnds, MinutePasses, SelectMiiverse, NextProcess
  <2> QED
    BY <2>1, <2>2, <2>3, <2>4 DEF ShareNext
<1> QED
  BY ShareInductive, <1>1, PTL DEF ShareSpec, OneThread

\* OneScreenAMinute: for any number of workers, who asks for a screen asks for the only one, and
\* after the minute that the reading of the last one's result began.
THEOREM ScreensApart == ShareSpec => OneScreenAMinute
<1>1. ShareInv => (Asks => screen = "none" /\ closed # "result due")
  <2> SUFFICES ASSUME ShareInv, Asks PROVE screen = "none" /\ closed # "result due"
    OBVIOUS
  <2> USE DEF ShareInv, Asks
  <2>1. screen = "none" /\ ~gap
    BY DEF NoScreen, Posting
  <2>2. pc["hook"] # "result"
    BY DEF OneOwner, Owns, Actor
  <2> QED
    BY <2>1, <2>2 DEF NoScreen
<1> QED
  BY ShareInductive, <1>1, PTL DEF ShareSpec, OneScreenAMinute

\* FailureKept: for any number of workers, the hook that tells a posted share's end never clears
\* the stamp of a later share's failure.
THEOREM FailureStays == ShareSpec => FailureKept
<1>1. ShareInv /\ [ShareNext]_share_vars =>
        [failed /\ ~failed' /\ last = "short" =>
           HoldEnds \/ NextProcess \/ \E w \in Caller : BuildBody(w)]_share_vars
  <2> SUFFICES ASSUME ShareInv, ShareNext, failed, ~failed', last = "short"
               PROVE  HoldEnds \/ NextProcess \/ \E w \in Caller : BuildBody(w)
    BY DEF share_vars
  <2>1. CASE \E w \in Caller : OlvShareStart(w)
    BY <2>1 DEF OlvShareStart, Start, CheckGap, CheckThread, StartThread, Finish, Stamp, StoreDone
  <2>2. CASE Thread
    BY <2>2 DEF Thread, ThreadUnchanged, Acquire, CheckHosts, SetUp, Upload, StoreLaunched, Return,
                Finish, Stamp, StoreDone
  <2>3. CASE Hook
    <3>1. ~ClearStamp
      BY DEF ClearStamp, ShareInv, HookClears
    <3> QED
      BY <2>3, <3>1 DEF Hook, ReadResult, StampResult, StoreResultDone
  <2>4. CASE HomeMenu \/ ScreenOpens \/ ScreenCloses \/ GapEnds \/ MinutePasses \/ SelectMiiverse
    BY <2>4 DEF HomeMenu, ScreenOpens, ScreenCloses, Foreground, GapEnds, MinutePasses,
                SelectMiiverse
  <2> QED
    BY <2>1, <2>2, <2>3, <2>4 DEF ShareNext
<1> QED
  BY ShareInductive, <1>1, PTL DEF ShareSpec, FailureKept

\* PostsWhereBuilt: whatever library a process has, and whatever is selected at any other moment
\* than between the body and the look at the library.
THEOREM PostedWhereBuilt == ShareSpec => PostsWhereBuilt
<1>1. ShareInv => (Asks => library = community \/ moved)
  BY DEF ShareInv, BuiltForIt, Asks
<1> QED
  BY ShareInductive, <1>1, PTL DEF ShareSpec, PostsWhereBuilt

================================================================================
