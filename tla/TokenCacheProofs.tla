--------------------------- MODULE TokenCacheProofs ---------------------------
(***************************************************************************)
(* Proofs about TokenCache: with nothing locked, whose token a title and   *)
(* the applet can be handed, for any number of threads and accounts.       *)
(***************************************************************************)
EXTENDS TokenCache, TLAPS

\* The type invariant: the flags, and what is one of several things.
Flags ==
    /\ have_cached \in BOOLEAN /\ routed_token_fresh \in BOOLEAN /\ relaunch \in BOOLEAN
    /\ applet \in BOOLEAN /\ overlay \in BOOLEAN
    /\ warmed \in BOOLEAN /\ excused \in BOOLEAN /\ strayed \in BOOLEAN
Values ==
    /\ account \in Account /\ target \in Miiverse
    /\ cached_slot \in Slot \cup {"none"} /\ cached_token \in Token
    /\ applet_patches \in Installs /\ overlay_patches \in Installs
    /\ pc \in [Thread -> Place]
    /\ slot \in [Thread -> Slot \cup {"none"}]
    /\ made \in [Thread -> Token]
    /\ loaded \in [slot : Slot, whole : BOOLEAN]
    /\ held \in Server \cup {"none"} /\ got \in Server \cup {"none"}
    /\ keyed \in SUBSET Slot
TypeOK == Flags /\ Values

\* A rebuild for the account just loaded is still to be stored.
Rebuilding == \E t \in Thread : pc[t] \in {"rebuild", "store_rebuild"}

\* What is built once the account is all there, beside no other build, is built from it: what
\* is about to be stored, and what is stored.
BuiltFromIt ==
    loaded.whole /\ ~excused =>
        /\ \A t \in Thread : pc[t] \in Storing => made[t] = loaded
        /\ have_cached /\ target = "Roseverse" /\ ~Rebuilding => cached_token = loaded

\* Where a token can be built it is there, or somebody is at it.
WarmOrWarming ==
    warmed /\ target = "Roseverse" /\ loaded.whole /\ loaded.slot \in keyed =>
        have_cached \/ \E t \in Thread : pc[t] \in Building \cup Storing

\* What act keeps since a routed fetch is the Miiverse's own account server's.
KeepsOwn == routed_token_fresh /\ ~strayed => held = Own

IInv == TypeOK /\ BuiltFromIt /\ WarmOrWarming /\ KeepsOwn

\* It holds as the plugin is loaded.
LEMMA InitHolds == Init => IInv
<1> SUFFICES ASSUME Init PROVE IInv
  OBVIOUS
<1> USE DEF Init, Fresh
<1>1. Flags
  BY DEF Flags
<1>2. Values
  BY DEF Values, Token, Installs, Place
<1>3. BuiltFromIt /\ WarmOrWarming /\ KeepsOwn
  BY DEF BuiltFromIt, WarmOrWarming, KeepsOwn
<1> QED
  BY <1>1, <1>2, <1>3 DEF IInv, TypeOK

\* The real call: what act takes under a lend is the Miiverse's own server's, and what it hands
\* out again under one it took after a routed fetch.
LEMMA RealKeepsOwn ==
  ASSUME KeepsOwn, NEW new, NEW lent \in BOOLEAN, NEW from, Real(new, lent, from),
         lent => new \/ routed_token_fresh,
         routed_token_fresh' => routed_token_fresh \/ (lent /\ from # "none"),
         UNCHANGED account
  PROVE  KeepsOwn'
<1>1. CASE lent
  BY <1>1 DEF KeepsOwn, Real, Own
<1>2. CASE ~lent
  BY <1>2 DEF KeepsOwn, Real, Own
<1> QED
  BY <1>1, <1>2

\* One step of a thread, type by type and then invariant by invariant.
LEMMA ThreadHolds ==
  ASSUME IInv, NEW t \in Thread,
         \/ Ask(t) \/ Build(t) \/ Store(t) \/ Copy(t) \/ Pass(t) \/ Route(t)
         \/ ApplicationStart(t) \/ Loaded(t) \/ \E s \in Slot : Load(t, s)
  PROVE  IInv'
<1> USE DEF IInv, TypeOK, Goto, settings, cache, patches, work, act, excuses
<1>1. CASE Ask(t)
  <2>1. Flags'
    BY <1>1 DEF Ask, Flags
  <2>2. Values'
    BY <1>1 DEF Ask, Values, Place, Building, Storing
  <2>3. BuiltFromIt'
    BY <1>1 DEF Ask, Values, BuiltFromIt, Rebuilding, Building, Storing
  <2>4. WarmOrWarming'
    BY <1>1 DEF Ask, Values, WarmOrWarming, Building, Storing
  <2>5. KeepsOwn'
    BY <1>1 DEF Ask, Values, KeepsOwn, Own
  <2> QED
    BY <2>1, <2>2, <2>3, <2>4, <2>5
<1>2. CASE Build(t)
  <2>1. Flags'
    BY <1>2 DEF Build, After, Flags
  <2>2. Values'
    BY <1>2 DEF Build, After, Values, Place, Building, Storing, Token
  <2>3. BuiltFromIt'
    BY <1>2 DEF Build, After, Values, BuiltFromIt, Rebuilding, Building, Storing
  <2>4. WarmOrWarming'
    BY <1>2 DEF Build, After, Values, WarmOrWarming, Building, Storing
  <2>5. KeepsOwn'
    BY <1>2 DEF Build, After, Values, KeepsOwn, Own
  <2> QED
    BY <2>1, <2>2, <2>3, <2>4, <2>5
<1>3. CASE Store(t)
  <2>1. Flags'
    BY <1>3 DEF Store, Flags
  <2>2. Values'
    BY <1>3 DEF Store, Values, Place, Building, Storing, Token
  <2>3. BuiltFromIt'
    BY <1>3 DEF Store, Values, BuiltFromIt, Rebuilding, Building, Storing
  <2>4. WarmOrWarming'
    BY <1>3 DEF Store, Values, WarmOrWarming, Building, Storing
  <2>5. KeepsOwn'
    BY <1>3 DEF Store, Values, KeepsOwn, Own
  <2> QED
    BY <2>1, <2>2, <2>3, <2>4, <2>5
<1>4. CASE Copy(t)
  <2>1. Flags'
    BY <1>4 DEF Copy, Flags
  <2>2. Values'
    BY <1>4 DEF Copy, Values, Place, Building, Storing
  <2>3. BuiltFromIt'
    BY <1>4 DEF Copy, Values, BuiltFromIt, Rebuilding, Building, Storing
  <2>4. WarmOrWarming'
    BY <1>4 DEF Copy, Values, WarmOrWarming, Building, Storing
  <2>5. KeepsOwn'
    BY <1>4 DEF Copy, Values, KeepsOwn, Own
  <2> QED
    BY <2>1, <2>2, <2>3, <2>4, <2>5
<1>5. CASE Pass(t)
  <2>1. Flags'
    BY <1>5 DEF Pass, Real, Flags
  <2>2. Values'
    BY <1>5 DEF Pass, Real, Values, Place, Building, Storing, Own, Server
  <2>3. BuiltFromIt'
    BY <1>5 DEF Pass, Real, Values, BuiltFromIt, Rebuilding, Building, Storing
  <2>4. WarmOrWarming'
    BY <1>5 DEF Pass, Real, Values, WarmOrWarming, Building, Storing
  <2>5. KeepsOwn'
    BY <1>5, RealKeepsOwn DEF Pass
  <2> QED
    BY <2>1, <2>2, <2>3, <2>4, <2>5
<1>6. CASE Route(t)
  <2>1. Flags'
    BY <1>6 DEF Route, Real, Flags
  <2>2. Values'
    BY <1>6 DEF Route, Real, Values, Place, Building, Storing, Own, Server
  <2>3. BuiltFromIt'
    BY <1>6 DEF Route, Real, Values, BuiltFromIt, Rebuilding, Building, Storing
  <2>4. WarmOrWarming'
    BY <1>6 DEF Route, Real, Values, WarmOrWarming, Building, Storing
  <2>5. KeepsOwn'
    BY <1>6, RealKeepsOwn DEF Route
  <2> QED
    BY <2>1, <2>2, <2>3, <2>4, <2>5
<1>7. CASE ApplicationStart(t)
  <2>1. Flags'
    BY <1>7 DEF ApplicationStart, Flags
  <2>2. Values'
    BY <1>7 DEF ApplicationStart, Installs, Values, Place, Building, Storing
  <2>3. BuiltFromIt'
    BY <1>7 DEF ApplicationStart, Values, BuiltFromIt, Rebuilding, Building, Storing
  <2>4. WarmOrWarming'
    BY <1>7 DEF ApplicationStart, AnswersCached, Values, WarmOrWarming, Building, Storing
  <2>5. KeepsOwn'
    BY <1>7 DEF ApplicationStart, Values, KeepsOwn, Own
  <2> QED
    BY <2>1, <2>2, <2>3, <2>4, <2>5
<1>8. CASE Loaded(t)
  <2>1. Flags'
    BY <1>8 DEF Loaded, Flags
  <2>2. Values'
    BY <1>8 DEF Loaded, Values, Place, Building, Storing
  <2>3. BuiltFromIt'
    BY <1>8 DEF Loaded, Values, BuiltFromIt, Rebuilding, Building, Storing
  <2>4. WarmOrWarming'
    BY <1>8 DEF Loaded, Values, WarmOrWarming, Building, Storing
  <2>5. KeepsOwn'
    BY <1>8 DEF Loaded, Values, KeepsOwn, Own
  <2> QED
    BY <2>1, <2>2, <2>3, <2>4, <2>5
<1>9. CASE \E s \in Slot : Load(t, s)
  <2>1. Flags'
    BY <1>9 DEF Load, Flags
  <2>2. Values'
    BY <1>9 DEF Load, Values, Place, Building, Storing
  <2>3. BuiltFromIt'
    BY <1>9 DEF Load, Values, BuiltFromIt, Rebuilding, Building, Storing
  <2>4. WarmOrWarming'
    BY <1>9 DEF Load, Values, WarmOrWarming, Building, Storing
  <2>5. KeepsOwn'
    BY <1>9 DEF Load, Values, KeepsOwn, Own
  <2> QED
    BY <2>1, <2>2, <2>3, <2>4, <2>5
<1> QED
  BY <1>1, <1>2, <1>3, <1>4, <1>5, <1>6, <1>7, <1>8, <1>9

\* The applet, the overlay, a choice and the relaunch it leads to.
LEMMA ConsoleHolds ==
  ASSUME IInv,
         \/ AppletOpens \/ AppletCloses \/ AppletRoutes \/ AppletPasses
         \/ OverlayOpensFile \/ OverlayPasses
         \/ \E chosen \in Miiverse : Choose(chosen)
         \/ Relaunch
  PROVE  IInv'
<1> USE DEF IInv, TypeOK, settings, cache, patches, work, act, excuses
<1>1. CASE AppletOpens
  <2>1. Flags'
    BY <1>1 DEF AppletOpens, Flags
  <2>2. Values'
    BY <1>1 DEF AppletOpens, Values, Installs
  <2>3. BuiltFromIt'
    BY <1>1 DEF AppletOpens, Values, BuiltFromIt, Rebuilding, Building, Storing
  <2>4. WarmOrWarming'
    BY <1>1 DEF AppletOpens, Values, WarmOrWarming, Building, Storing
  <2>5. KeepsOwn'
    BY <1>1 DEF AppletOpens, Values, KeepsOwn, Own
  <2> QED
    BY <2>1, <2>2, <2>3, <2>4, <2>5
<1>2. CASE AppletCloses
  <2>1. Flags'
    BY <1>2 DEF AppletCloses, Flags
  <2>2. Values'
    BY <1>2 DEF AppletCloses, Values
  <2>3. BuiltFromIt'
    BY <1>2 DEF AppletCloses, Values, BuiltFromIt, Rebuilding, Building, Storing
  <2>4. WarmOrWarming'
    BY <1>2 DEF AppletCloses, Values, WarmOrWarming, Building, Storing
  <2>5. KeepsOwn'
    BY <1>2 DEF AppletCloses, Values, KeepsOwn, Own
  <2> QED
    BY <2>1, <2>2, <2>3, <2>4, <2>5
<1>3. CASE AppletRoutes
  <2>1. Flags'
    BY <1>3 DEF AppletRoutes, Real, SentZero, Flags
  <2>2. Values'
    BY <1>3 DEF AppletRoutes, Real, SentZero, Values, Own, Server
  <2>3. BuiltFromIt'
    BY <1>3 DEF AppletRoutes, Real, SentZero, Values, BuiltFromIt, Rebuilding, Building, Storing
  <2>4. WarmOrWarming'
    BY <1>3 DEF AppletRoutes, Real, SentZero, Values, WarmOrWarming, Building, Storing
  <2>5. KeepsOwn'
    BY <1>3, RealKeepsOwn DEF AppletRoutes, SentZero
  <2> QED
    BY <2>1, <2>2, <2>3, <2>4, <2>5
<1>4. CASE AppletPasses
  <2>1. Flags'
    BY <1>4 DEF AppletPasses, Real, Flags
  <2>2. Values'
    BY <1>4 DEF AppletPasses, Real, Values, Own, Server
  <2>3. BuiltFromIt'
    BY <1>4 DEF AppletPasses, Real, Values, BuiltFromIt, Rebuilding, Building, Storing
  <2>4. WarmOrWarming'
    BY <1>4 DEF AppletPasses, Real, Values, WarmOrWarming, Building, Storing
  <2>5. KeepsOwn'
    BY <1>4, RealKeepsOwn DEF AppletPasses
  <2> QED
    BY <2>1, <2>2, <2>3, <2>4, <2>5
<1>5. CASE OverlayOpensFile
  <2>1. Flags'
    BY <1>5 DEF OverlayOpensFile, Flags
  <2>2. Values'
    BY <1>5 DEF OverlayOpensFile, Values, Installs
  <2>3. BuiltFromIt'
    BY <1>5 DEF OverlayOpensFile, Values, BuiltFromIt, Rebuilding, Building, Storing
  <2>4. WarmOrWarming'
    BY <1>5 DEF OverlayOpensFile, Values, WarmOrWarming, Building, Storing
  <2>5. KeepsOwn'
    BY <1>5 DEF OverlayOpensFile, Values, KeepsOwn, Own
  <2> QED
    BY <2>1, <2>2, <2>3, <2>4, <2>5
<1>6. CASE OverlayPasses
  <2>1. Flags'
    BY <1>6 DEF OverlayPasses, Real, Flags
  <2>2. Values'
    BY <1>6 DEF OverlayPasses, Real, Values, Own, Server
  <2>3. BuiltFromIt'
    BY <1>6 DEF OverlayPasses, Real, Values, BuiltFromIt, Rebuilding, Building, Storing
  <2>4. WarmOrWarming'
    BY <1>6 DEF OverlayPasses, Real, Values, WarmOrWarming, Building, Storing
  <2>5. KeepsOwn'
    BY <1>6, RealKeepsOwn DEF OverlayPasses
  <2> QED
    BY <2>1, <2>2, <2>3, <2>4, <2>5
<1>7. CASE \E chosen \in Miiverse : Choose(chosen)
  <2>1. Flags'
    BY <1>7 DEF Choose, SetTarget, Flags
  <2>2. Values'
    BY <1>7 DEF Choose, SetTarget, Values
  <2>3. BuiltFromIt'
    BY <1>7 DEF Choose, SetTarget, Values, BuiltFromIt, Rebuilding, Building, Storing
  <2>4. WarmOrWarming'
    BY <1>7 DEF Choose, SetTarget, Values, WarmOrWarming, Building, Storing
  <2>5. KeepsOwn'
    BY <1>7 DEF Choose, SetTarget, Values, KeepsOwn, Own
  <2> QED
    BY <2>1, <2>2, <2>3, <2>4, <2>5
<1>8. CASE Relaunch
  <2>1. Flags'
    BY <1>8 DEF Relaunch, Flags
  <2>2. Values'
    BY <1>8 DEF Relaunch, Values, Place, Installs, Token
  <2>3. BuiltFromIt'
    BY <1>8 DEF Relaunch, Values, BuiltFromIt, Rebuilding, Building, Storing
  <2>4. WarmOrWarming'
    BY <1>8 DEF Relaunch, Values, WarmOrWarming, Building, Storing
  <2>5. KeepsOwn'
    BY <1>8 DEF Relaunch, Values, KeepsOwn, Own
  <2> QED
    BY <2>1, <2>2, <2>3, <2>4, <2>5
<1> QED
  BY <1>1, <1>2, <1>3, <1>4, <1>5, <1>6, <1>7, <1>8

\* Every step keeps it.
LEMMA NextHolds == IInv /\ [Next]_vars => IInv'
<1> SUFFICES ASSUME IInv, [Next]_vars PROVE IInv'
  OBVIOUS
<1>1. CASE UNCHANGED vars
  BY <1>1 DEF IInv, TypeOK, Flags, Values, BuiltFromIt, Rebuilding, WarmOrWarming, KeepsOwn, Own,
              vars, settings, cache, patches, work, act, excuses
<1> QED
  BY <1>1, ThreadHolds, ConsoleHolds DEF Next

\* So it holds throughout.
LEMMA Inductive == Spec => []IInv
BY InitHolds, NextHolds, PTL DEF Spec

\* The type invariant, of every behaviour.
THEOREM TypeCorrect == Spec => []TypeOK
BY Inductive, PTL DEF IInv

\* TokenOfTheAccount: once an account is loaded no token of the one before it is handed out.
THEOREM OfTheAccount == Spec => []TokenOfTheAccount
<1>1. IInv => TokenOfTheAccount
  BY DEF IInv, BuiltFromIt, Rebuilding, TokenOfTheAccount
<1> QED
  BY Inductive, <1>1, PTL

\* WarmForTheApplet: the applet, which can build no token, finds one.
THEOREM AppletFindsOne == Spec => []WarmForTheApplet
<1>1. IInv => WarmForTheApplet
  BY DEF IInv, WarmOrWarming, WarmForTheApplet, Building, Storing
<1> QED
  BY Inductive, <1>1, PTL

\* LentAppletGetsOwn: a lend hands the applet nothing of the account server selected.
THEOREM AppletGetsOwn == Spec => LentAppletGetsOwn
<1>1. IInv /\ [Next]_vars => [got' # got /\ ~strayed => got' \in {"none", Own}]_vars
  <2> SUFFICES ASSUME IInv, [Next]_vars, got' # got, ~strayed
               PROVE  got' \in {"none", Own}
    OBVIOUS
  <2>1. AppletCloses \/ AppletRoutes \/ Relaunch
    BY DEF Next, Ask, Build, Store, Copy, Pass, Route, ApplicationStart, Loaded, Load,
           AppletOpens, AppletPasses, OverlayOpensFile, OverlayPasses, Choose, vars
  <2>2. CASE AppletRoutes
    BY <2>2 DEF AppletRoutes, Real, SentZero, IInv, KeepsOwn
  <2> QED
    BY <2>1, <2>2 DEF AppletCloses, Relaunch
<1> QED
  BY Inductive, <1>1, PTL DEF Spec, LentAppletGetsOwn
===============================================================================
