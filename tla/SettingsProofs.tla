--------------------------- MODULE SettingsProofs ---------------------------
(***************************************************************************)
(* Theorems of Settings, for any storage a card may hold.                  *)
(***************************************************************************)
EXTENDS Settings, TLAPS

\* Where an install owes the relaunch it can still make it.
OwedByInstall ==
    /\ relaunch_wanted
    /\ title \in {"menu", "behind"}
    /\ install \in {"DOWNLOADING", "RELAUNCH_WAITING", "FAILED"}

\* While the menu is open the flag remembers a change for menu_closed().
Remembered == pending /\ title # "booting" =>
    \/ at # "closed" /\ change_needs_reboot
    \/ OwedByInstall

\* A finished install's relaunch waits behind something: in front it has been made.
WaitsBehind ==
    relaunch_wanted /\ install \in {"RELAUNCH_WAITING", "FAILED"} => title \in {"behind", "booting"}

OwedInv == Remembered /\ WaitsBehind

\* What is stored is what was selected, where it was selected with this build.
StoredInv == configured =>
    /\ \/ stored.account = config.account
       \/ stored.account = "unknown" /\ config.account = "Protarium"
    /\ stored.miiverse = config.miiverse \/ stored.miiverse = "unknown"
    /\ stored.spotpass = config.spotpass
    /\ stored.overrides = config.overrides

-----------------------------------------------------------------------------
\* choice.h: the default of a pairing is one of its answers, with the overrides on or off.
LEMMA DefaultIsOffered ==
    \A a \in Account, m \in Miiverse, o \in {"on", "off"} :
        /\ spotpass_default(a, m) \in SpotPass
        /\ spotpass_valid(a, m, spotpass_default(a, m), o)
BY DEF Account, Miiverse, SpotPass, spotpass_default, spotpass_valid, spotpass_of,
       spotpass_offers_roseverse

\* Config::Init: whatever is stored, a selection comes of it, and one the menu offers.
LEMMA LoadedIsOffered ==
    ASSUME NEW s \in Stored
    PROVE  /\ Loaded(s) \in Selection
           /\ spotpass_valid(Loaded(s).account, Loaded(s).miiverse, Loaded(s).spotpass,
                             Loaded(s).overrides)
           /\ Repaired(s) \in Stored
BY DefaultIsOffered DEF Stored, Selection, Loaded, Repaired, Account, Miiverse, SpotPass,
       miiverse_for

\* sync_spotpass(): a selection stays one, and is on a server the menu offers.
LEMMA SyncedIsOffered ==
    ASSUME NEW c \in Selection
    PROVE  /\ Synced(c) \in Selection
           /\ Synced(c).account = c.account /\ Synced(c).miiverse = c.miiverse
           /\ Synced(c).overrides = c.overrides
           /\ spotpass_valid(c.account, c.miiverse, Synced(c).spotpass, c.overrides)
BY DefaultIsOffered DEF Selection, Synced

TypeInv == TypeOK /\ SpotPassOffered

\* The globals start out as a selection the menu offers.
LEMMA DefaultIsSelection ==
    /\ Default \in Selection
    /\ spotpass_valid(Default.account, Default.miiverse, Default.spotpass, Default.overrides)
BY DEF Default, Selection, Account, Miiverse, SpotPass, spotpass_valid, spotpass_of

\* Before the first boot the settings have their types.
LEMMA TypeInit == Init => TypeInv
<1> SUFFICES ASSUME Init PROVE TypeInv
    OBVIOUS
<1>1. stored \in Stored
      BY SettingsAssumption DEF Init
<1>2. config \in Selection /\ opened \in Selection /\ target \in Miiverse /\ SpotPassOffered
      BY DefaultIsSelection DEF Init, SpotPassOffered, Selection
<1> QED BY <1>1, <1>2 DEF Init, TypeInv, TypeOK, Account

\* Every callback, hook and boot keeps the types, and SpotPass on a server that is offered.
LEMMA TypeStep == TypeInv /\ [Next]_vars => TypeInv'
<1> SUFFICES ASSUME TypeInv, [Next]_vars PROVE TypeInv'
    OBVIOUS
<1> USE DEF TypeInv, TypeOK, SpotPassOffered, Goto, CallbackUnchanged, settings, applied, menu,
            installer
<1>1. CASE MenuOpened
      BY <1>1 DEF MenuOpened, Item
<1>2. CASE Untouched
      BY <1>2 DEF Untouched, Item, After
<1>3. CASE AdvancedOverridesChanged
  <2>1. PICK value \in {"on", "off"} \ {opened.overrides} :
            LET c == [config EXCEPT !.overrides = value]
            IN  /\ config' = IF spotpass_valid(c.account, c.miiverse, c.spotpass, value)
                                THEN c ELSE Synced(c)
                /\ stored' = [stored EXCEPT !.overrides = value,
                                            !.spotpass = StoredSpotPass(config')]
        BY <1>3 DEF AdvancedOverridesChanged
  <2> DEFINE c == [config EXCEPT !.overrides = value]
  <2>2. c \in Selection /\ c.overrides = value
        BY DEF Selection
  <2>3. config' \in Selection /\ SpotPassOffered'
        BY <2>1, <2>2, SyncedIsOffered
  <2>4. stored' \in Stored
        BY <2>1, <2>3 DEF StoredSpotPass, Stored, Selection
  <2> QED BY <1>3, <2>3, <2>4 DEF AdvancedOverridesChanged, Item, After
<1>4. CASE PlazaResetRequested
      BY <1>4 DEF PlazaResetRequested, Item, After
<1>5. CASE AccountChanged
  <2>1. PICK chosen \in Account :
            /\ config' = Synced([config EXCEPT !.account = chosen])
            /\ stored' = [stored EXCEPT !.account = chosen, !.spotpass = StoredSpotPass(config')]
        BY <1>5 DEF AccountChanged
  <2>2. [config EXCEPT !.account = chosen] \in Selection
        BY DEF Selection
  <2>3. config' \in Selection /\ SpotPassOffered'
        BY <2>1, <2>2, SyncedIsOffered
  <2>4. stored' \in Stored
        BY <2>1, <2>3 DEF StoredSpotPass, Stored, Selection
  <2> QED BY <1>5, <2>3, <2>4 DEF AccountChanged, Item, After
<1>6. CASE MiiverseChanged
  <2>1. PICK chosen \in Miiverse :
            /\ config' = Synced([config EXCEPT !.miiverse = chosen])
            /\ stored' = [stored EXCEPT !.miiverse = chosen, !.spotpass = StoredSpotPass(config')]
            /\ target' = chosen
        BY <1>6 DEF MiiverseChanged
  <2>2. [config EXCEPT !.miiverse = chosen] \in Selection
        BY DEF Selection
  <2>3. config' \in Selection /\ SpotPassOffered'
        BY <2>1, <2>2, SyncedIsOffered
  <2>4. stored' \in Stored
        BY <2>1, <2>3 DEF StoredSpotPass, Stored, Selection
  <2> QED BY <1>6, <2>1, <2>3, <2>4 DEF MiiverseChanged, Item, After
<1>7. CASE SpotPassChanged
  <2>1. PICK chosen \in Picked :
            /\ spotpass_valid(config.account, config.miiverse, chosen, config.overrides)
            /\ config' = [config EXCEPT !.spotpass = chosen]
            /\ stored' = [stored EXCEPT !.spotpass = chosen]
        BY <1>7 DEF SpotPassChanged
  <2>2. chosen \in SpotPass
        BY DEF Picked, Selection, Account, SpotPass, spotpass_of
  <2>3. config' \in Selection /\ SpotPassOffered' /\ stored' \in Stored
        BY <2>1, <2>2 DEF Selection, Stored
  <2> QED BY <1>7, <2>3 DEF SpotPassChanged, Item, After
<1>8. CASE Begin
      BY <1>8 DEF Begin, Save
<1>9. CASE MenuClosed
      BY <1>9 DEF MenuClosed, Save
<1>10. CASE InstallEnds
      BY <1>10 DEF InstallEnds, Owed
<1>11. CASE ReleaseForeground
      BY <1>11 DEF ReleaseForeground
<1>12. CASE AcquireForeground
      BY <1>12 DEF AcquireForeground, Owed
<1>13. CASE AppEnds
      BY <1>13 DEF AppEnds
<1>14. CASE ApplicationStart
      BY <1>14 DEF ApplicationStart, Selection, Account, SpotPass
<1>15. CASE Boot
  <2>1. PICK s \in Stored :
            /\ config' = IF configured' THEN Loaded(s) ELSE Default
            /\ stored' = IF configured' THEN Repaired(s) ELSE s
            /\ saved' \in {stored' = s, configured'}
        BY <1>15, SettingsAssumption DEF Boot
  <2>3. config' \in Selection /\ SpotPassOffered' /\ stored' \in Stored
        BY <2>1, DefaultIsSelection, LoadedIsOffered
  <2>4. config'.miiverse \in Miiverse /\ config'.account \in Account
        BY <2>3 DEF Selection
  <2>5. configured' \in BOOLEAN /\ saved' \in BOOLEAN
        BY <1>15, <2>1 DEF Boot
  <2> QED BY <1>15, <2>3, <2>4, <2>5 DEF Boot, Account
<1>16. CASE UNCHANGED vars
      BY <1>16 DEF vars
<1> QED BY <1>1, <1>2, <1>3, <1>4, <1>5, <1>6, <1>7, <1>8, <1>9, <1>10, <1>11, <1>12, <1>13,
           <1>14, <1>15, <1>16 DEF Next, Callback

\* Type correctness of the settings.
THEOREM TypeCorrect == Spec => []TypeOK
<1>1. Spec => []TypeInv
      BY TypeInit, TypeStep, PTL DEF Spec
<1> QED BY <1>1, PTL DEF TypeInv

\* Config::spotpass is a server its pairing offers, whatever another version has stored and
\* whichever callbacks run in whichever visits to the menu.
THEOREM AlwaysOffered == Spec => []SpotPassOffered
<1>1. Spec => []TypeInv
      BY TypeInit, TypeStep, PTL DEF Spec
<1> QED BY <1>1, PTL DEF TypeInv

-----------------------------------------------------------------------------
\* Before the first boot nothing is owed.
LEMMA OwedInit == Init => OwedInv
BY DEF Init, OwedInv, Remembered, WaitsBehind, OwedByInstall

\* Every step passes a change on, from the flag to the install or to the relaunch.
LEMMA OwedStep == TypeInv /\ OwedInv /\ [Next]_vars => OwedInv'
<1> SUFFICES ASSUME TypeInv, OwedInv, [Next]_vars PROVE OwedInv'
    OBVIOUS
<1> USE DEF OwedInv, Remembered, WaitsBehind, OwedByInstall
<1>0. {relaunch_wanted, pending, change_needs_reboot} \subseteq BOOLEAN
      BY DEF TypeInv, TypeOK
<1>1. ASSUME UNCHANGED <<title, installer>>, at' # "closed",
             pending' => pending \/ change_needs_reboot',
             change_needs_reboot => change_needs_reboot'
      PROVE  OwedInv'
      BY <1>0, <1>1 DEF installer
<1>2. CASE MenuOpened
      BY <1>0, <1>2 DEF MenuOpened, CallbackUnchanged, settings, installer, Acts
<1>3. CASE Untouched
      BY <1>0, <1>3 DEF Untouched, Goto, After, Item, CallbackUnchanged, settings, installer, Acts
<1>4. CASE Callback
  <2>1. UNCHANGED <<title, installer>> /\ at \in Item /\ at' = After(at)
        BY <1>4 DEF Callback, AdvancedOverridesChanged, PlazaResetRequested, AccountChanged,
               MiiverseChanged, SpotPassChanged, Goto, CallbackUnchanged, installer, Item
  <2>2. at # "closed" /\ at' # "closed"
        BY <2>1 DEF After, Item
  <2>3. change_needs_reboot => change_needs_reboot'
        BY <1>4 DEF Callback, AdvancedOverridesChanged, PlazaResetRequested, AccountChanged,
               MiiverseChanged, SpotPassChanged
  <2>4. Acts(config') # Acts(config) => change_needs_reboot'
    <3>1. CASE AdvancedOverridesChanged
      <4>1. PICK value \in {"on", "off"} :
                LET c == [config EXCEPT !.overrides = value]
                IN  config' = c \/ config' = Synced(c)
            BY <3>1 DEF AdvancedOverridesChanged
      <4> DEFINE c == [config EXCEPT !.overrides = value]
      <4>2. c \in Selection /\ c.account = config.account /\ c.miiverse = config.miiverse
            BY DEF TypeInv, TypeOK, Selection
      <4>3. config'.account = config.account /\ config'.miiverse = config.miiverse
            BY <4>1, <4>2, SyncedIsOffered
      <4>4. change_needs_reboot' = (change_needs_reboot \/ config'.spotpass # config.spotpass)
            BY <3>1 DEF AdvancedOverridesChanged
      <4> QED BY <4>3, <4>4 DEF Acts
    <3>2. CASE PlazaResetRequested \/ AccountChanged \/ SpotPassChanged
          BY <3>2 DEF PlazaResetRequested, AccountChanged, SpotPassChanged
    <3>3. CASE MiiverseChanged
          BY <3>3 DEF MiiverseChanged, Acts
    <3> QED BY <1>4, <3>1, <3>2, <3>3 DEF Callback
  <2>5. pending' => pending \/ change_needs_reboot'
        BY <1>4, <2>4 DEF Callback, AdvancedOverridesChanged, PlazaResetRequested, AccountChanged,
               MiiverseChanged, SpotPassChanged, CallbackUnchanged
  <2> QED BY <1>1, <2>1, <2>2, <2>3, <2>5
<1>5. CASE Begin
      BY <1>0, <1>5 DEF Begin, MayBegin
<1>6. CASE MenuClosed
      BY <1>0, <1>6 DEF MenuClosed, MayBegin, installer
<1>7. CASE InstallEnds
      BY <1>0, <1>7 DEF InstallEnds, Owed, settings, menu
<1>8. CASE ReleaseForeground
      BY <1>0, <1>8 DEF ReleaseForeground, settings, menu, installer
<1>9. CASE AcquireForeground
      BY <1>0, <1>9 DEF AcquireForeground, Owed, settings, menu, installer
<1>10. CASE AppEnds
      BY <1>0, <1>10 DEF AppEnds, settings, menu, installer
<1>11. CASE ApplicationStart
      BY <1>0, <1>11 DEF ApplicationStart, settings, menu, installer
<1>12. CASE Boot
      BY <1>12 DEF Boot
<1>13. CASE UNCHANGED vars
      BY <1>13 DEF vars, settings, menu, installer
<1> QED BY <1>2, <1>3, <1>4, <1>5, <1>6, <1>7, <1>8, <1>9, <1>10, <1>11, <1>12, <1>13 DEF Next

\* A changed setting is owed its relaunch, by the menu while it is open and by an install after
\* that, until the boot or the interruption of that install.
THEOREM NeverForgotten == Spec => []ChangeOwed
<1>1. TypeInv /\ OwedInv => ChangeOwed
      BY DEF TypeInv, TypeOK, OwedInv, Remembered, OwedByInstall, ChangeOwed
<1>2. Init => TypeInv /\ OwedInv
      BY TypeInit, OwedInit
<1>3. TypeInv /\ OwedInv /\ [Next]_vars => TypeInv' /\ OwedInv'
      BY TypeStep, OwedStep
<1> QED BY <1>1, <1>2, <1>3, PTL DEF Spec

-----------------------------------------------------------------------------
\* What a selection that is stored loads as.
LEMMA LoadedIsSelected ==
    ASSUME TypeInv, StoredInv, configured, stored.miiverse # "unknown"
    PROVE  Loaded(stored) = config
<1> USE DEF TypeInv, TypeOK, StoredInv, Stored, Selection
<1>1. Loaded(stored).account = config.account
      BY DEF Loaded, Account
<1>2. Loaded(stored).miiverse = config.miiverse
      BY DEF Loaded
<1>3. Loaded(stored).overrides = config.overrides
      BY DEF Loaded
<1>4. Loaded(stored).spotpass = config.spotpass
      BY <1>1, <1>2, <1>3 DEF Loaded, SpotPassOffered
<1>5. Loaded(stored) \in Selection
      BY LoadedIsOffered
<1> QED BY <1>1, <1>2, <1>3, <1>4, <1>5

\* Every callback and every load leaves storage and settings level.
LEMMA StoredStep == TypeInv /\ StoredInv /\ [Next]_vars => StoredInv'
<1> SUFFICES ASSUME TypeInv, StoredInv, [Next]_vars PROVE StoredInv'
    OBVIOUS
<1> USE DEF StoredInv
<1>0. config \in Selection /\ stored \in Stored
      BY DEF TypeInv, TypeOK
<1>1. CASE UNCHANGED <<config, stored, configured>>
      BY <1>1
<1>2. CASE AdvancedOverridesChanged
  <2>1. PICK value \in {"on", "off"} :
            LET c == [config EXCEPT !.overrides = value]
            IN  /\ config' = c \/ config' = Synced(c)
                /\ stored' = [stored EXCEPT !.overrides = value,
                                            !.spotpass = StoredSpotPass(config')]
        BY <1>2 DEF AdvancedOverridesChanged
  <2> DEFINE c == [config EXCEPT !.overrides = value]
  <2>2. c \in Selection /\ c.account = config.account /\ c.miiverse = config.miiverse
            /\ c.overrides = value
        BY <1>0 DEF Selection
  <2>3. config'.account = config.account /\ config'.miiverse = config.miiverse
            /\ config'.overrides = value
        BY <2>1, <2>2, SyncedIsOffered
  <2> QED BY <1>0, <1>2, <2>1, <2>3 DEF StoredSpotPass, Stored, AdvancedOverridesChanged,
             CallbackUnchanged
<1>3. CASE AccountChanged
  <2>1. PICK chosen \in Account :
            /\ config' = Synced([config EXCEPT !.account = chosen])
            /\ stored' = [stored EXCEPT !.account = chosen, !.spotpass = StoredSpotPass(config')]
        BY <1>3 DEF AccountChanged
  <2>2. [config EXCEPT !.account = chosen] \in Selection
        BY <1>0 DEF Selection
  <2>3. config'.account = chosen /\ config'.miiverse = config.miiverse
            /\ config'.overrides = config.overrides
        BY <1>0, <2>1, <2>2, SyncedIsOffered DEF Selection
  <2> QED BY <1>0, <1>3, <2>1, <2>3 DEF StoredSpotPass, Stored, AccountChanged, CallbackUnchanged
<1>4. CASE MiiverseChanged
  <2>1. PICK chosen \in Miiverse :
            /\ config' = Synced([config EXCEPT !.miiverse = chosen])
            /\ stored' = [stored EXCEPT !.miiverse = chosen, !.spotpass = StoredSpotPass(config')]
        BY <1>4 DEF MiiverseChanged
  <2>2. [config EXCEPT !.miiverse = chosen] \in Selection
        BY <1>0 DEF Selection
  <2>3. config'.miiverse = chosen /\ config'.account = config.account
            /\ config'.overrides = config.overrides
        BY <1>0, <2>1, <2>2, SyncedIsOffered DEF Selection
  <2> QED BY <1>0, <1>4, <2>1, <2>3 DEF StoredSpotPass, Stored, MiiverseChanged, CallbackUnchanged
<1>5. CASE SpotPassChanged
  <2>1. PICK chosen \in Picked :
            /\ config' = [config EXCEPT !.spotpass = chosen]
            /\ stored' = [stored EXCEPT !.spotpass = chosen]
        BY <1>5 DEF SpotPassChanged
  <2> QED BY <1>0, <1>5, <2>1 DEF Selection, Stored, SpotPassChanged, CallbackUnchanged
<1>6. CASE Boot
  <2>1. PICK s \in Stored :
            configured' => config' = Loaded(s) /\ stored' = Repaired(s)
        BY <1>6, <1>0, SettingsAssumption DEF Boot
  <2>2. /\ \/ Repaired(s).account = Loaded(s).account
           \/ Repaired(s).account = "unknown" /\ Loaded(s).account = "Protarium"
        /\ Repaired(s).miiverse = Loaded(s).miiverse \/ Repaired(s).miiverse = "unknown"
        /\ Repaired(s).spotpass = Loaded(s).spotpass
        /\ Repaired(s).overrides = Loaded(s).overrides
    <3>1. Loaded(s).account = IF s.account \in Account THEN s.account ELSE "Protarium"
          BY DEF Loaded
    <3>2. s.miiverse \in Miiverse => Loaded(s).miiverse = s.miiverse
          BY DEF Loaded
    <3>3. s.account \in Account \cup {"none", "unknown"}
            /\ s.miiverse \in Miiverse \cup {"none", "unknown"}
          BY DEF Stored
    <3> QED BY <3>1, <3>2, <3>3 DEF Repaired
  <2> QED BY <2>1, <2>2
<1> QED BY <1>1, <1>2, <1>3, <1>4, <1>5, <1>6
        DEF Next, Callback, vars, settings, MenuOpened, Untouched, PlazaResetRequested, Begin,
            MenuClosed, InstallEnds, ReleaseForeground, AcquireForeground, AppEnds,
            ApplicationStart, CallbackUnchanged

\* Switching off, or a relaunch, loses and moves nothing of a selection the card has: each
\* callback stores everything it derives.
THEOREM SurvivesBoot == Spec => KeptOverBoot
<1>1. Init => TypeInv /\ StoredInv
      BY TypeInit DEF Init, StoredInv
<1>2. TypeInv /\ StoredInv /\ [Next]_vars => TypeInv' /\ StoredInv'
      BY TypeStep, StoredStep
<1>3. TypeInv /\ StoredInv /\ [Next]_vars =>
        [Boot /\ saved /\ configured /\ configured' /\ stored.miiverse # "unknown"
            => config' = config]_vars
  <2> SUFFICES ASSUME TypeInv, StoredInv, Boot, saved, configured, configured',
                      stored.miiverse # "unknown"
               PROVE  config' = config
      OBVIOUS
  <2>1. config' = Loaded(stored)
        BY DEF Boot
  <2> QED BY <2>1, LoadedIsSelected
<1> QED BY <1>1, <1>2, <1>3, PTL DEF Spec, KeptOverBoot
=============================================================================
