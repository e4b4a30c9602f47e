------------------------------ MODULE Settings ------------------------------
(***************************************************************************)
(* The settings: src/config.cpp over any number of boots.                  *)
(*                                                                         *)
(* The config menu's callbacks run one after the other when it closes, in  *)
(* the title the console is in, each only for an item that was moved from  *)
(* what it showed when the menu opened.  A changed setting acts at a boot, *)
(* so menu_closed() relaunches the console, unless an install has begun,   *)
(* which then owes the relaunch.  The install is seen from here: its own   *)
(* threads and its card are in UpdateInstall.                              *)
(***************************************************************************)
EXTENDS Pairing

Item == {"overrides", "plaza", "account", "miiverse", "spotpass"}

\* A stored value that this build does not know is one another version has written.
Stored == [account : Account \cup {"none", "unknown"},
           miiverse : Miiverse \cup {"none", "unknown"},
           spotpass : SpotPass \cup {"none", "unknown"},
           overrides : {"on", "off", "none"}]

CONSTANTS
    Cards           \* what storage there may be on a card this plugin has not just written

ASSUME SettingsAssumption == Cards \subseteq Stored

Selection == [account : Account, miiverse : Miiverse, spotpass : SpotPass,
              overrides : {"on", "off"}]

VARIABLES
    config,         \* Config::account, miiverse, spotpass and advanced_overrides
    change_needs_reboot,
    target,         \* what olv_set_target and token_set_target were last told
    stored,         \* the storage in memory
    saved,          \* the SD card has what the storage in memory has
    configured,     \* WUPSConfigAPI_Init took the menu, so the storage was read
    title,          \* what the console is in; "behind": the Wii U Menu, behind something
    at,             \* the config menu's next callback
    opened,         \* what its items showed when it opened
    install,        \* update_install.cpp's state
    relaunch_wanted,
    named,          \* what token_set_account and dns_set_account were told
    url,            \* the account server's URL in the security processor
    sent,           \* where spotpass_apply has moved SpotPass in this boot
    pending         \* a change since the boot, whose relaunch was not given up

settings == <<config, target, stored, change_needs_reboot>>
applied == <<named, url, sent>>
menu == <<at, opened>>
installer == <<install, relaunch_wanted>>
vars == <<settings, saved, configured, title, menu, installer, applied, pending>>

Default == [account |-> "Protarium", miiverse |-> "Protaverse", spotpass |-> "Protarium",
            overrides |-> "off"]

\* What of a selection only a boot applies; the overrides decide what is offered.
Acts(c) == <<c.account, c.miiverse, c.spotpass>>

Init ==
    /\ config = Default /\ target = Default.miiverse /\ opened = Default
    /\ stored \in Cards
    /\ saved = TRUE
    /\ change_needs_reboot = FALSE
    /\ configured = FALSE
    /\ title = "booting"
    /\ at = "closed"
    /\ install = "IDLE" /\ relaunch_wanted = FALSE
    /\ named = "Protarium" /\ url = "Protarium" /\ sent = "none"
    /\ pending = FALSE

-----------------------------------------------------------------------------
(***************************************************************************)
(* The callbacks of the menu's items, each with everything it calls.       *)
(***************************************************************************)
Goto(place) == at' = place /\ UNCHANGED opened

\* The Debug page's items come first, and then the root's in the order they were added.
After(item) ==
    CASE item = "overrides" -> "plaza"
      [] item = "plaza" -> "account"
      [] item = "account" -> "miiverse"
      [] item = "miiverse" -> "spotpass"
      [] item = "spotpass" -> "menu_closed"

\* A callback stores what it changes, which the card has when the menu has closed.
CallbackUnchanged ==
    /\ saved' = (saved /\ stored' = stored)
    /\ pending' = (pending \/ Acts(config') # Acts(config))
    /\ UNCHANGED <<configured, title, installer, applied>>

MenuOpened ==
    /\ at = "closed" /\ configured /\ title \in {"menu", "game"}
    /\ at' = "overrides"
    /\ opened' = config
    /\ UNCHANGED settings /\ CallbackUnchanged

\* An item left where it was: its callback is not called.
Untouched ==
    /\ at \in Item
    /\ Goto(After(at))
    /\ UNCHANGED settings /\ CallbackUnchanged

\* sync_spotpass(), for a selection that has changed; storing is a part of each change.
Synced(c) == [c EXCEPT !.spotpass = spotpass_default(c.account, c.miiverse)]

\* What sync_spotpass() leaves stored: nothing new where SpotPass stays.
StoredSpotPass(c) == IF c.spotpass # config.spotpass THEN c.spotpass ELSE stored.spotpass

AdvancedOverridesChanged ==
    /\ at = "overrides"
    /\ \E value \in {"on", "off"} \ {opened.overrides} :
        LET c == [config EXCEPT !.overrides = value]
        IN  /\ config' = IF spotpass_valid(c.account, c.miiverse, c.spotpass, value)
                            THEN c ELSE Synced(c)
            /\ stored' = [stored EXCEPT !.overrides = value,
                                        !.spotpass = StoredSpotPass(config')]
            /\ change_needs_reboot' =
                (change_needs_reboot \/ config'.spotpass # config.spotpass)
    /\ UNCHANGED target
    /\ Goto(After(at)) /\ CallbackUnchanged

\* plaza_reset_requested(), where a task was unregistered.
PlazaResetRequested ==
    /\ at = "plaza"
    /\ change_needs_reboot' = TRUE
    /\ UNCHANGED <<config, target, stored>>
    /\ Goto(After(at)) /\ CallbackUnchanged

\* The name hooks are not told, and the Miiverse stays.
AccountChanged ==
    /\ at = "account"
    /\ \E chosen \in Account \ {opened.account, config.account} :
        /\ config' = Synced([config EXCEPT !.account = chosen])
        /\ stored' = [stored EXCEPT !.account = chosen, !.spotpass = StoredSpotPass(config')]
    /\ change_needs_reboot' = TRUE
    /\ UNCHANGED target
    /\ Goto(After(at)) /\ CallbackUnchanged

\* The slip of storing SpotPass only where it was picked.
StoreMiiverseOnly ==
    /\ at = "miiverse"
    /\ \E chosen \in Miiverse \ {opened.miiverse} :
        /\ config' = Synced([config EXCEPT !.miiverse = chosen])
        /\ stored' = [stored EXCEPT !.miiverse = chosen]
        /\ target' = chosen
    /\ change_needs_reboot' = (change_needs_reboot \/ config' # config)
    /\ Goto(After(at)) /\ CallbackUnchanged

\* miiverse_changed() and set_miiverse(): the applet's snapshots are told at once.
MiiverseChanged ==
    /\ at = "miiverse"
    /\ \E chosen \in Miiverse \ {opened.miiverse} :
        /\ config' = Synced([config EXCEPT !.miiverse = chosen])
        /\ stored' = [stored EXCEPT !.miiverse = chosen, !.spotpass = StoredSpotPass(config')]
        /\ target' = chosen
    /\ change_needs_reboot' = (change_needs_reboot \/ config' # config)
    /\ Goto(After(at)) /\ CallbackUnchanged

\* The item is there where the menu opened on two answers, its own network's first.
Showed == IF opened.spotpass = "Roseverse" THEN "Roseverse" ELSE spotpass_of(opened.account)

Picked == IF spotpass_offers_roseverse(opened.account, opened.miiverse, opened.overrides)
            THEN {spotpass_of(opened.account), "Roseverse"} \ {Showed} ELSE {}

\* The slip of trusting what the item offered when the menu opened.
TrustOffer ==
    /\ at = "spotpass"
    /\ \E chosen \in Picked \ {config.spotpass} :
        /\ config' = [config EXCEPT !.spotpass = chosen]
        /\ stored' = [stored EXCEPT !.spotpass = chosen]
    /\ change_needs_reboot' = TRUE
    /\ UNCHANGED target
    /\ Goto(After(at)) /\ CallbackUnchanged

\* A pick that what has changed since no longer offers is ignored.
SpotPassChanged ==
    /\ at = "spotpass"
    /\ \E chosen \in Picked \ {config.spotpass} :
        /\ spotpass_valid(config.account, config.miiverse, chosen, config.overrides)
        /\ config' = [config EXCEPT !.spotpass = chosen]
        /\ stored' = [stored EXCEPT !.spotpass = chosen]
    /\ change_needs_reboot' = TRUE
    /\ UNCHANGED target
    /\ Goto(After(at)) /\ CallbackUnchanged

-----------------------------------------------------------------------------
(***************************************************************************)
(* The menu closes.                                                        *)
(***************************************************************************)
Save == saved' \in {saved, TRUE}

\* update_install_begin() may go ahead, from the Wii U Menu and with no install it already has.
MayBegin == title = "menu" /\ install \in {"IDLE", "FAILED", "INTERRUPTED"}

\* The slip of clearing what the install is then told.
BeginCleared ==
    /\ at = "menu_closed"
    /\ Save
    /\ MayBegin
    /\ install' = "DOWNLOADING" /\ relaunch_wanted' = FALSE
    /\ change_needs_reboot' = FALSE
    /\ at' = "closed" /\ opened' = config
    /\ UNCHANGED <<config, target, stored, configured, title, applied, pending>>

\* menu_closed() where an install takes the relaunch over.
Begin ==
    /\ at = "menu_closed"
    /\ Save
    /\ MayBegin
    /\ install' = "DOWNLOADING" /\ relaunch_wanted' = change_needs_reboot
    /\ change_needs_reboot' = FALSE
    /\ at' = "closed" /\ opened' = config
    /\ UNCHANGED <<config, target, stored, configured, title, applied, pending>>

\* menu_closed() where none begins, or one whose thread does not start.  The full relaunch
\* ends in a boot.
MenuClosed ==
    /\ at = "menu_closed"
    /\ Save
    /\ \/ UNCHANGED installer
       \/ MayBegin /\ install' = "FAILED" /\ relaunch_wanted' = FALSE
    /\ title' = IF change_needs_reboot THEN "booting" ELSE title
    /\ change_needs_reboot' = FALSE
    /\ at' = "closed" /\ opened' = config
    /\ UNCHANGED <<config, target, stored, configured, applied, pending>>

-----------------------------------------------------------------------------
(***************************************************************************)
(* The install, which the Wii U Menu's process ends with.                  *)
(***************************************************************************)
Owed(state) == relaunch_wanted' /\ state \in {"RELAUNCH_WAITING", "FAILED"}

\* The thread's result, and the relaunch where the menu is in front.
InstallEnds ==
    /\ install = "DOWNLOADING" /\ title \in {"menu", "behind"}
    /\ install' \in {"RELAUNCH_WAITING", "FAILED"}
    /\ relaunch_wanted' = (relaunch_wanted \/ install' = "RELAUNCH_WAITING")
    /\ title' = IF title = "menu" /\ Owed(install') THEN "booting" ELSE title
    /\ UNCHANGED <<settings, saved, configured, menu, applied, pending>>

ReleaseForeground ==
    /\ title = "menu" /\ at = "closed"
    /\ title' = "behind"
    /\ UNCHANGED <<settings, saved, configured, menu, installer, applied, pending>>

\* update_install_foreground(true)
AcquireForeground ==
    /\ title = "behind"
    /\ UNCHANGED installer
    /\ title' = IF Owed(install) THEN "booting" ELSE "menu"
    /\ UNCHANGED <<settings, saved, configured, menu, applied, pending>>

\* update_install_app_ends(), in the Wii U Menu only: nothing relaunches out of what starts now.
AppEnds ==
    /\ title \in {"menu", "behind", "game"} /\ at = "closed"
    /\ title' = "between"
    /\ IF title = "game" THEN UNCHANGED <<installer, pending>>
       ELSE /\ install' \in CASE install = "DOWNLOADING" -> {"INTERRUPTED", "FAILED", "RESTART_NEEDED"}
                              [] install = "RELAUNCH_WAITING" -> {"RESTART_NEEDED"}
                              [] OTHER -> {install}
            /\ relaunch_wanted' = FALSE
            /\ pending' = (pending /\ ~relaunch_wanted)
    /\ UNCHANGED <<settings, saved, configured, menu, applied>>

-----------------------------------------------------------------------------
(***************************************************************************)
(* Titles and boots.                                                       *)
(***************************************************************************)
\* account_apply() and spotpass_apply() with the settings of the moment, where the title's
\* process can open IOSU and the slots let themselves be written.
ApplicationStart ==
    /\ title = "between"
    /\ title' \in {"menu", "game"}
    /\ url' \in {url} \cup ({config.account} \ {"Protarium"})
    /\ \/ sent' = sent
       \/ config.spotpass # "Protarium" /\ sent = "none" /\ sent' = config.spotpass
    /\ UNCHANGED <<settings, saved, configured, menu, installer, named, pending>>

\* What Config::Init makes of the storage.
Loaded(s) ==
    LET account == IF s.account \in Account THEN s.account ELSE "Protarium"
        miiverse == IF s.miiverse \in Miiverse THEN s.miiverse ELSE miiverse_for(account)
        overrides == IF s.overrides = "on" THEN "on" ELSE "off"
        spotpass == IF s.spotpass \in SpotPass
                        /\ spotpass_valid(account, miiverse, s.spotpass, overrides)
                    THEN s.spotpass ELSE spotpass_default(account, miiverse)
    IN  [account |-> account, miiverse |-> miiverse, spotpass |-> spotpass,
         overrides |-> overrides]

\* A missing key is stored, and a SpotPass that is not offered is stored over.
Repaired(s) ==
    [account |-> IF s.account = "none" THEN Loaded(s).account ELSE s.account,
     miiverse |-> IF s.miiverse = "none" THEN Loaded(s).miiverse ELSE s.miiverse,
     spotpass |-> Loaded(s).spotpass,
     overrides |-> Loaded(s).overrides]

\* A relaunch, or the power at any moment.  Globals and the security processor start over,
\* the storage is what the card has, and Config::Init reads it unless the config API refuses.
Boot ==
    /\ title' = "between"
    /\ configured' \in BOOLEAN
    /\ \E s \in IF saved THEN {stored} ELSE Cards :
        /\ config' = IF configured' THEN Loaded(s) ELSE Default
        /\ stored' = IF configured' THEN Repaired(s) ELSE s
        /\ saved' \in {stored' = s, configured'}
    /\ target' = config'.miiverse
    /\ named' = config'.account
    /\ url' = "Protarium" /\ sent' = "none"
    /\ pending' = FALSE
    /\ change_needs_reboot' = FALSE
    /\ at' = "closed" /\ opened' = config'
    /\ install' = "IDLE" /\ relaunch_wanted' = FALSE

Callback ==
    \/ AdvancedOverridesChanged \/ PlazaResetRequested \/ AccountChanged
    \/ MiiverseChanged \/ SpotPassChanged

Next ==
    \/ MenuOpened \/ Untouched \/ Callback \/ Begin \/ MenuClosed
    \/ InstallEnds \/ ReleaseForeground \/ AcquireForeground \/ AppEnds
    \/ ApplicationStart \/ Boot

Spec == Init /\ [][Next]_vars

-----------------------------------------------------------------------------
\* The settings hold what config.cpp can put there: no number of another version is ever taken
\* for one of the choices.
TypeOK ==
    /\ config \in Selection /\ opened \in Selection
    /\ target \in Miiverse
    /\ stored \in Stored
    /\ {change_needs_reboot, configured, relaunch_wanted, saved, pending} \subseteq BOOLEAN
    /\ title \in {"booting", "between", "menu", "behind", "game"}
    /\ at \in Item \cup {"closed", "menu_closed"}
    /\ install \in {"IDLE", "DOWNLOADING", "FAILED", "INTERRUPTED", "RELAUNCH_WAITING",
                    "RESTART_NEEDED"}
    /\ {named, url} \subseteq Account
    /\ sent \in SpotPass \cup {"none"}

\* Whatever the order of the callbacks and whatever was stored, SpotPass is on a server the
\* menu offers with the account server, the Miiverse and the switch of the moment.
SpotPassOffered == spotpass_valid(config.account, config.miiverse, config.spotpass, config.overrides)

\* With the menu closed, a change this boot does not act on is owed a relaunch by an install
\* of the Wii U Menu that has not been cut off.
ChangeOwed ==
    at = "closed" /\ title # "booting" /\ pending =>
        /\ relaunch_wanted
        /\ title \in {"menu", "behind"}
        /\ install \in {"DOWNLOADING", "RELAUNCH_WAITING", "FAILED"}

\* A boot brings back the selection it finds the console with, if the card has it: nothing a
\* callback derives is left out of the storage.  A Miiverse of another version excepted,
\* which is followed without being stored over.
KeptOverBoot ==
    [][Boot /\ saved /\ configured /\ configured' /\ stored.miiverse # "unknown"
            => config' = config]_vars

\* "A setting changed alongside an install that didn't finish waits for the next boot": the
\* account server's URL is not moved in a boot whose name hooks and token requests are not.
SettingWaits == url = "Pretendo" => named = "Pretendo"
=============================================================================
