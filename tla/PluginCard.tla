------------------------------ MODULE PluginCard ------------------------------
(***************************************************************************)
(* What swap() of src/update_install.cpp promises about the two files that *)
(* matter on the SD card: the installed plugin and the copy kept of the    *)
(* one before it.  Nothing is said of how a download got there, or of when *)
(* the power goes: only that a step moves a whole plugin from one name to  *)
(* the other, and lets the backup go while the installed one is whole.     *)
(***************************************************************************)

VARIABLES installed, backup

Plugin == {"old", "new"}

Init ==
    /\ installed \in {"old", "none"}
    /\ backup = "none"

DropBackup ==
    /\ installed \in Plugin
    /\ backup' = "none"
    /\ UNCHANGED installed

SetAside ==
    /\ installed \in Plugin
    /\ backup = "none"
    /\ backup' = installed
    /\ installed' = "none"

PutNew ==
    /\ installed = "none"
    /\ backup \in Plugin
    /\ installed' = "new"
    /\ UNCHANGED backup

PutBack ==
    /\ installed = "none"
    /\ backup \in Plugin
    /\ installed' = backup
    /\ backup' = "none"

Next == DropBackup \/ SetAside \/ PutNew \/ PutBack

Spec == Init /\ [][Next]_<<installed, backup>>
==============================================================================
