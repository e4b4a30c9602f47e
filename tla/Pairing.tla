------------------------------ MODULE Pairing -------------------------------
(***************************************************************************)
(* The three choices and the rules between them: src/choice.h.             *)
(***************************************************************************)
Account == {"Protarium", "Pretendo"}
Miiverse == {"Protaverse", "Juxt", "Roseverse"}
SpotPass == {"Protarium", "Pretendo", "Roseverse"}

\* The Miiverse each account server signs into by itself.
miiverse_for(account) == IF account = "Pretendo" THEN "Juxt" ELSE "Protaverse"

\* The account server's own SpotPass bears its name.
spotpass_of(account) == account

spotpass_offers_roseverse(account, miiverse, overrides) ==
    miiverse = "Roseverse" /\ (account = "Pretendo" \/ overrides = "on")

spotpass_valid(account, miiverse, chosen, overrides) ==
    \/ chosen = spotpass_of(account)
    \/ chosen = "Roseverse" /\ spotpass_offers_roseverse(account, miiverse, overrides)

spotpass_default(account, miiverse) ==
    IF miiverse = "Roseverse" /\ account = "Pretendo" THEN "Roseverse" ELSE spotpass_of(account)
=============================================================================
