----------------------------- MODULE NameHooks -----------------------------
(***************************************************************************)
(* The name hooks of src/dns.cpp, which refuse the lookups of the services *)
(* a Pretendo account is not offered.  Protarium's module hooks the same   *)
(* calls and redirects names to its own hosts, and which of the two hooks  *)
(* is the outer one depends on the order the loader took the plugins in.   *)
(* A name stands for the kind of host it is.                               *)
(***************************************************************************)
EXTENDS Pairing

\* The older builds redirect the games' names, r17 Nintendo's CDN and SpotPass names as well.
InkayBuild == {"older", "r17"}

\* What a boot settles: the account server, the Inkay and whose hook is the outer one.
Boot == [account : Account, build : InkayBuild, outer : {"ours", "theirs"}]

\* The names under protarium.lol and protarium.online.
is_protarium(name) == name \in {"their game", "their cdn", "their disc", "their spotpass"}

\* The slip of an r17 console's list without its new hosts.
KeepProtaverse == {"their disc"}

\* Those left resolving: Protaverse's hosts, and r17's for CDN and SpotPass.
PROTARIUM_KEEP == {"their disc", "their cdn"}

\* GAME_ORIGINALS, and every name with one of RULE_DOMAINS in it.
GAME_ORIGINALS == {"game", "game by rule"}

\* What a program looks up.
Asked == GAME_ORIGINALS \cup {"nintendo cdn", "their game", "their disc", "their spotpass",
                              "www.youtube.com", "the proxy", "elsewhere"}

\* Their hook.
Redirected(build, name) ==
    CASE name \in {"game", "game by rule"} -> "their game"
      [] name = "nintendo cdn" /\ build = "r17" -> "their cdn"
      [] OTHER -> name

\* Both spellings of a name are refused, since either can arrive: theirs when their hook ran
\* first, and the original when it has not run yet.
should_refuse(name) ==
    IF is_protarium(name) THEN name \notin PROTARIUM_KEEP ELSE name \in GAME_ORIGINALS

refuse(account, name) == account = "Pretendo" /\ should_refuse(name)
=============================================================================
