---------------------------- MODULE MC_Systemctl ----------------------------
(***************************************************************************)
(* Two systemctl invocations, each running enable, disable or is-enabled  *)
(* for the service "a" over rc0.d .. rc2.d: two runlevels that take the    *)
(* stop link K80a and one that takes the start link S20a.  A directory     *)
(* starts empty, with the right link, with a link of "a" under the wrong   *)
(* name, with another service's link under the name S20a, with both of    *)
(* "a"'s names, or with a file that is not a link.  Dangling links are     *)
(* left out: with one, fstatat's stale buffer (service.c:205) makes enable *)
(* delete another service's dangling link or keep a dangling one as its    *)
(* own, see the hazard recorded for that line.                             *)
(***************************************************************************)
EXTENDS Systemctl, TLC

CONSTANTS p1, p2

MCProcs == {p1, p2}

MCStart == "S20a"
MCStop == "K80a"
MCNames == {"S20a", "K80a", "S99a", "README"}

\* a directory holding the given entries and nothing else
Dir(f) == [n \in MCNames |-> IF n \in DOMAIN f THEN f[n] ELSE NoEntry]

MCInitDirs ==
    { Dir(<<>>),
      Dir("S20a" :> "svc"),
      Dir("S99a" :> "svc" @@ "README" :> "file"),
      Dir("S20a" :> "other" @@ "K80a" :> "other"),
      Dir("S20a" :> "svc" @@ "K80a" :> "svc") }

MCSymmetry == Permutations(MCProcs)

=============================================================================
