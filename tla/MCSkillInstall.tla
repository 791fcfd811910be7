--------------------------- MODULE MCSkillInstall ---------------------------
(* SkillInstall with two binaries, a home directory that is probed, one    *)
(* that is only named, and a relative name that is either of them.         *)
EXTENDS SkillInstall, TLC

MCAt ==
  "home" :> ("home" :> "H" @@ "work" :> "W" @@ "." :> "H") @@
  "work" :> ("home" :> "H" @@ "work" :> "W" @@ "." :> "W")

MCProbed == {"home"}
MCGiven == {{}, {"work"}, {"."}}

Symmetry == Permutations(Process)

(* "Rerunning install replaces only a manifest-owned file, atomically; a   *)
(* modified or unowned target fails loudly and requires an explicit path   *)
(* decision" (docs/runtime-contracts.md:180-181): a file that the user put *)
(* there before the command looked is replaced only by an install that     *)
(* names its path.                                                         *)
UnownedRefused ==
  [][\A l \in Place : file[l] = Own /\ file'[l] \in Version =>
       \E p \in Active :
         \/ l \in call[p].touched
         \/ call[p].command = "install" /\ call[p].target \cap call[p].paths # {}]_vars
============================================================================
