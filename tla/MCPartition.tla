---------------------------- MODULE MCPartition ----------------------------
(* Two crates and their facade, one tool.                                    *)
EXTENDS Partition

AllPackages == Crates \cup {Facade}
\* What a project starts with: no config, comments only, another table only, a
\* [build] table with a key of its own, a flag with commas and a comment, flags
\* over several lines.
MCConfigs ==
  LET own == [OwnConfig EXCEPT !.keeps = TRUE, !.comments = TRUE]
  IN {NoConfig, [own EXCEPT !.tables = 0, !.flags = "none", !.keeps = FALSE],
      [own EXCEPT !.tables = 0, !.flags = "none"], [own EXCEPT !.flags = "none"],
      [own EXCEPT !.theirs = "commas"], [own EXCEPT !.theirs = "plain", !.flags = "other"]}
MCManifests == {[listed |-> {}, shape |-> shape, glued |-> {}] : shape \in {"list", "ragged", "other"}}
=============================================================================
