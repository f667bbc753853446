------------------------------ MODULE MCRebuild ------------------------------
(* A program of a generated file and a header for the runs of Rebuild.      *)
EXTENDS Rebuild

MCKids == [t \in {"gen", "prog"} |-> IF t = "gen" THEN {"src"} ELSE {"gen", "hdr"}]

Allowed(S) ==
  [during |-> "during" \in S, revert |-> "revert" \in S,
   cached |-> "cached" \in S, trouble |-> "trouble" \in S]

\* Versions do not come back where builds are killed or edits race them, and
\* nothing races a build that shares a cache
BuildModes ==
  {Allowed({"during", "trouble"}), Allowed({"trouble", "cached"}),
   Allowed({"revert", "cached"})}
=============================================================================
