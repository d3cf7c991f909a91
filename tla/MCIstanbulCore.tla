--------------------------- MODULE MCIstanbulCore ---------------------------
(***************************************************************************)
(* Instances of IstanbulCore for TLC.                                      *)
(***************************************************************************)
EXTENDS IstanbulCore

Two == {"v0", "v1"}
TwoIndex == [v \in Two |-> CASE v = "v0" -> 0 [] v = "v1" -> 1]
Three == {"v0", "v1", "v2"}
ThreeIndex == [v \in Three |-> CASE v = "v0" -> 0 [] v = "v1" -> 1 [] v = "v2" -> 2]
Four == {"v0", "v1", "v2", "v3"}
FourIndex == [v \in Four |-> CASE v = "v0" -> 0 [] v = "v1" -> 1 [] v = "v2" -> 2 [] v = "v3" -> 3]

\* A and B are proposals of height 1, made by v0, the proposer of round 0, and
\* by v1, the proposer of round 1.  D is a proposal of v0 as well.  C is the
\* block that v1 makes on top of A.
BlockNumber == [b \in Block \cup {"G"} |-> CASE b = "G" -> 0 [] b = "C" -> 2 [] OTHER -> 1]
BlockParent == [b \in Block |-> IF b = "C" THEN "A" ELSE "G"]
BlockAuthor ==
  [b \in Block \cup {"G"} |->
     CASE b = "G" -> NoAddress [] b \in {"A", "D"} -> "v0" [] OTHER -> "v1"]

Msg(code, sequence, round, digest, from) ==
  [code |-> code, sequence |-> sequence, round |-> round, digest |-> digest,
   from |-> from, seal |-> IF code = "commit" THEN digest ELSE NoBlock]

\* v2 votes among three validators that back A in round 0 and B in round 1.  v0
\* proposes both in round 0, and D, which does not verify; the insertion of B
\* fails.
VoterMessages ==
  {Msg("preprepare", 1, 0, "A", "v0"), Msg("preprepare", 1, 0, "B", "v0"),
   Msg("preprepare", 1, 0, "D", "v0"),
   Msg("commit", 1, 0, "A", "v1"), Msg("roundchange", 1, 1, NoBlock, "v1"),
   Msg("preprepare", 1, 1, "B", "v1"), Msg("commit", 1, 1, "B", "v1"),
   Msg("commit", 1, 0, "A", "v3"), Msg("roundchange", 1, 1, NoBlock, "v3"),
   Msg("commit", 1, 1, "B", "v3")}

\* Height 1 is decided by the others if need be; v1 proposes C at height 2.
RestartMessages ==
  {Msg("preprepare", 1, 0, "A", "v0"), Msg("commit", 1, 0, "A", "v2"),
   Msg("commit", 1, 0, "A", "v3"), Msg("commit", 2, 0, "C", "v2")}

\* What a third, correct validator sends when v0 makes no proposal, in time or
\* early.
ThirdValidator ==
  {Msg("roundchange", 1, 1, NoBlock, "v2"), Msg("commit", 1, 1, "B", "v2")}

=============================================================================
