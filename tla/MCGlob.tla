------------------------------- MODULE MCGlob -------------------------------
(***************************************************************************)
(* Every pattern of up to four characters, stars and backslashes among     *)
(* them, on every short input.                                             *)
(***************************************************************************)
EXTENDS GlobText

MCChar == {"a", "b", "*", "\\"}
MCTexts == UNION {[1 .. n -> {"a", "b", "*", "\\"}] : n \in 0 .. 4}
MCPatterns == {Compiled[text] : text \in Texts}
MCInputs == UNION {[1 .. n -> {"a", "b"}] : n \in 0 .. 3}
              \cup UNION {[1 .. n -> {"a", "*", "\\"}] : n \in 1 .. 2}
=============================================================================
