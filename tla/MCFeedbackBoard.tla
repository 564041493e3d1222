---- MODULE MCFeedbackBoard ----
(***************************************************************************)
(* FeedbackBoard on small instances: the patches the administrators send,  *)
(* and the symmetry of the ids.                                            *)
(***************************************************************************)
EXTENDS FeedbackBoard, TLC

CONSTANTS t1, t2, r1  \* texts, and a request

Hide    == [EmptyPatch EXCEPT !.visible = FALSE]
Show    == [EmptyPatch EXCEPT !.visible = TRUE, !.moderation = "approved"]
Reword  == [EmptyPatch EXCEPT !.text = t2]
Ship    == [EmptyPatch EXCEPT !.status = "shipped"]
Reopen  == [EmptyPatch EXCEPT !.status = "open"]
FlagDup == [EmptyPatch EXCEPT !.duplicate_of = r1]

MCTexts == {t1, t2}

NoPatches        == {}
VisibilityPatches == {Hide, Show}
EditPatches      == {Hide, Show, Reword, FlagDup}
StatusPatches    == {Ship, Reopen}
AdminPatches == EditPatches \cup {Ship}

HandlerSymmetry == Permutations(Handlers)
IdSymmetry == HandlerSymmetry \cup Permutations(Voters)
                 \cup Permutations(Comments) \cup Permutations(Releases)
====
