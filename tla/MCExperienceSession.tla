------------------------ MODULE MCExperienceSession ------------------------
(* A small instance of the experience sessions. *)
EXTENDS ExperienceSession

\* A timer, two replies of one transition (a group of characters), or nothing.
TimerOrReplies == {<<>>, <<"timer">>, <<"model", "model">>}
=============================================================================
