----------------------------- MODULE MCSession -----------------------------
(* Instances of Session for TLC.                                              *)
EXTENDS Session

MCCommandLines ==
    { <<"project-arg", "follow-location">>, <<"status", "list-symbols">>,
      <<"timeout", "preprocess", "fixits">>, <<"autostart-rdm", "jobcount">>,
      <<"timeout", "rdm-log", "dump-file">>, <<"compile", "code-complete-at">>,
      <<"quit-rdm", "autostart-rdm", "is-indexed">>,
      <<"timeout", "code-complete", "jobcount">> }

MCBodySize == <<3, 0, 1>>
=============================================================================
