---- MODULE MCInspector ----
(***************************************************************************)
(* A directory of two files for TLC.                                       *)
(***************************************************************************)
EXTENDS Inspector

\* What a file may hold: nothing, the target, or rubbish.
FewContents == {{}, {1}, Broken}

====
