----------------------------- MODULE MCCommands -----------------------------
(* An instance of Commands for model checking: its cfg gives the bounds.   *)
EXTENDS Commands

\* Names that differ in case and in length, one that another begins with, and
\* of the third client also an empty one and one with a NUL.
MCNames == {<<A>>, <<A, NUL>>} \X {<<a>>, <<a, a>>} \X {<< >>, <<A>>, <<a, NUL>>}
=============================================================================
