----------------------------- MODULE MCOverwrite -----------------------------
EXTENDS Overwrite

\* Part 2 and part 3 of the script; the same workers and one more, all free to
\* run; these with a fence, where any of them may be killed as well.
Scripted == [workers : {{"A", "B"}}, gated : {{"A"}}, fenced : BOOLEAN, kills : {FALSE}]
Race     == [workers : {Worker}, gated : {{}}, fenced : {FALSE}, kills : {FALSE}]
Crashes  == [workers : {Worker}, gated : {{}}, fenced : {TRUE}, kills : {TRUE}]

Everything == Scripted \union Race \union Crashes
=============================================================================
