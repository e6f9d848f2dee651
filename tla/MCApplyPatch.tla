----------------------------- MODULE MCApplyPatch -----------------------------
EXTENDS ApplyPatch

BothBases == {pristine, main_base}

\* Upstream as it is; with a type written on _RUNNERS; with another import line.
SomeHidden == {{}, {<<"validate", "RUNNERS">>}, {<<"package_init", "imports">>}}
=============================================================================
