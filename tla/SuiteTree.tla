------------------------------ MODULE SuiteTree ------------------------------
(***************************************************************************)
(* A source tree of the conformance suite, as far as registering a         *)
(* capability goes: four files, each a few blocks (an enum, a dict, an     *)
(* import list) of names.  pristine/ is the published 0.0.2, main-base/    *)
(* upstream's main, tree/ the files with write_ownership in them.          *)
(*                                                                         *)
(* A file cut short by a crash has no block at all.                        *)
(***************************************************************************)
EXTENDS Naturals, Sequences, SequencesExt

WO == "write_ownership"

pristine_Capability ==
    <<"put", "put_writes", "get_tuple", "list", "delete_thread", "delete_for_runs", "copy_thread", "prune">>
main_Capability == Append(pristine_Capability, "delta_channel_history")

\* The enums there are, member after member: upstream's two, and each of them with
\* the patch's member, which is written last.
Enums == {pristine_Capability, main_Capability, Append(pristine_Capability, WO), Append(main_Capability, WO)}
EnumOf(names) == CHOOSE e \in Enums : Range(e) = names

BASE_CAPABILITIES == {"put", "put_writes", "get_tuple", "list", "delete_thread"}

capabilities_py(caps) ==
    [Capability |-> caps, EXTENDED_CAPABILITIES |-> caps \ BASE_CAPABILITIES, METHOD_MAP |-> caps]
validate_py(caps) == [imports |-> caps, RUNNERS |-> caps]
spec_init_py(caps) == [imports |-> caps, all |-> caps]
package_init_py(names) == [imports |-> names, all |-> names]

Torn == [b \in {} |-> {}]

Files == {"capabilities", "validate", "spec_init", "package_init"}

Tree(c, v, s, p) == [capabilities |-> c, validate |-> v, spec_init |-> s, package_init |-> p]

pristine == LET caps == Range(pristine_Capability)
            IN  Tree(capabilities_py(caps), validate_py(caps), spec_init_py(caps),
                     package_init_py({"checkpointer_test", "validate"}))

main_base == LET caps == Range(main_Capability)
             IN  Tree(capabilities_py(caps), validate_py(caps), spec_init_py(caps),
                      package_init_py({"checkpointer_test", "validate"}))

tree == LET caps == Range(pristine_Capability) \union {WO}
        IN  Tree(capabilities_py(caps), validate_py(caps), spec_init_py(caps),
                 package_init_py({"checkpointer_test", "validate", WO}))

-----------------------------------------------------------------------------
\* What importing the package and starting a validation runs into: a file cut
\* short, Capability.X of no such member, a module that is not there.
Imports(t, ownership, spec) ==
    /\ \A f \in Files : t[f] # Torn
    /\ t.capabilities.EXTENDED_CAPABILITIES \union t.capabilities.METHOD_MAP \subseteq t.capabilities.Capability
    /\ t.validate.RUNNERS \subseteq t.validate.imports \intersect t.capabilities.Capability
    /\ WO \in t.validate.imports \union t.spec_init.imports => spec /\ ownership
    /\ WO \in t.package_init.imports => ownership

\* The suite a tree that imports makes: what is tested, in order, and by what.
SuiteOf(t) ==
    [caps    |-> EnumOf(t.capabilities.Capability),
     methods |-> t.capabilities.METHOD_MAP,
     runners |-> t.validate.RUNNERS]

published == SuiteOf(pristine)
upstream == SuiteOf(main_base)
patched == SuiteOf(tree)
patched_upstream == [upstream EXCEPT !.caps = Append(@, WO), !.methods = @ \union {WO}, !.runners = @ \union {WO}]

\* The patcher stopped between capabilities.py and validate.py.
Halfway(s) == [s EXCEPT !.runners = @ \ {WO}]

SuitesMade == {published, upstream, patched, patched_upstream, Halfway(patched), Halfway(patched_upstream)}
=============================================================================
