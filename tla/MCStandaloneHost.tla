-------------------------- MODULE MCStandaloneHost ---------------------------
(* Instances of StandaloneHost for TLC.                                    *)
EXTENDS StandaloneHost

Plain == [alias |-> "other", create |-> {}, register |-> {}, regcls |-> {},
          explicit |-> FALSE]

Explicit(flags) == [Plain EXCEPT !.regcls = flags, !.explicit = TRUE]

SelfAlias == [Plain EXCEPT !.alias = "null"]

(* --clsid c/a, with and without --multiple-use, and r given explicitly.   *)
OneClass ==
    {[specs |-> <<s>>, regcls |-> g] :
        s \in {Plain, Explicit({}), Explicit({"MULTI_SEPARATE"})},
        g \in {{}, {"MULTIPLEUSE"}}}

TwoClasses ==
    {[specs |-> <<Plain, s>>, regcls |-> g] :
        s \in {SelfAlias, Explicit({}), Explicit({"MULTIPLEUSE"})},
        g \in {{}, {"MULTIPLEUSE"}}}

MCSlots == {1, 2}

MCCommands == OneClass \cup TwoClasses

(* With every fault and habit, fewer command lines are enough: one class,   *)
(* a lookup of the original that can fail, and a true single-use class.    *)
FullCommands ==
    {[specs |-> <<Plain>>, regcls |-> {"MULTIPLEUSE"}],
     [specs |-> <<Plain, SelfAlias>>, regcls |-> {"MULTIPLEUSE"}],
     [specs |-> <<Plain, Explicit({})>>, regcls |-> {}]}

(* The command lines of the README.                                        *)
Defaults == {[specs |-> <<Plain>>, regcls |-> g] : g \in {{}, {"MULTIPLEUSE"}}}
TwoDefaults == {[specs |-> <<Plain, Plain>>, regcls |-> {}]}
=============================================================================
