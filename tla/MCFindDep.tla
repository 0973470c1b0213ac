----------------------------- MODULE MCFindDep ------------------------------
(***************************************************************************)
(* Four component files for FindDep: components that may export each       *)
(* other's symbols, and dependency graphs with and without cycles.         *)
(***************************************************************************)
EXTENDS FindDep

\* Alphabetical, as glob returns them: a sorts before booter, z after it.
MCFiles == <<"a", "booter", "top", "z">>

\* Each component exports a symbol of its own; some symbols may be exported
\* twice, as booter's stubs are.
MCExports ==
  {[m \in ToSet(MCFiles) |-> CASE m = "a" -> {"sa"} \cup a
                               [] m = "booter" -> {"sb"} \cup b
                               [] m = "z" -> {"sz"} \cup z
                               [] m = "top" -> {"st"}] :
     a \in SUBSET {"sz"}, b \in SUBSET {"sa"}, z \in SUBSET {"sb", "sa"}}

\* What may be left undefined, in symbol table order: "lds" is the linker
\* script's, and nobody exports "x".
MCUndefs ==
  {[m \in ToSet(MCFiles) |-> CASE m = "a" -> a [] m = "booter" -> b
                               [] m = "z" -> z [] m = "top" -> t] :
     a \in {<<>>, <<"sb">>, <<"sz">>, <<"sz", "sb">>, <<"sb", "lds", "sb">>, <<"st">>},
     b \in {<<>>, <<"lds">>, <<"sa">>, <<"lds", "sz">>},
     z \in {<<>>, <<"lds">>, <<"sb", "sa">>, <<"sa">>, <<"x">>},
     t \in {<<"sz", "sa">>, <<"lds", "sb", "sa", "sz">>, <<"sz", "sa", "lds">>,
            <<"lds", "sb", "x">>}}
=============================================================================
