------------------------------ MODULE MCNaming ------------------------------
EXTENDS Naming

MCInputs ==
  {[abs |-> FALSE, path |-> <<"a">>], [abs |-> FALSE, path |-> <<"b", "a">>],
   [abs |-> TRUE, path |-> <<"lp", "r1", "a">>]}

MCPatterns == {<<"**">>, <<"**", "a">>, <<"*", "r1", "**">>}
=============================================================================
