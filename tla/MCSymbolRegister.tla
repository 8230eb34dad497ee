-------------------------- MODULE MCSymbolRegister --------------------------
EXTENDS SymbolRegister, TLC

(* Two names for variables and functions to share and one more for a        *)
(* function; parameter lists with one name, two names and one name twice.  *)
CONSTANTS f, x, y

MCNames == {f, x, y}
MCParameterLists == {<< >>, <<x>>, <<x, x>>, <<y, x>>}

=============================================================================
