------------------------------ MODULE MCWizard ------------------------------
(* Wizard for TLC.                                                         *)
EXTENDS Wizard

CONSTANTS s1, s2

MCInputs == {Prefix, Bare(s1), Url(s1), Url(s2)}
=============================================================================
