------------------------------- MODULE MCHealer -------------------------------
(***************************************************************************)
(* Values for the constants of the Healer's pipeline. A raw contract is    *)
(* repaired by normalization; a messy one is normalized too, but into junk *)
(* that still does not validate; a tidy one has other valid contents a     *)
(* model may propose.                                                      *)
(***************************************************************************)
EXTENDS HealerInvariant, TLC

CONSTANTS raw, tidy, better, messy, junk

MCContent == {raw, tidy, better, messy, junk}

MCValid == {tidy, better}

MCNormal ==
  [c \in MCContent |->
     CASE c = raw -> tidy [] c = messy -> junk [] OTHER -> c]

\* One content of each outcome: repaired, valid, invalid whatever is done.
FewContents == {raw, tidy, junk}
FewValid    == FewContents \cap MCValid
FewNormal   == [c \in FewContents |-> MCNormal[c]]

(***************************************************************************)
(* One error of each kind the pipeline treats differently.                 *)
(***************************************************************************)
Naming     == [tier |-> 1, prio |-> High, fixable |-> "contract"]
Structural == [tier |-> 2, prio |-> Medium, fixable |-> "contract"]
ServerBug  == [tier |-> 3, prio |-> Critical, fixable |-> "generator"]
Runtime    == [tier |-> 3, prio |-> Critical, fixable |-> "contract"]

MCErrorClass    == {Naming, Structural, ServerBug}
FixableErrors   == {Naming, Structural}
==============================================================================
