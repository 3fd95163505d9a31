--------------------------- MODULE MCAdminConfig ---------------------------
(* AdminConfig with a plain section and one that is a pointer.              *)
EXTENDS AdminConfig, TLC
AnyOrder == Permutations(Requests)
TwoSections == {"base", "http"}
Pointers == {"http"}
AllKinds == Kinds
=============================================================================
