------------------------------ MODULE MCLoading ------------------------------
(* Files that load files, four deep, with too few descriptors for the     *)
(* fourth to be open.                                                      *)
EXTENDS Loading

FewDescriptors == 3..5
=============================================================================
