----------------------------- MODULE MCReferences -----------------------------
(***************************************************************************)
(* Small instance of References: a required pointer, an optional one that  *)
(* only a creation sends, and a list of up to two.                         *)
(***************************************************************************)
EXTENDS References

MCOrder == <<"ExecutionRoleARN", "KMSKey", "SecurityGroupIDs">>

MCRefs == [f \in {"ExecutionRoleARN", "KMSKey", "SecurityGroupIDs"} |->
    CASE f = "ExecutionRoleARN" -> {<<>>, <<"role">>, <<"bare">>}
      [] f = "KMSKey" -> {<<>>, <<"bare">>, <<"sg">>}
      [] f = "SecurityGroupIDs" -> {<<>>, <<"sg">>, <<"sg", "bare", "role">>}]

MCIds == [f \in {"ExecutionRoleARN", "KMSKey", "SecurityGroupIDs"} |->
    {<<>>} \cup {i \in {<< <<"own", 0>> >>} : f # "KMSKey"}]
===============================================================================
