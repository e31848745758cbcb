----------------------------- MODULE MCSessions -----------------------------
(***************************************************************************)
(* Two sessions of one role that two entries grant two of the three names, *)
(* with another role's entry between them.  The schema of the name that is *)
(* not granted may be renamed to one that is.                              *)
(***************************************************************************)
EXTENDS Sessions

CONSTANTS role

MCRoleOf == [s \in Sessions |-> role]

Entry(r, tables) == [role |-> r, tables |-> tables]

MCGrants == <<Entry(role, <<"a">>), Entry("other", <<"c">>), Entry(role, <<"b">>)>>

MCSchemaRenames == {<<"c", "a">>}

=============================================================================
