---------------------------- MODULE MCWireFormat ----------------------------
(* Two commands of two bytes that also occur in names. *)
EXTENDS WireFormat

MCCommands == {<<"x", "y">>, <<"x", "x">>}

MCPackageNames == {<<"x">>, <<"y">>, <<"x", "y">>}

=============================================================================
