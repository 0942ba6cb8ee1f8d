-------------------------- MODULE MCStructuredDiff --------------------------
(***************************************************************************)
(* Small directories: objects with and without managed fields, with the    *)
(* managed fields in the middle of the metadata and at its end, with lines *)
(* at the limit of what is shown, above it, and above what can be read.    *)
(***************************************************************************)
EXTENDS StructuredDiff

Managed(who) == << <<"managedFields">>, <<"item", who>>, <<"deep", who>> >>

MCFiles ==
    { <<>>,
      << <<"x">>, <<"deep", "x">> >>,
      << <<"x">>, <<"deep", "y">> >>,
      << <<"x">> >> \o Managed("x"),
      << <<"x">> >> \o Managed("x") \o << <<"x">>, <<"deep", "x">> >>,
      << <<"x">> >> \o Managed("y") \o << <<"x">>, <<"deep", "x">> >>,
      << <<"x">> >> \o Managed("y") \o << <<"y">>, <<"deep", "x">> >>,
      << <<"x">> >> \o Managed("y") \o << <<"y">>, <<"item", "x">> >>,
      << <<"x">>, <<"deep", "x", "x", "x">> >>,
      << <<"x">>, <<"deep", "x", "x", "y">> >>,
      << <<"x", "deep", "x">> >>,
      << <<"x">>, <<"deep", "x", "x", "x", "x", "x">> >> }

=============================================================================
