------------------------------ MODULE MCServer ------------------------------
(***************************************************************************)
(* Server for TLC: every command, in capitals or not, a SET that lacks its *)
(* value, an argument that is refused, and a SET that is cut in its value. *)
(***************************************************************************)
EXTENDS Server

Whole ==
  {<< <<"SET">>, <<"k">>, <<"v">> >>,
   << <<"del">>, <<"k", "1">> >>,
   << <<"GET">>, <<"k">> >>,
   << <<"set">>, <<"k">> >>,
   << <<"DEL">>, <<"#">> >>}

MCLines ==
  {<<text>> : text \in Whole}
    \cup {<< << <<"SET">>, <<"k">>, <<"v", "_">> >>, << <<"1">> >> >>}

=============================================================================
