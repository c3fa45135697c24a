--------------------------- MODULE MCCommandLine ----------------------------
(* An instance of CommandLine for TLC: every comparison of one or two signs,  *)
(* and values with blanks, slashes and quotes of both kinds.                  *)
EXTENDS CommandLine

MCValues ==
    {<<"x">>, <<"1">>, <<"1", "0">>, <<"x", "blank", "1", "blank">>, <<"/group", "x">>, <<"x", "/usage">>, <<>>,
     <<"\"", "x", "blank", "/usage", "\"">>, <<"\"", "blank", "\"">>, <<"x", "\"", "1">>,
     <<"'", "x", "'">>, <<"\"", "x">>, <<"x", "'">>, <<"x", "'", "/usage", "'", "/usage">>}

MCCommands ==
         {[name |-> "/report", signs |-> <<>>, value |-> <<>>]}
    \cup [name : {"/modify"}, signs : {<<"=">>}, value : {<<"x">>, <<"\"", "x", "\"">>, <<"x", "blank", "1">>}]

MCQualifiers ==
         [name : {"/usage"}, signs : {<<a>> : a \in Sign} \cup {<<a, b>> : a, b \in Sign}, value : {<<"1">>}]
    \cup [name : {"/usage"}, signs : {<<"=">>}, value : MCValues]
    \cup [name : {"/group"}, signs : {<<"=">>, <<"!", "=">>, <<"<">>, <<"=", "?">>}, value : MCValues]
    \cup [name : Name, signs : {<<>>}, value : {<<>>}]

MCVolumes == [group : {<<"x">>, <<"1">>}, usage : {0, 1, 2}]
=============================================================================
