------------------------------ MODULE MCForwarding ------------------------------
(* Paths, prefixes and identifiers for checking Forwarding: segments that are
   prefixes of each other, trailing slashes, empty segments; identifiers with
   dashes, too short, too long and empty.                                      *)
EXTENDS Forwarding

MCPrefixes ==
    {<<"/">>, <<"/", "a">>, <<"/", "a", "b">>, <<"/", "a", "/">>, <<"/", "a", "/", "b">>}

MCPaths ==
    MCPrefixes \cup
    {<<"/", "b">>, <<"/", "/">>, <<"/", "a", "/", "/">>, <<"/", "a", "/", "b", "b">>,
     <<"/", "a", "/", "b", "/">>, <<"/", "a", "b", "/", "a">>, <<"/", "/", "a">>}

MCRequestIds ==
    {<<>>, <<"f">>, <<"f", "-", "f">>, <<"-", "f", "0", "f">>}

MCClientTraces == {<<"c", "0">>}
MCRandomTraces == {<<"d", "d">>, <<"e", "e">>}
=============================================================================
