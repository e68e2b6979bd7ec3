----------------------------- MODULE MCGateway ------------------------------
(* Small URLs, objects and packets for Gateway. *)
EXTENDS Gateway

U(scheme, address, items) == [scheme |-> scheme, address |-> address, items |-> items]
Port(text) == [key |-> text, eq |-> FALSE, val |-> ""]
Opt(key, val) == [key |-> key, eq |-> TRUE, val |-> val]

MCUrls ==
  {U("tcp", "h", <<Port("80")>>), U("tcp", "h", <<>>),
   U("mcp", "g", <<Port("80"), Port("81")>>), U("mcp", "g", <<Opt("port", "81"), Port("x")>>),
   U("mcp", "g", <<Opt("if", "lo")>>), U("unix", "/s", <<>>),
   U("unix", "/s", <<Port("80")>>), U("shm", "/f", <<>>), U("chr", "/f", <<Opt("", "1")>>),
   U("udp", "h", <<Port("80")>>), U("tcp", "", <<Port("80")>>)}

T(v) == [kind |-> "T", v |-> v]
Str(v) == [kind |-> "string", v |-> v]
Arr(v) == [kind |-> "array", v |-> v]

\* With LenMod 4: an object, one too large, strings of 2, of 5, and of 3
\* characters with a NUL among them.
MCObjects == {<<T(<<3>>)>>, <<T(<<3, 3, 3, 3, 3, 3, 3, 3, 3, 3, 3, 3>>)>>,
              <<Str(<<2, 3>>)>>, <<Str(<<1, 3, 3, 1, 2>>)>>,
              <<Str(<<2, 0, 1>>)>>}

\* No packet; a short array; an array of 5 and what is read behind it.
MCUserPackets == {<<>>, <<Arr(<<1, 2>>), T(<<3>>)>>,
                  <<T(<<3>>), Arr(<<1, 2, 3, 1, 2>>), Str(<<2>>)>>}
=============================================================================
