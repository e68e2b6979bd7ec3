-------------------------- MODULE ConnectionFactory -------------------------
(***************************************************************************)
(* common/Url.cpp and the creators of common/: from the text of a URL to a *)
(* connection.  A URL is [scheme, address, items]: scheme is "" if there   *)
(* is no "://", and items are the texts between the commas behind the      *)
(* address, each [key, eq, val]; eq says that it holds an '='.  The        *)
(* address ends at the first ':' (behind which there is an item, if only   *)
(* the empty text) or, without one, at the first ','.                      *)
(***************************************************************************)
EXTENDS Sequences, SequencesExt, TLC

None == "none"
Thrown == "thrown"

\* The type of a URL, as get_type_str names it.
type_str(scheme) ==
  CASE scheme = "tcp" -> "tcp" [] scheme = "mcp" -> "mcp" [] scheme = "unix" -> "tcp"
    [] scheme = "shm" -> "shm" [] scheme = "chr" -> "chr" [] OTHER -> "default"

Insert(options, key, val) == options @@ (key :> val)   \* keeps what is there

\* The first item without '=' is the port; an item with both parts an option.
parseItem(acc, item) ==
  CASE ~item.eq /\ ~acc.port_identified ->
         [port_identified |-> TRUE, options |-> Insert(acc.options, "port", item.key)]
    [] item.eq /\ item.key # "" /\ item.val # "" ->
         [acc EXCEPT !.options = Insert(@, item.key, item.val)]
    [] OTHER -> acc

parse(url) ==
  [ok      |-> type_str(url.scheme) # "default" /\ url.address # "",
   type    |-> type_str(url.scheme),
   address |-> url.address,
   options |-> FoldLeft(parseItem, [port_identified |-> FALSE, options |-> <<>>],
                        url.items).options]

get_option(u, key) == IF key \in DOMAIN u.options THEN u.options[key] ELSE ""

\* lexical_cast<unsigned short> throws on any other text.
IsPort(text) == text \in {"80", "81"}

TcpCreate(u) == IF get_option(u, "port") # "" /\ IsPort(get_option(u, "port"))
                THEN "TcpConnection" ELSE None
\* The constructor opens a socket before the port is read; opened says whether
\* the system let it, and the exception is nobody's if not.
McastCreate(u, opened) ==
  IF get_option(u, "port") = "" THEN None
  ELSE IF ~opened THEN Thrown
  ELSE IF IsPort(get_option(u, "port")) THEN "McastConnection" ELSE None
UnixCreate(u) == IF u.address # "" THEN "UnixConnection" ELSE None
ShmCreate(u) == IF u.address # "" THEN "ShmConnection" ELSE None

\* register_factory, and the call of the creator that is found.
Creator(u, opened) == CASE u.type = "tcp"  -> TcpCreate(u)
                        [] u.type = "mcp"  -> McastCreate(u, opened)
                        [] u.type = "unix" -> UnixCreate(u)
                        [] u.type = "shm"  -> ShmCreate(u)
                        [] u.type = "chr"  -> ShmCreate(u)

\* is_open of a connection no operation was started on: sockets are opened by
\* async_connect and m_fd is -1; the one of multicast is always true.
OpenWhenCreated(class) == class = "McastConnection"

=============================================================================
