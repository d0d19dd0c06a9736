---------------------------- MODULE MCConversations ----------------------------
(***************************************************************************)
(* An American SIM; peers with an American number, a Norwegian one (ten    *)
(* digits with the country code), the American one that the Norwegian      *)
(* without its "+" is taken for, a short code, and a name.                 *)
(***************************************************************************)
EXTENDS Conversations

MCOwn == <<1, 7, 2, 0, 3, 4, 5, 4, 1, 2, 2>>
American == <<1, 7, 2, 0, 8, 8, 2, 8, 2, 2, 7>>
Norwegian == <<4, 7, 2, 1, 2, 3, 4, 5, 6, 7>>
Lookalike == <<1>> \o Norwegian
ShortCode == <<7, 2, 3, 4, 5>>
Name == <<>>

National(n) == {Written(TRUE, n), Written(FALSE, n), Written(FALSE, Tail(n))}
MCPeers == {American, Norwegian, Lookalike, ShortCode, Name}
MCSpellings == [p \in MCPeers |->
  CASE p \in {American, Lookalike} -> National(p)
    [] p = Norwegian -> {Written(TRUE, p), Written(FALSE, p)}
    [] OTHER -> {Written(FALSE, p)}]
MCOwnSpellings == National(MCOwn)

Imei == Written(FALSE, <<8, 6, 1, 4, 7, 5, 0, 3, 0, 0, 1, 1, 2, 2, 3>>)
Imsi == Written(FALSE, <<3, 1, 0, 2, 6, 0, 9, 9, 8, 8, 7, 7, 6, 6, 5>>)
Zero == Written(FALSE, <<0>>)
MCListings == {<<Zero, Imei, Imsi, Written(TRUE, MCOwn)>>, <<Zero, Imei, Imsi>>, <<Zero>>}
===============================================================================
