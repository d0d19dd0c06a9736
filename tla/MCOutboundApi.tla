---------------------------- MODULE MCOutboundApi ------------------------------
(***************************************************************************)
(* Instances of OutboundApi for TLC: who asks what, with which key.        *)
(***************************************************************************)
EXTENDS OutboundApi

CONSTANTS r1, r2, r3, c1, c2, key

MCMsgIds == Requests

Ask(route, c, k) == [route |-> route, chat |-> c, key |-> k]

(* r1 and r2 are one POST /v3/chats and its retry; r3 uses their key for a *)
(* message to another chat.                                                *)
OneKey == [r \in Requests |-> IF r = r3 THEN Ask("send", c2, key) ELSE Ask("create", c1, key)]

(* Three unrelated requests to one new number: two of POST /v3/chats, one  *)
(* with a key, and one by the id of the chat.                              *)
OneChat == [r \in Requests |-> Ask(IF r = r3 THEN "send" ELSE "create", c1,
                                   IF r = r1 THEN key ELSE NoKey)]

(* The same three, and the clients of two of them send an empty key. *)
Blank == [r \in Requests |-> Ask(IF r = r3 THEN "send" ELSE "create", c1,
                                 IF r = r2 THEN NoKey ELSE BlankKey)]

MCWorkloads == {OneKey, OneChat, Blank}
Retry == {OneKey}
===============================================================================
