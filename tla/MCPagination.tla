---------------------------- MODULE MCPagination ------------------------------
(***************************************************************************)
(* Instance of Pagination for TLC: three chats, of which a filter selects  *)
(* all or two; four messages at most in the chat that is read.             *)
(***************************************************************************)
EXTENDS Pagination, TLC

CONSTANTS poller, handler

WriterSymmetry == Permutations(Writers)

MCChats == 1..3
MCMessages == 1..4
MCFilters == {1..3, {1, 3}}
===============================================================================
