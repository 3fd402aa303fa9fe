------------------------------ MODULE MCServer ------------------------------
(***************************************************************************)
(* A small instance of Server: two clients, and descriptors for both until *)
(* a page file takes one.  The parameter of a call stands in the body, or  *)
(* in the head of a request whose key hides it from get_param().           *)
(***************************************************************************)
EXTENDS Server

Plain == [fine |-> TRUE, method |-> "GET", quid |-> FALSE, api |-> "shutdown", at |-> "query"]

MCRequests ==
    {Plain,
     [Plain EXCEPT !.method = "POST", !.api = "call", !.at = "body"],
     [Plain EXCEPT !.method = "PUT", !.api = "call", !.quid = TRUE, !.at = "header"],
     [Plain EXCEPT !.method = "OPTIONS"]}
=============================================================================
