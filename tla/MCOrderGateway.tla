--------------------------- MODULE MCOrderGateway ---------------------------
(* OrderGateway for TLC: two clients, of which one makes two requests.     *)
EXTENDS OrderGateway, TLC

CONSTANTS c1, c2

MCClients == {c1, c2}

MCMaxRequests == c1 :> 2 @@ c2 :> 1
=============================================================================
