------------------------------ MODULE MCClients ------------------------------
(* Small instance of Clients. *)
EXTENDS Clients, TLC

CONSTANTS p1, p2

MCUsers == {p1, p2}
MCKinds == {"rpc", "grpc", "http"}
=============================================================================
