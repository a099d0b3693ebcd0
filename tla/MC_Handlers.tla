---------------------------- MODULE MC_Handlers ----------------------------
EXTENDS Handlers

(* Every handler of handlers.go but handleQuery, which QueryHandler models. *)
MCAll == DOMAIN Paths

(* The handlers that return after every w.Error. *)
MCReturning == DOMAIN Paths \ {"IndexRulesDelete", "Events"}
=============================================================================
