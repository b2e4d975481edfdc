------------------------------ MODULE MCSession ------------------------------
(* Instances of Session for TLC. *)
EXTENDS Session
MCAccounts == {[role |-> "BUYER", totp |-> FALSE]}
(* the way to registration is the sign-in page, or the one for sellers *)
MCLinks == [p \in Pages |->
  CASE p = "login" -> {"register"}
    [] p = "catalogue" -> {"account", "sell"}
    [] p = "sell" -> {"register", "account"}
    [] OTHER -> {"account"}]
ToAccount == [p \in Pages |-> {"account"}]
=============================================================================
