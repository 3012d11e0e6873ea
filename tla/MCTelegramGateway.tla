------------------------- MODULE MCTelegramGateway -------------------------
(* TelegramGateway for TLC. *)
EXTENDS TelegramGateway
=============================================================================
