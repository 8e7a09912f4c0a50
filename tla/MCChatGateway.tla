--------------------------- MODULE MCChatGateway ----------------------------
(* Small instances of ChatGateway for TLC.                                  *)
EXTENDS ChatGateway
============================================================================
