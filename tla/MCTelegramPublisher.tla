------------------------ MODULE MCTelegramPublisher ------------------------
(* The instance of TelegramPublisher for TLC; the sizes are in the .cfg file. *)
EXTENDS TelegramPublisher
=============================================================================
