-------------------------- MODULE MCDiscordGateway --------------------------
(* DiscordGateway with the bounds of the cfg files.                        *)
EXTENDS DiscordGateway
=============================================================================
