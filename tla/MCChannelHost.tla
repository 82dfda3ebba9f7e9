---------------------------- MODULE MCChannelHost ----------------------------
(* ChannelHost with one channel of each kind.                              *)
EXTENDS ChannelHost, TLC

CONSTANTS line, telegram, discord, chat

MCChannels == <<line, discord, telegram, chat>>
=============================================================================
