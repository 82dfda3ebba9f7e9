--------------------------- MODULE RealtimeChannel ---------------------------
(***************************************************************************)
(* What the protocol RealtimeChannel (serve/channel.py) promises of one    *)
(* channel: connect() opens a connection, and opens it again when it is    *)
(* lost, until disconnect() is called or the channel gives up. It is       *)
(* implemented by DiscordGateway and by PubSubChannel, and ChannelHost     *)
(* composes such channels.                                                 *)
(***************************************************************************)
EXTENDS Naturals

VARIABLES
  link,   \* where the task of connect() is
  stop    \* disconnect() was called

vars == <<link, stop>>

(* created: a task that has not run yet; waiting: between two connections; *)
(* closing: a connection is being cleaned up.                              *)
Link == {"created", "connecting", "open", "closing", "waiting", "ended"}

(* Where the task may go on its own. A stop that comes during an attempt   *)
(* to connect does not undo it, but no attempt begins after it.            *)
After(l, stopped) ==
  CASE l = "created"    -> {"waiting"}
    [] l = "waiting"    -> IF stopped THEN {"ended"} ELSE {"connecting", "open", "ended"}
    [] l = "connecting" -> {"open", "waiting", "ended"}
    [] l = "open"       -> {"closing", "waiting", "ended"}
    [] l = "closing"    -> {"waiting", "ended"}
    [] l = "ended"      -> {}

Init == link \in {"created", "waiting"} /\ stop = FALSE

Move == link' \in After(link, stop) /\ UNCHANGED stop
Stop == stop' = TRUE /\ UNCHANGED link
Cancel == stop /\ link' = "ended" /\ UNCHANGED stop

Next == Move \/ Stop \/ Cancel

Spec == Init /\ [][Next]_vars
=============================================================================
