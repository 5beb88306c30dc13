----------------------------- MODULE MCGatewayProxy -----------------------------
(* Peers of GatewayProxy for TLC. *)
EXTENDS GatewayProxy

Quiet == [sends |-> {"allowed", "blocked"}, messages |-> 4, writes |-> {"notification"},
          chatty |-> FALSE, serial |-> TRUE, ends |-> TRUE, exits |-> FALSE, signals |-> FALSE]

\* Anything may happen to a few messages.
AnyPeer(chatty) == [sends |-> Kind, messages |-> 2, writes |-> {"notification", "invalid"},
                    chatty |-> chatty, serial |-> FALSE,
                    ends |-> TRUE, exits |-> TRUE, signals |-> TRUE]

\* The subprocess logs as well, and may fill its stderr.
Jamming == [Quiet EXCEPT !.sends = {"allowed"}, !.writes = {}, !.chatty = TRUE,
                          !.exits = TRUE, !.signals = TRUE]

\* A client that fills the pipes of a subprocess which reads one request at a
\* time, or a few messages and everything that can go wrong.
ManyPeers == {Quiet, Jamming, AnyPeer(TRUE)}

LeavingPeer == {[Quiet EXCEPT !.messages = 2, !.serial = FALSE,
                              !.ends = TRUE, !.exits = TRUE, !.signals = TRUE]}

===============================================================================
