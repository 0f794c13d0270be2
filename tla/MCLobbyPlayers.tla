--------------------------- MODULE MCLobbyPlayers ----------------------------
(* Two users on two connections, and Player objects that are freed and     *)
(* used again.                                                             *)
EXTENDS LobbyPlayers
=============================================================================
