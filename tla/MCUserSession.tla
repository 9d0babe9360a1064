--------------------------- MODULE MCUserSession ---------------------------
(* Small instances of UserSession.                                         *)
EXTENDS UserSession

(* Sessions and what others do, the user clicks and the network does come  *)
(* to three in all: two events and a session, or an event and two of them. *)
FewEvents == session' + used'.changes + used'.clicks + used'.world <= 3
=============================================================================
