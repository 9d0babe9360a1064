--------------------------- MODULE MCCommandLine ---------------------------
(* Small instances of CommandLine. *)
EXTENDS CommandLine

CONSTANTS c1, c2

(* The commands of one connection look, those of the other act.  The       *)
(* others that mutate do what tmp-ruleset does when it is refused.         *)
LookAndAct ==
    (c1 :> {"get-cfg", "get-cfg --watch", "notifications"})
        @@ (c2 :> {"debug-notify", "tmp-ruleset"})
=============================================================================
