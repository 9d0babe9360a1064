----------------------------- MODULE CommandLine -----------------------------
(***************************************************************************)
(* killswitch-cli's commands and the admin API client they share           *)
(* (internal/adminapi/client.go), each a process with a connection of its  *)
(* own, composed with AdminServer.                                         *)
(*                                                                         *)
(* A command sends its requests, waits for the answer and drops whatever   *)
(* else arrives in the meantime.  Then it returns, or it stays: to print   *)
(* events, or to hold the ruleset that belongs to its connection, until    *)
(* the user stops it.                                                      *)
(***************************************************************************)
EXTENDS AdminServer

CONSTANT Commands   \* the commands that are run, for each connection

AllCommands ==
    {"get-cfg", "get-cfg --watch", "notifications", "debug-notify", "mutation", "socks-proxy",
     "tmp-ruleset", "force-ruleset"}
ASSUME CommandsAssumption == Commands \in [Conns -> SUBSET AllCommands]

VARIABLE
    cli             \* the command that runs on each connection

clVars == <<vars, cli>>

-----------------------------------------------------------------------------
(* The commands: what one asks, and what it does once it is answered.      *)
(* "done": it returns; "loop": it prints events; "hold": it waits to be    *)
(* stopped.  Only subscribing has no answer.                               *)

(* Faulty: it asks before it subscribes. (Faulty variants are slips that a *)
(* property must catch; no action uses them.)                              *)
asksBeforeSubscribing(watch) ==
    IF watch THEN [asks |-> <<"config", "subscribe">>, then |-> {"loop"}]
    ELSE [asks |-> <<"config">>, then |-> {"done"}]

runGetConfig(watch) ==
    IF watch THEN [asks |-> <<"subscribe", "config">>, then |-> {"loop"}]
    ELSE [asks |-> <<"config">>, then |-> {"done"}]

runNotifications == [asks |-> <<"subscribe">>, then |-> {}]

runDebugNotify == [asks |-> <<"debug">>, then |-> {"done"}]

(* add, remove and set *)
runMutation == [asks |-> <<"mutation">>, then |-> {"done"}]

runSocksProxy == [asks |-> <<"mutation">>, then |-> {"done"}]

(* A refused ruleset is an error; an accepted one is held.  The goroutine  *)
(* that goes on reading notices the end of the stream: without a           *)
(* subscription nothing else arrives.                                      *)
runTemporaryRuleset == [asks |-> <<"mutation">>, then |-> {"hold", "done"}]

runForceRuleset == [asks |-> <<"mutation">>, then |-> {"hold", "done"}]

runCLI(cmd) ==
    CASE cmd = "get-cfg"         -> runGetConfig(FALSE)
      [] cmd = "get-cfg --watch" -> runGetConfig(TRUE)
      [] cmd = "notifications"   -> runNotifications
      [] cmd = "debug-notify"    -> runDebugNotify
      [] cmd = "mutation"        -> runMutation
      [] cmd = "socks-proxy"     -> runSocksProxy
      [] cmd = "tmp-ruleset"     -> runTemporaryRuleset
      [] cmd = "force-ruleset"   -> runForceRuleset

EventsOf(cmd) ==
    IF cmd = "notifications" THEN {"notification"} ELSE {"config", "interfaces", "clients"}
ASSUME EventsAssumption == \A cmd \in AllCommands : EventsOf(cmd) \in SubChoices

(* at: where the command is; requests: sent and not yet read by the        *)
(* handler; for the properties only, offer: the version in the answer that *)
(* is on its way to get-cfg --watch, and seen: the newest it has received. *)
NoCommand == [cmd |-> "none", at |-> "none", requests |-> <<>>, offer |-> 0, seen |-> 0]

CLInit ==
    /\ Init
    /\ cli = [c \in Conns |-> NoCommand]

-----------------------------------------------------------------------------
(* The command dials and sends what it has to ask before the server has    *)
(* accepted the connection.                                                *)
Run(c, cmd) ==
    /\ cli[c].at = "none"
    /\ up[c] = "none"
    /\ cli' = [cli EXCEPT ![c] =
          [NoCommand EXCEPT !.cmd = cmd, !.requests = runCLI(cmd).asks,
                            !.at = IF cmd = "notifications" THEN "loop" ELSE "wait"]]
    /\ UNCHANGED vars

Accepted(c) ==
    /\ cli[c].at # "none"
    /\ Accept(c)
    /\ UNCHANGED cli

(* The peer is not authorized, and its connection is closed at once. *)
Refused(c) ==
    /\ cli[c].at # "none"
    /\ up[c] = "none"
    /\ cli' = [cli EXCEPT ![c] = NoCommand]
    /\ UNCHANGED vars

(* The handler reads the next request. *)
Serve(c) ==
    /\ cli[c].requests # <<>>
    /\ cli' = [cli EXCEPT ![c].requests = Tail(@)]
    /\ CASE Head(cli[c].requests) = "config"    -> ConfigRequest(c)
         [] Head(cli[c].requests) = "subscribe" -> SubscribeRequest(c, EventsOf(cli[c].cmd))
         [] Head(cli[c].requests) = "debug"     -> DebugNotifyRequest(c)
         [] Head(cli[c].requests) = "mutation"  -> MutationRequest(c)

(* The newest version that a command has received with message m; a        *)
(* notification has none.                                                  *)
Seen(c, m) ==
    LET v == IF m.ev = "reply" THEN cli[c].offer ELSE IF IsNote(m) THEN 0 ELSE m.version IN
        IF cli[c].cmd = "get-cfg --watch" /\ v > cli[c].seen THEN v ELSE cli[c].seen

(* Faulty: whatever arrives before the answer is left where it is. *)
WaitKeeps(c) ==
    /\ cli[c].at = "wait"
    /\ ClientReads(c)
    /\ Head(inbox[c]).ev = "reply"
    /\ \E next \in runCLI(cli[c].cmd).then : cli' = [cli EXCEPT ![c].at = next]

(* WaitForConfig, WaitForMutationResult, WaitForDebugResult *)
Wait(c) ==
    /\ cli[c].at = "wait"
    /\ ClientReads(c)
    /\ LET m == Head(inbox[c]) IN
          \E next \in IF m.ev = "reply" THEN runCLI(cli[c].cmd).then ELSE {"wait"} :
              cli' = [cli EXCEPT ![c].at = next, ![c].seen = Seen(c, m)]

(* watchConfig and watchNotifications print what they have subscribed to.  *)
(* The channel between their reader goroutine and the loop that prints     *)
(* only makes the socket's buffer longer.                                  *)
watchConfig(c) ==
    /\ cli[c].at = "loop" /\ cli[c].cmd = "get-cfg --watch"
    /\ ClientReads(c)
    /\ cli' = [cli EXCEPT ![c].seen = Seen(c, Head(inbox[c]))]

watchNotifications(c) ==
    /\ cli[c].at = "loop" /\ cli[c].cmd = "notifications"
    /\ ClientReads(c)
    /\ UNCHANGED cli

(* The command returns, or a signal, a key or the end of its input stops   *)
(* it: its connection is closed.                                           *)
End(c) ==
    /\ cli[c].at # "none"
    /\ HangUp(c)
    /\ cli' = [cli EXCEPT ![c] = NoCommand]

Reads(c) == Wait(c) \/ watchConfig(c) \/ watchNotifications(c)

-----------------------------------------------------------------------------
(* The server's steps, which know nothing of the commands. *)

TakesSnapshotForWatch(c) ==
    /\ Next1(c, "snapshot")
    /\ Head(todo[c]).ev = "reply"
    /\ cli[c].cmd = "get-cfg --watch"

ServerStep(c) ==
    /\ Work(c) \/ Handler(c)
    /\ cli' = IF TakesSnapshotForWatch(c) THEN [cli EXCEPT ![c].offer = version] ELSE cli

OtherStep ==
    /\ \/ \E g \in Background : Work(g)
       \/ WatcherReconcile
       \/ ProxyCallback
    /\ UNCHANGED cli

CLNext ==
    \/ \E c \in Conns :
          \/ \E cmd \in Commands[c] : Run(c, cmd)
          \/ Accepted(c) \/ Refused(c) \/ Serve(c)
          \/ Reads(c) \/ End(c)
          \/ ServerStep(c)
    \/ OtherStep

CLSpec == CLInit /\ [][CLNext]_clVars

(* The server's goroutines go on as in AdminServer; every command reads    *)
(* what it is sent and returns when it is done.  Nobody need run, or stop, *)
(* a command.                                                              *)
CLFairness ==
    /\ \A g \in Background : SF_clVars(Work(g) /\ UNCHANGED cli)
    /\ \A c \in Conns :
          /\ SF_clVars(ServerStep(c) \/ Serve(c))
          /\ WF_clVars(Accepted(c))
          /\ WF_clVars(Reads(c))
          /\ WF_clVars(cli[c].at = "done" /\ End(c))

CLFairSpec == CLSpec /\ CLFairness

-----------------------------------------------------------------------------
(* Properties. *)

(* Every command that waits for an answer gets it, or is stopped, whatever *)
(* else the server sends to it and to others in the meantime (client.go:   *)
(* WaitForConfig, WaitForMutationResult, WaitForDebugResult).              *)
CommandsAreAnswered ==
    \A c \in Conns : []<>(cli[c].at # "wait")

(* Once the server and the connection are quiet, get-cfg --watch has been  *)
(* given the rules in force, as the answer to its request or as an event:  *)
(* it subscribes before it asks, so that no change falls between the two   *)
(* (main.go: runGetConfig), unless the change was announced to nobody      *)
(* (AdminServer's EveryChangeIsSent).                                      *)
WatchMissesNothing ==
    Quiet => \A c \in Conns :
        cli[c].cmd = "get-cfg --watch" /\ cli[c].at = "loop" /\ inbox[c] = <<>>
            => cli[c].seen = version \/ version = dropped
=============================================================================
