-------------------------- MODULE WebSocketManager --------------------------
(***************************************************************************)
(* rusty-jsonrpc/src/websocket.rs: one task per connection that answers    *)
(* the client's requests and forwards what is broadcast.                   *)
(*                                                                         *)
(* Notifications are numbered in the order they are broadcast.  The        *)
(* channel keeps the last NtCapacity of them; a task that is further       *)
(* behind is told so once, and goes on with the oldest that is kept.       *)
(* What a client asks and what it is answered is left out but for the      *)
(* turns of the loop it takes.  Every send fails when the client is gone.  *)
(***************************************************************************)
EXTENDS Naturals, Sequences, FiniteSets

CONSTANTS
    NtClients,
    NtCapacity,     \* of the broadcast channel, 1000
    MaxNotified,    \* bound: notifications
    MaxConnections  \* bound: connections made

VARIABLES
    ntSent,     \* the number of the last notification
    ntLastId,   \* next_connection_id
    ntConns,    \* the keys of connections
    ntTask      \* client -> its handler: where it is, its id and its receiver

ntVars == <<ntSent, ntLastId, ntConns, ntTask>>

NoTask == [at |-> "none", id |-> 0, next |-> 1]

NtInit ==
    ntSent = 0 /\ ntLastId = 0 /\ ntConns = {} /\ ntTask = [c \in NtClients |-> NoTask]

At(c, places) == ntTask[c].at \in places

Become(c, task) == ntTask' = [ntTask EXCEPT ![c] = task]

Goto(c, place) == Become(c, [ntTask[c] EXCEPT !.at = place])

-----------------------------------------------------------------------------
(* The channel.                                                            *)

broadcast_notification ==
    /\ ntSent < MaxNotified
    /\ ntSent' = ntSent + 1
    /\ UNCHANGED <<ntLastId, ntConns, ntTask>>

\* Notifications up to this one are overwritten.
Overwritten == IF ntSent > NtCapacity THEN ntSent - NtCapacity ELSE 0

-----------------------------------------------------------------------------
(* handle_connection, up to the task it spawns.                            *)

\* The handshake succeeds, and the counter is raised under its lock.
Accept(c) ==
    /\ At(c, {"none"}) /\ ntLastId < MaxConnections
    /\ ntLastId' = ntLastId + 1
    /\ Become(c, [NoTask EXCEPT !.at = "accepted", !.id = ntLastId + 1])
    /\ UNCHANGED <<ntSent, ntConns>>

Subscribe(c) ==
    /\ At(c, {"accepted"})
    /\ Become(c, [ntTask[c] EXCEPT !.at = "subscribed", !.next = ntSent + 1])
    /\ UNCHANGED <<ntSent, ntLastId, ntConns>>

Track(c) ==
    /\ At(c, {"subscribed"})
    /\ ntConns' = ntConns \union {ntTask[c].id}
    /\ Goto(c, "select")
    /\ UNCHANGED <<ntSent, ntLastId>>

-----------------------------------------------------------------------------
(* The task: a turn of its loop waits at "select" for the client and for   *)
(* the channel, or, once the receiver has returned an error in this turn,  *)
(* at "client" for the client only.                                        *)

\* Anything that is answered at once, and what needs no answer.
OnMessage(c) ==
    /\ At(c, {"select", "client"})
    /\ Goto(c, "select") \/ Goto(c, "ending")
    /\ UNCHANGED <<ntSent, ntLastId, ntConns>>

\* A request the RPC handler answers: the loop waits for it.
OnRequest(c) ==
    /\ At(c, {"select", "client"})
    /\ Goto(c, "rpc")
    /\ UNCHANGED <<ntSent, ntLastId, ntConns>>

OnResponse(c) ==
    /\ At(c, {"rpc"})
    /\ Goto(c, "select") \/ Goto(c, "ending")
    /\ UNCHANGED <<ntSent, ntLastId, ntConns>>

\* A fault: only the newest notification is read.
NotifyNewest(c) ==
    /\ At(c, {"select"}) /\ ntTask[c].next = ntSent
    /\ \/ Become(c, [ntTask[c] EXCEPT !.next = @ + 1])
       \/ Goto(c, "ending")
    /\ UNCHANGED <<ntSent, ntLastId, ntConns>>

OnNotification(c) ==
    /\ At(c, {"select"}) /\ Overwritten < ntTask[c].next /\ ntTask[c].next <= ntSent
    /\ \/ Become(c, [ntTask[c] EXCEPT !.next = @ + 1])
       \/ Goto(c, "ending")
    /\ UNCHANGED <<ntSent, ntLastId, ntConns>>

\* The error does not match Ok(notification), which disables the branch.
OnLagged(c) ==
    /\ At(c, {"select"}) /\ ntTask[c].next <= Overwritten
    /\ Become(c, [ntTask[c] EXCEPT !.at = "client", !.next = Overwritten + 1])
    /\ UNCHANGED <<ntSent, ntLastId, ntConns>>

\* The client closes, or its stream ends or fails.
OnClose(c) ==
    /\ At(c, {"select", "client"})
    /\ Goto(c, "ending")
    /\ UNCHANGED <<ntSent, ntLastId, ntConns>>

CleanUp(c) ==
    /\ At(c, {"ending"})
    /\ ntConns' = ntConns \ {ntTask[c].id}
    /\ Become(c, NoTask)
    /\ UNCHANGED <<ntSent, ntLastId>>

NtNext ==
    \/ broadcast_notification
    \/ \E c \in NtClients :
        \/ Accept(c) \/ Subscribe(c) \/ Track(c)
        \/ OnMessage(c) \/ OnRequest(c) \/ OnResponse(c) \/ OnClose(c)
        \/ OnNotification(c) \/ OnLagged(c)
        \/ CleanUp(c)

\* Tasks that are ready run; select! polls its branches in random order, so
\* that a client that keeps asking does not keep notifications away.
NtFairness ==
    \A c \in NtClients :
        /\ WF_ntVars(Subscribe(c)) /\ WF_ntVars(Track(c)) /\ WF_ntVars(OnResponse(c))
        /\ WF_ntVars(CleanUp(c))
        /\ SF_ntVars(OnNotification(c)) /\ SF_ntVars(OnLagged(c))

-----------------------------------------------------------------------------
(* Properties.                                                             *)

\* A client that stays connected is brought up to date with what is broadcast,
\* unless its task has fallen behind the channel, in which case it waits for the
\* client (the two branches of select!).
NotificationsArrive ==
    \A c \in NtClients :
        (At(c, {"select", "rpc"}) /\ ntTask[c].next <= ntSent)
            ~> (ntTask[c].next > ntSent \/ At(c, {"client", "ending", "none"}))
=============================================================================
