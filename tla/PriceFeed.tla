------------------------------- MODULE PriceFeed -------------------------------
(***************************************************************************)
(* The price feed: the hook usePriceFeed of one mounted component          *)
(* (frontend/src/hooks/usePriceFeed.ts) and the server's socket handlers   *)
(* with their ConnectionManager (websocket/handlers.py, manager.py).       *)
(*                                                                         *)
(* The hook keeps three refs, to a socket, to a reconnect timer and to a   *)
(* ping timer, and sets each without looking at what it held.  React runs  *)
(* the effect once, or, in a development build under StrictMode, runs it,  *)
(* cleans it up and runs it again.  A name of a socket is used again once  *)
(* both sides have forgotten the socket.                                   *)
(***************************************************************************)
EXTENDS Integers, FiniteSets

CONSTANTS
  Feeds,       \* sockets the hook may open
  Watchers,    \* sockets other clients open, on the other routes
  ChannelsOf   \* what each subscribes to: its topic and its user's channel

ASSUME FeedsAssumption == IsFiniteSet(Feeds) /\ Feeds \cap Watchers = {}

Sockets == Feeds \cup Watchers
Channels == UNION {ChannelsOf[s] : s \in Sockets}

VARIABLES
  strict,      \* the effect runs twice: development build, StrictMode
  hook,        \* "away", "mounted", "gone"
  socket,      \* each socket at its client: "none", "connecting", "open", "closing"
  wsRef,       \* what wsRef holds, if anything
  waiting,     \* reconnect timeouts under way
  held,        \* reconnectTimer holds one of them
  pinging,     \* sockets whose ping interval runs
  pingRef,     \* the socket whose interval pingTimer holds, if any
  server,      \* the handler of each socket: "none", "accepted", "serving", "leaving"
  channels,    \* _channels
  socketChannels, \* _socket_channels
  doomed       \* sockets a broadcast has found dead and not yet disconnected

clientVars == <<strict, hook, socket, wsRef, waiting, held, pinging, pingRef>>
registryVars == <<channels, socketChannels>>
feedVars == <<clientVars, server, registryVars, doomed>>

FeedTypeOK ==
  /\ strict \in BOOLEAN /\ hook \in {"away", "mounted", "gone"}
  /\ socket \in [Sockets -> {"none", "connecting", "open", "closing"}]
  /\ wsRef \subseteq Feeds /\ Cardinality(wsRef) <= 1
  /\ waiting \in Nat /\ held \in BOOLEAN /\ (held => waiting > 0)
  /\ pinging \subseteq Feeds /\ pingRef \subseteq Feeds /\ Cardinality(pingRef) <= 1
  /\ server \in [Sockets -> {"none", "accepted", "serving", "leaving"}]
  /\ channels \in [Channels -> SUBSET Sockets]
  /\ socketChannels \in [Sockets -> SUBSET Channels]
  /\ doomed \subseteq Sockets

FeedInit ==
  /\ strict \in BOOLEAN /\ hook = "away"
  /\ socket = [s \in Sockets |-> "none"] /\ wsRef = {}
  /\ waiting = 0 /\ held = FALSE /\ pinging = {} /\ pingRef = {}
  /\ server = [s \in Sockets |-> "none"]
  /\ channels = [c \in Channels |-> {}] /\ socketChannels = [s \in Sockets |-> {}]
  /\ doomed = {}

----------------------------------------------------------------------------
(* The hook. *)

Unused(s) == socket[s] = "none" /\ server[s] = "none" /\ s \notin doomed

\* The effect runs; under StrictMode the first run's socket is closed by its cleanup and
\* a second one opened.  Without a stored token nothing is, and nothing comes back later.
Mount(first, second, token) ==
  /\ hook = "away" /\ Unused(first) /\ Unused(second) /\ first # second
  /\ hook' = "mounted"
  /\ IF token
     THEN /\ socket' = IF strict
                       THEN [socket EXCEPT ![first] = "closing", ![second] = "connecting"]
                       ELSE [socket EXCEPT ![first] = "connecting"]
          /\ wsRef' = IF strict THEN {second} ELSE {first}
     ELSE UNCHANGED <<socket, wsRef>>
  /\ UNCHANGED <<strict, waiting, held, pinging, pingRef, server, registryVars, doomed>>

\* onopen
Opened(s) ==
  /\ socket[s] = "connecting" /\ server[s] # "none"
  /\ socket' = [socket EXCEPT ![s] = "open"]
  /\ pinging' = IF s \in Feeds THEN pinging \cup {s} ELSE pinging
  /\ pingRef' = IF s \in Feeds THEN {s} ELSE pingRef
  /\ UNCHANGED <<strict, hook, wsRef, waiting, held, server, registryVars, doomed>>

\* Mutant: the socket reconnects whether or not the component is still there.
AlwaysReconnects == TRUE

Reconnects == hook # "gone"

\* onclose: after close(), after onerror, or when the server or the network ends the socket.
\* It clears whichever interval pingTimer holds, its own or another's.
Closed(s) ==
  /\ s \in Feeds /\ socket[s] # "none"
  /\ socket' = [socket EXCEPT ![s] = "none"]
  /\ pinging' = pinging \ pingRef
  /\ pingRef' = {}
  /\ waiting' = IF Reconnects THEN waiting + 1 ELSE waiting
  /\ held' = (held \/ Reconnects)
  /\ UNCHANGED <<strict, hook, wsRef, server, registryVars, doomed>>

\* A reconnect timeout fires; connect() returns at once if the component is gone or no
\* token is stored.  A name used again sheds the interval an earlier socket may have left.
Reconnect(ofRef, s, token) ==
  /\ IF ofRef THEN held ELSE waiting > (IF held THEN 1 ELSE 0)
  /\ waiting' = waiting - 1
  /\ held' = (held /\ ~ofRef)
  /\ IF hook # "gone" /\ token
     THEN /\ Unused(s)
          /\ socket' = [socket EXCEPT ![s] = "connecting"]
          /\ wsRef' = {s}
          /\ pinging' = pinging \ {s}
     ELSE UNCHANGED <<socket, wsRef, pinging>>
  /\ UNCHANGED <<strict, hook, pingRef, server, registryVars, doomed>>

\* The cleanup.
Unmount ==
  /\ hook = "mounted"
  /\ hook' = "gone"
  /\ pinging' = pinging \ pingRef /\ pingRef' = {}
  /\ waiting' = IF held THEN waiting - 1 ELSE waiting
  /\ held' = FALSE
  /\ socket' = [s \in Sockets |-> IF s \in wsRef /\ socket[s] # "none" THEN "closing"
                                                                       ELSE socket[s]]
  /\ UNCHANGED <<strict, wsRef, server, registryVars, doomed>>

HookStep ==
  \/ \E s, t \in Feeds, token \in BOOLEAN : Mount(s, t, token)
  \/ \E s \in Sockets : Opened(s) \/ Closed(s)
  \/ \E ofRef, token \in BOOLEAN, s \in Feeds : Reconnect(ofRef, s, token)
  \/ Unmount

----------------------------------------------------------------------------
(* The server.  Each change of the registry is made under its lock, in one piece. *)

\* A client of another route comes, or goes.
Watch(s) ==
  /\ Unused(s)
  /\ socket' = [socket EXCEPT ![s] = "connecting"]
  /\ UNCHANGED <<strict, hook, wsRef, waiting, held, pinging, pingRef, server, registryVars, doomed>>

Leave(s) ==
  /\ socket[s] # "none"
  /\ socket' = [socket EXCEPT ![s] = "none"]
  /\ UNCHANGED <<strict, hook, wsRef, waiting, held, pinging, pingRef, server, registryVars, doomed>>

\* The token decodes, and connect() accepts the socket; one that does not is closed unseen.
Accept(s) ==
  /\ socket[s] = "connecting" /\ server[s] = "none"
  /\ server' = [server EXCEPT ![s] = "accepted"]
  /\ UNCHANGED <<clientVars, registryVars, doomed>>

\* connect() registers the socket, or accept() has failed.
Register(s) ==
  /\ server[s] = "accepted"
  /\ server' = [server EXCEPT ![s] = "serving"]
  /\ channels' = [c \in Channels |-> IF c \in ChannelsOf[s] THEN channels[c] \cup {s}
                                                            ELSE channels[c]]
  /\ socketChannels' = [socketChannels EXCEPT ![s] = @ \cup ChannelsOf[s]]
  /\ UNCHANGED <<clientVars, doomed>>

FailAccept(s) ==
  /\ server[s] = "accepted" /\ socket[s] = "none"
  /\ server' = [server EXCEPT ![s] = "none"]
  /\ UNCHANGED <<clientVars, registryVars, doomed>>

\* The receiving loop ends: the client has left, 60 s without a ping, or an error.
EndLoop(s) ==
  /\ server[s] = "serving"
  /\ server' = [server EXCEPT ![s] = "leaving"]
  /\ UNCHANGED <<clientVars, registryVars, doomed>>

\* disconnect()
Forget(s) ==
  /\ channels' = [c \in Channels |-> IF c \in socketChannels[s] THEN channels[c] \ {s}
                                                                ELSE channels[c]]
  /\ socketChannels' = [socketChannels EXCEPT ![s] = {}]

\* The handler's finally; the server then closes what is left of the connection.
EndHandler(s) ==
  /\ server[s] = "leaving"
  /\ Forget(s)
  /\ server' = [server EXCEPT ![s] = "none"]
  /\ socket' = [socket EXCEPT ![s] = IF @ = "none" THEN "none" ELSE "closing"]
  /\ UNCHANGED <<strict, hook, wsRef, waiting, held, pinging, pingRef, doomed>>

\* broadcast() and send_to(): a send fails, for a socket that is gone or, now and then, for
\* one that is not, and the socket is disconnected when the sends to the others are through.
FindDead(s) ==
  /\ socketChannels[s] # {} /\ s \notin doomed
  /\ doomed' = doomed \cup {s}
  /\ UNCHANGED <<clientVars, server, registryVars>>

DropDead(s) ==
  /\ s \in doomed
  /\ Forget(s)
  /\ doomed' = doomed \ {s}
  /\ UNCHANGED <<clientVars, server>>

ServerStep ==
  \/ \E s \in Watchers : Watch(s) \/ Leave(s)
  \/ \E s \in Sockets :
       Accept(s) \/ Register(s) \/ FailAccept(s) \/ EndLoop(s) \/ EndHandler(s)
         \/ FindDead(s) \/ DropDead(s)

FeedNext == HookStep \/ ServerStep
FeedSpec == FeedInit /\ [][FeedNext]_feedVars

----------------------------------------------------------------------------
Alive(s) == socket[s] \in {"connecting", "open"}

\* The two maps of the registry are each other's inverse, and a socket is in them only
\* while a handler is there to take it out again.
RegistryIsKept ==
  /\ \A c \in Channels : channels[c] = {s \in Sockets : c \in socketChannels[s]}
  /\ \A s \in Sockets : socketChannels[s] # {} => server[s] \in {"serving", "leaving"}

\* Closing late, failing and reconnecting never multiply the feed: one per run of the
\* effect.  Where the effect ran once, an open socket is being pinged, no interval outlives
\* its socket, and nothing of the feed outlives the component.
FeedIsSingle ==
  /\ Cardinality({s \in Feeds : socket[s] # "none"}) + waiting <= IF strict THEN 2 ELSE 1
  /\ ~strict => \A s \in Feeds : /\ socket[s] = "open" => s \in pinging
                                 /\ s \in pinging => socket[s] # "none"
  /\ ~strict /\ hook = "gone" => waiting = 0 /\ \A s \in Feeds : ~Alive(s)

(* Whatever order sockets open, close, fail, reconnect and are disconnected in, by their
   handler, by a broadcast or by an unmounting component, the server's registry stays
   consistent and free of sockets nobody serves, and the hook keeps one pinged feed and
   takes it down with its component - where React ran the effect once; run twice, as in
   development, two may live on (usePriceFeed.ts:18-72, manager.py:30-69,
   handlers.py:27-112). *)
FeedsAreTended == RegistryIsKept /\ FeedIsSingle
=============================================================================
