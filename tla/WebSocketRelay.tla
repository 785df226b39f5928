----------------------------- MODULE WebSocketRelay -----------------------------
(***************************************************************************)
(* One WebSocket session of the gateway (listeners/websocket_listener.py): *)
(* the connection to the upstream is made before the client is accepted,   *)
(* then one pump per direction takes a message and sends it on, and the    *)
(* session ends when both pumps have.  Each pump notices its own side only *)
(* by reading from it, and the other side only by sending to it.           *)
(***************************************************************************)
EXTENDS Integers, SequencesExt

CONSTANT MaxSaid  \* bound: messages said in each direction

ASSUME SaidAssumption == MaxSaid \in Nat

VARIABLES
  session,  \* "connecting", "open", "ended"
  code,     \* the close code the client got before it was accepted, 0 if none
  left,     \* the ends that have closed their connection, as far as the gateway knows
  pump,     \* of each direction: "off", "reading", "sending", "done"
  queue,    \* messages that have arrived and were not read
  held,     \* the message a pump is sending on
  said,     \* history: messages said by the source of each direction
  got       \* messages its other end was sent

relayVars == <<session, code, left, pump, queue, held, said, got>>

End == {"client", "upstream"}
Way == {"up", "down"}
Source == [up |-> "client", down |-> "upstream"]
Sink == [up |-> "upstream", down |-> "client"]

RelayTypeOK ==
  /\ session \in {"connecting", "open", "ended"}
  /\ code \in {0, 1011}
  /\ left \subseteq End
  /\ pump \in [Way -> {"off", "reading", "sending", "done"}]
  /\ queue \in [Way -> Seq(1..MaxSaid)] /\ got \in [Way -> Seq(1..MaxSaid)]
  /\ held \in [Way -> 0..MaxSaid] /\ said \in [Way -> 0..MaxSaid]
  /\ \A w \in Way : pump[w] = "sending" <=> held[w] # 0
  /\ session = "ended" /\ code = 0 => \A w \in Way : pump[w] \in {"off", "done"}

RelayInit ==
  /\ session = "connecting" /\ code = 0 /\ left = {}
  /\ pump = [w \in Way |-> "off"]
  /\ queue = [w \in Way |-> <<>>] /\ got = [w \in Way |-> <<>>]
  /\ held = [w \in Way |-> 0] /\ said = [w \in Way |-> 0]

----------------------------------------------------------------------------
\* websockets.connect, and accept; the session is over before it began if either fails.
\* The client then gets 1011: the answer 502 that follows can send no second close.
OpenSession ==
  /\ session = "connecting"
  /\ \/ /\ "client" \notin left
        /\ session' = "open"
        /\ pump' = [w \in Way |-> "reading"]
        /\ code' = code
     \/ /\ session' = "ended"
        /\ code' = IF "client" \in left THEN 0 ELSE 1011
        /\ pump' = pump
  /\ UNCHANGED <<left, queue, held, said, got>>

\* Whether the source may say something: the upstream once it is connected to.
Say(w) ==
  /\ session = "open" /\ Source[w] \notin left /\ said[w] < MaxSaid
  /\ said' = [said EXCEPT ![w] = @ + 1]
  /\ queue' = [queue EXCEPT ![w] = Append(@, said[w] + 1)]
  /\ UNCHANGED <<session, code, left, pump, held, got>>

Leave(e) ==
  /\ session # "ended" /\ e \notin left
  /\ session = "connecting" => e = "client"
  /\ left' = left \cup {e}
  /\ UNCHANGED <<session, code, pump, queue, held, said, got>>

\* client.receive(), or the next round of `async for`.
Read(w) ==
  /\ pump[w] = "reading" /\ queue[w] # <<>>
  /\ held' = [held EXCEPT ![w] = Head(queue[w])]
  /\ queue' = [queue EXCEPT ![w] = Tail(@)]
  /\ pump' = [pump EXCEPT ![w] = "sending"]
  /\ UNCHANGED <<session, code, left, said, got>>

\* send: an end that has closed makes it raise, and the pump is done.
Forward(w) ==
  /\ pump[w] = "sending"
  /\ held' = [held EXCEPT ![w] = 0]
  /\ IF Sink[w] \in left
     THEN pump' = [pump EXCEPT ![w] = "done"] /\ got' = got
     ELSE pump' = [pump EXCEPT ![w] = "reading"] /\ got' = [got EXCEPT ![w] = Append(@, held[w])]
  /\ UNCHANGED <<session, code, left, queue, said>>

\* Mutant: the pump does not wait for what was said before.
HasLeft(w) == Source[w] \in left

\* Mutant: the message of type websocket.disconnect is passed over.
Unnoticed(w) == w = "down" /\ Source[w] \in left /\ queue[w] = <<>>

\* What was said before the end left is read first.
IsOver(w) == Source[w] \in left /\ queue[w] = <<>>

\* websocket.disconnect, or the end of `async for`.
StopPump(w) ==
  /\ pump[w] = "reading" /\ IsOver(w)
  /\ pump' = [pump EXCEPT ![w] = "done"]
  /\ UNCHANGED <<session, code, left, queue, held, said, got>>

BothDone == \A w \in Way : pump[w] = "done"

\* gather returns, and both connections are closed.
EndSession ==
  /\ session = "open" /\ BothDone
  /\ session' = "ended"
  /\ UNCHANGED <<code, left, pump, queue, held, said, got>>

RelayNext ==
  \/ OpenSession
  \/ \E w \in Way : Say(w)
  \/ \E e \in End : Leave(e)
  \/ \E w \in Way : Read(w)
  \/ \E w \in Way : Forward(w)
  \/ \E w \in Way : StopPump(w)
  \/ EndSession

\* The event loop runs every pump that can go on; nobody has to say anything, or to leave.
RelayFairness ==
  /\ \A w \in Way : WF_relayVars(Read(w) \/ Forward(w) \/ StopPump(w))
  /\ WF_relayVars(EndSession)

RelaySpec == RelayInit /\ [][RelayNext]_relayVars /\ RelayFairness

----------------------------------------------------------------------------
(* Each end gets what the other said, in order and without gaps; and when a pump stops
   while its other end listens, all that was said has been passed on, also what an end
   said right before it left (websocket_listener.py:101-132). *)
RelayIsFaithful ==
  \A w \in Way :
    /\ \A i \in DOMAIN got[w] : got[w][i] = i
    /\ pump[w] = "done" /\ Sink[w] \notin left => Len(got[w]) = said[w]

(* A session ends once both ends have left, and also once one has left and the other says
   something more: until then the end that stayed is never told, for a pump that is done
   does not close the other connection (websocket_listener.py:78-82). *)
SessionsEnd ==
  (session = "open" /\ (left = End \/ \E w \in Way : Sink[w] \in left /\ queue[w] # <<>>))
    ~> session = "ended"
=============================================================================
