-------------------------------- MODULE DTLS --------------------------------
(***************************************************************************)
(* trio/_dtls.py: two DTLSEndpoints, each with one socket, that talk over  *)
(* a network which loses, delays, reorders and repeats packets: "client"   *)
(* calls connect(), "server" serve(), and both run the same code.  Each    *)
(* has one remote address, the other, so that _streams is one entry.       *)
(*                                                                         *)
(* A volley is one packet (DTLSVolley models how it is cut up); the    *)
(* flights are those of DTLS 1.2: 1 ClientHello, 2 HelloVerifyRequest,     *)
(* 3 ClientHello with the cookie, 4 ServerHello ... ServerHelloDone,       *)
(* 5 ClientKeyExchange ... Finished, 6 ... Finished; 7 is data.            *)
(***************************************************************************)
EXTENDS Integers, Sequences, SequencesExt, FiniteSets

CONSTANTS
    MaxChannel,               \* bound on the channels of both endpoints in any scenario
    incoming_packets_buffer,
    Bounds                    \* the bounds of each scenario, see `bound`

Endpoint == {"client", "server"}
Other(e) == IF e = "client" THEN "server" ELSE "client"
HandshakeFlight == 1 .. 6

VARIABLES
    bound,      \* of this scenario: how often connect() is called, how many
                \* packets are lost or repeated and handshakes cancelled
                \* (faults), how many channels there can be, how many packets
                \* fit into the network (net), how far the clock goes (ticks) and
                \* whether channels send() data, one packet each (data)
    chan,       \* the DTLSChannels made so far, of both endpoints
    reg,        \* _streams: each endpoint's channel for its remote, or 0
    loop,       \* dtls_receive_loop: "no", "running", "ended" or "crashed"
    closed,     \* _closed of each endpoint
    listening,  \* _listening_context of the server
    net,        \* the packets in flight
    faults,     \* how many of these there have been
    tick,       \* the clock in units of COOKIE_REFRESH_INTERVAL
    issued      \* the cookies the server has sent out, as <<bits, tick>>

dtlsVars == <<bound, chan, reg, loop, closed, listening, net, faults, tick, issued>>

\* bits: the ClientHello without its cookie, one value for each connect();
\* cookie: its tick, -1 without one; sid: the server channel the keys are of
Packet(to, n, bits, cookie, sid) == [to |-> to, n |-> n, bits |-> bits, cookie |-> cookie, sid |-> sid]

\* last: the volley being retransmitted (0 before the handshake); hs: who
\* holds _handshake_lock and waits; born: the tick it was made at; sent: its
\* one packet of data is out, a bound on send()
Channel(e, bits, cookie) ==
    [end |-> e, bits |-> bits, cookie |-> cookie, sid |-> 0, born |-> tick, last |-> 0,
     hs |-> FALSE, did |-> FALSE, sent |-> FALSE, replaced |-> FALSE, closed |-> FALSE, q |-> <<>>]

DTLSInit ==
    /\ bound \in Bounds
    /\ chan = <<>> /\ reg = [e \in Endpoint |-> 0]
    /\ loop = [e \in Endpoint |-> "no"] /\ closed = [e \in Endpoint |-> FALSE]
    /\ listening = FALSE
    /\ net = {} /\ faults = 0 /\ tick = 0 /\ issued = {}

(***************************************************************************)
(* The network.                                                            *)
(***************************************************************************)
\* socket.sendto: the packet is lost, or in flight from now on
Faulty(is) ==
    /\ is => faults < bound.faults
    /\ faults' = IF is THEN faults + 1 ELSE faults

Sendto(packets, lost) ==
    /\ Faulty(lost)
    /\ net' = IF lost THEN net ELSE net \cup packets
    /\ Cardinality(net') <= bound.net

\* What channel c sends as flight n
Volley(c, n) ==
    {Packet(Other(c.end), n, c.bits, IF n = 3 THEN c.cookie ELSE -1, c.sid)}

FinalVolley(c) == IF c.end = "server" THEN Volley(c, 6) ELSE {}

(***************************************************************************)
(* The receive loop.                                                       *)
(***************************************************************************)
is_client_hello_untrusted(p) == p.n \in {1, 3}
part_of_handshake_untrusted(p) == p.n \in HandshakeFlight
valid_cookie(p) == <<p.bits, p.cookie>> \in issued /\ p.cookie \in {tick, IF tick > 0 THEN tick - 1 ELSE 0}

_set_replaced(chans, i) == IF i = 0 THEN chans ELSE [chans EXCEPT ![i].replaced = TRUE]

\* The loop has a packet that is not for a channel: nothing changes
Ignored == UNCHANGED <<bound, chan, reg, listening, issued>>

\* The HelloVerifyRequest with a new cookie for this ClientHello
challenge_for(p) == Packet("client", 2, p.bits, tick, 0)

\* A ClientHello without a valid cookie is answered with a challenge and
\* leaves no trace; one with a valid cookie makes a channel, which replaces
\* the address's old one unless it is a duplicate of that one's ClientHello;
\* serve() starts its handler, the user of the channel
handle_client_hello_untrusted(e, p, lost, rest) ==
    \/ /\ ~listening \/ e # "server"
       /\ net' = rest /\ Ignored /\ ~lost
    \/ /\ listening /\ e = "server" /\ ~valid_cookie(p)
       /\ issued' = issued \cup {<<p.bits, tick>>}
       /\ net' = IF lost THEN rest ELSE rest \cup {challenge_for(p)}
       /\ UNCHANGED <<chan, reg, listening>>
    \/ /\ listening /\ e = "server" /\ valid_cookie(p)
       /\ net' = rest /\ ~lost
       /\ LET old == reg["server"]
              new == Len(chan) + 1
              duplicate == old # 0 /\ chan[old].bits = p.bits /\ chan[old].cookie = p.cookie
          IN \/ duplicate /\ Ignored
             \/ /\ ~duplicate
                /\ new <= bound.channels
                /\ chan' = Append(_set_replaced(chan, old),
                                  [Channel("server", p.bits, p.cookie) EXCEPT !.sid = new])
                /\ reg' = [reg EXCEPT !["server"] = new]
                /\ UNCHANGED <<listening, issued>>

\* A plausible bug: a handshake packet after the handshake is just data.
NeverResends(c, p) == FALSE

\* The peer repeats its volley because it has not got our last one
ResendsFinal(c, p) == c.did /\ part_of_handshake_untrusted(p)

\* dtls_receive_loop takes a packet from the socket: a repeated one stays
\* in flight.  A handshake packet for a channel that is done means that the
\* final volley was lost.
dtls_receive_loop(e, p, lost, repeated) ==
    LET rest == IF repeated THEN net ELSE net \ {p}
        i == reg[e]
    IN /\ loop[e] = "running" /\ ~closed[e] /\ p \in net /\ p.to = e
       /\ \/ is_client_hello_untrusted(p) /\ handle_client_hello_untrusted(e, p, lost, rest)
          \/ /\ ~is_client_hello_untrusted(p) /\ i # 0
             /\ ResendsFinal(chan[i], p)
             /\ net' = IF lost THEN rest ELSE rest \cup FinalVolley(chan[i])
             /\ Ignored
          \/ /\ ~is_client_hello_untrusted(p) /\ i # 0
             /\ ~ResendsFinal(chan[i], p)
             /\ net' = rest /\ ~lost
             /\ IF Len(chan[i].q) < incoming_packets_buffer
                THEN /\ chan' = [chan EXCEPT ![i].q = Append(@, p)]
                     /\ UNCHANGED <<bound, reg, listening, issued>>
                ELSE Ignored
          \/ /\ ~is_client_hello_untrusted(p) /\ i = 0
             /\ net' = rest /\ ~lost /\ Ignored
       /\ Faulty(lost \/ repeated) /\ Cardinality(net') <= bound.net
       /\ UNCHANGED <<bound, loop, closed, tick>>

\* An OSError other than EBADF out of the loop, from the sendto() of the
\* final volley: the system task dies of it
ResendFails(e, p) ==
    /\ loop[e] = "running" /\ ~closed[e] /\ p \in net /\ p.to = e
    /\ ~is_client_hello_untrusted(p) /\ reg[e] # 0
    /\ ResendsFinal(chan[reg[e]], p) /\ FinalVolley(chan[reg[e]]) # {}
    /\ loop' = [loop EXCEPT ![e] = "crashed"]
    /\ net' = net \ {p}
    /\ UNCHANGED <<bound, chan, reg, closed, listening, faults, tick, issued>>

\* The socket was closed: recvfrom() raises ClosedResourceError
LoopEnds(e) ==
    /\ loop[e] = "running" /\ closed[e]
    /\ loop' = [loop EXCEPT ![e] = "ended"]
    /\ UNCHANGED <<bound, chan, reg, closed, listening, net, faults, tick, issued>>

(***************************************************************************)
(* DTLSEndpoint.                                                           *)
(***************************************************************************)
_ensure_receive_loop(e) == loop' = [loop EXCEPT ![e] = IF @ = "no" THEN "running" ELSE @]

Connects == Cardinality({i \in DOMAIN chan : chan[i].end = "client"})

connect ==
    /\ ~closed["client"] /\ Connects < bound.connects /\ Len(chan) < bound.channels
    /\ chan' = Append(_set_replaced(chan, reg["client"]), Channel("client", Connects + 1, -1))
    /\ reg' = [reg EXCEPT !["client"] = Len(chan) + 1]
    /\ UNCHANGED <<bound, loop, closed, listening, net, faults, tick, issued>>

serve ==
    /\ ~closed["server"] /\ ~listening
    /\ _ensure_receive_loop("server")
    /\ listening' = TRUE
    /\ UNCHANGED <<bound, chan, reg, closed, net, faults, tick, issued>>

\* serve() is cancelled
ServeEnds ==
    /\ listening
    /\ listening' = FALSE
    /\ UNCHANGED <<bound, chan, reg, loop, closed, net, faults, tick, issued>>

\* A plausible bug: closing a channel forgets the address's channel, whichever it is.
CloseForgetsAny(I) ==
    /\ chan' = [i \in DOMAIN chan |-> IF i \in I THEN [chan[i] EXCEPT !.closed = TRUE, !.q = <<>>] ELSE chan[i]]
    /\ reg' = [e \in Endpoint |-> IF \E i \in I : chan[i].end = e THEN 0 ELSE reg[e]]

\* Closing a channel takes it out of _streams only if it is the one there
CloseAll(I) ==
    /\ chan' = [i \in DOMAIN chan |-> IF i \in I THEN [chan[i] EXCEPT !.closed = TRUE, !.q = <<>>] ELSE chan[i]]
    /\ reg' = [e \in Endpoint |-> IF reg[e] \in I THEN 0 ELSE reg[e]]

\* DTLSChannel.close()
close(i) ==
    /\ ~chan[i].closed
    /\ CloseAll({i})
    /\ UNCHANGED <<bound, loop, closed, listening, net, faults, tick, issued>>

\* DTLSEndpoint.close(): the socket and the channels in _streams
CloseEndpoint(e) ==
    /\ ~closed[e]
    /\ closed' = [closed EXCEPT ![e] = TRUE]
    /\ CloseAll({reg[e]} \ {0})
    /\ UNCHANGED <<bound, loop, listening, net, faults, tick, issued>>

(***************************************************************************)
(* DTLSChannel.do_handshake().  Respond is OpenSSL: the volley it makes of *)
(* a packet (0: none; the server's is 4), and "done".  Packets that belong *)
(* to another handshake, to another server channel's keys or to a flight   *)
(* that is over make nothing.                                              *)
(***************************************************************************)
Respond(c, p) ==
    CASE c.end = "client" /\ p.bits = c.bits /\ c.last \in {1, 3} /\ p.n = 2 -> 3
      [] c.end = "client" /\ p.bits = c.bits /\ c.last = 3 /\ p.n = 4 -> 5
      [] c.end = "client" /\ p.bits = c.bits /\ c.last = 5 /\ p.n = 6 /\ p.sid = c.sid -> 6
      [] c.end = "server" /\ c.last = 4 /\ p.n = 5 /\ p.sid = c.sid -> 6
      [] OTHER -> 0

\* Begin, with the lock: the first volley goes out, or the current one
\* again if an earlier call was cancelled (OpenSSL's own retransmission)
DoHandshake(i, lost) ==
    LET c == chan[i]
        n == IF c.last # 0 THEN c.last ELSE IF c.end = "client" THEN 1 ELSE 4
    IN /\ ~c.hs /\ ~c.did /\ ~c.closed /\ ~c.replaced /\ ~closed[c.end]
       /\ chan' = [chan EXCEPT ![i].hs = TRUE, ![i].last = n]
       /\ Sendto(Volley(c, n), lost)
       /\ _ensure_receive_loop(c.end)
       /\ UNCHANGED <<bound, reg, closed, listening, tick, issued>>

\* A packet of the queue is put into OpenSSL: nothing, a new volley, or the
\* end of the handshake
HandshakePacket(i, lost) ==
    LET c == chan[i]
        p == Head(c.q)
        n == Respond(c, p)
        popped == [c EXCEPT !.q = Tail(@)]
        next == [popped EXCEPT !.last = n, !.cookie = IF n = 3 THEN p.cookie ELSE @, 
                               !.sid = IF n = 5 THEN p.sid ELSE @]
    IN /\ c.hs /\ ~c.closed /\ c.q # <<>>
       /\ \/ /\ n = 0 /\ ~lost
             /\ chan' = [chan EXCEPT ![i] = popped] /\ UNCHANGED <<net, faults>>
          \/ /\ n \in {3, 5} /\ ~c.replaced
             /\ chan' = [chan EXCEPT ![i] = next]
             /\ Sendto(Volley(next, n), lost)
          \/ /\ n \in {3, 5} /\ c.replaced /\ ~lost
             /\ chan' = [chan EXCEPT ![i] = [next EXCEPT !.hs = FALSE]] /\ UNCHANGED <<net, faults>>
          \/ /\ n = 6
             /\ chan' = [chan EXCEPT ![i] = [popped EXCEPT !.did = TRUE, !.hs = FALSE]]
             /\ Sendto(FinalVolley(c), lost)
       /\ UNCHANGED <<bound, reg, loop, closed, listening, tick, issued>>

\* The timer expires first: send the volley again, unless a new connection
\* has replaced this one.  (DTLSVolley models the timer's value.)
HandshakeTimeout(i, lost) ==
    LET c == chan[i] IN
    /\ c.hs /\ ~c.closed /\ ~c.replaced
    /\ Sendto(Volley(c, c.last), lost)
    /\ UNCHANGED <<bound, chan, reg, loop, closed, listening, tick, issued>>

\* The queue ends (replaced) or is closed under the task
HandshakeBroken(i) ==
    LET c == chan[i] IN
    /\ c.hs /\ (c.closed \/ (c.replaced /\ c.q = <<>>))
    /\ chan' = [chan EXCEPT ![i].hs = FALSE]
    /\ UNCHANGED <<bound, reg, loop, closed, listening, net, faults, tick, issued>>

\* do_handshake() is cancelled, or a sendto() raises
HandshakeCancelled(i) ==
    /\ chan[i].hs /\ ~chan[i].closed
    /\ Faulty(TRUE)
    /\ chan' = [chan EXCEPT ![i].hs = FALSE]
    /\ UNCHANGED <<bound, reg, loop, closed, listening, net, tick, issued>>

\* send() and receive(), after the handshake.  A packet that OpenSSL
\* decodes to nothing is skipped.
send(i, lost) ==
    LET c == chan[i] IN
    /\ c.did /\ ~c.closed /\ ~c.replaced /\ ~closed[c.end] /\ bound.data /\ ~c.sent
    /\ chan' = [chan EXCEPT ![i].sent = TRUE]
    /\ Sendto(Volley(c, 7), lost)
    /\ UNCHANGED <<bound, reg, loop, closed, listening, tick, issued>>

receive(i) ==
    LET c == chan[i] IN
    /\ c.did /\ ~c.closed /\ c.q # <<>>
    /\ chan' = [chan EXCEPT ![i].q = Tail(@)]
    /\ UNCHANGED <<bound, reg, loop, closed, listening, net, faults, tick, issued>>

Tick ==
    /\ tick < bound.ticks
    /\ tick' = tick + 1
    /\ UNCHANGED <<bound, chan, reg, loop, closed, listening, net, faults, issued>>

DTLSNext ==
    \/ connect \/ serve \/ ServeEnds \/ Tick
    \/ \E e \in Endpoint : CloseEndpoint(e) \/ LoopEnds(e)
    \/ \E p \in net : \/ ResendFails(p.to, p)
                      \/ \E lost, repeated \in BOOLEAN : dtls_receive_loop(p.to, p, lost, repeated)
    \/ \E i \in DOMAIN chan :
          \/ close(i) \/ HandshakeBroken(i) \/ HandshakeCancelled(i) \/ receive(i)
          \/ \E lost \in BOOLEAN :
                DoHandshake(i, lost) \/ HandshakePacket(i, lost) \/ HandshakeTimeout(i, lost) \/ send(i, lost)

DTLSSpec == DTLSInit /\ [][DTLSNext]_dtlsVars

\* Timers expire, tasks run, and a packet that is not lost arrives; how many
\* are lost is bounded, so that not every retransmission is.
DTLSFairness ==
    /\ \A i \in 1 .. MaxChannel :
          /\ WF_dtlsVars(i \in DOMAIN chan /\
                         (receive(i) \/ \E lost \in BOOLEAN : DoHandshake(i, lost) \/ HandshakePacket(i, lost)))
          /\ WF_dtlsVars(i \in DOMAIN chan /\ HandshakeTimeout(i, FALSE))
    /\ \A n \in 1 .. 6 : WF_dtlsVars(\E p \in net : p.n = n /\ dtls_receive_loop(p.to, p, FALSE, FALSE))
----------------------------------------------------------------------------
\* The table of channels stays usable whatever order connections are made,
\* replaced and closed in: a registered channel is its endpoint's newest and
\* neither closed nor replaced, so the receive loop's send_nowait() cannot
\* raise; a channel that has lost its place knows it; and a server channel
\* exists only for a ClientHello whose cookie this server gave out at most
\* one refresh interval earlier.
OneLiveChannel ==
    /\ \A e \in Endpoint : reg[e] # 0 =>
          /\ chan[reg[e]].end = e /\ ~chan[reg[e]].closed /\ ~chan[reg[e]].replaced
          /\ \A i \in DOMAIN chan : chan[i].end = e => i <= reg[e]
    /\ \A i \in DOMAIN chan :
          /\ reg[chan[i].end] = i \/ chan[i].closed \/ chan[i].replaced
          /\ chan[i].end = "server" => /\ <<chan[i].bits, chan[i].cookie>> \in issued
                                       /\ chan[i].born - chan[i].cookie <= 1

\* One side leaves, the server stops serving, or a channel is given up
Disturbed ==
    \/ ~listening
    \/ \E i \in DOMAIN chan : chan[i].closed \/ chan[i].replaced
    \/ \E e \in Endpoint : closed[e] \/ loop[e] = "crashed"

\* There is one connection, whose client channel is the first, and room in
\* the network for all its packets
Roomy == bound.net = 4 /\ bound.connects = 1

\* A handshake gets through a network that loses, reorders and repeats
\* packets, the loss of the last volley included, if the server serves, as
\* long as both sides stay, nobody cancels it, and the server has not been
\* led to replace its channel.
HandshakeGetsThrough ==
    (Roomy /\ listening /\ chan # <<>> /\ chan[1].hs) ~> (Disturbed \/ (chan # <<>> /\ ~chan[1].hs))
=============================================================================
