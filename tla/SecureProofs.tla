------------------------------ MODULE SecureProofs ------------------------------
(***************************************************************************)
(* Proofs about the encrypted transports, for any number of tasks,         *)
(* channels, packets, faults and bounds: DTLS's table of channels, and the *)
(* order of TLS's records.                                                 *)
(***************************************************************************)
EXTENDS SSLStream, DTLS, QueueProofs

--------------------------------------------------------------------------------
(* DTLS: types                                                                 *)

PacketRecord == [to : Endpoint, n : Nat, bits : Nat, cookie : Int, sid : Nat]

ChannelRecord ==
    [end : Endpoint, bits : Nat, cookie : Int, sid : Nat, born : Nat, last : Nat, hs : BOOLEAN,
     did : BOOLEAN, sent : BOOLEAN, replaced : BOOLEAN, closed : BOOLEAN, q : Seq(PacketRecord)]

DTLSTypeOK ==
    /\ chan \in Seq(ChannelRecord)
    /\ reg \in [Endpoint -> Nat] /\ \A e \in Endpoint : reg[e] = 0 \/ reg[e] \in DOMAIN chan
    /\ net \subseteq PacketRecord
    /\ tick \in Nat

DTLSInv == DTLSTypeOK /\ OneLiveChannel

\* Channel d is c with fields changed that have nothing to do with its place
SamePlace(c, d) ==
    /\ d.end = c.end /\ d.bits = c.bits /\ d.born = c.born
    /\ d.closed = c.closed /\ d.replaced = c.replaced
    /\ c.end = "server" => d.cookie = c.cookie

--------------------------------------------------------------------------------
(* The kinds of steps                                                          *)

\* What a channel sends is a packet
LEMMA VolleyType ==
    ASSUME NEW c \in ChannelRecord, NEW n \in Nat
    PROVE  Volley(c, n) \subseteq PacketRecord /\ FinalVolley(c) \subseteq PacketRecord
<1>1. ASSUME NEW k \in Nat PROVE Volley(c, k) \subseteq PacketRecord
    BY DEF Volley, Packet, PacketRecord, ChannelRecord, Endpoint, Other
<1> QED
    BY <1>1 DEF FinalVolley

\* A step that changes one channel and leaves it its place
LEMMA EditStep ==
    ASSUME DTLSInv, NEW i \in DOMAIN chan, NEW d \in ChannelRecord, SamePlace(chan[i], d),
           chan' = [chan EXCEPT ![i] = d], reg' = reg, tick' = tick, issued' = issued,
           net' \subseteq PacketRecord
    PROVE  DTLSInv'
<1>1. chan' \in Seq(ChannelRecord) /\ DOMAIN chan' = DOMAIN chan
    BY DEF DTLSInv, DTLSTypeOK
<1>2. \A j \in DOMAIN chan : SamePlace(chan[j], chan'[j])
    BY <1>1 DEF SamePlace
<1>3. DTLSTypeOK'
    BY <1>1 DEF DTLSInv, DTLSTypeOK
<1>4. ASSUME NEW e \in Endpoint, reg[e] # 0
      PROVE  /\ chan'[reg[e]].end = e /\ ~chan'[reg[e]].closed /\ ~chan'[reg[e]].replaced
             /\ \A j \in DOMAIN chan : chan'[j].end = e => j <= reg[e]
    <2>1. reg[e] \in DOMAIN chan
        BY <1>4 DEF DTLSInv, DTLSTypeOK
    <2> QED
        BY <1>2, <1>4, <2>1 DEF DTLSInv, OneLiveChannel, SamePlace
<1>5. ASSUME NEW j \in DOMAIN chan
      PROVE  /\ reg[chan'[j].end] = j \/ chan'[j].closed \/ chan'[j].replaced
             /\ chan'[j].end = "server" => /\ <<chan'[j].bits, chan'[j].cookie>> \in issued
                                           /\ chan'[j].born - chan'[j].cookie <= 1
    <2>1. SamePlace(chan[j], chan'[j])
        BY <1>2
    <2>2. /\ reg[chan[j].end] = j \/ chan[j].closed \/ chan[j].replaced
          /\ chan[j].end = "server" => /\ <<chan[j].bits, chan[j].cookie>> \in issued
                                        /\ chan[j].born - chan[j].cookie <= 1
        BY DEF DTLSInv, OneLiveChannel
    <2> QED
        BY ONLY <2>1, <2>2 DEF SamePlace
<1>6. OneLiveChannel'
    BY <1>1, <1>4, <1>5 DEF OneLiveChannel
<1> QED
    BY <1>3, <1>6 DEF DTLSInv

\* A step that leaves the channels alone; more cookies may be out
LEMMA SameStep ==
    ASSUME DTLSInv, chan' = chan, reg' = reg, tick' \in Nat, issued \subseteq issued',
           net' \subseteq PacketRecord
    PROVE  DTLSInv'
    BY DEF DTLSInv, DTLSTypeOK, OneLiveChannel

\* A step that closes channels
LEMMA CloseStep ==
    ASSUME DTLSInv, NEW I, I \subseteq DOMAIN chan, CloseAll(I), tick' = tick, issued' = issued, net' = net
    PROVE  DTLSInv'
<1>1. /\ Len(chan) \in Nat /\ DOMAIN chan = 1 .. Len(chan)
      /\ \A i \in DOMAIN chan : chan[i] \in ChannelRecord
    BY DEF DTLSInv, DTLSTypeOK
<1>2. \A i \in DOMAIN chan :
        /\ chan'[i] \in ChannelRecord
        /\ chan'[i].end = chan[i].end /\ chan'[i].bits = chan[i].bits /\ chan'[i].born = chan[i].born
        /\ chan'[i].cookie = chan[i].cookie /\ chan'[i].replaced = chan[i].replaced
        /\ chan'[i].closed <=> chan[i].closed \/ i \in I
    <2> SUFFICES ASSUME NEW i \in DOMAIN chan
                 PROVE  /\ chan'[i] \in ChannelRecord
                        /\ chan'[i].end = chan[i].end /\ chan'[i].bits = chan[i].bits
                        /\ chan'[i].born = chan[i].born
                        /\ chan'[i].cookie = chan[i].cookie /\ chan'[i].replaced = chan[i].replaced
                        /\ chan'[i].closed <=> chan[i].closed \/ i \in I
        OBVIOUS
    <2>1. chan[i] \in ChannelRecord
        BY <1>1
    <2>2. CASE i \in I
        <3>1. chan'[i] = [chan[i] EXCEPT !.closed = TRUE, !.q = <<>>]
            BY <2>2 DEF CloseAll
        <3>2. <<>> \in Seq(PacketRecord)
            OBVIOUS
        <3> QED
            BY <2>1, <2>2, <3>1, <3>2 DEF ChannelRecord
    <2>3. CASE i \notin I
        <3>1. chan'[i] = chan[i]
            BY <2>3 DEF CloseAll
        <3> QED
            BY <2>1, <2>3, <3>1 DEF ChannelRecord
    <2> QED
        BY <2>2, <2>3
<1>3. chan' \in Seq(ChannelRecord) /\ DOMAIN chan' = DOMAIN chan
    <2>1. DOMAIN chan' = DOMAIN chan /\ chan' = [i \in 1 .. Len(chan) |-> chan'[i]]
        BY <1>1 DEF CloseAll
    <2>2. chan' \in [1 .. Len(chan) -> ChannelRecord]
        BY <1>1, <1>2, <2>1
    <2> QED
        BY <1>1, <2>1, <2>2
<1>4. reg' \in [Endpoint -> Nat] /\ \A e \in Endpoint : reg'[e] = IF reg[e] \in I THEN 0 ELSE reg[e]
    BY DEF CloseAll, DTLSInv, DTLSTypeOK
<1>5. DTLSTypeOK'
    BY <1>3, <1>4 DEF DTLSInv, DTLSTypeOK
<1>6. ASSUME NEW e \in Endpoint, reg'[e] # 0
      PROVE  /\ chan'[reg'[e]].end = e /\ ~chan'[reg'[e]].closed /\ ~chan'[reg'[e]].replaced
             /\ \A j \in DOMAIN chan : chan'[j].end = e => j <= reg'[e]
    <2>1. reg'[e] = reg[e] /\ reg[e] \notin I /\ reg[e] \in DOMAIN chan
        BY <1>4, <1>6 DEF DTLSInv, DTLSTypeOK
    <2>2. /\ chan[reg[e]].end = e /\ ~chan[reg[e]].closed /\ ~chan[reg[e]].replaced
          /\ \A j \in DOMAIN chan : chan[j].end = e => j <= reg[e]
        BY <1>6, <2>1 DEF DTLSInv, OneLiveChannel
    <2> QED
        BY ONLY <1>2, <2>1, <2>2
<1>7. ASSUME NEW j \in DOMAIN chan
      PROVE  /\ reg'[chan'[j].end] = j \/ chan'[j].closed \/ chan'[j].replaced
             /\ chan'[j].end = "server" => /\ <<chan'[j].bits, chan'[j].cookie>> \in issued
                                           /\ chan'[j].born - chan'[j].cookie <= 1
    <2>1. /\ reg[chan[j].end] = j \/ chan[j].closed \/ chan[j].replaced
          /\ chan[j].end = "server" => /\ <<chan[j].bits, chan[j].cookie>> \in issued
                                        /\ chan[j].born - chan[j].cookie <= 1
        BY DEF DTLSInv, OneLiveChannel
    <2>2. chan[j].end \in Endpoint
        BY <1>1 DEF ChannelRecord
    <2> QED
        BY ONLY <1>2, <1>4, <2>1, <2>2, j \in DOMAIN chan
<1>8. OneLiveChannel'
    BY <1>3, <1>6, <1>7 DEF OneLiveChannel
<1> QED
    BY <1>5, <1>8 DEF DTLSInv

\* A step that makes a channel of endpoint e, in the place of the old one
LEMMA NewChannelStep ==
    ASSUME DTLSInv, NEW e \in Endpoint, NEW c \in ChannelRecord,
           c.end = e, ~c.closed, ~c.replaced,
           c.end = "server" => <<c.bits, c.cookie>> \in issued /\ c.born - c.cookie <= 1,
           chan' = Append(_set_replaced(chan, reg[e]), c),
           reg' = [reg EXCEPT ![e] = Len(chan) + 1],
           tick' = tick, issued' = issued, net' \subseteq PacketRecord
    PROVE  DTLSInv'
<1> DEFINE old == _set_replaced(chan, reg[e])
<1>1. /\ Len(chan) \in Nat /\ DOMAIN chan = 1 .. Len(chan)
      /\ \A i \in DOMAIN chan : chan[i] \in ChannelRecord
    BY DEF DTLSInv, DTLSTypeOK
<1>2. reg[e] = 0 \/ reg[e] \in DOMAIN chan
    BY DEF DTLSInv, DTLSTypeOK
<1>3. /\ old \in Seq(ChannelRecord) /\ DOMAIN old = DOMAIN chan /\ Len(old) = Len(chan)
      /\ \A i \in DOMAIN chan :
           /\ old[i].end = chan[i].end /\ old[i].bits = chan[i].bits /\ old[i].born = chan[i].born
           /\ old[i].cookie = chan[i].cookie /\ old[i].closed = chan[i].closed
           /\ old[i].replaced <=> chan[i].replaced \/ i = reg[e]
    <2>1. CASE reg[e] = 0
        <3>1. old = chan /\ \A i \in DOMAIN chan : i # reg[e]
            BY <1>1, <2>1 DEF _set_replaced
        <3>2. chan \in Seq(ChannelRecord)
            BY DEF DTLSInv, DTLSTypeOK
        <3> HIDE DEF old
        <3> QED
            BY <1>1, <3>1, <3>2 DEF ChannelRecord
    <2>2. CASE reg[e] # 0
        <3>1. reg[e] \in DOMAIN chan
            BY <1>2, <2>2
        <3>2. old = [chan EXCEPT ![reg[e]] = [chan[reg[e]] EXCEPT !.replaced = TRUE]]
            BY <2>2 DEF _set_replaced
        <3>3. [chan[reg[e]] EXCEPT !.replaced = TRUE] \in ChannelRecord
            BY <1>1, <3>1 DEF ChannelRecord
        <3>4. old \in Seq(ChannelRecord) /\ DOMAIN old = DOMAIN chan /\ Len(old) = Len(chan)
            <4>1. chan \in Seq(ChannelRecord)
                BY DEF DTLSInv, DTLSTypeOK
            <4> HIDE DEF old
            <4> QED
                BY <3>1, <3>2, <3>3, <4>1
        <3>5. \A i \in DOMAIN chan : old[i] = IF i = reg[e] THEN [chan[i] EXCEPT !.replaced = TRUE] ELSE chan[i]
            BY <3>1, <3>2
        <3> HIDE DEF old
        <3> QED
            BY <1>1, <3>4, <3>5 DEF ChannelRecord
    <2> QED
        BY <2>1, <2>2
<1> HIDE DEF old
<1>4. chan' = Append(old, c)
    BY DEF old
<1>5. /\ chan' \in Seq(ChannelRecord) /\ DOMAIN chan' = DOMAIN chan \cup {Len(chan) + 1}
      /\ \A i \in DOMAIN chan : chan'[i] = old[i]
      /\ chan'[Len(chan) + 1] = c
    BY <1>1, <1>3, <1>4, AppendQueue
<1>6. /\ reg' \in [Endpoint -> Nat] /\ reg'[e] = Len(chan) + 1
      /\ \A f \in Endpoint : f # e => reg'[f] = reg[f]
    BY <1>1 DEF DTLSInv, DTLSTypeOK
<1>7. DTLSTypeOK'
    BY <1>1, <1>5, <1>6 DEF DTLSInv, DTLSTypeOK
<1>8. ASSUME NEW f \in Endpoint, reg'[f] # 0
      PROVE  /\ chan'[reg'[f]].end = f /\ ~chan'[reg'[f]].closed /\ ~chan'[reg'[f]].replaced
             /\ \A i \in DOMAIN chan' : chan'[i].end = f => i <= reg'[f]
    <2>1. CASE f = e
        BY <1>1, <1>5, <1>6, <2>1
    <2>2. CASE f # e
        <3>1. reg'[f] = reg[f] /\ reg[f] \in DOMAIN chan
            BY <1>6, <1>8, <2>2 DEF DTLSInv, DTLSTypeOK
        <3>2. reg[f] # reg[e]
            BY <3>1, <2>2, <1>8, <1>2 DEF DTLSInv, OneLiveChannel
        <3> QED
            <4>1. /\ chan[reg[f]].end = f /\ ~chan[reg[f]].closed /\ ~chan[reg[f]].replaced
                  /\ \A i \in DOMAIN chan : chan[i].end = f => i <= reg[f]
                BY <1>8, <3>1 DEF DTLSInv, OneLiveChannel
            <4>2. \A i \in DOMAIN chan' : chan'[i].end = f => i \in DOMAIN chan /\ chan[i].end = f
                BY <1>3, <1>5, <2>2
            <4> QED
                BY ONLY <1>3, <1>5, <3>1, <3>2, <4>1, <4>2
    <2> QED
        BY <2>1, <2>2
<1>9. ASSUME NEW i \in DOMAIN chan'
      PROVE  /\ reg'[chan'[i].end] = i \/ chan'[i].closed \/ chan'[i].replaced
             /\ chan'[i].end = "server" => /\ <<chan'[i].bits, chan'[i].cookie>> \in issued'
                                           /\ chan'[i].born - chan'[i].cookie <= 1
    <2>1. CASE i = Len(chan) + 1
        BY <1>5, <1>6, <2>1
    <2>2. CASE i \in DOMAIN chan
        <3>1. chan[i].end \in Endpoint
            BY <1>1, <2>2 DEF ChannelRecord
        <3> QED
            <4>1. /\ reg[chan[i].end] = i \/ chan[i].closed \/ chan[i].replaced
                  /\ chan[i].end = "server" => /\ <<chan[i].bits, chan[i].cookie>> \in issued
                                                /\ chan[i].born - chan[i].cookie <= 1
                BY <2>2 DEF DTLSInv, OneLiveChannel
            <4>2. chan'[i] = old[i] /\ chan'[i].end = chan[i].end
                BY <1>3, <1>5, <2>2
            <4>3. chan'[i].replaced <=> chan[i].replaced \/ i = reg[e]
                BY <1>3, <2>2, <4>2
            <4>4. reg'[chan'[i].end] = i \/ chan'[i].closed \/ chan'[i].replaced
                BY ONLY <1>3, <1>6, <2>2, <3>1, <4>1, <4>2, <4>3
            <4> QED
                BY ONLY <1>3, <2>2, <4>1, <4>2, <4>4, issued' = issued
    <2> QED
        BY <1>5, <2>1, <2>2
<1> QED
    BY <1>7, <1>8, <1>9 DEF DTLSInv, OneLiveChannel

--------------------------------------------------------------------------------
(* The actions                                                                 *)

\* A new channel is a channel
LEMMA ChannelType ==
    ASSUME tick \in Nat, NEW e \in Endpoint, NEW bits \in Nat, NEW cookie \in Int
    PROVE  Channel(e, bits, cookie) \in ChannelRecord
<1>1. <<>> \in Seq(PacketRecord)
    OBVIOUS
<1> QED
    BY <1>1 DEF Channel, ChannelRecord

\* connect() numbers its ClientHellos
LEMMA ConnectsType ==
    ASSUME DTLSTypeOK
    PROVE  Connects \in Nat
<1>1. IsFiniteSet(1 .. Len(chan)) /\ DOMAIN chan = 1 .. Len(chan)
    BY FS_Interval DEF DTLSTypeOK
<1>2. IsFiniteSet({i \in DOMAIN chan : chan[i].end = "client"})
    BY <1>1, FS_Subset
<1> QED
    BY <1>2, FS_CardinalityType DEF Connects

LEMMA ConnectStep ==
    ASSUME DTLSInv, connect
    PROVE  DTLSInv'
<1> DEFINE c == Channel("client", Connects + 1, -1)
<1>1. c \in ChannelRecord
    BY ChannelType, ConnectsType DEF DTLSInv, DTLSTypeOK, Endpoint
<1>2. c.end = "client" /\ ~c.closed /\ ~c.replaced
    BY DEF Channel
<1>3. /\ chan' = Append(_set_replaced(chan, reg["client"]), c)
      /\ reg' = [reg EXCEPT !["client"] = Len(chan) + 1]
      /\ tick' = tick /\ issued' = issued /\ net' \subseteq PacketRecord
    BY DEF connect, DTLSInv, DTLSTypeOK
<1> HIDE DEF c
<1>4. "client" \in Endpoint
    BY DEF Endpoint
<1> QED
    BY <1>1, <1>2, <1>3, <1>4, NewChannelStep

\* The receive loop
LEMMA ReceiveLoopStep ==
    ASSUME DTLSInv, NEW p \in net, NEW lost \in BOOLEAN, NEW repeated \in BOOLEAN,
           dtls_receive_loop(p.to, p, lost, repeated)
    PROVE  DTLSInv'
<1> DEFINE e == p.to
           rest == IF repeated THEN net ELSE net \ {p}
           i == reg[e]
<1>1. p \in PacketRecord /\ e \in Endpoint /\ rest \subseteq PacketRecord /\ tick' = tick /\ tick \in Nat
    BY DEF dtls_receive_loop, DTLSInv, DTLSTypeOK, PacketRecord
<1>2. p.bits \in Nat /\ p.cookie \in Int
    BY <1>1 DEF PacketRecord
<1>3. CASE Ignored /\ net' = rest
    BY <1>1, <1>3, SameStep DEF Ignored
<1>4. CASE /\ issued' = issued \cup {<<p.bits, tick>>}
           /\ net' = IF lost THEN rest ELSE rest \cup {challenge_for(p)}
           /\ UNCHANGED <<chan, reg, listening>>
    <2>1. challenge_for(p) \in PacketRecord
        BY <1>1, <1>2 DEF challenge_for, Packet, PacketRecord, Endpoint
    <2> QED
        BY <1>1, <1>4, <2>1, SameStep
<1>5. CASE /\ e = "server" /\ valid_cookie(p) /\ net' = rest /\ UNCHANGED <<listening, issued>>
           /\ chan' = Append(_set_replaced(chan, reg["server"]),
                             [Channel("server", p.bits, p.cookie) EXCEPT !.sid = Len(chan) + 1])
           /\ reg' = [reg EXCEPT !["server"] = Len(chan) + 1]
    <2> DEFINE d == Channel("server", p.bits, p.cookie)
               c == [d EXCEPT !.sid = Len(chan) + 1]
    <2>1. d \in ChannelRecord
        BY <1>1, <1>2, <1>5, ChannelType
    <2>2. Len(chan) + 1 \in Nat
        BY DEF DTLSInv, DTLSTypeOK
    <2>3. d.end = "server" /\ d.bits = p.bits /\ d.cookie = p.cookie /\ d.born = tick /\ ~d.closed /\ ~d.replaced
        BY DEF Channel
    <2>4. <<p.bits, p.cookie>> \in issued /\ tick - p.cookie <= 1
        BY <1>1, <1>2, <1>5 DEF valid_cookie
    <2> HIDE DEF d
    <2>5. /\ c \in ChannelRecord
          /\ c.end = d.end /\ c.bits = d.bits /\ c.cookie = d.cookie /\ c.born = d.born
          /\ c.closed = d.closed /\ c.replaced = d.replaced
        BY <2>1, <2>2 DEF ChannelRecord
    <2>6. /\ chan' = Append(_set_replaced(chan, reg["server"]), c)
          /\ reg' = [reg EXCEPT !["server"] = Len(chan) + 1]
          /\ issued' = issued /\ net' \subseteq PacketRecord
        BY <1>1, <1>5 DEF d
    <2> HIDE DEF c
    <2>7. "server" \in Endpoint
        BY DEF Endpoint
    <2> QED
        BY <1>1, <2>3, <2>4, <2>5, <2>6, <2>7, NewChannelStep
<1>6. CASE i # 0 /\ net' = (IF lost THEN rest ELSE rest \cup FinalVolley(chan[i])) /\ Ignored
    <2>1. i \in DOMAIN chan /\ chan[i] \in ChannelRecord
        BY <1>1, <1>6 DEF DTLSInv, DTLSTypeOK
    <2>2. FinalVolley(chan[i]) \subseteq PacketRecord
        BY <2>1, VolleyType
    <2> QED
        BY <1>1, <1>6, <2>2, SameStep DEF Ignored
<1>7. CASE /\ i # 0 /\ net' = rest
           /\ chan' = [chan EXCEPT ![i].q = Append(@, p)]
           /\ UNCHANGED <<bound, reg, listening, issued>>
    <2> DEFINE d == [chan[i] EXCEPT !.q = Append(chan[i].q, p)]
    <2>1. i \in DOMAIN chan /\ chan[i] \in ChannelRecord
        BY <1>1, <1>7 DEF DTLSInv, DTLSTypeOK
    <2>2. Append(chan[i].q, p) \in Seq(PacketRecord)
        BY <1>1, <2>1 DEF ChannelRecord
    <2>3. d \in ChannelRecord /\ SamePlace(chan[i], d)
        BY <2>1, <2>2 DEF ChannelRecord, SamePlace
    <2>4. chan' = [chan EXCEPT ![i] = d]
        BY <1>7
    <2> HIDE DEF d
    <2> QED
        BY <1>1, <1>7, <2>1, <2>3, <2>4, EditStep
<1> QED
    <2>1. CASE is_client_hello_untrusted(p) /\ handle_client_hello_untrusted(e, p, lost, rest)
        BY <2>1, <1>3, <1>4, <1>5 DEF handle_client_hello_untrusted
    <2>2. CASE ~is_client_hello_untrusted(p)
        BY <2>2, <1>3, <1>6, <1>7 DEF dtls_receive_loop
    <2> QED
        BY <2>1, <2>2 DEF dtls_receive_loop

\* The handshake, send() and receive() change a channel, not its place
LEMMA ChannelSteps ==
    ASSUME DTLSInv, NEW i \in DOMAIN chan, NEW lost \in BOOLEAN,
           \/ HandshakeBroken(i) \/ HandshakeCancelled(i) \/ receive(i) \/ DoHandshake(i, lost)
           \/ HandshakePacket(i, lost) \/ HandshakeTimeout(i, lost) \/ send(i, lost)
    PROVE  DTLSInv'
<1> DEFINE c == chan[i]
<1>1. c \in ChannelRecord /\ chan \in Seq(ChannelRecord) /\ net \subseteq PacketRecord /\ tick \in Nat
    BY DEF DTLSInv, DTLSTypeOK
<1>2. ASSUME NEW d \in ChannelRecord, NEW n \in Nat, Sendto(Volley(d, n), lost) \/ Sendto(FinalVolley(d), lost)
      PROVE  net' \subseteq PacketRecord
    <2>1. Volley(d, n) \subseteq PacketRecord /\ FinalVolley(d) \subseteq PacketRecord
        BY VolleyType
    <2> QED
        BY <1>1, <1>2, <2>1 DEF Sendto
<1>3. CASE HandshakeBroken(i) \/ HandshakeCancelled(i)
    <2> DEFINE d == [c EXCEPT !.hs = FALSE]
    <2>1. d \in ChannelRecord /\ SamePlace(c, d)
        BY <1>1 DEF ChannelRecord, SamePlace
    <2>2. /\ chan' = [chan EXCEPT ![i] = d]
          /\ reg' = reg /\ tick' = tick /\ issued' = issued /\ net' = net
        BY <1>3 DEF HandshakeBroken, HandshakeCancelled
    <2> HIDE DEF d
    <2> QED
        BY <1>1, <2>1, <2>2, EditStep
<1>4. CASE receive(i)
    <2> DEFINE d == [c EXCEPT !.q = Tail(c.q)]
    <2>1. c.q \in Seq(PacketRecord) /\ c.q # <<>>
        BY <1>1, <1>4 DEF ChannelRecord, receive
    <2>2. Tail(c.q) \in Seq(PacketRecord)
        BY <2>1, TailQueue
    <2>3. d \in ChannelRecord /\ SamePlace(c, d)
        BY <1>1, <2>2 DEF ChannelRecord, SamePlace
    <2>4. /\ chan' = [chan EXCEPT ![i] = d]
          /\ reg' = reg /\ tick' = tick /\ issued' = issued /\ net' = net
        BY <1>4 DEF receive
    <2> HIDE DEF d
    <2> QED
        BY <1>1, <2>3, <2>4, EditStep
<1>5. CASE DoHandshake(i, lost)
    <2> DEFINE n == IF c.last # 0 THEN c.last ELSE IF c.end = "client" THEN 1 ELSE 4
               d == [c EXCEPT !.hs = TRUE, !.last = n]
    <2>1. n \in Nat
        BY <1>1 DEF ChannelRecord
    <2>2. /\ chan' = [chan EXCEPT ![i] = d] /\ Sendto(Volley(c, n), lost)
          /\ reg' = reg /\ tick' = tick /\ issued' = issued
        BY <1>5 DEF DoHandshake
    <2> HIDE DEF n
    <2>3. d \in ChannelRecord /\ SamePlace(c, d)
        BY <1>1, <2>1 DEF ChannelRecord, SamePlace
    <2> HIDE DEF d
    <2>4. net' \subseteq PacketRecord
        BY <1>1, <1>2, <2>1, <2>2
    <2> QED
        BY <2>2, <2>3, <2>4, EditStep
<1>6. CASE HandshakeTimeout(i, lost)
    <2>1. c.last \in Nat
        BY <1>1 DEF ChannelRecord
    <2>2. net' \subseteq PacketRecord
        BY <1>1, <1>2, <1>6, <2>1 DEF HandshakeTimeout
    <2> QED
        BY <1>1, <1>6, <2>2, SameStep DEF HandshakeTimeout
<1>7. CASE send(i, lost)
    <2> DEFINE d == [c EXCEPT !.sent = TRUE]
    <2>1. d \in ChannelRecord /\ SamePlace(c, d)
        BY <1>1 DEF ChannelRecord, SamePlace
    <2>2. /\ chan' = [chan EXCEPT ![i] = d] /\ Sendto(Volley(c, 7), lost)
          /\ reg' = reg /\ tick' = tick /\ issued' = issued
        BY <1>7 DEF send
    <2> HIDE DEF d
    <2>3. net' \subseteq PacketRecord
        BY <1>1, <1>2, <2>2
    <2> QED
        BY <2>1, <2>2, <2>3, EditStep
<1>8. CASE HandshakePacket(i, lost)
    <2> DEFINE p == Head(c.q)
               n == Respond(c, p)
               popped == [c EXCEPT !.q = Tail(c.q)]
               next == [popped EXCEPT !.last = n, !.cookie = IF n = 3 THEN p.cookie ELSE popped.cookie,
                                      !.sid = IF n = 5 THEN p.sid ELSE popped.sid]
    <2>1. c.q \in Seq(PacketRecord) /\ c.q # <<>>
        BY <1>1, <1>8 DEF ChannelRecord, HandshakePacket
    <2>2. Tail(c.q) \in Seq(PacketRecord) /\ p \in PacketRecord
        BY <2>1, TailQueue
    <2>3. popped \in ChannelRecord /\ SamePlace(c, popped) /\ popped.cookie \in Int /\ popped.sid \in Nat
        BY <1>1, <2>2 DEF ChannelRecord, SamePlace
    <2>4. n \in Nat /\ (n = 3 => c.end # "server") /\ p.cookie \in Int /\ p.sid \in Nat
        <3>1. n \in {0, 3, 5, 6} /\ (n = 3 => c.end = "client")
            BY DEF Respond
        <3>2. p.cookie \in Int /\ p.sid \in Nat
            BY <2>2 DEF PacketRecord
        <3> HIDE DEF n
        <3> QED
            BY <3>1, <3>2
    <2>5. /\ reg' = reg /\ tick' = tick /\ issued' = issued
          /\ \/ chan' = [chan EXCEPT ![i] = popped] /\ net' = net
             \/ chan' = [chan EXCEPT ![i] = next] /\ Sendto(Volley(next, n), lost)
             \/ chan' = [chan EXCEPT ![i] = [next EXCEPT !.hs = FALSE]] /\ net' = net
             \/ /\ chan' = [chan EXCEPT ![i] = [popped EXCEPT !.did = TRUE, !.hs = FALSE]]
                /\ Sendto(FinalVolley(c), lost)
        BY <1>8 DEF HandshakePacket
    <2> HIDE DEF n, p, popped
    <2>6. next \in ChannelRecord /\ SamePlace(c, next)
        BY <1>1, <2>3, <2>4 DEF ChannelRecord, SamePlace
    <2> HIDE DEF next
    <2>7. [next EXCEPT !.hs = FALSE] \in ChannelRecord /\ SamePlace(c, [next EXCEPT !.hs = FALSE])
        BY <2>6 DEF ChannelRecord, SamePlace
    <2>8. /\ [popped EXCEPT !.did = TRUE, !.hs = FALSE] \in ChannelRecord
          /\ SamePlace(c, [popped EXCEPT !.did = TRUE, !.hs = FALSE])
        BY <2>3 DEF ChannelRecord, SamePlace
    <2>9. net' \subseteq PacketRecord
        BY <1>1, <1>2, <2>4, <2>5, <2>6
    <2>10. PICK d \in ChannelRecord : SamePlace(c, d) /\ chan' = [chan EXCEPT ![i] = d]
        BY <2>3, <2>5, <2>6, <2>7, <2>8
    <2> QED
        BY <2>5, <2>9, <2>10, EditStep
<1> QED
    BY <1>3, <1>4, <1>5, <1>6, <1>7, <1>8

LEMMA DTLSStep ==
    ASSUME DTLSInv, [DTLSNext]_dtlsVars
    PROVE  DTLSInv'
<1>1. /\ net \subseteq PacketRecord /\ tick \in Nat
      /\ \A e \in Endpoint : {reg[e]} \ {0} \subseteq DOMAIN chan
    BY DEF DTLSInv, DTLSTypeOK
<1>2. CASE connect
    BY <1>2, ConnectStep
<1>3. CASE serve \/ ServeEnds \/ Tick \/ (\E e \in Endpoint : LoopEnds(e)) \/ UNCHANGED dtlsVars
    <2>1. chan' = chan /\ reg' = reg /\ tick' \in Nat /\ issued' = issued /\ net' = net
        BY <1>1, <1>3 DEF serve, ServeEnds, Tick, LoopEnds, dtlsVars
    <2> QED
        BY <1>1, <2>1, SameStep
<1>4. ASSUME NEW e \in Endpoint, CloseEndpoint(e)
      PROVE  DTLSInv'
    BY <1>1, <1>4, CloseStep DEF CloseEndpoint
<1>5. ASSUME NEW p \in net, ResendFails(p.to, p)
      PROVE  DTLSInv'
    <2>1. chan' = chan /\ reg' = reg /\ tick' = tick /\ issued' = issued /\ net' \subseteq PacketRecord
        BY <1>1, <1>5 DEF ResendFails
    <2> QED
        BY <1>1, <2>1, SameStep
<1>6. ASSUME NEW p \in net, NEW lost \in BOOLEAN, NEW repeated \in BOOLEAN,
             dtls_receive_loop(p.to, p, lost, repeated)
      PROVE  DTLSInv'
    BY <1>6, ReceiveLoopStep
<1>7. ASSUME NEW i \in DOMAIN chan, close(i)
      PROVE  DTLSInv'
    <2>1. {i} \subseteq DOMAIN chan /\ CloseAll({i}) /\ tick' = tick /\ issued' = issued /\ net' = net
        BY <1>7 DEF close
    <2> QED
        BY <2>1, CloseStep
<1>8. ASSUME NEW i \in DOMAIN chan, NEW lost \in BOOLEAN,
             \/ HandshakeBroken(i) \/ HandshakeCancelled(i) \/ receive(i) \/ DoHandshake(i, lost)
             \/ HandshakePacket(i, lost) \/ HandshakeTimeout(i, lost) \/ send(i, lost)
      PROVE  DTLSInv'
    BY <1>8, ChannelSteps
<1> QED
    BY <1>2, <1>3, <1>4, <1>5, <1>6, <1>7, <1>8 DEF DTLSNext

\* The table of channels stays usable in whatever order connections are made,
\* replaced, closed and answered, whatever the network does, with any number of
\* channels and packets (DTLSEndpoint._streams, _set_replaced, close(), and the
\* cookies of handle_client_hello_untrusted).
THEOREM OneLiveChannelThm == DTLSSpec => []OneLiveChannel
<1>1. DTLSInit => DTLSInv
    BY EmptyQueue DEF DTLSInit, DTLSInv, DTLSTypeOK, OneLiveChannel, Endpoint
<1>2. DTLSInv /\ [DTLSNext]_dtlsVars => DTLSInv'
    BY DTLSStep
<1>3. DTLSInv => OneLiveChannel
    BY DEF DTLSInv
<1> QED
    BY <1>1, <1>2, <1>3, PTL DEF DTLSSpec

--------------------------------------------------------------------------------
(* TLS: the invariant                                                          *)

InSend == {"send_line", "sending", "line", "writable"}
HasSend == {"sending", "writable"}
InRecv == {"recv_line", "receiving"}
HasRecv == {"receiving"}

\* Inside _retry
Busy == {"call", "send_line", "sending", "recv_line", "receiving", "yield"}
Fn == {"handshake", "read", "write", "unwrap"}

SslTask ==
    [pc : Busy \cup {"idle", "once", "line", "writable", "closing", "checkpoint"},
     op : Op \cup {"none"}, fn : Fn \cup {"none"}, out : Seq(Nat), seen : Nat, fin : BOOLEAN]

\* The tasks in a lock's line, and at most its first one has the lock ...
Lined(q, table, in, has) ==
    /\ q \in Seq(Task) /\ IsInjective(q)
    /\ \A t \in Task : table[t].pc \in in <=> t \in ToSet(q)
    /\ \A t \in Task : table[t].pc \in has => q # <<>> /\ Head(q) = t

\* ... which the first one does have
LockOK(q, table, in, has) ==
    /\ Lined(q, table, in, has)
    /\ q # <<>> => table[Head(q)].pc \in has

\* Being handed a lock changes nothing but the place in the code
Promoted(a, b) ==
    /\ b.op = a.op /\ b.fn = a.fn /\ b.out = a.out /\ b.seen = a.seen /\ b.fin = a.fin
    /\ \/ b.pc = a.pc
       \/ a.pc = "send_line" /\ b.pc = "sending"
       \/ a.pc = "line" /\ b.pc = "writable"
       \/ a.pc = "recv_line" /\ b.pc = "receiving"

(***************************************************************************)
(* What a task does fits the rest: the records it has are for the lock it  *)
(* waits for; there is a handshake only while _Once says so, and nothing   *)
(* else before its end; and a task that means to receive, and has missed   *)
(* nothing, has found the SSLObject starved.  h: once; c: recvcount; st:   *)
(* Starved; s: ssl; none: delayed is empty                                 *)
(***************************************************************************)
Fits(x, h, c, st, s, none) ==
    /\ x.out # <<>> => x.pc \in {"send_line", "sending"}
    /\ x.pc \in Busy => x.fn \in Fn
    /\ x.pc \in Busy \cup {"once"} => x.op \in Op \ {"wait_writable"}
    /\ x.pc \in Busy /\ h # "done" => x.fn = "handshake"
    /\ x.fn = "handshake" => x.pc \in Busy /\ h = "started"
    /\ x.fn = "handshake" /\ x.fin => x.pc \in {"send_line", "sending", "yield"}
    /\ x.fn = "handshake" /\ ~x.fin => s.phase \in {"start", "await"} /\ none
    /\ x.pc \in InRecv => x.seen <= c
    /\ x.pc \in InRecv /\ x.seen = c => st /\ (x.fn = "write" => s.phase # "ready" \/ s.shut)

Rising(s) == \A i, j \in DOMAIN s : i < j => s[i] < s[j]
Below(A, B) == \A x \in A, y \in B : x < y

Out(table, t) == ToSet(table[t].out)

\* Those in line for the send lock have their records in the order of the line
LineRises(q, table) ==
    \A i, j \in DOMAIN q : i < j => Below(Out(table, q[i]), Out(table, q[j]))

\* Wire, then delayed, then what tasks have taken: each rises, below the next
Ordered(m, w, d, table) ==
    /\ m \in Nat /\ w \in Seq(Nat) /\ d \in Seq(Nat)
    /\ Rising(w) /\ Rising(d) /\ Below(ToSet(w), ToSet(d))
    /\ ToSet(w) \cup ToSet(d) \subseteq 0 .. m
    /\ \A t \in Task : /\ Rising(table[t].out) /\ Out(table, t) \subseteq 0 .. m
                       /\ Below(ToSet(w), Out(table, t)) /\ Below(ToSet(d), Out(table, t))

Accounted(m, w, d, lost, table) ==
    \A k \in 1 .. m : \/ k \in ToSet(w) \cup ToSet(d) \cup lost
                       \/ \E t \in Task : k \in Out(table, t)

SSLTypeOK ==
    /\ task \in [Task -> SslTask]
    /\ once \in {"no", "started", "done"} /\ state \in {"OK", "BROKEN", "CLOSED"}
    /\ recvcount \in Nat /\ incoming \in Seq(Message) /\ eof \in BOOLEAN
    /\ ssl \in [phase : {"start", "await", "ready", "reneg"}, shut : BOOLEAN]

SSLInv ==
    /\ SSLTypeOK
    /\ LockOK(sendq, task, InSend, HasSend) /\ LockOK(recvq, task, InRecv, HasRecv)
    /\ \A t \in Task : Fits(task[t], once, recvcount, Starved, ssl, delayed = <<>>)
    /\ \A t, u \in Task : task[t].fn = "handshake" /\ task[u].fn = "handshake" => t = u
    /\ once = "no" => ssl.phase = "start" /\ delayed = <<>>
    /\ Ordered(made, wire, delayed, task) /\ LineRises(sendq, task)
    /\ state = "OK" => Accounted(made, wire, delayed, dropped, task)

--------------------------------------------------------------------------------
(* Queues and records                                                          *)

\* Taking an element out of a queue: the others keep their order
LEMMA RemoveFirstQueue ==
    ASSUME NEW S, NEW q \in Seq(S), NEW e, IsInjective(q)
    PROVE  /\ RemoveFirst(q, e) \in Seq(S) /\ IsInjective(RemoveFirst(q, e))
           /\ ToSet(RemoveFirst(q, e)) = ToSet(q) \ {e}
           /\ \A i, j \in DOMAIN RemoveFirst(q, e) : i < j =>
                 \E k, l \in DOMAIN q : /\ k < l /\ RemoveFirst(q, e)[i] = q[k]
                                         /\ RemoveFirst(q, e)[j] = q[l]
           /\ q # <<>> /\ Head(q) # e => RemoveFirst(q, e) # <<>> /\ Head(RemoveFirst(q, e)) = Head(q)
<1>0. Len(q) \in Nat /\ DOMAIN q = 1 .. Len(q)
    OBVIOUS
<1>1. CASE e \notin ToSet(q)
    <2>1. RemoveFirst(q, e) = q
        BY <1>0, <1>1 DEF RemoveFirst, ToSet
    <2> QED
        BY <1>1, <2>1
<1>2. CASE e \in ToSet(q)
    <2> DEFINE I == {i \in 1 .. Len(q) : q[i] = e}
               m == Min(I)
               p == RemoveAt(q, m)
    <2>1. I \in SUBSET Nat /\ I # {}
        BY <1>0, <1>2 DEF ToSet
    <2>2. m \in I
        BY <2>1, MinIsLeast
    <2>3. RemoveFirst(q, e) = p
        BY <2>1 DEF RemoveFirst, SelectInSeq
    <2>4. m \in 1 .. Len(q) /\ q[m] = e
        BY <2>2
    <2> HIDE DEF m
    <2>5. /\ p \in Seq(S) /\ IsInjective(p) /\ ToSet(p) = ToSet(q) \ {e} /\ Len(p) = Len(q) - 1
          /\ \A j \in 1 .. Len(q) - 1 : p[j] = q[IF j < m THEN j ELSE j + 1]
        BY <2>4, RemoveAtQueue, RemoveAtDistinct
    <2> HIDE DEF p, I
    <2>6. DOMAIN p = 1 .. Len(q) - 1
        BY <2>5
    <2>7. ASSUME NEW i \in DOMAIN p, NEW j \in DOMAIN p, i < j
          PROVE  \E k, l \in DOMAIN q : k < l /\ p[i] = q[k] /\ p[j] = q[l]
        <3> DEFINE k == IF i < m THEN i ELSE i + 1
                   l == IF j < m THEN j ELSE j + 1
        <3>1. k \in DOMAIN q /\ l \in DOMAIN q /\ k < l
            BY <1>0, <2>4, <2>6, <2>7
        <3>2. p[i] = q[k] /\ p[j] = q[l]
            BY <2>5, <2>6
        <3> QED
            BY <3>1, <3>2
    <2>8. ASSUME q # <<>>, Head(q) # e
          PROVE  p # <<>> /\ Head(p) = Head(q)
        <3>1. Head(q) = q[1] /\ 1 < m /\ Len(q) >= 2
            BY <1>0, <2>4, <2>8
        <3>2. p[1] = q[1] /\ Len(p) >= 1
            BY <1>0, <2>4, <2>5, <3>1
        <3> QED
            BY <2>5, <3>1, <3>2
    <2> QED
        BY <2>3, <2>5, <2>7, <2>8
<1> QED
    BY <1>1, <1>2

\* Two rising sequences, one below the other
LEMMA RisingConcat ==
    ASSUME NEW p \in Seq(Nat), NEW q \in Seq(Nat), Rising(p), Rising(q), Below(ToSet(p), ToSet(q))
    PROVE  p \o q \in Seq(Nat) /\ Rising(p \o q) /\ ToSet(p \o q) = ToSet(p) \cup ToSet(q)
<1> DEFINE r == p \o q
<1>1. /\ r \in Seq(Nat) /\ Len(r) = Len(p) + Len(q) /\ Len(p) \in Nat /\ Len(q) \in Nat
      /\ \A i \in 1 .. Len(p) : r[i] = p[i]
      /\ \A i \in 1 .. Len(q) : r[Len(p) + i] = q[i]
    BY ConcatProperties
<1>2. DOMAIN p = 1 .. Len(p) /\ DOMAIN q = 1 .. Len(q) /\ DOMAIN r = 1 .. Len(p) + Len(q)
    BY <1>1
<1> HIDE DEF r
<1>3. ASSUME NEW i \in DOMAIN r
      PROVE  \/ i \in DOMAIN p /\ r[i] = p[i] /\ p[i] \in ToSet(p)
             \/ i > Len(p) /\ i - Len(p) \in DOMAIN q /\ r[i] = q[i - Len(p)] /\ q[i - Len(p)] \in ToSet(q)
    <2>1. CASE i <= Len(p)
        BY <1>1, <1>2, <2>1 DEF ToSet
    <2>2. CASE i > Len(p)
        <3>1. i - Len(p) \in 1 .. Len(q) /\ Len(p) + (i - Len(p)) = i
            BY <1>1, <1>2, <2>2
        <3>2. r[i] = q[i - Len(p)]
            BY <1>1, <3>1
        <3> QED
            BY <1>2, <2>2, <3>1, <3>2 DEF ToSet
    <2> QED
        BY <1>1, <1>2, <2>1, <2>2
<1>4. Rising(r)
    <2> SUFFICES ASSUME NEW i \in DOMAIN r, NEW j \in DOMAIN r, i < j
                 PROVE  r[i] < r[j]
        BY DEF Rising
    <2>1. CASE j \in DOMAIN p
        <3>1. i \in DOMAIN p
            BY <1>1, <1>2, <2>1
        <3> QED
            BY <1>1, <1>2, <2>1, <3>1 DEF Rising
    <2>2. CASE j \notin DOMAIN p /\ i \in DOMAIN p
        <3>1. r[i] \in ToSet(p) /\ r[j] \in ToSet(q)
            BY <1>1, <1>2, <1>3, <2>2 DEF ToSet
        <3> QED
            BY <3>1 DEF Below
    <2>3. CASE j \notin DOMAIN p /\ i \notin DOMAIN p
        <3>1. /\ r[i] = q[i - Len(p)] /\ r[j] = q[j - Len(p)]
              /\ i - Len(p) \in DOMAIN q /\ j - Len(p) \in DOMAIN q
            BY <1>3, <2>3
        <3>2. i - Len(p) < j - Len(p)
            BY <1>1, <1>2
        <3> QED
            BY <3>1, <3>2 DEF Rising
    <2> QED
        BY <2>1, <2>2, <2>3
<1>5. ToSet(r) = ToSet(p) \cup ToSet(q)
    <2>1. ToSet(r) \subseteq ToSet(p) \cup ToSet(q)
        <3>1. \A i \in DOMAIN r : r[i] \in ToSet(p) \cup ToSet(q)
            BY <1>3
        <3> QED
            BY <3>1 DEF ToSet
    <2>2. ToSet(p) \subseteq ToSet(r)
        BY <1>1, <1>2 DEF ToSet
    <2>3. ToSet(q) \subseteq ToSet(r)
        <3>1. \A i \in 1 .. Len(q) : Len(p) + i \in DOMAIN r
            BY <1>1, <1>2
        <3> QED
            BY <1>1, <1>2, <3>1 DEF ToSet
    <2> QED
        BY <2>1, <2>2, <2>3
<1> QED
    BY <1>1, <1>4, <1>5 DEF r

--------------------------------------------------------------------------------
(* The locks                                                                   *)

\* Handing the receive lock on
LEMMA GrantRecvLock ==
    ASSUME NEW table \in [Task -> SslTask], NEW q, Lined(q, table, InRecv, HasRecv),
           NEW new, new = Granted(q, table, "recv_line", "receiving")
    PROVE  /\ new \in [Task -> SslTask] /\ LockOK(q, new, InRecv, HasRecv)
           /\ \A u \in Task : Promoted(table[u], new[u])
           /\ \A u \in Task : table[u].pc \in InSend \/ new[u].pc \in InSend => new[u].pc = table[u].pc
<1>1. CASE q # <<>> /\ table[Head(q)].pc = "recv_line"
    <2>1. Head(q) \in Task /\ Head(q) \in ToSet(q)
        BY <1>1, TailQueue DEF Lined
    <2>2. new = [table EXCEPT ![Head(q)] = [table[Head(q)] EXCEPT !.pc = "receiving"]]
        BY <1>1 DEF Granted
    <2>3. /\ table[Head(q)] \in SslTask
          /\ [table[Head(q)] EXCEPT !.pc = "receiving"] \in SslTask
          /\ Promoted(table[Head(q)], [table[Head(q)] EXCEPT !.pc = "receiving"])
          /\ [table[Head(q)] EXCEPT !.pc = "receiving"].pc = "receiving"
        BY <1>1, <2>1 DEF SslTask, Busy, Promoted
    <2>4. new \in [Task -> SslTask] /\ new[Head(q)] = [table[Head(q)] EXCEPT !.pc = "receiving"]
          /\ \A u \in Task : u # Head(q) => new[u] = table[u]
        BY <2>1, <2>2, <2>3
    <2>5. \A u \in Task : Promoted(table[u], new[u])
        BY <2>3, <2>4 DEF Promoted
    <2>6. LockOK(q, new, InRecv, HasRecv)
        BY <1>1, <2>1, <2>3, <2>4 DEF LockOK, Lined, InRecv, HasRecv
    <2> QED
        BY <1>1, <2>3, <2>4, <2>5, <2>6 DEF InSend
<1>2. CASE ~(q # <<>> /\ table[Head(q)].pc = "recv_line")
    <2>1. new = table
        BY <1>2 DEF Granted
    <2>2. q # <<>> => Head(q) \in Task /\ Head(q) \in ToSet(q)
        BY TailQueue DEF Lined
    <2>3. LockOK(q, table, InRecv, HasRecv)
        BY <1>2, <2>2 DEF LockOK, Lined, InRecv, HasRecv
    <2> QED
        BY <2>1, <2>3 DEF Promoted
<1> QED
    BY <1>1, <1>2

\* Handing the send lock on
LEMMA GrantSendLock ==
    ASSUME NEW table \in [Task -> SslTask], NEW q, Lined(q, table, InSend, HasSend),
           NEW new, new = GrantSend(q, table)
    PROVE  /\ new \in [Task -> SslTask] /\ LockOK(q, new, InSend, HasSend)
           /\ \A u \in Task : Promoted(table[u], new[u])
           /\ \A u \in Task : table[u].pc \in InRecv \/ new[u].pc \in InRecv => new[u].pc = table[u].pc
<1>0. q # <<>> => Head(q) \in Task /\ Head(q) \in ToSet(q)
    BY TailQueue DEF Lined
<1>1. ASSUME NEW from \in {"send_line", "line"}, NEW to, to = (IF from = "line" THEN "writable" ELSE "sending"),
             q # <<>>, table[Head(q)].pc = from,
             new = [table EXCEPT ![Head(q)] = [table[Head(q)] EXCEPT !.pc = to]]
      PROVE  /\ new \in [Task -> SslTask] /\ LockOK(q, new, InSend, HasSend)
             /\ \A u \in Task : Promoted(table[u], new[u])
             /\ \A u \in Task : table[u].pc \in InRecv \/ new[u].pc \in InRecv => new[u].pc = table[u].pc
    <2>1. Head(q) \in Task /\ Head(q) \in ToSet(q)
        BY <1>0, <1>1
    <2>2. to \in HasSend /\ to \in InSend /\ from \in InSend /\ from \notin InRecv /\ to \notin InRecv
        BY <1>1 DEF HasSend, InSend, InRecv
    <2>3. /\ table[Head(q)] \in SslTask
          /\ [table[Head(q)] EXCEPT !.pc = to] \in SslTask
          /\ Promoted(table[Head(q)], [table[Head(q)] EXCEPT !.pc = to])
          /\ [table[Head(q)] EXCEPT !.pc = to].pc = to
        <3> DEFINE x == table[Head(q)]
        <3>1. x \in SslTask /\ x.pc = from /\ to \in Busy \cup {"writable"}
            BY <1>1, <2>1 DEF Busy
        <3> HIDE DEF x
        <3>2. /\ [x EXCEPT !.pc = to] \in SslTask /\ [x EXCEPT !.pc = to].pc = to
              /\ [x EXCEPT !.pc = to].op = x.op /\ [x EXCEPT !.pc = to].fn = x.fn
              /\ [x EXCEPT !.pc = to].out = x.out /\ [x EXCEPT !.pc = to].seen = x.seen
              /\ [x EXCEPT !.pc = to].fin = x.fin
            BY <3>1 DEF SslTask
        <3>3. Promoted(x, [x EXCEPT !.pc = to])
            BY <1>1, <3>1, <3>2 DEF Promoted
        <3> QED
            BY <3>1, <3>2, <3>3 DEF x
    <2>4. new \in [Task -> SslTask] /\ new[Head(q)] = [table[Head(q)] EXCEPT !.pc = to]
          /\ \A u \in Task : u # Head(q) => new[u] = table[u]
        BY <1>1, <2>1, <2>3
    <2>5. \A u \in Task : Promoted(table[u], new[u])
        BY <2>3, <2>4 DEF Promoted
    <2>6. LockOK(q, new, InSend, HasSend)
        BY <1>1, <2>1, <2>2, <2>3, <2>4 DEF LockOK, Lined
    <2> QED
        BY <1>1, <2>2, <2>3, <2>4, <2>5, <2>6
<1> DEFINE mid == Granted(q, table, "send_line", "sending")
<1>2. new = Granted(q, mid, "line", "writable")
    BY DEF GrantSend
<1>3. CASE q # <<>> /\ table[Head(q)].pc = "send_line"
    <2>1. mid = [table EXCEPT ![Head(q)] = [table[Head(q)] EXCEPT !.pc = "sending"]]
        BY <1>3 DEF Granted
    <2>2. mid[Head(q)].pc = "sending"
        BY <1>0, <1>3, <2>1 DEF SslTask
    <2>3. new = mid
        BY <1>2, <2>2 DEF Granted
    <2> QED
        BY <1>1, <1>3, <2>1, <2>3
<1>4. CASE q # <<>> /\ table[Head(q)].pc = "line"
    <2>1. mid = table
        BY <1>4 DEF Granted
    <2>2. new = [table EXCEPT ![Head(q)] = [table[Head(q)] EXCEPT !.pc = "writable"]]
        BY <1>2, <1>4, <2>1 DEF Granted
    <2> QED
        BY <1>1, <1>4, <2>2
<1>5. CASE ~(q # <<>> /\ table[Head(q)].pc \in {"send_line", "line"})
    <2>1. new = table
        BY <1>2, <1>5 DEF Granted
    <2>2. LockOK(q, table, InSend, HasSend)
        BY <1>0, <1>5 DEF LockOK, Lined, InSend, HasSend
    <2> QED
        BY <2>1, <2>2 DEF Promoted
<1> QED
    BY <1>3, <1>4, <1>5

\* A lock whose line stays where it is
LEMMA SameLock ==
    ASSUME NEW table, NEW new, NEW q, NEW in, NEW has, has \subseteq in,
           \A u \in Task : table[u].pc \in in \/ new[u].pc \in in => new[u].pc = table[u].pc
    PROVE  /\ Lined(q, table, in, has) => Lined(q, new, in, has)
           /\ LockOK(q, table, in, has) => LockOK(q, new, in, has)
<1>1. ASSUME Lined(q, table, in, has)
      PROVE  Lined(q, new, in, has)
    BY <1>1 DEF Lined
<1>2. ASSUME LockOK(q, table, in, has)
      PROVE  LockOK(q, new, in, has)
    <2>1. q # <<>> => Head(q) \in Task
        BY <1>2, TailQueue DEF LockOK, Lined
    <2> QED
        BY <1>1, <1>2, <2>1 DEF LockOK
<1> QED
    BY <1>1, <1>2

\* The two locks
LEMMA TwoLocks ==
    /\ HasSend \subseteq InSend /\ HasRecv \subseteq InRecv /\ InSend \cap InRecv = {}
    /\ "call" \notin InSend \cup InRecv /\ "yield" \notin InSend \cup InRecv
    BY DEF HasSend, InSend, HasRecv, InRecv

LEMMA PromotedTwice ==
    ASSUME NEW a, NEW b, NEW c, Promoted(a, b), Promoted(b, c)
    PROVE  Promoted(a, c)
    BY DEF Promoted

\* Handing both locks on, after a task has left them
LEMMA GrantLocks ==
    ASSUME NEW table \in [Task -> SslTask], NEW sq, NEW rq,
           Lined(sq, table, InSend, HasSend), Lined(rq, table, InRecv, HasRecv),
           NEW new, new = Granted(rq, GrantSend(sq, table), "recv_line", "receiving")
    PROVE  /\ new \in [Task -> SslTask]
           /\ LockOK(sq, new, InSend, HasSend) /\ LockOK(rq, new, InRecv, HasRecv)
           /\ \A u \in Task : Promoted(table[u], new[u])
<1> DEFINE mid == GrantSend(sq, table)
<1>1. /\ mid \in [Task -> SslTask] /\ LockOK(sq, mid, InSend, HasSend)
      /\ \A u \in Task : Promoted(table[u], mid[u])
      /\ \A u \in Task : table[u].pc \in InRecv \/ mid[u].pc \in InRecv => mid[u].pc = table[u].pc
    BY GrantSendLock
<1>2. new = Granted(rq, mid, "recv_line", "receiving")
    OBVIOUS
<1> HIDE DEF mid
<1>3. Lined(rq, mid, InRecv, HasRecv)
    BY <1>1, SameLock, TwoLocks
<1>4. /\ new \in [Task -> SslTask] /\ LockOK(rq, new, InRecv, HasRecv)
      /\ \A u \in Task : Promoted(mid[u], new[u])
      /\ \A u \in Task : mid[u].pc \in InSend \/ new[u].pc \in InSend => new[u].pc = mid[u].pc
    BY <1>1, <1>2, <1>3, GrantRecvLock
<1>5. LockOK(sq, new, InSend, HasSend)
    BY <1>1, <1>4, SameLock, TwoLocks
<1> QED
    BY <1>1, <1>4, <1>5, PromotedTwice

\* A task leaves a line ...
LEMMA LeaveLine ==
    ASSUME NEW table \in [Task -> SslTask], NEW t \in Task, NEW r \in SslTask, NEW q, NEW in, NEW has,
           has \subseteq in, Lined(q, table, in, has), r.pc \notin in
    PROVE  Lined(RemoveFirst(q, t), [table EXCEPT ![t] = r], in, has)
<1> DEFINE p == RemoveFirst(q, t)
           new == [table EXCEPT ![t] = r]
<1>1. /\ p \in Seq(Task) /\ IsInjective(p) /\ ToSet(p) = ToSet(q) \ {t}
      /\ q # <<>> /\ Head(q) # t => p # <<>> /\ Head(p) = Head(q)
    BY RemoveFirstQueue DEF Lined
<1>2. new[t] = r /\ \A u \in Task : u # t => new[u] = table[u]
    OBVIOUS
<1> HIDE DEF p, new
<1>3. Lined(p, new, in, has)
    BY <1>1, <1>2 DEF Lined
<1> QED
    BY <1>3 DEF p, new

\* ... joins one ...
LEMMA JoinLine ==
    ASSUME NEW table \in [Task -> SslTask], NEW t \in Task, NEW r \in SslTask, NEW q, NEW in, NEW has,
           has \subseteq in, Lined(q, table, in, has), table[t].pc \notin in, r.pc \in in \ has
    PROVE  Lined(Append(q, t), [table EXCEPT ![t] = r], in, has)
<1> DEFINE p == Append(q, t)
           new == [table EXCEPT ![t] = r]
<1>1. q \in Seq(Task) /\ IsInjective(q) /\ t \notin ToSet(q)
    BY DEF Lined
<1>2. p \in Seq(Task) /\ IsInjective(p) /\ ToSet(p) = ToSet(q) \cup {t} /\ p # <<>>
    BY <1>1, AppendQueue, AppendDistinct
<1>3. q # <<>> => Head(p) = Head(q)
    BY <1>1
<1>4. new[t] = r /\ \A u \in Task : u # t => new[u] = table[u]
    OBVIOUS
<1> HIDE DEF p, new
<1>5. Lined(p, new, in, has)
    BY <1>2, <1>3, <1>4 DEF Lined
<1> QED
    BY <1>5 DEF p, new

\* ... or has nothing to do with it
LEMMA StayOut ==
    ASSUME NEW table \in [Task -> SslTask], NEW t \in Task, NEW r \in SslTask, NEW q, NEW in, NEW has,
           has \subseteq in, table[t].pc \notin in, r.pc \notin in
    PROVE  /\ Lined(q, table, in, has) => Lined(q, [table EXCEPT ![t] = r], in, has)
           /\ LockOK(q, table, in, has) => LockOK(q, [table EXCEPT ![t] = r], in, has)
<1> DEFINE new == [table EXCEPT ![t] = r]
<1>1. new[t] = r /\ \A u \in Task : u # t => new[u] = table[u]
    OBVIOUS
<1> HIDE DEF new
<1>2. \A u \in Task : table[u].pc \in in \/ new[u].pc \in in => new[u].pc = table[u].pc
    BY <1>1
<1>3. /\ Lined(q, table, in, has) => Lined(q, new, in, has)
      /\ LockOK(q, table, in, has) => LockOK(q, new, in, has)
    BY <1>2, SameLock
<1> QED
    BY <1>3 DEF new

\* The step puts t into r and may hand a lock to somebody
Moved(t, r) ==
    /\ r \in SslTask /\ task' \in [Task -> SslTask]
    /\ LockOK(sendq', task', InSend, HasSend) /\ LockOK(recvq', task', InRecv, HasRecv)
    /\ Promoted(r, task'[t]) /\ \A u \in Task \ {t} : Promoted(task[u], task'[u])

\* A step outside of the locks
LEMMA MovedOutside ==
    ASSUME SSLInv, NEW t \in Task, NEW r \in SslTask,
           task[t].pc \notin InSend \cup InRecv, r.pc \notin InSend \cup InRecv,
           task' = [task EXCEPT ![t] = r], sendq' = sendq, recvq' = recvq
    PROVE  Moved(t, r)
<1>1. task \in [Task -> SslTask] /\ task' \in [Task -> SslTask]
    BY DEF SSLInv, SSLTypeOK
<1>2. LockOK(sendq, task', InSend, HasSend) /\ LockOK(recvq, task', InRecv, HasRecv)
    BY <1>1, StayOut, TwoLocks DEF SSLInv
<1>3. task'[t] = r /\ \A u \in Task \ {t} : task'[u] = task[u]
    BY <1>1
<1> QED
    BY <1>1, <1>2, <1>3 DEF Moved, Promoted

\* A step that may end by handing on the locks
LEMMA MovedBoth ==
    ASSUME NEW t \in Task, NEW r \in SslTask, task \in [Task -> SslTask],
           Lined(sendq', [task EXCEPT ![t] = r], InSend, HasSend),
           Lined(recvq', [task EXCEPT ![t] = r], InRecv, HasRecv),
           \/ task' = Granted(recvq', GrantSend(sendq', [task EXCEPT ![t] = r]), "recv_line", "receiving")
           \/ /\ task' = GrantSend(sendq', [task EXCEPT ![t] = r])
              /\ LockOK(recvq', [task EXCEPT ![t] = r], InRecv, HasRecv)
           \/ /\ task' = Granted(recvq', [task EXCEPT ![t] = r], "recv_line", "receiving")
              /\ LockOK(sendq', [task EXCEPT ![t] = r], InSend, HasSend)
    PROVE  Moved(t, r)
<1> DEFINE table == [task EXCEPT ![t] = r]
<1>1. /\ table \in [Task -> SslTask] /\ table[t] = r
      /\ \A u \in Task \ {t} : table[u] = task[u]
    OBVIOUS
<1>2. /\ Lined(sendq', table, InSend, HasSend) /\ Lined(recvq', table, InRecv, HasRecv)
      /\ \/ task' = Granted(recvq', GrantSend(sendq', table), "recv_line", "receiving")
         \/ task' = GrantSend(sendq', table) /\ LockOK(recvq', table, InRecv, HasRecv)
         \/ /\ task' = Granted(recvq', table, "recv_line", "receiving")
            /\ LockOK(sendq', table, InSend, HasSend)
    OBVIOUS
<1> HIDE DEF table
<1>3. /\ task' \in [Task -> SslTask]
      /\ LockOK(sendq', task', InSend, HasSend) /\ LockOK(recvq', task', InRecv, HasRecv)
      /\ \A u \in Task : Promoted(table[u], task'[u])
    <2>1. CASE task' = Granted(recvq', GrantSend(sendq', table), "recv_line", "receiving")
        BY <1>1, <1>2, <2>1, GrantLocks
    <2>2. CASE task' = GrantSend(sendq', table) /\ LockOK(recvq', table, InRecv, HasRecv)
        <3>1. /\ task' \in [Task -> SslTask] /\ LockOK(sendq', task', InSend, HasSend)
              /\ \A u \in Task : Promoted(table[u], task'[u])
              /\ \A u \in Task : table[u].pc \in InRecv \/ task'[u].pc \in InRecv => task'[u].pc = table[u].pc
            BY <1>1, <1>2, <2>2, GrantSendLock
        <3>2. LockOK(recvq', task', InRecv, HasRecv)
            BY <2>2, <3>1, SameLock, TwoLocks
        <3> QED
            BY <3>1, <3>2
    <2>3. CASE /\ task' = Granted(recvq', table, "recv_line", "receiving")
               /\ LockOK(sendq', table, InSend, HasSend)
        <3>1. /\ task' \in [Task -> SslTask] /\ LockOK(recvq', task', InRecv, HasRecv)
              /\ \A u \in Task : Promoted(table[u], task'[u])
              /\ \A u \in Task : table[u].pc \in InSend \/ task'[u].pc \in InSend => task'[u].pc = table[u].pc
            BY <1>1, <1>2, <2>3, GrantRecvLock
        <3>2. LockOK(sendq', task', InSend, HasSend)
            <4>1. LockOK(sendq', table, InSend, HasSend) => LockOK(sendq', task', InSend, HasSend)
                BY ONLY <3>1, SameLock, TwoLocks
            <4> QED
                BY <2>3, <4>1
        <3> QED
            BY <3>1, <3>2
    <2> QED
        BY <1>2, <2>1, <2>2, <2>3
<1> QED
    BY <1>1, <1>3 DEF Moved

--------------------------------------------------------------------------------
(* Fitting in                                                                  *)

LEMMA FitsPromoted ==
    ASSUME NEW x, NEW y, NEW h, NEW c, NEW st, NEW s, NEW none,
           Promoted(x, y), Fits(x, h, c, st, s, none)
    PROVE  Fits(y, h, c, st, s, none)
    BY DEF Promoted, Fits, Busy, InRecv

\* The handshake begins or ends, delayed records go out
LEMMA FitsOnce ==
    ASSUME NEW x, NEW h, NEW h2, NEW c, NEW st, NEW s, NEW none, NEW none2,
           Fits(x, h, c, st, s, none), none => none2,
           h2 = h \/ (h = "no" /\ h2 = "started") \/ (h2 = "done" /\ x.fn # "handshake")
    PROVE  Fits(x, h2, c, st, s, none2)
    BY DEF Fits

\* Somebody receives
LEMMA FitsReceive ==
    ASSUME NEW x \in SslTask, NEW h, NEW c \in Nat, NEW st, NEW st2, NEW s, NEW none,
           Fits(x, h, c, st, s, none)
    PROVE  Fits(x, h, c + 1, st2, s, none)
<1>1. x.seen \in Nat
    BY DEF SslTask
<1> QED
    BY <1>1 DEF Fits

\* What the SSLObject answers
LEMMA CallFacts ==
    ASSUME SSLTypeOK, NEW f \in Fn, NEW r, r = SslCall(f)
    PROVE  /\ r.ret \in {"done", "want", "error"} /\ r.emit \in {0, 1} /\ r.used \in {0, 1}
           /\ r.phase \in {"start", "await", "ready", "reneg"}
           /\ r.ret = "want" /\ r.emit = 0 => Starved
           /\ r.used = 1 => incoming # <<>>
           /\ r.ret = "want" /\ f = "write" => r.phase # "ready"
           /\ f = "handshake" /\ r.ret = "want" /\ ssl.phase \in {"start", "await"} =>
                 r.phase \in {"start", "await"}
           /\ Starved => r.used = 0 /\ (r.phase = "ready" => ssl.phase = "ready")
           /\ Starved /\ r.ret = "done" => f = "write" /\ ssl.phase = "ready" /\ ~ssl.shut
<1>1. \A m : (Starved => ~Got(m)) /\ (Got(m) => incoming # <<>>)
    BY DEF Starved, Got
<1>2. ssl.phase \in {"start", "await", "ready", "reneg"}
    BY DEF SSLTypeOK
<1>3. CASE f = "handshake"
    <2>1. r = HandshakeCall
        BY <1>3 DEF SslCall
    <2> QED
        BY <1>1, <1>2, <1>3, <2>1 DEF HandshakeCall, Outcome, Nothing
<1>4. CASE f = "read"
    <2>1. r = ReadCall
        BY <1>4 DEF SslCall
    <2> QED
        BY <1>1, <1>2, <1>4, <2>1 DEF ReadCall, Outcome, Nothing
<1>5. CASE f = "write"
    <2>1. r = WriteCall
        BY <1>5 DEF SslCall
    <2> QED
        BY <1>1, <1>2, <1>5, <2>1 DEF WriteCall, Outcome, Nothing
<1>6. CASE f = "unwrap"
    <2>1. r = UnwrapCall
        BY <1>6 DEF SslCall
    <2> QED
        BY <1>1, <1>2, <1>6, <2>1 DEF UnwrapCall, Outcome, Nothing
<1> QED
    BY <1>3, <1>4, <1>5, <1>6 DEF Fn

--------------------------------------------------------------------------------
(* The records                                                                 *)

\* What everybody has after a step of t
LEMMA OutsAfter ==
    ASSUME NEW t \in Task, NEW r, Moved(t, r)
    PROVE  /\ task'[t].out = r.out /\ \A u \in Task \ {t} : task'[u].out = task[u].out
           /\ Out(task', t) = ToSet(r.out) /\ \A u \in Task \ {t} : Out(task', u) = Out(task, u)
    BY DEF Moved, Promoted, Out

\* A line that somebody has left, or joined with records above the others'
LEMMA LineAfter ==
    ASSUME SSLInv, NEW t \in Task, NEW r, Moved(t, r),
           \/ sendq' \in {sendq, RemoveFirst(sendq, t)} /\ ToSet(r.out) = {}
           \/ /\ sendq' = Append(sendq, t) /\ t \notin ToSet(sendq)
              /\ \A u \in Task \ {t} : Below(Out(task, u), ToSet(r.out))
    PROVE  LineRises(sendq', task')
<1>1. /\ sendq \in Seq(Task) /\ IsInjective(sendq) /\ LineRises(sendq, task)
      /\ Len(sendq) \in Nat /\ DOMAIN sendq = 1 .. Len(sendq) /\ \A i \in DOMAIN sendq : sendq[i] \in Task
    BY DEF SSLInv, LockOK, Lined
<1>2. Out(task', t) = ToSet(r.out) /\ \A u \in Task \ {t} : Out(task', u) = Out(task, u)
    BY OutsAfter
<1>3. CASE sendq' \in {sendq, RemoveFirst(sendq, t)} /\ ToSet(r.out) = {}
    <2>1. \A u \in Task : Out(task', u) \subseteq Out(task, u)
        BY <1>2, <1>3
    <2> SUFFICES ASSUME NEW i \in DOMAIN sendq', NEW j \in DOMAIN sendq', i < j
                 PROVE  Below(Out(task', sendq'[i]), Out(task', sendq'[j]))
        BY DEF LineRises
    <2>2. PICK k \in DOMAIN sendq, l \in DOMAIN sendq : k < l /\ sendq'[i] = sendq[k] /\ sendq'[j] = sendq[l]
        <3>1. CASE sendq' = sendq
            BY <3>1
        <3>2. CASE sendq' = RemoveFirst(sendq, t)
            <4>0. sendq \in Seq(Task) /\ IsInjective(sendq)
                BY <1>1
            <4>1. \A a, b \in DOMAIN RemoveFirst(sendq, t) : a < b =>
                    \E k, l \in DOMAIN sendq : /\ k < l /\ RemoveFirst(sendq, t)[a] = sendq[k]
                                                /\ RemoveFirst(sendq, t)[b] = sendq[l]
                BY ONLY <4>0, RemoveFirstQueue
            <4> QED
                BY <3>2, <4>1
        <3> QED
            BY <1>3, <3>1, <3>2
    <2>3. Below(Out(task, sendq[k]), Out(task, sendq[l])) /\ sendq[k] \in Task /\ sendq[l] \in Task
        BY <1>1, <2>2 DEF LineRises
    <2> QED
        BY <2>1, <2>2, <2>3 DEF Below
<1>4. CASE /\ sendq' = Append(sendq, t) /\ t \notin ToSet(sendq)
           /\ \A u \in Task \ {t} : Below(Out(task, u), ToSet(r.out))
    <2>1. /\ DOMAIN sendq' = 1 .. Len(sendq) + 1 /\ sendq'[Len(sendq) + 1] = t
          /\ \A i \in 1 .. Len(sendq) : sendq'[i] = sendq[i]
        <3>1. /\ sendq' \in Seq(Task) /\ Len(sendq') = Len(sendq) + 1 /\ sendq'[Len(sendq) + 1] = t
              /\ \A i \in 1 .. Len(sendq) : sendq'[i] = sendq[i]
            <4>1. sendq \in Seq(Task) /\ t \in Task
                BY <1>1
            <4>2. /\ Append(sendq, t) \in Seq(Task) /\ Len(Append(sendq, t)) = Len(sendq) + 1
                  /\ Append(sendq, t)[Len(sendq) + 1] = t
                  /\ \A i \in 1 .. Len(sendq) : Append(sendq, t)[i] = sendq[i]
                BY ONLY <4>1, AppendQueue
            <4> QED
                BY <1>4, <4>2
        <3> QED
            BY <1>1, <3>1
    <2>2. \A i \in DOMAIN sendq : sendq[i] # t
        BY <1>4 DEF ToSet
    <2> SUFFICES ASSUME NEW i \in DOMAIN sendq', NEW j \in DOMAIN sendq', i < j
                 PROVE  Below(Out(task', sendq'[i]), Out(task', sendq'[j]))
        BY DEF LineRises
    <2>3. i \in DOMAIN sendq /\ sendq'[i] = sendq[i] /\ sendq[i] \in Task \ {t}
        BY <1>1, <2>1, <2>2
    <2>4. CASE j \in DOMAIN sendq
        <3>1. sendq'[j] = sendq[j] /\ sendq[j] \in Task \ {t}
            BY <1>1, <2>1, <2>2, <2>4
        <3>2. Below(Out(task, sendq[i]), Out(task, sendq[j]))
            BY <1>1, <2>3, <2>4 DEF LineRises
        <3> QED
            BY <1>2, <2>3, <3>1, <3>2
    <2>5. CASE j \notin DOMAIN sendq
        <3>1. sendq'[j] = t
            BY <1>1, <2>1, <2>5
        <3> QED
            BY <1>2, <1>4, <2>3, <3>1
    <2> QED
        BY <2>4, <2>5
<1> QED
    BY <1>3, <1>4

\* A step that takes no new records: t gives up those it had, if any
LEMMA RecordsLeave ==
    ASSUME SSLInv, NEW t \in Task, NEW r, Moved(t, r), r.out = <<>>,
           made' = made, wire' = wire, delayed' \in {delayed, <<>>}, dropped \subseteq dropped',
           \/ sendq' \in {sendq, RemoveFirst(sendq, t)}
           \/ sendq' = Append(sendq, t) /\ t \notin ToSet(sendq),
           state' = "OK" => state = "OK" /\ delayed' = delayed /\ Out(task, t) \subseteq dropped'
    PROVE  /\ Ordered(made', wire', delayed', task') /\ LineRises(sendq', task')
           /\ state' = "OK" => Accounted(made', wire', delayed', dropped', task')
<1>1. /\ task'[t].out = <<>> /\ \A u \in Task \ {t} : task'[u].out = task[u].out
      /\ Out(task', t) = {} /\ \A u \in Task \ {t} : Out(task', u) = Out(task, u)
    BY OutsAfter, EmptyQueue
<1>2. ToSet(r.out) = {} /\ \A u \in Task \ {t} : Below(Out(task, u), ToSet(r.out))
    BY EmptyQueue DEF Below
<1>3. LineRises(sendq', task')
    BY <1>2, LineAfter
<1>4. ToSet(delayed') \subseteq ToSet(delayed) /\ delayed' \in Seq(Nat) /\ Rising(delayed')
    <2>1. delayed \in Seq(Nat) /\ Rising(delayed)
        BY DEF SSLInv, Ordered
    <2>2. ToSet(<<>>) = {} /\ <<>> \in Seq(Nat) /\ Rising(<<>>)
        BY EmptyQueue DEF Rising
    <2> QED
        BY <2>1, <2>2
<1>5. Ordered(made', wire', delayed', task')
    <2>1. ASSUME NEW u \in Task
          PROVE  /\ Rising(task'[u].out) /\ Out(task', u) \subseteq 0 .. made
                 /\ Below(ToSet(wire), Out(task', u)) /\ Below(ToSet(delayed'), Out(task', u))
        <3>1. CASE u = t
            BY <1>1, <3>1 DEF Rising, Below
        <3>2. CASE u # t
            <4>1. /\ Rising(task[u].out) /\ Out(task, u) \subseteq 0 .. made
                  /\ Below(ToSet(wire), Out(task, u)) /\ Below(ToSet(delayed), Out(task, u))
                BY DEF SSLInv, Ordered
            <4> QED
                BY <1>1, <1>4, <3>2, <4>1 DEF Below
        <3> QED
            BY <3>1, <3>2
    <2>2. /\ made \in Nat /\ wire \in Seq(Nat) /\ Rising(wire) /\ Below(ToSet(wire), ToSet(delayed))
          /\ ToSet(wire) \cup ToSet(delayed) \subseteq 0 .. made
        BY DEF SSLInv, Ordered
    <2>3. Below(ToSet(wire), ToSet(delayed')) /\ ToSet(wire) \cup ToSet(delayed') \subseteq 0 .. made
        BY <1>4, <2>2 DEF Below
    <2> QED
        BY <1>4, <2>1, <2>2, <2>3 DEF Ordered
<1>6. ASSUME state' = "OK"
      PROVE  Accounted(made', wire', delayed', dropped', task')
    <2>1. Accounted(made, wire, delayed, dropped, task) /\ delayed' = delayed /\ Out(task, t) \subseteq dropped'
        BY <1>6 DEF SSLInv
    <2> SUFFICES ASSUME NEW k \in 1 .. made,
                        k \notin ToSet(wire) \cup ToSet(delayed) \cup dropped'
                 PROVE  \E u \in Task : k \in Out(task', u)
        BY <2>1 DEF Accounted
    <2>2. PICK u \in Task : k \in Out(task, u)
        BY <2>1 DEF Accounted
    <2> QED
        BY <1>1, <2>1, <2>2
<1> QED
    BY <1>3, <1>5, <1>6

\* The records one call makes: none, or one
LEMMA NewRecordsAre ==
    ASSUME made \in Nat, NEW n \in {0, 1}
    PROVE  /\ NewRecords(n) \in Seq(Nat) /\ Rising(NewRecords(n))
           /\ ToSet(NewRecords(n)) = (made + 1) .. (made + n)
           /\ NewRecords(n) = <<>> <=> n = 0
<1>1. DOMAIN NewRecords(n) = 1 .. n /\ \A i \in 1 .. n : NewRecords(n)[i] = made + i
    BY DEF NewRecords
<1>2. NewRecords(n) \in Seq(Nat) /\ Len(NewRecords(n)) = n
    BY DEF NewRecords
<1>3. Rising(NewRecords(n))
    BY <1>1 DEF Rising
<1>4. ToSet(NewRecords(n)) = (made + 1) .. (made + n)
    <2>1. CASE n = 0
        BY <1>1, <2>1 DEF ToSet
    <2>2. CASE n = 1
        <3>1. \A x : x \in (made + 1) .. (made + 1) <=> x = made + 1
            OBVIOUS
        <3> QED
            BY <1>1, <2>2, <3>1 DEF ToSet
    <2> QED
        BY <2>1, <2>2
<1> QED
    BY <1>2, <1>3, <1>4, EmptyLen

\* Records are made, and their task gets in line for the send lock with them
LEMMA RecordsJoin ==
    ASSUME SSLInv, NEW t \in Task, NEW r, Moved(t, r), NEW n \in {0, 1},
           r.out = NewRecords(n), task[t].out = <<>>, t \notin ToSet(sendq), sendq' = Append(sendq, t),
           made' = made + n, wire' = wire, delayed' = delayed, dropped' = dropped, state' = state
    PROVE  /\ Ordered(made', wire', delayed', task') /\ LineRises(sendq', task')
           /\ state' = "OK" => Accounted(made', wire', delayed', dropped', task')
<1>0. /\ made \in Nat /\ wire \in Seq(Nat) /\ delayed \in Seq(Nat)
      /\ Rising(wire) /\ Rising(delayed) /\ Below(ToSet(wire), ToSet(delayed))
      /\ ToSet(wire) \subseteq 0 .. made /\ ToSet(delayed) \subseteq 0 .. made
      /\ \A u \in Task : /\ Rising(task[u].out) /\ Out(task, u) \subseteq 0 .. made
                         /\ Below(ToSet(wire), Out(task, u)) /\ Below(ToSet(delayed), Out(task, u))
    BY DEF SSLInv, Ordered
<1>1. Rising(r.out) /\ ToSet(r.out) = (made + 1) .. (made + n)
    BY <1>0, NewRecordsAre
<1>2. /\ task'[t].out = r.out /\ \A u \in Task \ {t} : task'[u].out = task[u].out
      /\ Out(task', t) = ToSet(r.out) /\ \A u \in Task \ {t} : Out(task', u) = Out(task, u)
    BY OutsAfter
<1>3. ASSUME NEW S, S \subseteq 0 .. made
      PROVE  Below(S, ToSet(r.out)) /\ S \subseteq 0 .. made + n
    BY <1>0, <1>1, <1>3 DEF Below
<1>4. LineRises(sendq', task')
    <2>1. \A u \in Task \ {t} : Below(Out(task, u), ToSet(r.out))
        BY <1>0, <1>3
    <2> QED
        BY <2>1, LineAfter
<1>5. ASSUME NEW u \in Task
      PROVE  /\ Rising(task'[u].out) /\ Out(task', u) \subseteq 0 .. made + n
             /\ Below(ToSet(wire), Out(task', u)) /\ Below(ToSet(delayed), Out(task', u))
    <2>1. CASE u = t
        <3>1. ToSet(r.out) \subseteq 0 .. made + n
            BY <1>0, <1>1
        <3> QED
            BY <1>0, <1>1, <1>2, <1>3, <2>1, <3>1
    <2>2. CASE u # t
        BY <1>0, <1>2, <1>3, <2>2
    <2> QED
        BY <2>1, <2>2
<1>6. Ordered(made', wire', delayed', task')
    <2>1. made + n \in Nat /\ ToSet(wire) \cup ToSet(delayed) \subseteq 0 .. made + n
        BY <1>0, <1>3
    <2> QED
        BY <1>0, <1>5, <2>1 DEF Ordered
<1>7. ASSUME state' = "OK"
      PROVE  Accounted(made', wire', delayed', dropped', task')
    <2>1. Accounted(made, wire, delayed, dropped, task)
        BY <1>7 DEF SSLInv
    <2> SUFFICES ASSUME NEW k \in 1 .. made + n, k \notin ToSet(wire) \cup ToSet(delayed) \cup dropped
                 PROVE  \E u \in Task : k \in Out(task', u)
        BY DEF Accounted
    <2>2. CASE k \in 1 .. made
        <3>1. PICK u \in Task : k \in Out(task, u)
            BY <2>1, <2>2 DEF Accounted
        <3>2. u # t
            BY <3>1, EmptyQueue DEF Out
        <3> QED
            BY <1>2, <3>1, <3>2
    <2>3. CASE k \notin 1 .. made
        <3>1. k \in (made + 1) .. (made + n)
            BY <1>0, <2>3
        <3> QED
            BY <1>1, <1>2, <3>1
    <2> QED
        BY <2>2, <2>3
<1> QED
    BY <1>4, <1>6, <1>7

\* The session tickets are made, and held back
LEMMA RecordsDelayed ==
    ASSUME SSLInv, NEW t \in Task, NEW r, Moved(t, r), NEW n \in {0, 1},
           r.out = <<>>, \A u \in Task : task[u].out = <<>>, delayed = <<>>, sendq' = sendq,
           made' = made + n, wire' = wire, delayed' = NewRecords(n), dropped' = dropped, state' = state
    PROVE  /\ Ordered(made', wire', delayed', task') /\ LineRises(sendq', task')
           /\ state' = "OK" => Accounted(made', wire', delayed', dropped', task')
<1>0. /\ made \in Nat /\ wire \in Seq(Nat) /\ Rising(wire) /\ ToSet(wire) \subseteq 0 .. made
    BY DEF SSLInv, Ordered
<1>1. /\ delayed' \in Seq(Nat) /\ Rising(delayed') /\ ToSet(delayed') = (made + 1) .. (made + n)
      /\ ToSet(delayed) = {}
    BY <1>0, NewRecordsAre, EmptyQueue
<1>2. \A u \in Task : task'[u].out = <<>> /\ Out(task', u) = {} /\ Out(task, u) = {}
    BY OutsAfter, EmptyQueue DEF Out
<1>3. LineRises(sendq', task')
    BY LineAfter, EmptyQueue
<1>4. Below(ToSet(wire), ToSet(delayed')) /\ ToSet(wire) \cup ToSet(delayed') \subseteq 0 .. made + n
    BY <1>0, <1>1 DEF Below
<1>5. Ordered(made', wire', delayed', task')
    BY <1>0, <1>1, <1>2, <1>4 DEF Ordered, Rising, Below
<1>6. ASSUME state' = "OK"
      PROVE  Accounted(made', wire', delayed', dropped', task')
    <2>1. \A k \in 1 .. made : k \in ToSet(wire) \cup dropped
        BY <1>1, <1>2, <1>6 DEF SSLInv, Accounted
    <2>2. \A k \in 1 .. made + n : k \in 1 .. made \/ k \in (made + 1) .. (made + n)
        BY <1>0
    <2> QED
        BY <1>1, <2>1, <2>2 DEF Accounted
<1> QED
    BY <1>3, <1>5, <1>6

\* The holder of the send lock puts the delayed records and its own on the wire
LEMMA RecordsSent ==
    ASSUME SSLInv, NEW t \in Task, NEW r, Moved(t, r), task[t].pc = "sending", r.out = <<>>,
           sendq' = RemoveFirst(sendq, t), made' = made, wire' = wire \o (delayed \o task[t].out),
           delayed' = <<>>, dropped' = dropped, state' = "OK" => state = "OK"
    PROVE  /\ Ordered(made', wire', delayed', task') /\ LineRises(sendq', task')
           /\ state' = "OK" => Accounted(made', wire', delayed', dropped', task')
<1>0. /\ made \in Nat /\ wire \in Seq(Nat) /\ delayed \in Seq(Nat)
      /\ Rising(wire) /\ Rising(delayed) /\ Below(ToSet(wire), ToSet(delayed))
      /\ ToSet(wire) \subseteq 0 .. made /\ ToSet(delayed) \subseteq 0 .. made
      /\ \A u \in Task : /\ Rising(task[u].out) /\ Out(task, u) \subseteq 0 .. made
                         /\ Below(ToSet(wire), Out(task, u)) /\ Below(ToSet(delayed), Out(task, u))
    BY DEF SSLInv, Ordered
<1>1. task[t].out \in Seq(Nat)
    BY DEF SSLInv, SSLTypeOK, SslTask
<1>2. /\ delayed \o task[t].out \in Seq(Nat) /\ Rising(delayed \o task[t].out)
      /\ ToSet(delayed \o task[t].out) = ToSet(delayed) \cup Out(task, t)
    BY <1>0, <1>1, RisingConcat DEF Out
<1>3. Below(ToSet(wire), ToSet(delayed \o task[t].out))
    BY <1>0, <1>2 DEF Below
<1>4. /\ wire' \in Seq(Nat) /\ Rising(wire')
      /\ ToSet(wire') = ToSet(wire) \cup ToSet(delayed) \cup Out(task, t)
    <2> DEFINE tail == delayed \o task[t].out
    <2>1. /\ tail \in Seq(Nat) /\ Rising(tail) /\ ToSet(tail) = ToSet(delayed) \cup Out(task, t)
          /\ Below(ToSet(wire), ToSet(tail)) /\ wire' = wire \o tail
        BY <1>2, <1>3
    <2> HIDE DEF tail
    <2>2. wire \o tail \in Seq(Nat) /\ Rising(wire \o tail) /\ ToSet(wire \o tail) = ToSet(wire) \cup ToSet(tail)
        BY <1>0, <2>1, RisingConcat
    <2> QED
        BY <2>1, <2>2
<1>5. /\ task'[t].out = <<>> /\ \A u \in Task \ {t} : task'[u].out = task[u].out
      /\ Out(task', t) = {} /\ \A u \in Task \ {t} : Out(task', u) = Out(task, u)
    BY OutsAfter, EmptyQueue
<1>6. LineRises(sendq', task')
    BY LineAfter, EmptyQueue
<1>7. ASSUME NEW u \in Task \ {t}
      PROVE  Below(Out(task, t), Out(task, u))
    <2>1. CASE task[u].out = <<>>
        BY <2>1, EmptyQueue DEF Below, Out
    <2>2. CASE task[u].out # <<>>
        <3>1. task[u].pc \in InSend /\ task[t].pc \in HasSend
            BY <2>2 DEF SSLInv, Fits, InSend, HasSend
        <3>2. sendq \in Seq(Task) /\ u \in ToSet(sendq) /\ sendq # <<>> /\ Head(sendq) = t
            BY <3>1 DEF SSLInv, LockOK, Lined
        <3>3. PICK i \in DOMAIN sendq : sendq[i] = u
            BY <3>2 DEF ToSet
        <3>4. sendq[1] = t /\ 1 \in DOMAIN sendq
            BY <3>2, TailQueue
        <3>5. 1 < i
            BY <3>2, <3>3, <3>4, <1>7
        <3> QED
            BY <3>3, <3>4, <3>5 DEF SSLInv, LineRises
    <2> QED
        BY <2>1, <2>2
<1>8. Ordered(made', wire', delayed', task')
    <2>1. ASSUME NEW u \in Task
          PROVE  /\ Rising(task'[u].out) /\ Out(task', u) \subseteq 0 .. made
                 /\ Below(ToSet(wire'), Out(task', u)) /\ Below({}, Out(task', u))
        <3>1. CASE u = t
            BY <1>5, <3>1 DEF Rising, Below
        <3>2. CASE u # t
            BY <1>0, <1>4, <1>5, <1>7, <3>2 DEF Below
        <3> QED
            BY <3>1, <3>2
    <2>2. ToSet(delayed') = {} /\ delayed' \in Seq(Nat) /\ Rising(delayed')
        BY EmptyQueue DEF Rising
    <2>3. Below(ToSet(wire'), ToSet(delayed')) /\ ToSet(wire') \cup ToSet(delayed') \subseteq 0 .. made
        BY <1>0, <1>4, <2>2 DEF Below
    <2> QED
        BY <1>0, <1>4, <2>1, <2>2, <2>3 DEF Ordered
<1>9. ASSUME state' = "OK"
      PROVE  Accounted(made', wire', delayed', dropped', task')
    <2>1. Accounted(made, wire, delayed, dropped, task)
        BY <1>9 DEF SSLInv
    <2> SUFFICES ASSUME NEW k \in 1 .. made, k \notin ToSet(wire') \cup dropped
                 PROVE  \E u \in Task : k \in Out(task', u)
        BY DEF Accounted
    <2>2. PICK u \in Task : k \in Out(task, u)
        BY <1>4, <2>1 DEF Accounted
    <2> QED
        BY <1>4, <1>5, <2>2
<1> QED
    BY <1>6, <1>8, <1>9

--------------------------------------------------------------------------------
(* TLS: the actions                                                            *)

\* The types of everything but the tasks
RestTypeOK ==
    /\ once \in {"no", "started", "done"} /\ state \in {"OK", "BROKEN", "CLOSED"}
    /\ recvcount \in Nat /\ incoming \in Seq(Message) /\ eof \in BOOLEAN
    /\ ssl \in [phase : {"start", "await", "ready", "reneg"}, shut : BOOLEAN]

\* The records are in order after the step
RecordsOK ==
    /\ Ordered(made, wire, delayed, task) /\ LineRises(sendq, task)
    /\ state = "OK" => Accounted(made, wire, delayed, dropped, task)

\* x fits in
FitsNow(x) == Fits(x, once, recvcount, Starved, ssl, delayed = <<>>)

\* What a step of t has to show
LEMMA StepInv ==
    ASSUME SSLInv, NEW t \in Task, NEW r, Moved(t, r), RestTypeOK', RecordsOK',
           Fits(r, once', recvcount', Starved', ssl', delayed' = <<>>),
           \A u \in Task \ {t} : Fits(task[u], once', recvcount', Starved', ssl', delayed' = <<>>),
           r.fn = "handshake" => task[t].fn = "handshake" \/ once = "no",
           once' = "no" => once = "no" /\ ssl'.phase = ssl.phase /\ (delayed = <<>> => delayed' = <<>>)
    PROVE  SSLInv'
<1>1. SSLTypeOK'
    BY DEF Moved, RestTypeOK, SSLTypeOK
<1>2. LockOK(sendq', task', InSend, HasSend) /\ LockOK(recvq', task', InRecv, HasRecv)
    BY DEF Moved
<1>3. ASSUME NEW u \in Task
      PROVE  Fits(task'[u], once', recvcount', Starved', ssl', delayed' = <<>>)
    <2>1. CASE u = t
        BY <2>1, FitsPromoted DEF Moved
    <2>2. CASE u # t
        BY <2>2, FitsPromoted DEF Moved
    <2> QED
        BY <2>1, <2>2
<1>4. ASSUME NEW u \in Task, NEW v \in Task, task'[u].fn = "handshake", task'[v].fn = "handshake"
      PROVE  u = v
    <2>1. /\ task'[t].fn = r.fn /\ \A w \in Task \ {t} : task'[w].fn = task[w].fn
        BY DEF Moved, Promoted
    <2>2. \A w \in Task : task[w].fn = "handshake" => once # "no"
        BY DEF SSLInv, Fits
    <2>3. \A w, x \in Task : task[w].fn = "handshake" /\ task[x].fn = "handshake" => w = x
        BY DEF SSLInv
    <2> QED
        BY <1>4, <2>1, <2>2, <2>3
<1>5. once' = "no" => ssl'.phase = "start" /\ delayed' = <<>>
    BY DEF SSLInv
<1> QED
    BY <1>1, <1>2, <1>3, <1>4, <1>5 DEF SSLInv, RecordsOK

\* The values a task starts a stretch with
LEMMA StartValues ==
    /\ Idle \in SslTask /\ Idle.pc = "idle" /\ Idle.out = <<>> /\ Idle.fn = "none"
    /\ \A fn \in {"none", "unwrap"} :
          /\ Closing(fn) \in SslTask /\ Closing(fn).pc = "closing" /\ Closing(fn).out = <<>>
          /\ Closing(fn).fn = fn
<1>1. <<>> \in Seq(Nat)
    OBVIOUS
<1>2. Idle \in SslTask /\ Idle.pc = "idle" /\ Idle.out = <<>> /\ Idle.fn = "none"
    BY <1>1 DEF Idle, SslTask
<1>3. ASSUME NEW fn \in {"none", "unwrap"}
      PROVE  /\ Closing(fn) \in SslTask /\ Closing(fn).pc = "closing" /\ Closing(fn).out = <<>>
             /\ Closing(fn).fn = fn
    BY <1>1 DEF Closing, Idle, SslTask, Op, Fn
<1> QED
    BY <1>2, <1>3

\* A task on its way into a call
Stretch(pc, o, fn) == [Idle EXCEPT !.pc = pc, !.op = o, !.fn = fn]

LEMMA StretchValues ==
    ASSUME NEW pc \in {"call", "checkpoint", "once"}, NEW o \in Op, NEW fn \in Fn \cup {"none"}
    PROVE  /\ Stretch(pc, o, fn) \in SslTask /\ Stretch(pc, o, fn).pc = pc /\ Stretch(pc, o, fn).fn = fn
           /\ Stretch(pc, o, fn).op = o /\ Stretch(pc, o, fn).out = <<>> /\ ~Stretch(pc, o, fn).fin
<1>1. <<>> \in Seq(Nat)
    OBVIOUS
<1> QED
    BY <1>1 DEF Stretch, Idle, SslTask, Busy

LEMMA MainType ==
    ASSUME NEW o \in Op
    PROVE  Main(o) \in Fn \cup {"none"} /\ Main(o) # "handshake"
           /\ (o \notin {"do_handshake", "wait_writable"} => Main(o) \in Fn)
    BY DEF Main, Fn, Op

\* What is outside of _retry always fits
LEMMA FitsOutside ==
    ASSUME NEW x, NEW h, NEW c, NEW st, NEW s, NEW none, x.pc \notin Busy, x.out = <<>>, x.fn # "handshake",
           x.pc = "once" => x.op \in Op \ {"wait_writable"}
    PROVE  Fits(x, h, c, st, s, none)
    BY DEF Fits, Busy, InRecv

\* What others do fits when the handshake begins or ends, or delayed records go
LEMMA OthersOnce ==
    ASSUME SSLInv, NEW t \in Task, recvcount' = recvcount, incoming' = incoming, eof' = eof,
           ssl'.phase = ssl.phase, ssl.shut => ssl'.shut, delayed' \in {delayed, <<>>},
           \/ once' = once \/ (once = "no" /\ once' = "started")
           \/ once' = "done" /\ task[t].fn = "handshake"
    PROVE  \A u \in Task \ {t} : Fits(task[u], once', recvcount', Starved', ssl', delayed' = <<>>)
<1> SUFFICES ASSUME NEW u \in Task \ {t}
             PROVE  Fits(task[u], once', recvcount', Starved', ssl', delayed' = <<>>)
    OBVIOUS
<1>1. Starved' = Starved /\ (delayed = <<>> => delayed' = <<>>)
    BY DEF Starved
<1>2. Fits(task[u], once, recvcount, Starved, ssl, delayed = <<>>)
    BY DEF SSLInv
<1>3. once' = "done" /\ once' # once => task[u].fn # "handshake"
    BY DEF SSLInv
<1>4. Fits(task[u], once', recvcount, Starved, ssl, delayed' = <<>>)
    BY <1>1, <1>2, <1>3, FitsOnce
<1> QED
    BY <1>1, <1>4 DEF Fits

\* _Once.ensure(), for the callers that have found t idle
LEMMA EnsureStep ==
    ASSUME SSLInv, NEW t \in Task, NEW o \in Op, o # "wait_writable", task[t].pc = "idle", EnsureHandshake(t, o),
           UNCHANGED <<state, sendq, recvq, recvcount, delayed, incoming, eof, ssl, made, wire, dropped>>
    PROVE  SSLInv'
<1>1. /\ task \in [Task -> SslTask] /\ RestTypeOK
    BY DEF SSLInv, SSLTypeOK, RestTypeOK
<1>2. PICK pc \in {"call", "checkpoint", "once"}, fn \in Fn \cup {"none"} :
        /\ task' = [task EXCEPT ![t] = Stretch(pc, o, fn)]
        /\ \/ once = "no" /\ pc = "call" /\ fn = "handshake"
           \/ once = "done" /\ pc = "call" /\ fn \in Fn /\ fn # "handshake"
           \/ pc # "call" /\ fn = "none"
    BY MainType DEF EnsureHandshake, Fn, Stretch
<1> DEFINE r == Stretch(pc, o, fn)
<1>3. /\ r \in SslTask /\ r.pc = pc /\ r.op = o /\ r.fn = fn /\ r.out = <<>> /\ ~r.fin
      /\ task' = [task EXCEPT ![t] = r]
    <2>1. r \in SslTask /\ r.pc = pc /\ r.op = o /\ r.fn = fn /\ r.out = <<>> /\ ~r.fin
        BY StretchValues
    <2> QED
        BY <1>2, <2>1
<1> HIDE DEF r
<1>4. once' = once \/ (once = "no" /\ once' = "started")
    BY DEF EnsureHandshake
<1>5. Moved(t, r)
    <2>1. task[t].pc \notin InSend \cup InRecv /\ r.pc \notin InSend \cup InRecv
        BY <1>2, <1>3 DEF InSend, InRecv
    <2> QED
        BY <1>3, <2>1, MovedOutside
<1>6. RestTypeOK'
    BY <1>1, <1>4 DEF RestTypeOK
<1>7. Out(task, t) = {}
    BY EmptyQueue DEF SSLInv, Fits, Out
<1>8. RecordsOK'
    BY <1>3, <1>5, <1>7, RecordsLeave DEF RecordsOK
<1>9. Fits(r, once', recvcount', Starved', ssl', delayed' = <<>>)
    <2>1. CASE once = "no" /\ pc = "call" /\ fn = "handshake"
        <3>1. once' = "started" /\ ssl'.phase = "start" /\ delayed' = <<>>
            BY <2>1 DEF EnsureHandshake, SSLInv
        <3> QED
            BY <1>3, <2>1, <3>1 DEF Fits, Busy, Fn, InRecv
    <2>2. CASE once = "done" /\ pc = "call" /\ fn \in Fn /\ fn # "handshake"
        <3>1. once' = "done"
            BY <2>2 DEF EnsureHandshake
        <3> QED
            BY <1>3, <2>2, <3>1 DEF Fits, Busy, InRecv
    <2>3. CASE pc # "call" /\ fn = "none"
        <3>1. r.pc \notin Busy /\ r.fn # "handshake"
            BY <1>2, <1>3, <2>3 DEF Busy
        <3> QED
            BY <1>3, <3>1, FitsOutside
    <2> QED
        BY <1>2, <2>1, <2>2, <2>3
<1>10. \A u \in Task \ {t} : Fits(task[u], once', recvcount', Starved', ssl', delayed' = <<>>)
    BY <1>4, OthersOnce
<1>11. r.fn = "handshake" => once = "no"
    BY <1>2, <1>3
<1>12. once' = "no" => once = "no" /\ ssl'.phase = ssl.phase /\ (delayed = <<>> => delayed' = <<>>)
    BY <1>4
<1> QED
    BY <1>5, <1>6, <1>8, <1>9, <1>10, <1>11, <1>12, StepInv

\* A step that ends outside of _retry
LEMMA OutsideStep ==
    ASSUME SSLInv, NEW t \in Task, NEW r, Moved(t, r), r.pc \notin Busy \cup {"once"}, r.out = <<>>,
           r.fn # "handshake", RestTypeOK', RecordsOK', delayed' \in {delayed, <<>>},
           once' = once \/ (once' = "done" /\ task[t].fn = "handshake"),
           recvcount' = recvcount, incoming' = incoming, eof' = eof,
           ssl'.phase = ssl.phase, ssl.shut => ssl'.shut
    PROVE  SSLInv'
<1>1. Fits(r, once', recvcount', Starved', ssl', delayed' = <<>>)
    BY FitsOutside
<1>2. \A u \in Task \ {t} : Fits(task[u], once', recvcount', Starved', ssl', delayed' = <<>>)
    BY OthersOnce
<1>3. once' = "no" => once = "no" /\ ssl'.phase = ssl.phase /\ (delayed = <<>> => delayed' = <<>>)
    OBVIOUS
<1> QED
    BY <1>1, <1>2, <1>3, StepInv

\* Leaving both locks
LEMMA LeaveMoved ==
    ASSUME SSLInv, NEW t \in Task, NEW r \in SslTask, r.pc \notin InSend \cup InRecv, LeaveLocks(t, r)
    PROVE  Moved(t, r) /\ sendq' = RemoveFirst(sendq, t)
<1>1. task \in [Task -> SslTask] /\ sendq' = RemoveFirst(sendq, t) /\ recvq' = RemoveFirst(recvq, t)
    BY DEF SSLInv, SSLTypeOK, LeaveLocks
<1>2. Lined(sendq', [task EXCEPT ![t] = r], InSend, HasSend)
    BY <1>1, LeaveLine, TwoLocks DEF SSLInv, LockOK
<1>3. Lined(recvq', [task EXCEPT ![t] = r], InRecv, HasRecv)
    BY <1>1, LeaveLine, TwoLocks DEF SSLInv, LockOK
<1>4. task' = Granted(recvq', GrantSend(sendq', [task EXCEPT ![t] = r]), "recv_line", "receiving")
    BY <1>1 DEF LeaveLocks
<1> QED
    BY <1>1, <1>2, <1>3, <1>4, MovedBoth

\* An exception leaves _retry, _Once.ensure() or a wait
LEMMA RaiseStep ==
    ASSUME SSLInv, NEW t \in Task, NEW kind, NEW breaks \in BOOLEAN, Raise(t, kind, breaks),
           once' = once, recvcount' = recvcount, incoming' = incoming, eof' = eof, made' = made, wire' = wire,
           ssl' \in [phase : {ssl.phase}, shut : BOOLEAN], ssl.shut => ssl'.shut,
           delayed' \in {delayed, <<>>}, dropped \subseteq dropped',
           ~breaks => delayed' = delayed /\ Out(task, t) \subseteq dropped'
    PROVE  SSLInv'
<1> DEFINE r == IF task[t].op = "aclose" THEN Closing("unwrap") ELSE Idle
<1>1. r \in SslTask /\ r.pc \in {"closing", "idle"} /\ r.out = <<>> /\ r.fn # "handshake"
    BY StartValues
<1>2. LeaveLocks(t, r)
    BY DEF Raise
<1>3. state' = Broken(state, breaks \/ task[t].fn = "handshake")
    BY DEF Raise
<1> HIDE DEF r
<1>4. r.pc \notin InSend \cup InRecv /\ r.pc \notin Busy \cup {"once"}
    BY <1>1 DEF InSend, InRecv, Busy
<1>5. Moved(t, r) /\ sendq' = RemoveFirst(sendq, t)
    BY <1>1, <1>2, <1>4, LeaveMoved
<1>6. state' = "OK" => state = "OK" /\ ~breaks
    BY <1>3 DEF Broken
<1>7. RestTypeOK'
    BY <1>3 DEF Broken, RestTypeOK, SSLInv, SSLTypeOK
<1>8. RecordsOK'
    <2>1. state' = "OK" => state = "OK" /\ delayed' = delayed /\ Out(task, t) \subseteq dropped'
        BY <1>6
    <2> QED
        BY <1>1, <1>5, <2>1, RecordsLeave DEF RecordsOK
<1>9. ssl'.phase = ssl.phase
    OBVIOUS
<1> QED
    BY <1>1, <1>4, <1>5, <1>7, <1>8, <1>9, OutsideStep

\* Only those in line for the send lock, or with it, have records
LEMMA NoRecords ==
    ASSUME SSLInv, NEW t \in Task, task[t].pc \notin {"send_line", "sending"}
    PROVE  task[t].out = <<>> /\ Out(task, t) = {}
    BY EmptyQueue DEF SSLInv, Fits, Out

LEMMA ACloseStep ==
    ASSUME SSLInv, NEW t \in Task, AClose(t)
    PROVE  SSLInv'
<1>1. CASE state' = "CLOSED" /\ task' = [task EXCEPT ![t] = Closing("none")] /\ UNCHANGED <<once, running>>
    <2> DEFINE r == Closing("none")
    <2>1. r \in SslTask /\ r.pc = "closing" /\ r.out = <<>> /\ r.fn = "none"
        BY StartValues
    <2>2. task[t].pc = "idle" /\ task' = [task EXCEPT ![t] = r]
          /\ UNCHANGED <<sendq, recvq, recvcount, delayed, incoming, eof, ssl, made, wire, dropped>>
        BY <1>1 DEF AClose
    <2> HIDE DEF r
    <2>3. Moved(t, r)
        <3>1. task[t].pc \notin InSend \cup InRecv /\ r.pc \notin InSend \cup InRecv
            BY <2>1, <2>2 DEF InSend, InRecv
        <3> QED
            BY <2>1, <2>2, <3>1, MovedOutside
    <2>4. RestTypeOK'
        BY <1>1, <2>2 DEF RestTypeOK, SSLInv, SSLTypeOK
    <2>5. RecordsOK'
        BY <1>1, <2>1, <2>2, <2>3, RecordsLeave DEF RecordsOK
    <2>6. r.pc \notin Busy \cup {"once"}
        BY <2>1 DEF Busy
    <2> QED
        BY <1>1, <2>1, <2>2, <2>3, <2>4, <2>5, <2>6, OutsideStep
<1>2. CASE EnsureHandshake(t, "aclose") /\ UNCHANGED state
    <2>1. "aclose" \in Op
        BY DEF Op
    <2> QED
        BY <1>2, <2>1, EnsureStep DEF AClose
<1> QED
    BY <1>1, <1>2 DEF AClose

LEMMA WaitWritableStep ==
    ASSUME SSLInv, NEW t \in Task, WaitWritable(t)
    PROVE  SSLInv'
<1> DEFINE r == [Idle EXCEPT !.pc = "line", !.op = "wait_writable"]
<1>1. r \in SslTask /\ r.pc = "line" /\ r.out = <<>> /\ r.fn = "none"
    <2>1. <<>> \in Seq(Nat)
        OBVIOUS
    <2> QED
        BY <2>1 DEF Idle, SslTask, Op
<1>2. /\ task[t].pc = "idle" /\ sendq' = Append(sendq, t)
      /\ task' = GrantSend(sendq', [task EXCEPT ![t] = r])
      /\ UNCHANGED <<state, once, recvq, recvcount, delayed, incoming, eof, ssl, made, wire, dropped>>
    BY DEF WaitWritable
<1> HIDE DEF r
<1>3. task \in [Task -> SslTask] /\ RestTypeOK'
    BY <1>2 DEF SSLInv, SSLTypeOK, RestTypeOK
<1>4. /\ r.pc \in InSend \ HasSend /\ r.pc \notin InRecv /\ r.pc \notin Busy \cup {"once"}
      /\ task[t].pc \notin InSend /\ task[t].pc \notin InRecv
    BY <1>1, <1>2 DEF InSend, HasSend, InRecv, Busy
<1>5. Lined(sendq', [task EXCEPT ![t] = r], InSend, HasSend)
    BY <1>1, <1>2, <1>3, <1>4, JoinLine, TwoLocks DEF SSLInv, LockOK
<1>6. LockOK(recvq', [task EXCEPT ![t] = r], InRecv, HasRecv)
    BY <1>1, <1>2, <1>3, <1>4, StayOut, TwoLocks DEF SSLInv
<1>7. Moved(t, r)
    BY <1>1, <1>2, <1>3, <1>5, <1>6, MovedBoth DEF LockOK
<1>8. t \notin ToSet(sendq)
    BY <1>4 DEF SSLInv, LockOK, Lined
<1>9. Out(task, t) = {}
    BY <1>2, NoRecords
<1>10. RecordsOK'
    BY <1>1, <1>2, <1>7, <1>8, <1>9, RecordsLeave DEF RecordsOK
<1> QED
    BY <1>1, <1>2, <1>3, <1>4, <1>7, <1>10, OutsideStep

\* A step that ends in a call of the SSLObject, after the handshake
LEMMA CallStep ==
    ASSUME SSLInv, NEW t \in Task, NEW r, Moved(t, r), r.pc = "call", r.out = <<>>, r.fn \in Fn,
           r.op \in Op \ {"wait_writable"},
           RestTypeOK', RecordsOK', delayed' \in {delayed, <<>>},
           r.fn # "handshake", once' = "done", once = "done" \/ task[t].fn = "handshake",
           recvcount' = recvcount, incoming' = incoming, eof' = eof, ssl' = ssl
    PROVE  SSLInv'
<1>1. Fits(r, once', recvcount', Starved', ssl', delayed' = <<>>)
    BY DEF Fits, Busy, InRecv
<1>2. \A u \in Task \ {t} : Fits(task[u], once', recvcount', Starved', ssl', delayed' = <<>>)
    BY OthersOnce
<1> QED
    BY <1>1, <1>2, StepInv

\* The task of _Once.ensure() goes on
LEMMA HandshakeAwaitedStep ==
    ASSUME SSLInv, NEW t \in Task, HandshakeAwaited(t)
    PROVE  SSLInv'
<1> DEFINE o == task[t].op
           r == IF o = "do_handshake" THEN Idle ELSE Stretch("call", o, Main(o))
<1>1. /\ task[t].pc = "once" /\ once = "done" /\ task' = [task EXCEPT ![t] = r]
      /\ UNCHANGED <<state, once, sendq, recvq, recvcount, delayed, incoming, eof, ssl, made, wire, dropped>>
    BY DEF HandshakeAwaited, Stretch
<1>2. task \in [Task -> SslTask] /\ RestTypeOK'
    BY <1>1 DEF SSLInv, SSLTypeOK, RestTypeOK
<1>3. Out(task, t) = {}
    BY <1>1, NoRecords
<1>4. CASE o = "do_handshake"
    <2>1. r \in SslTask /\ r.pc = "idle" /\ r.out = <<>> /\ r.fn = "none"
        BY <1>4, StartValues
    <2> HIDE DEF r
    <2>2. task[t].pc \notin InSend \cup InRecv /\ r.pc \notin InSend \cup InRecv /\ r.pc \notin Busy \cup {"once"}
        BY <1>1, <2>1 DEF InSend, InRecv, Busy
    <2>3. Moved(t, r)
        BY <1>1, <2>1, <2>2, MovedOutside
    <2>4. RecordsOK'
        BY <1>1, <1>3, <2>1, <2>3, RecordsLeave DEF RecordsOK
    <2> QED
        BY <1>1, <1>2, <2>1, <2>2, <2>3, <2>4, OutsideStep
<1>5. CASE o # "do_handshake"
    <2>1. o \in Op \ {"wait_writable"} /\ Main(o) \in Fn /\ Main(o) # "handshake"
        <3>1. o \in Op \ {"wait_writable"}
            BY <1>1 DEF SSLInv, Fits
        <3> QED
            BY <1>5, <3>1, MainType
    <2>2. r \in SslTask /\ r.pc = "call" /\ r.op = o /\ r.out = <<>> /\ r.fn = Main(o)
        BY <1>5, <2>1, StretchValues
    <2> HIDE DEF r
    <2>3. task[t].pc \notin InSend \cup InRecv /\ r.pc \notin InSend \cup InRecv
        BY <1>1, <2>2 DEF InSend, InRecv
    <2>4. Moved(t, r)
        BY <1>1, <2>2, <2>3, MovedOutside
    <2>5. RecordsOK'
        BY <1>1, <1>3, <2>2, <2>4, RecordsLeave DEF RecordsOK
    <2> QED
        BY <1>1, <1>2, <2>1, <2>2, <2>4, <2>5, CallStep
<1> QED
    BY <1>4, <1>5

\* The rest of a call, after its last await in _retry
LEMMA AfterRetryMoved ==
    ASSUME SSLInv, NEW t \in Task, NEW sq, AfterRetry(t, sq, recvq, task),
           \/ task[t].pc = "sending" /\ sq = RemoveFirst(sendq, t)
           \/ task[t].pc = "yield" /\ sq = sendq
    PROVE  /\ sendq' = sq /\ (state' = "OK" => state = "OK") /\ state' \in {state, "CLOSED"}
           /\ once' = once \/ (once' = "done" /\ task[t].fn = "handshake")
           /\ \E r : /\ Moved(t, r) /\ r.out = <<>> /\ r.fn # "handshake"
                     /\ \/ r.pc \notin Busy \cup {"once"}
                        \/ /\ r.pc = "call" /\ r.fn \in Fn /\ r.op \in Op \ {"wait_writable"}
                           /\ once' = "done" /\ task[t].fn = "handshake"
<1> DEFINE o == task[t].op
<1>1. /\ task \in [Task -> SslTask] /\ o \in Op \ {"wait_writable"}
      /\ LockOK(sendq, task, InSend, HasSend) /\ LockOK(recvq, task, InRecv, HasRecv)
    BY DEF SSLInv, SSLTypeOK, Fits, Busy
<1>2. task[t].pc \notin InRecv /\ (sq = sendq => task[t].pc \notin InSend \/ sq = RemoveFirst(sendq, t))
    BY DEF InRecv, InSend
<1>3. ASSUME NEW r \in SslTask, r.pc \notin InSend \cup InRecv,
             task' = Granted(recvq, GrantSend(sq, [task EXCEPT ![t] = r]), "recv_line", "receiving"),
             sendq' = sq, recvq' = recvq
      PROVE  Moved(t, r)
    <2>1. Lined(recvq, [task EXCEPT ![t] = r], InRecv, HasRecv)
        BY <1>1, <1>2, <1>3, StayOut, TwoLocks DEF LockOK
    <2>2. Lined(sq, [task EXCEPT ![t] = r], InSend, HasSend)
        <3>1. CASE task[t].pc = "sending" /\ sq = RemoveFirst(sendq, t)
            BY <1>1, <1>3, <3>1, LeaveLine, TwoLocks DEF LockOK
        <3>2. CASE task[t].pc = "yield" /\ sq = sendq
            <4>1. task[t].pc \notin InSend /\ r.pc \notin InSend
                BY <1>3, <3>2 DEF InSend
            <4>2. Lined(sendq, task, InSend, HasSend)
                BY <1>1 DEF LockOK
            <4> QED
                BY <1>1, <1>3, <3>2, <4>1, <4>2, StayOut, TwoLocks
        <3> QED
            BY <3>1, <3>2
    <2> QED
        BY <1>1, <1>3, <2>1, <2>2, MovedBoth
<1>4. /\ sendq' = sq /\ recvq' = recvq
      /\ once' = IF task[t].fn = "handshake" THEN "done" ELSE once
      /\ (state' = "OK" => state = "OK") /\ state' \in {state, "CLOSED"}
    BY DEF AfterRetry
<1>5. PICK r \in {Idle, Closing("unwrap"), Stretch("call", o, Main(o))} :
        /\ task' = Granted(recvq, GrantSend(sq, [task EXCEPT ![t] = r]), "recv_line", "receiving")
        /\ r = Stretch("call", o, Main(o)) => task[t].fn = "handshake" /\ o # "do_handshake"
    <2>1. Idle # Stretch("call", o, Main(o)) /\ Closing("unwrap") # Stretch("call", o, Main(o))
        BY <1>1, StartValues, StretchValues, MainType
    <2> QED
        BY <2>1 DEF AfterRetry, Stretch
<1>6. CASE r \in {Idle, Closing("unwrap")}
    <2>1. r \in SslTask /\ r.pc \in {"idle", "closing"} /\ r.out = <<>> /\ r.fn # "handshake"
        BY <1>6, StartValues
    <2>2. r.pc \notin InSend \cup InRecv /\ r.pc \notin Busy \cup {"once"}
        BY <2>1 DEF InSend, InRecv, Busy
    <2> QED
        BY <1>3, <1>4, <1>5, <2>1, <2>2
<1>7. CASE r = Stretch("call", o, Main(o))
    <2>1. task[t].fn = "handshake" /\ Main(o) \in Fn /\ Main(o) # "handshake"
        BY <1>1, <1>5, <1>7, MainType
    <2>2. r \in SslTask /\ r.pc = "call" /\ r.out = <<>> /\ r.fn = Main(o) /\ r.op = o
        BY <1>1, <1>7, <2>1, StretchValues
    <2>3. r.pc \notin InSend \cup InRecv
        BY <2>2, TwoLocks
    <2> QED
        BY <1>1, <1>3, <1>4, <1>5, <2>1, <2>2, <2>3
<1> QED
    BY <1>5, <1>6, <1>7

\* Back at the head of the loop of _retry
LEMMA BackToCall ==
    ASSUME SSLInv, NEW t \in Task, task[t].pc \in {"sending", "receiving"},
           task[t].pc = "sending" => ~task[t].fin
    PROVE  /\ [task[t] EXCEPT !.pc = "call", !.out = <<>>] \in SslTask
           /\ [task[t] EXCEPT !.pc = "call", !.out = <<>>].pc = "call"
           /\ [task[t] EXCEPT !.pc = "call", !.out = <<>>].out = <<>>
           /\ [task[t] EXCEPT !.pc = "call", !.out = <<>>].fn = task[t].fn
           /\ \A c, st, none : (delayed = <<>> => none) =>
                 Fits([task[t] EXCEPT !.pc = "call", !.out = <<>>], once, c, st, ssl, none)
<1> DEFINE r == [task[t] EXCEPT !.pc = "call", !.out = <<>>]
<1>1. task[t] \in SslTask /\ <<>> \in Seq(Nat)
    BY DEF SSLInv, SSLTypeOK
<1>2. /\ r \in SslTask /\ r.pc = "call" /\ r.out = <<>> /\ r.fn = task[t].fn /\ r.op = task[t].op
      /\ (r.fin <=> task[t].fin)
    BY <1>1 DEF SslTask, Busy
<1>3. Fits(task[t], once, recvcount, Starved, ssl, delayed = <<>>)
    BY DEF SSLInv
<1> HIDE DEF r
<1>4. ASSUME NEW c, NEW st, NEW none, delayed = <<>> => none
      PROVE  Fits(r, once, c, st, ssl, none)
    BY <1>2, <1>3, <1>4 DEF Fits, Busy, InRecv
<1> QED
    BY <1>2, <1>4 DEF r

LEMMA SendDoneStep ==
    ASSUME SSLInv, NEW t \in Task, SendDone(t)
    PROVE  SSLInv'
<1>1. /\ task[t].pc = "sending" /\ wire' = wire \o (delayed \o task[t].out) /\ delayed' = <<>>
      /\ UNCHANGED <<recvcount, incoming, eof, ssl, made, dropped>>
    BY DEF SendDone, Outgoing
<1>2. task \in [Task -> SslTask]
    BY DEF SSLInv, SSLTypeOK
<1>3. CASE AfterRetry(t, RemoveFirst(sendq, t), recvq, task)
    <2>1. /\ sendq' = RemoveFirst(sendq, t) /\ (state' = "OK" => state = "OK") /\ state' \in {state, "CLOSED"}
          /\ once' = once \/ (once' = "done" /\ task[t].fn = "handshake")
        BY <1>1, <1>3, AfterRetryMoved
    <2>2. PICK r : /\ Moved(t, r) /\ r.out = <<>> /\ r.fn # "handshake"
                   /\ \/ r.pc \notin Busy \cup {"once"}
                      \/ /\ r.pc = "call" /\ r.fn \in Fn /\ r.op \in Op \ {"wait_writable"}
                         /\ once' = "done" /\ task[t].fn = "handshake"
        BY <1>1, <1>3, AfterRetryMoved
    <2>3. RestTypeOK'
        BY <1>1, <2>1 DEF RestTypeOK, SSLInv, SSLTypeOK
    <2>4. RecordsOK'
        BY <1>1, <2>1, <2>2, RecordsSent DEF RecordsOK
    <2>5. CASE r.pc \notin Busy \cup {"once"}
        BY <1>1, <2>1, <2>2, <2>3, <2>4, <2>5, OutsideStep
    <2>6. CASE /\ r.pc = "call" /\ r.fn \in Fn /\ r.op \in Op \ {"wait_writable"}
               /\ once' = "done" /\ task[t].fn = "handshake"
        BY <1>1, <2>2, <2>3, <2>4, <2>6, CallStep
    <2> QED
        BY <2>2, <2>5, <2>6
<1>4. CASE /\ ~task[t].fin /\ sendq' = RemoveFirst(sendq, t)
           /\ task' = GrantSend(sendq', [task EXCEPT ![t].pc = "call", ![t].out = <<>>])
           /\ UNCHANGED <<once, recvq, sender, receiver, state, transport>>
    <2> DEFINE r == [task[t] EXCEPT !.pc = "call", !.out = <<>>]
    <2>1. /\ r \in SslTask /\ r.pc = "call" /\ r.out = <<>> /\ r.fn = task[t].fn
          /\ Fits(r, once', recvcount', Starved', ssl', delayed' = <<>>)
        BY <1>1, <1>4, BackToCall
    <2>2. task' = GrantSend(sendq', [task EXCEPT ![t] = r])
        <3>1. [task EXCEPT ![t].pc = "call", ![t].out = <<>>] = [task EXCEPT ![t] = r]
            BY <1>2
        <3> QED
            BY <1>4, <3>1
    <2> HIDE DEF r
    <2>3. Lined(sendq', [task EXCEPT ![t] = r], InSend, HasSend)
        BY <1>2, <1>4, <2>1, LeaveLine, TwoLocks DEF SSLInv, LockOK
    <2>4. LockOK(recvq', [task EXCEPT ![t] = r], InRecv, HasRecv)
        <3>1. task[t].pc \notin InRecv
            BY <1>1 DEF InRecv
        <3> QED
            BY <1>2, <1>4, <2>1, <3>1, StayOut, TwoLocks DEF SSLInv
    <2>5. Moved(t, r)
        BY <1>2, <2>1, <2>2, <2>3, <2>4, MovedBoth DEF LockOK
    <2>6. RestTypeOK'
        BY <1>1, <1>4 DEF RestTypeOK, SSLInv, SSLTypeOK
    <2>7. RecordsOK'
        BY <1>1, <1>4, <2>1, <2>5, RecordsSent DEF RecordsOK
    <2>8. \A u \in Task \ {t} : Fits(task[u], once', recvcount', Starved', ssl', delayed' = <<>>)
        BY <1>1, <1>4, OthersOnce
    <2>9. once' = "no" => once = "no" /\ ssl'.phase = ssl.phase /\ (delayed = <<>> => delayed' = <<>>)
        BY <1>1, <1>4
    <2> QED
        BY <2>1, <2>5, <2>6, <2>7, <2>8, <2>9, StepInv
<1> QED
    BY <1>3, <1>4 DEF SendDone

\* The receive lock is given back
LEMMA ReceivedStep ==
    ASSUME SSLInv, NEW t \in Task, task[t].pc = "receiving", Received(t),
           \/ recvcount' = recvcount /\ UNCHANGED <<incoming, eof>>
           \/ recvcount' = recvcount + 1 /\ incoming' \in Seq(Message) /\ eof' \in BOOLEAN
    PROVE  SSLInv'
<1> DEFINE r == [task[t] EXCEPT !.pc = "call", !.out = <<>>]
<1>1. task \in [Task -> SslTask] /\ task[t].out = <<>> /\ Out(task, t) = {}
    BY NoRecords DEF SSLInv, SSLTypeOK
<1>2. /\ recvq' = RemoveFirst(recvq, t)
      /\ task' = Granted(recvq', [task EXCEPT ![t].pc = "call"], "recv_line", "receiving")
      /\ UNCHANGED <<state, once, sendq, delayed, ssl, made, wire, dropped>>
    BY DEF Received
<1>3. [task EXCEPT ![t].pc = "call"] = [task EXCEPT ![t] = r]
    <2>1. task[t] \in SslTask
        BY <1>1
    <2>2. [task[t] EXCEPT !.pc = "call"] = r
        BY <1>1, <2>1 DEF SslTask
    <2> QED
        BY <2>2
<1>4. /\ r \in SslTask /\ r.pc = "call" /\ r.out = <<>> /\ r.fn = task[t].fn
      /\ Fits(r, once', recvcount', Starved', ssl', delayed' = <<>>)
    BY <1>2, BackToCall
<1>5. task' = Granted(recvq', [task EXCEPT ![t] = r], "recv_line", "receiving")
    BY <1>2, <1>3
<1> HIDE DEF r
<1>6. Lined(recvq', [task EXCEPT ![t] = r], InRecv, HasRecv)
    BY <1>1, <1>2, <1>4, LeaveLine, TwoLocks DEF SSLInv, LockOK
<1>7. LockOK(sendq', [task EXCEPT ![t] = r], InSend, HasSend)
    <2>1. task[t].pc \notin InSend
        BY DEF InSend
    <2> QED
        BY <1>1, <1>2, <1>4, <2>1, StayOut, TwoLocks DEF SSLInv
<1>8. Moved(t, r)
    BY <1>1, <1>4, <1>5, <1>6, <1>7, MovedBoth DEF LockOK
<1>9. RestTypeOK'
    BY <1>2 DEF RestTypeOK, SSLInv, SSLTypeOK
<1>10. RecordsOK'
    BY <1>1, <1>2, <1>4, <1>8, RecordsLeave DEF RecordsOK
<1>11. ASSUME NEW u \in Task \ {t}
       PROVE  Fits(task[u], once', recvcount', Starved', ssl', delayed' = <<>>)
    <2>1. Fits(task[u], once, recvcount, Starved, ssl, delayed = <<>>) /\ task[u] \in SslTask /\ recvcount \in Nat
        BY DEF SSLInv, SSLTypeOK
    <2>2. CASE recvcount' = recvcount /\ UNCHANGED <<incoming, eof>>
        BY <1>2, <2>1, <2>2 DEF Starved
    <2>3. CASE recvcount' = recvcount + 1
        BY <1>2, <2>1, <2>3, FitsReceive
    <2> QED
        BY <2>2, <2>3
<1>12. once' = "no" => once = "no" /\ ssl'.phase = ssl.phase /\ (delayed = <<>> => delayed' = <<>>)
    BY <1>2
<1> QED
    BY <1>4, <1>8, <1>9, <1>10, <1>11, <1>12, StepInv

LEMMA StartStep ==
    ASSUME SSLInv, NEW t \in Task, NEW o \in Op, Start(t, o)
    PROVE  SSLInv'
<1>1. /\ o # "wait_writable" /\ task[t].pc = "idle" /\ EnsureHandshake(t, o)
      /\ UNCHANGED <<state, sendq, recvq, recvcount, delayed, incoming, eof, ssl, made, wire, dropped>>
    BY DEF Start
<1> QED
    BY <1>1, EnsureStep

LEMMA RetryFailsStep ==
    ASSUME SSLInv, NEW t \in Task, RetryFails(t)
    PROVE  SSLInv'
<1>1. /\ Raise(t, "broken", TRUE) /\ ssl' = [ssl EXCEPT !.shut = ssl.shut \/ task[t].fn = "unwrap"]
      /\ UNCHANGED <<once, recvcount, delayed, incoming, eof, made, wire, dropped>>
    BY DEF RetryFails
<1>2. ssl \in [phase : {"start", "await", "ready", "reneg"}, shut : BOOLEAN]
    BY DEF SSLInv, SSLTypeOK
<1>3. ssl' \in [phase : {ssl.phase}, shut : BOOLEAN] /\ (ssl.shut => ssl'.shut)
    BY <1>1, <1>2
<1> QED
    BY <1>1, <1>3, RaiseStep

\* A transport that fails, or a cancellation: only in send_all is the stream
\* broken by it, and only in line for send_all are records dropped
LEMMA FailStep ==
    ASSUME SSLInv, NEW t \in Task, NEW kind, Fail(t, kind, task[t].pc = "sending"),
           delayed' = IF task[t].pc = "sending" THEN <<>> ELSE delayed,
           dropped' = IF task[t].pc = "send_line" THEN dropped \cup ToSet(task[t].out) ELSE dropped
    PROVE  SSLInv'
<1>1. /\ Raise(t, kind, task[t].pc = "sending")
      /\ UNCHANGED <<once, recvcount, incoming, eof, ssl, made, wire>>
    BY DEF Fail
<1>2. ssl' \in [phase : {ssl.phase}, shut : BOOLEAN] /\ (ssl.shut => ssl'.shut)
    BY <1>1 DEF SSLInv, SSLTypeOK
<1>3. dropped \subseteq dropped' /\ delayed' \in {delayed, <<>>}
    OBVIOUS
<1>4. task[t].pc # "sending" => delayed' = delayed /\ Out(task, t) \subseteq dropped'
    BY NoRecords DEF Out
<1>5. (task[t].pc = "sending") \in BOOLEAN
    OBVIOUS
<1> QED
    BY <1>1, <1>2, <1>3, <1>4, <1>5, RaiseStep

LEMMA TransportFailsStep ==
    ASSUME SSLInv, NEW t \in Task, NEW kind, TransportFails(t, kind)
    PROVE  SSLInv'
<1>1. /\ task[t].pc # "send_line" /\ dropped' = dropped /\ Fail(t, kind, task[t].pc = "sending")
      /\ delayed' = IF task[t].pc = "sending" THEN <<>> ELSE delayed
    BY DEF TransportFails
<1> QED
    BY <1>1, FailStep

LEMMA CancelStep ==
    ASSUME SSLInv, NEW t \in Task, Cancel(t)
    PROVE  SSLInv'
    BY FailStep DEF Cancel

\* The step of t leaves it with nothing to do
LEMMA RestStep ==
    ASSUME SSLInv, NEW t \in Task, Moved(t, Idle), sendq' \in {sendq, RemoveFirst(sendq, t)},
           task[t].pc \notin {"send_line", "sending"}, state' \in {state, "CLOSED"},
           UNCHANGED <<once, recvcount, delayed, incoming, eof, ssl, made, wire, dropped>>
    PROVE  SSLInv'
<1>1. Idle.pc \notin Busy \cup {"once"} /\ Idle.out = <<>> /\ Idle.fn # "handshake"
    BY StartValues DEF Busy
<1>2. RestTypeOK'
    BY DEF RestTypeOK, SSLInv, SSLTypeOK
<1>3. Out(task, t) = {}
    BY NoRecords
<1>4. RecordsOK'
    BY <1>1, <1>3, RecordsLeave DEF RecordsOK
<1> QED
    BY <1>1, <1>2, <1>4, OutsideStep

LEMMA ClosedStep ==
    ASSUME SSLInv, NEW t \in Task, Closed(t)
    PROVE  SSLInv'
<1>1. /\ task[t].pc = "closing" /\ task' = [task EXCEPT ![t] = Idle] /\ state' \in {state, "CLOSED"}
      /\ UNCHANGED <<once, sendq, recvq, recvcount, delayed, incoming, eof, ssl, made, wire, dropped>>
    BY DEF Closed
<1>2. /\ task[t].pc \notin InSend \cup InRecv /\ Idle.pc \notin InSend \cup InRecv
      /\ task[t].pc \notin {"send_line", "sending"} /\ Idle \in SslTask
    BY <1>1, StartValues DEF InSend, InRecv
<1>3. Moved(t, Idle)
    BY <1>1, <1>2, MovedOutside
<1> QED
    BY <1>1, <1>2, <1>3, RestStep

LEMMA WritableStep ==
    ASSUME SSLInv, NEW t \in Task, Writable(t)
    PROVE  SSLInv'
<1>1. /\ task[t].pc = "writable" /\ LeaveLocks(t, Idle)
      /\ UNCHANGED <<state, once, recvcount, delayed, incoming, eof, ssl, made, wire, dropped>>
    BY DEF Writable
<1>2. Idle.pc \notin InSend \cup InRecv /\ Idle \in SslTask
    BY StartValues DEF InSend, InRecv
<1>3. Moved(t, Idle) /\ sendq' = RemoveFirst(sendq, t)
    BY <1>1, <1>2, LeaveMoved
<1> QED
    BY <1>1, <1>3, RestStep

LEMMA YieldedStep ==
    ASSUME SSLInv, NEW t \in Task, Yielded(t)
    PROVE  SSLInv'
<1>1. UNCHANGED <<recvcount, delayed, incoming, eof, ssl, made, wire, dropped>>
    BY DEF Yielded
<1>2. CASE task[t].pc = "yield" /\ AfterRetry(t, sendq, recvq, task)
    <2>1. /\ sendq' = sendq /\ (state' = "OK" => state = "OK") /\ state' \in {state, "CLOSED"}
          /\ once' = once \/ (once' = "done" /\ task[t].fn = "handshake")
        BY <1>2, AfterRetryMoved
    <2>2. PICK r : /\ Moved(t, r) /\ r.out = <<>> /\ r.fn # "handshake"
                   /\ \/ r.pc \notin Busy \cup {"once"}
                      \/ /\ r.pc = "call" /\ r.fn \in Fn /\ r.op \in Op \ {"wait_writable"}
                         /\ once' = "done" /\ task[t].fn = "handshake"
        BY <1>2, AfterRetryMoved
    <2>3. RestTypeOK'
        BY <1>1, <2>1 DEF RestTypeOK, SSLInv, SSLTypeOK
    <2>4. Out(task, t) = {}
        BY <1>2, NoRecords
    <2>5. RecordsOK'
        BY <1>1, <2>1, <2>2, <2>4, RecordsLeave DEF RecordsOK
    <2>6. CASE r.pc \notin Busy \cup {"once"}
        BY <1>1, <2>1, <2>2, <2>3, <2>5, <2>6, OutsideStep
    <2>7. CASE /\ r.pc = "call" /\ r.fn \in Fn /\ r.op \in Op \ {"wait_writable"}
               /\ once' = "done" /\ task[t].fn = "handshake"
        BY <1>1, <2>2, <2>3, <2>5, <2>7, CallStep
    <2> QED
        BY <2>2, <2>6, <2>7
<1>3. CASE /\ task[t].pc = "checkpoint" /\ task' = [task EXCEPT ![t] = Idle]
           /\ UNCHANGED <<once, sendq, recvq, state>>
    <2>1. /\ task[t].pc \notin InSend \cup InRecv /\ Idle.pc \notin InSend \cup InRecv
          /\ task[t].pc \notin {"send_line", "sending"} /\ Idle \in SslTask
        BY <1>3, StartValues DEF InSend, InRecv
    <2>2. Moved(t, Idle)
        BY <1>3, <2>1, MovedOutside
    <2> QED
        BY <1>1, <1>3, <2>1, <2>2, RestStep
<1> QED
    BY <1>2, <1>3 DEF Yielded

LEMMA ReceiveSteps ==
    ASSUME SSLInv, NEW t \in Task, ReceiveSkipped(t) \/ \E m \in Message : ReceiveDone(t, m)
    PROVE  SSLInv'
<1>1. CASE ReceiveSkipped(t)
    <2>1. task[t].pc = "receiving" /\ Received(t) /\ UNCHANGED <<recvcount, incoming, eof>>
        BY <1>1 DEF ReceiveSkipped
    <2> QED
        BY <2>1, ReceivedStep
<1>2. ASSUME NEW m \in Message, ReceiveDone(t, m)
      PROVE  SSLInv'
    <2>1. /\ task[t].pc = "receiving" /\ Received(t) /\ recvcount' = recvcount + 1 /\ eof' = (m = "eof")
          /\ incoming' = IF m = "eof" THEN incoming ELSE Append(incoming, m)
        BY <1>2 DEF ReceiveDone
    <2>2. incoming' \in Seq(Message) /\ eof' \in BOOLEAN
        BY <2>1, AppendQueue DEF SSLInv, SSLTypeOK
    <2> QED
        BY <2>1, <2>2, ReceivedStep
<1> QED
    BY <1>1, <1>2

\* Where a turn of the loop of _retry leaves its task
Turned(me, out, fin, pc, seen) ==
    [pc |-> pc, op |-> me.op, fn |-> me.fn, out |-> out, seen |-> seen, fin |-> fin]

LEMMA TurnedValues ==
    ASSUME NEW me \in SslTask, NEW out \in Seq(Nat), NEW fin \in BOOLEAN,
           NEW pc \in {"send_line", "recv_line", "yield"}, NEW seen \in Nat
    PROVE  /\ Turned(me, out, fin, pc, seen) \in SslTask
           /\ Turned(me, out, fin, pc, seen).pc = pc /\ Turned(me, out, fin, pc, seen).fn = me.fn
           /\ Turned(me, out, fin, pc, seen).op = me.op /\ Turned(me, out, fin, pc, seen).out = out
           /\ Turned(me, out, fin, pc, seen).seen = seen /\ (Turned(me, out, fin, pc, seen).fin <=> fin)
    BY DEF Turned, SslTask, Busy

LEMMA SameTask ==
    ASSUME NEW x \in SslTask, NEW y \in SslTask, x.pc = y.pc, x.op = y.op, x.fn = y.fn, x.out = y.out,
           x.seen = y.seen, x.fin <=> y.fin
    PROVE  x = y
    BY DEF SslTask

LEMMA TurnedForms ==
    ASSUME NEW me \in SslTask, NEW out \in Seq(Nat), NEW fin \in BOOLEAN, NEW pc \in {"send_line", "yield"}
    PROVE  [[me EXCEPT !.out = out, !.fin = fin] EXCEPT !.pc = pc] = Turned(me, out, fin, pc, me.seen)
<1> DEFINE m == [me EXCEPT !.out = out, !.fin = fin]
<1>1. /\ m \in SslTask /\ m.op = me.op /\ m.fn = me.fn /\ m.out = out /\ m.seen = me.seen
      /\ (m.fin <=> fin) /\ me.seen \in Nat
    BY DEF SslTask
<1> HIDE DEF m
<1> DEFINE x == [m EXCEPT !.pc = pc]
           y == Turned(me, out, fin, pc, me.seen)
<1>2. /\ x \in SslTask /\ x.pc = pc /\ x.op = me.op /\ x.fn = me.fn /\ x.out = out
      /\ x.seen = me.seen /\ (x.fin <=> fin)
    BY <1>1 DEF SslTask, Busy
<1>3. /\ y \in SslTask /\ y.pc = pc /\ y.op = me.op /\ y.fn = me.fn /\ y.out = out
      /\ y.seen = me.seen /\ (y.fin <=> fin)
    BY <1>1, TurnedValues
<1> HIDE DEF x, y
<1>4. x = y
    BY <1>2, <1>3, SameTask
<1> QED
    BY <1>4 DEF x, y, m

\* What t brings to a turn of the loop
LEMMA AtCall ==
    ASSUME SSLInv, NEW t \in Task, task[t].pc = "call"
    PROVE  /\ task[t] \in SslTask /\ task[t].fn \in Fn /\ task[t].op \in Op \ {"wait_writable"}
           /\ task[t].out = <<>> /\ once # "no"
           /\ task[t].fn # "handshake" => once = "done"
           /\ task[t].fn = "handshake" =>
                 once = "started" /\ ssl.phase \in {"start", "await"} /\ delayed = <<>>
           /\ \A u \in Task \ {t} : task[u].fn # "handshake"
           /\ task[t].fn = "handshake" => \A u \in Task : task[u].out = <<>>
<1>1. task[t] \in SslTask /\ Fits(task[t], once, recvcount, Starved, ssl, delayed = <<>>)
    BY DEF SSLInv, SSLTypeOK
<1>2. /\ task[t].fn \in Fn /\ task[t].op \in Op \ {"wait_writable"} /\ task[t].out = <<>>
      /\ task[t].fn # "handshake" => once = "done"
      /\ task[t].fn = "handshake" =>
            once = "started" /\ ssl.phase \in {"start", "await"} /\ delayed = <<>>
    BY <1>1 DEF Fits, Busy
<1>3. ASSUME NEW u \in Task \ {t}
      PROVE  task[u].fn # "handshake" /\ (task[t].fn = "handshake" => task[u].out = <<>>)
    <2>1. Fits(task[u], once, recvcount, Starved, ssl, delayed = <<>>)
        BY DEF SSLInv
    <2>2. task[u].fn = "handshake" => task[t].fn # "handshake" /\ once = "started"
        BY <2>1 DEF SSLInv, Fits
    <2>3. task[u].fn # "handshake"
        BY <1>2, <2>2
    <2> QED
        BY <1>2, <2>1, <2>3 DEF Fits, Busy
<1> QED
    BY <1>1, <1>2, <1>3

\* The others, after a turn of t's: a starved SSLObject stays starved
LEMMA OthersRetry ==
    ASSUME SSLInv, NEW t \in Task, task[t].pc = "call", once' = once, recvcount' = recvcount,
           Starved => Starved' /\ (ssl'.phase = "ready" => ssl.phase = "ready"), ssl.shut => ssl'.shut
    PROVE  \A u \in Task \ {t} : Fits(task[u], once', recvcount', Starved', ssl', delayed' = <<>>)
<1> SUFFICES ASSUME NEW u \in Task \ {t}
             PROVE  Fits(task[u], once', recvcount', Starved', ssl', delayed' = <<>>)
    OBVIOUS
<1>1. Fits(task[u], once, recvcount, Starved, ssl, delayed = <<>>) /\ task[u].fn # "handshake"
    BY AtCall DEF SSLInv
<1> QED
    BY <1>1 DEF Fits

LEMMA RetryStep ==
    ASSUME SSLInv, NEW t \in Task, Retry(t)
    PROVE  SSLInv'
<1> DEFINE me == task[t]
           a == SslCall(me.fn)
           fin == Finished(t, a)
           ticket == me.fn = "handshake" /\ a.ret = "done" /\ conf.server
           out == IF ticket THEN <<>> ELSE NewRecords(a.emit)
<1>1. /\ me.pc = "call" /\ a.ret # "error"
      /\ ssl' = [phase |-> a.phase, shut |-> ssl.shut \/ (me.fn = "unwrap" /\ a.emit > 0)]
      /\ incoming' = SubSeq(incoming, a.used + 1, Len(incoming)) /\ made' = made + a.emit
      /\ delayed' = IF ticket THEN NewRecords(a.emit) ELSE delayed
      /\ UNCHANGED <<state, once, recvcount, eof, wire, dropped>>
    BY DEF Retry
<1>2. /\ task \in [Task -> SslTask] /\ me \in SslTask /\ me.fn \in Fn /\ me.op \in Op \ {"wait_writable"}
      /\ me.out = <<>> /\ once # "no" /\ made \in Nat /\ me.seen \in Nat /\ recvcount \in Nat
      /\ me.fn # "handshake" => once = "done"
      /\ me.fn = "handshake" => /\ once = "started" /\ ssl.phase \in {"start", "await"} /\ delayed = <<>>
                                /\ \A u \in Task : task[u].out = <<>>
    <2>1. me \in SslTask => me.seen \in Nat
        BY DEF SslTask
    <2>2. task \in [Task -> SslTask] /\ made \in Nat /\ recvcount \in Nat
        BY DEF SSLInv, SSLTypeOK, Ordered
    <2> QED
        BY <1>1, <2>1, <2>2, AtCall
<1>3. /\ a.ret \in {"done", "want"} /\ a.emit \in {0, 1} /\ a.used \in {0, 1}
      /\ a.phase \in {"start", "await", "ready", "reneg"}
      /\ a.ret = "want" /\ a.emit = 0 => Starved
      /\ a.used = 1 => incoming # <<>>
      /\ a.ret = "want" /\ me.fn = "write" => a.phase # "ready"
      /\ me.fn = "handshake" /\ a.ret = "want" => a.phase \in {"start", "await"}
      /\ Starved => a.used = 0 /\ (a.phase = "ready" => ssl.phase = "ready")
    BY <1>1, <1>2, CallFacts DEF SSLInv
<1>4. /\ fin \in BOOLEAN /\ (a.ret = "done" => fin)
      /\ me.fn = "handshake" => (fin <=> a.ret = "done")
    BY DEF Finished
<1>5. ticket \in BOOLEAN /\ (ticket => me.fn = "handshake" /\ fin)
    BY <1>4
<1>6. \/ out # <<>> /\ JoinSend(t, [me EXCEPT !.out = out, !.fin = fin])
      \/ out = <<>> /\ ~fin /\ JoinRecv(t, [me EXCEPT !.out = out, !.fin = fin])
      \/ /\ out = <<>> /\ fin /\ UNCHANGED <<sendq, recvq>>
         /\ task' = [task EXCEPT ![t] = [[me EXCEPT !.out = out, !.fin = fin] EXCEPT !.pc = "yield"]]
    BY DEF Retry
<1>7. /\ out \in Seq(Nat) /\ (ticket => out = <<>>) /\ (~ticket => out = NewRecords(a.emit))
      /\ ~ticket /\ out = <<>> => a.emit = 0
    BY <1>2, <1>3, NewRecordsAre
<1> HIDE DEF a, fin, ticket, out
<1>8. incoming' \in Seq(Message) /\ (Starved => Starved')
    <2>1. incoming \in Seq(Message)
        BY DEF SSLInv, SSLTypeOK
    <2>2. a.used \in 0 .. Len(incoming)
        BY <1>3, <2>1, EmptyLen
    <2>3. incoming' \in Seq(Message)
        BY <1>1, <2>1, <2>2, SplitQueue
    <2>4. ASSUME Starved
          PROVE  Starved'
        <3>1. incoming = <<>> /\ ~eof /\ a.used = 0
            BY <1>3, <2>4 DEF Starved
        <3>2. incoming' = <<>>
            BY <1>1, <3>1
        <3> QED
            BY <1>1, <3>1, <3>2 DEF Starved
    <2> QED
        BY <2>3, <2>4
<1>9. RestTypeOK' /\ (ssl.shut => ssl'.shut) /\ ssl'.phase = a.phase
    BY <1>1, <1>3, <1>8 DEF RestTypeOK, SSLInv, SSLTypeOK
<1>10. \A u \in Task \ {t} : Fits(task[u], once', recvcount', Starved', ssl', delayed' = <<>>)
    BY <1>1, <1>3, <1>8, <1>9, OthersRetry
<1>11. ~fin => a.ret = "want" /\ ~ticket /\ delayed' = delayed
    BY <1>1, <1>3, <1>4, <1>5
<1>12. ASSUME NEW r, Moved(t, r), RecordsOK', r.op = me.op, r.fn = me.fn, r.fin <=> fin,
              \/ r.pc = "send_line"
              \/ r.pc = "yield" /\ r.out = <<>> /\ fin
              \/ /\ r.pc = "recv_line" /\ r.out = <<>> /\ ~fin /\ r.seen = recvcount
                 /\ a.emit = 0
       PROVE  SSLInv'
    <2>1. r.fn = "handshake" /\ ~r.fin => ssl'.phase \in {"start", "await"} /\ delayed' = <<>>
        BY <1>2, <1>3, <1>9, <1>11, <1>12
    <2>2. r.pc \in InRecv => /\ r.seen = recvcount /\ Starved'
                             /\ r.fn = "write" => ssl'.phase # "ready"
        BY <1>3, <1>8, <1>9, <1>11, <1>12 DEF InRecv
    <2>3. r.pc \in Busy /\ (r.out # <<>> => r.pc = "send_line") /\ (r.fin => r.pc \in {"send_line", "yield"})
        BY <1>12 DEF Busy
    <2>4. recvcount' = recvcount /\ once' = once
        BY <1>1
    <2>5. Fits(r, once', recvcount', Starved', ssl', delayed' = <<>>)
        BY <1>2, <1>12, <2>1, <2>2, <2>3, <2>4 DEF Fits
    <2> QED
        BY <1>2, <1>9, <1>10, <1>12, <2>4, <2>5, StepInv
<1>13. me.pc \notin InSend \cup InRecv /\ t \notin ToSet(sendq)
    <2>1. me.pc \notin InSend \cup InRecv
        BY <1>1 DEF InSend, InRecv
    <2> QED
        BY <2>1 DEF SSLInv, LockOK, Lined
<1>14. CASE out # <<>> /\ JoinSend(t, [me EXCEPT !.out = out, !.fin = fin])
    <2> DEFINE r == Turned(me, out, fin, "send_line", me.seen)
    <2>1. /\ sendq' = Append(sendq, t) /\ recvq' = recvq
          /\ task' = GrantSend(sendq', [task EXCEPT ![t] = r])
        BY <1>2, <1>4, <1>7, <1>14, TurnedForms DEF JoinSend
    <2>2. /\ r \in SslTask /\ r.pc = "send_line" /\ r.fn = me.fn /\ r.op = me.op /\ r.out = out
          /\ (r.fin <=> fin)
        BY <1>2, <1>4, <1>7, TurnedValues
    <2> HIDE DEF r
    <2>3. r.pc \in InSend \ HasSend /\ r.pc \notin InRecv
        BY <2>2 DEF InSend, HasSend, InRecv
    <2>4. Lined(sendq', [task EXCEPT ![t] = r], InSend, HasSend)
        BY <1>2, <1>13, <2>1, <2>2, <2>3, JoinLine, TwoLocks DEF SSLInv, LockOK
    <2>5. LockOK(recvq', [task EXCEPT ![t] = r], InRecv, HasRecv)
        BY <1>2, <1>13, <2>1, <2>2, <2>3, StayOut, TwoLocks DEF SSLInv
    <2>6. Moved(t, r)
        BY <1>2, <2>1, <2>2, <2>4, <2>5, MovedBoth DEF LockOK
    <2>7. ~ticket /\ r.out = NewRecords(a.emit)
        BY <1>7, <1>14, <2>2
    <2>8. RecordsOK'
        BY <1>1, <1>2, <1>3, <1>13, <2>1, <2>6, <2>7, RecordsJoin DEF RecordsOK
    <2> QED
        BY <1>12, <2>2, <2>6, <2>8
<1>15. CASE out = <<>> /\ ~fin /\ JoinRecv(t, [me EXCEPT !.out = out, !.fin = fin])
    <2> DEFINE r == Turned(me, out, fin, "recv_line", recvcount)
    <2>1. /\ r \in SslTask /\ r.pc = "recv_line" /\ r.fn = me.fn /\ r.op = me.op /\ r.out = out
          /\ (r.fin <=> fin) /\ r.seen = recvcount
        BY <1>2, <1>4, <1>7, TurnedValues
    <2>2. /\ recvq' = Append(recvq, t) /\ sendq' = sendq
          /\ task' = Granted(recvq', [task EXCEPT ![t] = r], "recv_line", "receiving")
        <3> DEFINE x == [[me EXCEPT !.out = out, !.fin = fin] EXCEPT !.pc = "recv_line", !.seen = recvcount]
        <3>1. me \in SslTask /\ out \in Seq(Nat) /\ fin \in BOOLEAN /\ recvcount \in Nat
            BY <1>2, <1>4, <1>7
        <3> HIDE DEF me
        <3>2. /\ x \in SslTask /\ x.pc = "recv_line" /\ x.fn = me.fn /\ x.op = me.op /\ x.out = out
              /\ (x.fin <=> fin) /\ x.seen = recvcount
            BY ONLY <3>1 DEF SslTask, Busy
        <3>3. /\ recvq' = Append(recvq, t) /\ sendq' = sendq
              /\ task' = Granted(recvq', [task EXCEPT ![t] = x], "recv_line", "receiving")
            BY <1>15 DEF JoinRecv
        <3> HIDE DEF x, r
        <3>4. x = r
            BY <2>1, <3>2, SameTask
        <3> QED
            BY <3>3, <3>4
    <2> HIDE DEF r
    <2>3. r.pc \in InRecv \ HasRecv /\ r.pc \notin InSend
        BY <2>1 DEF InSend, HasRecv, InRecv
    <2>4. Lined(recvq', [task EXCEPT ![t] = r], InRecv, HasRecv)
        BY <1>2, <1>13, <2>1, <2>2, <2>3, JoinLine, TwoLocks DEF SSLInv, LockOK
    <2>5. LockOK(sendq', [task EXCEPT ![t] = r], InSend, HasSend)
        BY <1>2, <1>13, <2>1, <2>2, <2>3, StayOut, TwoLocks DEF SSLInv
    <2>6. Moved(t, r)
        BY <1>2, <2>1, <2>2, <2>4, <2>5, MovedBoth DEF LockOK
    <2>7. a.emit = 0 /\ made' = made /\ delayed' = delayed /\ r.out = <<>>
        BY <1>1, <1>2, <1>7, <1>11, <1>15, <2>1
    <2>8. Out(task, t) = {}
        BY <1>1, NoRecords
    <2>9. RecordsOK'
        BY <1>1, <2>2, <2>6, <2>7, <2>8, RecordsLeave DEF RecordsOK
    <2> QED
        BY <1>12, <1>15, <2>1, <2>6, <2>7, <2>9
<1>16. CASE /\ out = <<>> /\ fin /\ UNCHANGED <<sendq, recvq>>
            /\ task' = [task EXCEPT ![t] = [[me EXCEPT !.out = out, !.fin = fin] EXCEPT !.pc = "yield"]]
    <2> DEFINE r == Turned(me, out, fin, "yield", me.seen)
    <2>1. task' = [task EXCEPT ![t] = r] /\ sendq' = sendq /\ recvq' = recvq
        BY <1>2, <1>4, <1>7, <1>16, TurnedForms
    <2>2. /\ r \in SslTask /\ r.pc = "yield" /\ r.fn = me.fn /\ r.op = me.op /\ r.out = out
          /\ (r.fin <=> fin)
        BY <1>2, <1>4, <1>7, TurnedValues
    <2> HIDE DEF r
    <2>3. r.pc \notin InSend \cup InRecv
        BY <2>2, TwoLocks
    <2>4. Moved(t, r)
        BY <1>13, <2>1, <2>2, <2>3, MovedOutside
    <2>5. RecordsOK'
        <3>1. CASE ticket
            <4>1. /\ delayed = <<>> /\ (\A u \in Task : task[u].out = <<>>) /\ delayed' = NewRecords(a.emit)
                BY <1>1, <1>2, <1>5, <3>1
            <4> QED
                <5>1. r.out = <<>> /\ a.emit \in {0, 1} /\ made' = made + a.emit
                    BY <1>1, <1>3, <1>16, <2>2
                <5>2. UNCHANGED <<sendq, wire, dropped, state>>
                    BY <1>1, <2>1
                <5> QED
                    BY ONLY SSLInv, t \in Task, <2>4, <4>1, <5>1, <5>2, RecordsDelayed DEF RecordsOK
        <3>2. CASE ~ticket
            <4>1. made' = made /\ delayed' = delayed
                BY <1>1, <1>2, <1>7, <1>16, <3>2
            <4>2. Out(task, t) = {}
                BY <1>1, NoRecords
            <4> QED
                BY <1>1, <1>16, <2>1, <2>2, <2>4, <4>1, <4>2, RecordsLeave DEF RecordsOK
        <3> QED
            BY <3>1, <3>2
    <2> QED
        BY <1>12, <1>16, <2>2, <2>4, <2>5
<1> QED
    BY <1>6, <1>14, <1>15, <1>16

LEMMA SSLInitInv ==
    ASSUME SSLInit
    PROVE  SSLInv
<1>1. /\ task = [t \in Task |-> Idle] /\ sendq = <<>> /\ recvq = <<>> /\ recvcount = 0 /\ delayed = <<>>
      /\ state = "OK" /\ once = "no" /\ incoming = <<>> /\ eof = FALSE
      /\ ssl = [phase |-> "start", shut |-> FALSE] /\ made = 0 /\ wire = <<>> /\ dropped = {}
    BY DEF SSLInit
<1>2. \A t \in Task : task[t] = Idle /\ task[t].pc = "idle" /\ task[t].out = <<>> /\ task[t].fn = "none"
    BY <1>1, StartValues
<1>3. SSLTypeOK
    <2>1. task \in [Task -> SslTask]
        BY <1>1, StartValues
    <2>2. incoming \in Seq(Message) /\ recvcount \in Nat
        BY <1>1
    <2> QED
        BY <1>1, <2>1, <2>2 DEF SSLTypeOK
<1>4. <<>> \in Seq(Task) /\ IsInjective(<<>>) /\ ToSet(<<>>) = {}
    BY EmptyQueue
<1>5. LockOK(sendq, task, InSend, HasSend) /\ LockOK(recvq, task, InRecv, HasRecv)
    <2>1. \A t \in Task : task[t].pc \notin InSend \cup InRecv \cup HasSend \cup HasRecv
        BY <1>2 DEF InSend, HasSend, InRecv, HasRecv
    <2> QED
        BY <1>1, <1>4, <2>1 DEF LockOK, Lined
<1>6. \A t \in Task : Fits(task[t], once, recvcount, Starved, ssl, delayed = <<>>)
    <2>1. \A t \in Task : task[t].pc \notin Busy
        BY <1>2 DEF Busy
    <2> QED
        BY <1>2, <2>1, FitsOutside
<1>7. \A t \in Task : Out(task, t) = {} /\ Rising(task[t].out)
    BY <1>2, <1>4 DEF Out, Rising
<1>8. Ordered(made, wire, delayed, task)
    <2>1. wire \in Seq(Nat) /\ delayed \in Seq(Nat) /\ made \in Nat /\ Rising(wire) /\ Rising(delayed)
        BY <1>1 DEF Rising
    <2> QED
        BY <1>1, <1>4, <1>7, <2>1 DEF Ordered, Below
<1>9. LineRises(sendq, task) /\ Accounted(made, wire, delayed, dropped, task)
    <2>1. DOMAIN sendq = {} /\ 1 .. made = {}
        BY <1>1
    <2> QED
        BY <2>1 DEF LineRises, Accounted
<1> QED
    BY <1>1, <1>2, <1>3, <1>5, <1>6, <1>8, <1>9 DEF SSLInv

LEMMA SSLStep ==
    ASSUME SSLInv, [SSLNext]_sslVars
    PROVE  SSLInv'
<1>1. ASSUME NEW t \in Task,
             \/ \E o \in Op : Start(t, o)
             \/ AClose(t) \/ WaitWritable(t) \/ HandshakeAwaited(t)
             \/ Retry(t) \/ RetryFails(t) \/ SendDone(t) \/ ReceiveSkipped(t) \/ Yielded(t)
             \/ \E m \in Message : ReceiveDone(t, m)
             \/ Writable(t) \/ Closed(t) \/ Cancel(t)
             \/ \E kind \in {"broken", "closed"} : TransportFails(t, kind)
      PROVE  SSLInv'
    BY <1>1, StartStep, ACloseStep, WaitWritableStep, HandshakeAwaitedStep, RetryStep, RetryFailsStep,
       SendDoneStep, ReceiveSteps, YieldedStep, WritableStep, ClosedStep, CancelStep, TransportFailsStep
<1>2. CASE UNCHANGED sslVars
    <2>1. /\ UNCHANGED <<task, once, state, recvcount, incoming, eof, ssl, sendq, recvq, delayed, made, wire, dropped>>
        BY <1>2 DEF sslVars
    <2>2. SSLTypeOK' /\ (Starved' <=> Starved)
        BY <2>1 DEF SSLInv, SSLTypeOK, Starved
    <2>3. \A t \in Task : Fits(task'[t], once', recvcount', Starved', ssl', delayed' = <<>>)
        BY <2>1 DEF SSLInv, Starved
    <2> QED
        BY <2>1, <2>2, <2>3 DEF SSLInv
<1> QED
    BY <1>1, <1>2 DEF SSLNext

\* The order on the wire, and the exclusion, are in the invariant
LEMMA RecordsInOrderHolds ==
    ASSUME SSLInv
    PROVE  RecordsInOrder
<1>1. \A i, j \in DOMAIN wire : i < j => wire[i] < wire[j]
    BY DEF SSLInv, Ordered, Rising
<1>2. state = "OK" => \A k \in 1 .. made : \/ k \in ToSet(wire) \cup ToSet(delayed) \cup dropped
                                           \/ \E t \in Task : k \in ToSet(task[t].out)
    BY DEF SSLInv, Accounted, Out
<1>3. \A t, u \in Task : \A pcs \in {{"sending", "writable"}, {"receiving"}} :
        t # u => ~(task[t].pc \in pcs /\ task[u].pc \in pcs)
    BY DEF SSLInv, LockOK, Lined, HasSend, HasRecv
<1> QED
    BY <1>1, <1>2, <1>3 DEF RecordsInOrder

\* Who means to receive, and has missed nothing, found the SSLObject starved
LEMMA NoStaleReceiveHolds ==
    ASSUME SSLInv
    PROVE  NoStaleReceive
<1> SUFFICES ASSUME NEW t \in Task, task[t].pc = "receiving", ~Stale(t), SslCall(task[t].fn).ret = "done"
             PROVE  FALSE
    BY DEF NoStaleReceive
<1>1. /\ task[t].fn \in Fn /\ Starved
      /\ task[t].fn = "write" => ssl.phase # "ready" \/ ssl.shut
    BY DEF SSLInv, Fits, Stale, Busy, InRecv
<1> QED
    BY <1>1, CallFacts DEF SSLInv

\* Records reach the transport in the order in which the SSLObject made
\* them, an unbroken stream misses none but those of a task cancelled in
\* line, and the transport never has two senders or two receivers, for any
\* number of tasks, calls and messages (_retry and its two locks).
THEOREM RecordsInOrderThm == SSLSpec => []RecordsInOrder
<1>1. SSLInit => SSLInv
    BY SSLInitInv
<1>2. SSLInv /\ [SSLNext]_sslVars => SSLInv'
    BY SSLStep
<1>3. SSLInv => RecordsInOrder
    BY RecordsInOrderHolds
<1> QED
    BY <1>1, <1>2, <1>3, PTL DEF SSLSpec

\* No call waits for the peer with what it needs already received, for any
\* number of tasks, calls and messages (_retry's _inner_recv_count).
THEOREM NoStaleReceiveThm == SSLSpec => []NoStaleReceive
<1>1. SSLInit => SSLInv
    BY SSLInitInv
<1>2. SSLInv /\ [SSLNext]_sslVars => SSLInv'
    BY SSLStep
<1>3. SSLInv => NoStaleReceive
    BY NoStaleReceiveHolds
<1> QED
    BY <1>1, <1>2, <1>3, PTL DEF SSLSpec
================================================================================
