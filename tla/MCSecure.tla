-------------------------------- MODULE MCSecure --------------------------------
(***************************************************************************)
(* Model-checking instance of the two encrypted transports, TLS over a     *)
(* stream and DTLS over datagrams, and of the cutting up of a DTLS volley. *)
(* They share no state, so one of them is in use.                          *)
(***************************************************************************)
EXTENDS SSLStream, DTLS, DTLSVolley, TLC

CONSTANTS t1, t2, t3

VARIABLE part    \* "tls", "dtls" or "volley"

\* A task that sends, one that receives, and one that may do either
MCUses == t1 :> {"do_handshake", "send_all", "wait_writable", "aclose"}
          @@ t2 :> {"receive_some", "unwrap"} @@ t3 :> {"send_all", "receive_some", "aclose"}

\* Nobody closes the stream
MCUsesOpen == t1 :> {"send_all"} @@ t2 :> {"receive_some"} @@ t3 :> {}

\* connects, channels, faults, packets in the network, ticks, data
Bound(c, k, f, n, t, d) ==
    [connects |-> c, channels |-> k, faults |-> f, net |-> n, ticks |-> t, data |-> d]

\* A second connect() that replaces the first; cookies that expire; and one
\* connection with a lost or repeated packet or a cancelled handshake
MCBounds == {Bound(2, 3, 0, 1, 0, FALSE), Bound(1, 2, 0, 1, 2, FALSE), Bound(1, 2, 1, 4, 0, TRUE)}

\* Up to three messages, from an empty one to one that no packet holds
MCVolleys ==
    LET Messages == [kind : {"handshake"}, len : {0, 3, 6}]
                    \cup {[kind |-> "pseudo", len |-> 1], [kind |-> "opaque", len |-> 2]}
    IN UNION {[1 .. n -> Messages] : n \in 1 .. 3}

secureVars == <<sslVars, dtlsVars, volleyVars, part>>

SecureInit ==
    /\ SSLInit /\ DTLSInit /\ VolleyInit
    /\ part \in {"tls", "dtls", "volley"}
    /\ part # "tls" => ~conf.server /\ ~conf.https
    /\ part # "dtls" => bound = Bound(1, 2, 1, 4, 0, TRUE)
    /\ part # "volley" => volley = <<[kind |-> "pseudo", len |-> 1]>>

SecureNext ==
    /\ \/ part = "tls" /\ SSLNext /\ UNCHANGED <<dtlsVars, volleyVars>>
       \/ part = "dtls" /\ DTLSNext /\ UNCHANGED <<sslVars, volleyVars>>
       \/ part = "volley" /\ VolleyNext /\ UNCHANGED <<sslVars, dtlsVars>>
    /\ UNCHANGED part

SecureSpec ==
    /\ SecureInit
    /\ [][SecureNext]_secureVars
    /\ SSLFairness /\ DTLSFairness
================================================================================
