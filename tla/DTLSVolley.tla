----------------------------- MODULE DTLSVolley -----------------------------
(***************************************************************************)
(* trio/_dtls.py: how do_handshake() cuts a volley of handshake messages   *)
(* into packets (RecordEncoder.encode_volley), puts OpenSSL's records      *)
(* together again (decode_volley_trusted), and adapts the timer and the    *)
(* MTU when a volley is not answered.  A message is its kind and length;   *)
(* "opaque" is an encrypted record and "pseudo" a ChangeCipherSpec, which  *)
(* cannot be cut.                                                          *)
(***************************************************************************)
EXTENDS Naturals, Sequences, SequencesExt, FiniteSets, FiniteSetsExt

CONSTANTS
    Volleys,            \* the volleys to try
    RECORD_HEADER,      \* its size
    MESSAGE_HEADER,     \* HANDSHAKE_MESSAGE_HEADER's size
    best_guess_mtu, worst_case_mtu,
    CallerMtu,          \* what set_ciphertext_mtu() is called with
    initial_retransmit_timeout, MaxTimeout,
    MaxFailed           \* bound on the counted timeouts of a volley

VARIABLES
    volley,     \* volley_messages
    mtu,        \* _handshake_mtu
    timeout,    \* the value of the retransmit timer
    failed,     \* volley_failed_sends
    started     \* do_handshake() has been called

volleyVars == <<volley, mtu, timeout, failed, started>>

(***************************************************************************)
(* RecordEncoder.  `st` is the packets that are full, the one being filled *)
(* (a sequence of records) and the next record number.                     *)
(***************************************************************************)
Size(packet) == FoldLeft(LAMBDA n, r : n + r.size, 0, packet)

Flush(st) == [st EXCEPT !.packets = Append(@, st.packet), !.packet = <<>>]

AddRecord(st, msg, off, len, header, numbered) ==
    [st EXCEPT !.packet = Append(@, [msg |-> msg, off |-> off, len |-> len,
                                     size |-> header + len, seq |-> IF numbered THEN st.seq ELSE 0]),
               !.seq = IF numbered THEN @ + 1 ELSE @]

\* A plausible bug: the size of the packet so far is not looked at.
AddWholeAnyway(st, k, len, limit, numbered) ==
    AddRecord(st, k, 0, len, RECORD_HEADER, numbered)

\* A record that has to fit in one piece
AddWhole(st, k, len, limit, numbered) ==
    LET room == limit > Size(st.packet) + RECORD_HEADER + len IN
    AddRecord(IF room THEN st ELSE Flush(st), k, 0, len, RECORD_HEADER, numbered)

\* A message goes into as many fragments as it takes, an empty one into one
RECURSIVE AddFragments(_, _, _, _, _)
AddFragments(st, k, off, len, limit) ==
    LET header == RECORD_HEADER + MESSAGE_HEADER
        used == Size(st.packet) + header
        take == Min({limit - used, len - off})
    IN IF limit <= used THEN AddFragments(Flush(st), k, off, len, limit)
       ELSE LET after == AddRecord(st, k, off, take, header, TRUE)
            IN IF off + take < len THEN AddFragments(after, k, off + take, len, limit) ELSE after

encode_volley(messages, limit) ==
    LET add(st, k) ==
            LET m == messages[k] IN
            CASE m.kind = "opaque" -> AddWhole(st, k, m.len, limit, FALSE)
              [] m.kind = "pseudo" -> AddWhole(st, k, m.len, limit, TRUE)
              [] m.kind = "handshake" -> AddFragments(st, k, 0, m.len, limit)
        done == FoldLeft(add, [packets |-> <<>>, packet |-> <<>>, seq |-> 1],
                         [k \in DOMAIN messages |-> k])
    IN IF done.packet = <<>> THEN done.packets ELSE Append(done.packets, done.packet)

\* decode_volley_trusted: the messages in the order their first records are
\* in, each with the bytes its fragments put into its body
decode_volley_trusted(records) ==
    LET firsts == SelectSeq([i \in DOMAIN records |-> i],
                            LAMBDA i : \A j \in 1 .. i - 1 : records[j].msg # records[i].msg)
        body(k) == UNION {records[j].off .. records[j].off + records[j].len - 1 :
                             j \in {j \in DOMAIN records : records[j].msg = k /\ records[j].len > 0}}
    IN [i \in DOMAIN firsts |-> [msg |-> records[firsts[i]].msg, body |-> body(records[firsts[i]].msg)]]

(***************************************************************************)
(* The loop of do_handshake() that retransmits.                            *)
(***************************************************************************)
VolleyInit ==
    /\ volley \in Volleys
    /\ mtu = best_guess_mtu /\ timeout = initial_retransmit_timeout /\ failed = 0
    /\ started = FALSE

\* set_ciphertext_mtu(), "if called before the handshake is performed"
set_ciphertext_mtu(new_mtu) ==
    /\ ~started
    /\ mtu' = new_mtu
    /\ UNCHANGED <<volley, timeout, failed, started>>

StartHandshake == ~started /\ started' = TRUE /\ UNCHANGED <<volley, mtu, timeout, failed>>

\* cscope.cancelled_caught
RetransmitTimeout ==
    /\ started /\ failed < MaxFailed
    /\ timeout' = Min({2 * timeout, MaxTimeout})
    /\ failed' = failed + 1
    /\ mtu' = IF failed + 1 = 2 THEN Min({mtu, worst_case_mtu}) ELSE mtu
    /\ UNCHANGED <<volley, started>>

\* The peer's volley has arrived, and OpenSSL has made a new one
VolleyAnswered(next) ==
    /\ started
    /\ volley' = next
    /\ timeout' = IF failed = 0 THEN initial_retransmit_timeout ELSE timeout
    /\ failed' = 0
    /\ UNCHANGED <<mtu, started>>

VolleyNext ==
    \/ \E new_mtu \in CallerMtu : set_ciphertext_mtu(new_mtu)
    \/ StartHandshake \/ RetransmitTimeout
    \/ \E next \in Volleys : VolleyAnswered(next)
----------------------------------------------------------------------------
\* A volley survives being cut up, whatever MTU the caller, the path and
\* earlier losses have led to: no packet is empty or too large, the records
\* are numbered in order, and putting them together again, in this order or
\* with the packets reversed, gives every byte of every message once.  A
\* volley that was lost twice fits a path with the smallest MTU.
VolleySurvives ==
    LET packets == encode_volley(volley, mtu)
        records == FlattenSeq(packets)
        numbers == SelectSeq([i \in DOMAIN records |-> records[i].seq], LAMBDA n : n # 0)
        whole(k) == [msg |-> k, body |-> IF volley[k].len = 0 THEN {} ELSE 0 .. volley[k].len - 1]
    IN started =>
       /\ \A i \in DOMAIN packets : packets[i] # <<>> /\ Size(packets[i]) <= mtu
       /\ \A i \in DOMAIN numbers : numbers[i] = i
       /\ decode_volley_trusted(records) = [k \in DOMAIN volley |-> whole(k)]
       /\ ToSet(decode_volley_trusted(FlattenSeq(Reverse(packets)))) = {whole(k) : k \in DOMAIN volley}
       /\ \A k \in DOMAIN volley :
             FoldLeft(LAMBDA n, r : IF r.msg = k THEN n + r.len ELSE n, 0, records) = volley[k].len
       /\ failed >= 2 => \A i \in DOMAIN packets : Size(packets[i]) <= worst_case_mtu
=============================================================================
