----------------------------- MODULE TcpServer -----------------------------
(***************************************************************************)
(* serve_tcp: open_tcp_listeners of _highlevel_open_tcp_listeners.py, then *)
(* serve_listeners of _highlevel_serve_listeners.py over SocketListener of *)
(* _highlevel_socket.py.  Each address of Address is one that getaddrinfo  *)
(* returned; MaxConn bounds the connections that ever come in, MaxShortage *)
(* the times the process runs out of file descriptors.                     *)
(***************************************************************************)
EXTENDS Naturals, Sequences, FiniteSets, SequencesExt

CONSTANTS Address, MaxConn, MaxShortage

ASSUME ServerAssumption == IsFiniteSet(Address) /\ MaxConn \in Nat /\ MaxShortage \in Nat

Conn == 1 .. MaxConn

VARIABLES
    todo,       \* addresses open_tcp_listeners still has to open, in order
    sock,       \* the socket of each address: "none", "listening" or "closed"
    unsupported,\* len(unsupported_address_families)
    serve,      \* "opening", "serving", "raised" or "over"
    loop,       \* _serve_one_listener of each address: "none", "accept", "sleep" or "over"
    backlog,    \* connections waiting in each listener's queue
    conn,       \* each connection: "none", "queued", "scheduled", "handled" or "closed"
    exhausted,  \* the process is out of file descriptors
    shortages,  \* how often it has been
    server_cancelled   \* the nursery of serve_listeners

serverVars == <<todo, sock, unsupported, serve, loop, backlog, conn, exhausted, shortages, server_cancelled>>

ServerInit ==
    /\ \E n \in 1 .. Cardinality(Address) : todo \in {q \in [1 .. n -> Address] : IsInjective(q)}
    /\ sock = [a \in Address |-> "none"] /\ unsupported = 0
    /\ serve = "opening" /\ loop = [a \in Address |-> "none"]
    /\ backlog = [a \in Address |-> <<>>] /\ conn = [c \in Conn |-> "none"]
    /\ exhausted = FALSE /\ shortages = 0 /\ server_cancelled = FALSE

\* Sockets are closed, and the kernel drops the connections in their queues
CloseSockets(S) ==
    /\ sock' = [a \in Address |-> IF a \in S THEN "closed" ELSE sock[a]]
    /\ backlog' = [a \in Address |-> IF a \in S THEN <<>> ELSE backlog[a]]
    /\ conn' = [c \in Conn |-> IF \E a \in S : c \in ToSet(backlog[a]) THEN "closed" ELSE conn[c]]

Listening == {a \in Address : sock[a] = "listening"}

\* One address of open_tcp_listeners: socket(), and, at the checkpoint of
\* bind(), perhaps an error or a cancellation; then listen()
OpenListener(outcome) ==
    /\ serve = "opening" /\ todo # <<>>
    /\ outcome \in {"ok", "EAFNOSUPPORT", "OSError"}
    /\ LET a == Head(todo) IN
       CASE outcome = "ok" ->
              /\ sock' = [sock EXCEPT ![a] = "listening"]
              /\ todo' = Tail(todo) /\ UNCHANGED <<unsupported, serve, backlog, conn>>
         [] outcome = "EAFNOSUPPORT" ->
              /\ unsupported' = unsupported + 1 /\ todo' = Tail(todo)
              /\ UNCHANGED <<sock, serve, backlog, conn>>
         [] OTHER ->
              /\ CloseSockets(Listening \cup {a})
              /\ serve' = "raised" /\ UNCHANGED <<todo, unsupported>>
    /\ UNCHANGED <<loop, exhausted, shortages, server_cancelled>>

\* All addresses are done: no listener at all is an error; otherwise
\* serve_listeners starts a task for each
serve_listeners ==
    /\ serve = "opening" /\ todo = <<>>
    /\ IF unsupported > 0 /\ Listening = {}
       THEN serve' = "raised" /\ UNCHANGED loop
       ELSE /\ serve' = "serving"
            /\ loop' = [a \in Address |-> IF sock[a] = "listening" THEN "accept" ELSE "none"]
    /\ UNCHANGED <<todo, sock, unsupported, backlog, conn, exhausted, shortages, server_cancelled>>

\* A client connects to a listening socket; the kernel queues the connection
Connect(a) ==
    /\ sock[a] = "listening" /\ \E c \in Conn : conn[c] = "none"
    /\ LET c == CHOOSE x \in Conn : conn[x] = "none" IN
       /\ conn' = [conn EXCEPT ![c] = "queued"]
       /\ backlog' = [backlog EXCEPT ![a] = Append(@, c)]
    /\ UNCHANGED <<todo, sock, unsupported, serve, loop, exhausted, shortages, server_cancelled>>

\* Descriptors run out, and become free again
Exhaust ==
    /\ ~exhausted /\ exhausted' = TRUE /\ shortages < MaxShortage /\ shortages' = shortages + 1
    /\ UNCHANGED <<todo, sock, unsupported, serve, loop, backlog, conn, server_cancelled>>

Recover ==
    /\ exhausted /\ exhausted' = FALSE
    /\ UNCHANGED <<todo, sock, unsupported, serve, loop, backlog, conn, shortages, server_cancelled>>

\* accept() returns a connection, which gets a handler task; skips one that
\* broke while it was queued; or fails for want of descriptors, and
\* _serve_one_listener sleeps
Accept(a, broken) ==
    /\ loop[a] = "accept" /\ backlog[a] # <<>>
    /\ IF exhausted
       THEN loop' = [loop EXCEPT ![a] = "sleep"] /\ UNCHANGED <<backlog, conn>>
       ELSE /\ conn' = [conn EXCEPT ![Head(backlog[a])] = IF broken THEN "closed" ELSE "scheduled"]
            /\ backlog' = [backlog EXCEPT ![a] = Tail(@)] /\ UNCHANGED loop
    /\ UNCHANGED <<todo, sock, unsupported, serve, exhausted, shortages, server_cancelled>>

\* SLEEP_TIME has passed
Retry(a) ==
    /\ loop[a] = "sleep" /\ loop' = [loop EXCEPT ![a] = "accept"]
    /\ UNCHANGED <<todo, sock, unsupported, serve, backlog, conn, exhausted, shortages, server_cancelled>>

\* Any other error of accept() leaves the loop; `async with listener` closes
\* the socket, and the nursery is cancelled
CloseListener(a) == loop' = [loop EXCEPT ![a] = "over"] /\ CloseSockets({a})

AcceptFails(a) ==
    /\ loop[a] = "accept" /\ CloseListener(a) /\ server_cancelled' = TRUE
    /\ UNCHANGED <<todo, unsupported, serve, exhausted, shortages>>

ServeCancelled(a) ==
    /\ loop[a] \in {"accept", "sleep"} /\ server_cancelled /\ CloseListener(a)
    /\ UNCHANGED <<todo, unsupported, serve, exhausted, shortages, server_cancelled>>

\* _run_handler: the handler starts, also in a nursery that was cancelled
\* meanwhile; whichever way it ends, the stream is closed; an exception
\* cancels the nursery
StartHandler(c) ==
    /\ conn[c] = "scheduled" /\ conn' = [conn EXCEPT ![c] = "handled"]
    /\ UNCHANGED <<todo, sock, unsupported, serve, loop, backlog, exhausted, shortages, server_cancelled>>

EndHandler(c, raises) ==
    /\ conn[c] = "handled" /\ conn' = [conn EXCEPT ![c] = "closed"]
    /\ server_cancelled' = (server_cancelled \/ raises)
    /\ UNCHANGED <<todo, sock, unsupported, serve, loop, backlog, exhausted, shortages>>

\* Cancelled: in open_tcp_listeners at the checkpoint of a bind()
CancelServer ==
    /\ ~server_cancelled /\ server_cancelled' = TRUE /\ serve \in {"opening", "serving"}
    /\ IF serve = "opening" /\ todo # <<>>
       THEN CloseSockets(Listening \cup {Head(todo)}) /\ serve' = "raised"
       ELSE UNCHANGED <<sock, serve, conn, backlog>>
    /\ UNCHANGED <<todo, unsupported, loop, exhausted, shortages>>

ServeEnds ==
    /\ serve = "serving" /\ \A a \in Address : loop[a] \in {"none", "over"}
    /\ \A c \in Conn : conn[c] \notin {"scheduled", "handled"}
    /\ serve' = "over"
    /\ UNCHANGED <<todo, sock, unsupported, loop, backlog, conn, exhausted, shortages, server_cancelled>>

ServerNext ==
    \/ \E outcome \in {"ok", "EAFNOSUPPORT", "OSError"} : OpenListener(outcome)
    \/ serve_listeners \/ Exhaust \/ Recover \/ CancelServer \/ ServeEnds
    \/ \E a \in Address : Connect(a) \/ Retry(a) \/ AcceptFails(a) \/ ServeCancelled(a)
                          \/ \E broken \in BOOLEAN : Accept(a, broken)
    \/ \E c \in Conn : StartHandler(c) \/ \E raises \in BOOLEAN : EndHandler(c, raises)

ServerSpec == ServerInit /\ [][ServerNext]_serverVars

\* The accept loops and new handlers run, the sleep ends, descriptors become
\* free again, and once a socket listens serve_tcp opens the others
ServerFairness ==
    /\ \A a \in Address : /\ WF_serverVars(\E broken \in BOOLEAN : Accept(a, broken))
                          /\ WF_serverVars(Retry(a)) /\ WF_serverVars(ServeCancelled(a))
    /\ \A c \in Conn : WF_serverVars(StartHandler(c))
    /\ WF_serverVars(Listening # {} /\ \E outcome \in {"ok", "EAFNOSUPPORT", "OSError"} : OpenListener(outcome))
    /\ WF_serverVars(serve_listeners) /\ WF_serverVars(Recover)
----------------------------------------------------------------------------
\* serve_tcp leaves nothing open: whether opening fails half way, accept
\* fails, a handler raises or the server is cancelled, at the end every
\* socket that was opened is closed and so is every accepted connection.
ServerLeavesNothingOpen ==
    serve \in {"raised", "over"} =>
        /\ \A a \in Address : sock[a] \in {"none", "closed"}
        /\ \A c \in Conn : conn[c] \in {"none", "closed"}

\* A connection that is in the queue gets its handler even if the process is
\* out of descriptors for a while, unless the server ends first.
ConnectionIsServed == \A c \in Conn : conn[c] = "queued" ~> conn[c] \in {"handled", "closed"}
=============================================================================
