--------------------------- MODULE HappyEyeballs ---------------------------
(***************************************************************************)
(* trio/_highlevel_open_tcp_stream.py with _SocketType.connect: the        *)
(* staggered connection attempts of open_tcp_stream, the race for the      *)
(* winning socket, and what becomes of all the others.                     *)
(***************************************************************************)
EXTENDS Naturals, Sequences, FiniteSets, SequencesExt

CONSTANT Lookups    \* what getaddrinfo may return: sequences of [family, net]

\* What a target does to a connection, or there is no socket of its family
Nets == {"accepts", "refuses", "blackhole", "nosocket"}

ASSUME LookupsAssumption == Lookups \subseteq Seq([family : {4, 6}, net : Nets])

VARIABLES
    targets,    \* after reorder_for_rfc_6555_section_5_4
    impatient,  \* happy_eyeballs_delay is finite
    local_address,  \* its family, or 0 for None
    parent,     \* open_tcp_stream: "next", "wait", "join" or "over"
    started,    \* attempts started so far; the parent waits for the last one
    attempt,    \* "none", "scheduled", "binding", "connecting", "ok", "error", "won", "failed", "cancelled"
    failed,     \* attempt_failed events that are set
    sockets,    \* sockets that are open
    open_sockets,   \* of close_all(): targets whose socket it will close
    winning_socket, \* a target, or 0
    scope,      \* nursery.cancel_scope.cancel_called
    outer,      \* a scope around open_tcp_stream is cancelled
    raised,     \* a Cancelled exception is in the nursery
    result      \* "none", "stream", "OSError", "Cancelled" or "AssertionError"

eyeVars == <<targets, impatient, local_address, parent, started, attempt, failed, sockets, open_sockets,
             winning_socket, scope, outer, raised, result>>
fixedVars == <<targets, impatient, local_address>>

\* The first entry of another family than the first one becomes the second
reorder_for_rfc_6555_section_5_4(list) ==
    LET other == {i \in 2 .. Len(list) : list[i].family # list[1].family} IN
    IF other = {} THEN list
    ELSE InsertAt(RemoveAt(list, Min(other)), 2, list[Min(other)])

Target == 1 .. Len(targets)
Cancelling == scope \/ outer

EyeballsInit ==
    /\ \E list \in Lookups : targets = reorder_for_rfc_6555_section_5_4(list)
    /\ impatient \in BOOLEAN /\ local_address \in {0, 4, 6}
    /\ parent = "next" /\ started = 0 /\ attempt = [i \in Target |-> "none"]
    /\ failed = {} /\ sockets = {} /\ open_sockets = {} /\ winning_socket = 0
    /\ scope = FALSE /\ outer = FALSE /\ raised = FALSE /\ result = "none"

\* One turn of the loop: start_soon(attempt_connect, ...), then wait for
\* attempt_failed; after the last target the nursery waits for its tasks
Loop ==
    /\ parent = "next"
    /\ IF started < Len(targets)
       THEN /\ started' = started + 1 /\ attempt' = [attempt EXCEPT ![started + 1] = "scheduled"]
            /\ parent' = "wait"
       ELSE parent' = "join" /\ UNCHANGED <<started, attempt>>
    /\ UNCHANGED <<fixedVars, failed, sockets, open_sockets, winning_socket, scope, outer, raised, result>>

\* A plausible bug: only the delay lets the next attempt start.
MoveOnByTimer ==
    /\ parent = "wait" /\ impatient
    /\ parent' = "next"
    /\ UNCHANGED <<fixedVars, started, attempt, failed, sockets, open_sockets, winning_socket, scope,
                   outer, raised, result>>

\* The attempt has failed, or move_on_after(happy_eyeballs_delay) has expired
MoveOn ==
    /\ parent = "wait" /\ (started \in failed \/ impatient)
    /\ parent' = "next"
    /\ UNCHANGED <<fixedVars, started, attempt, failed, sockets, open_sockets, winning_socket, scope,
                   outer, raised, result>>

\* Cancelled is raised in the parent, in the loop or at the end of the nursery
ParentCancelled ==
    /\ parent \in {"wait", "join"} /\ Cancelling /\ ~(parent = "join" /\ raised)
    /\ parent' = "join" /\ raised' = TRUE /\ scope' = TRUE
    /\ UNCHANGED <<fixedVars, started, attempt, failed, sockets, open_sockets, winning_socket, outer, result>>

\* attempt_connect starts: socket(), then bind(), which yields first, or
\* connect() up to its first block
StartAttempt(i) ==
    /\ attempt[i] = "scheduled"
    /\ IF targets[i].net = "nosocket"
       THEN /\ attempt' = [attempt EXCEPT ![i] = "failed"] /\ failed' = failed \cup {i}
            /\ UNCHANGED <<sockets, open_sockets, raised>>
       ELSE /\ open_sockets' = open_sockets \cup {i} /\ UNCHANGED failed
            /\ IF local_address = 0 /\ Cancelling
               THEN /\ attempt' = [attempt EXCEPT ![i] = "cancelled"]
                    /\ raised' = TRUE /\ UNCHANGED sockets
               ELSE /\ attempt' = [attempt EXCEPT ![i] =
                                     IF local_address = 0 THEN "connecting" ELSE "binding"]
                    /\ sockets' = sockets \cup {i} /\ UNCHANGED raised
    /\ UNCHANGED <<fixedVars, parent, started, winning_socket, scope, outer, result>>

\* bind() to local_address: cancelled, refused for a target of the other
\* family, which may show before the checkpoint does, or on to connect().
\* Only close_all() closes the socket of a bind() that raises.
Bind(i) ==
    /\ attempt[i] = "binding"
    /\ \/ /\ Cancelling
          /\ attempt' = [attempt EXCEPT ![i] = "cancelled"] /\ raised' = TRUE
          /\ UNCHANGED failed
       \/ /\ targets[i].family # local_address
          /\ attempt' = [attempt EXCEPT ![i] = "failed"] /\ failed' = failed \cup {i}
          /\ UNCHANGED raised
       \/ /\ ~Cancelling /\ targets[i].family = local_address
          /\ attempt' = [attempt EXCEPT ![i] = "connecting"]
          /\ UNCHANGED <<failed, raised>>
    /\ UNCHANGED <<fixedVars, parent, started, sockets, open_sockets, winning_socket, scope, outer, result>>

\* The network answers: wait_writable returns, and SO_ERROR tells
Answer(i) ==
    /\ attempt[i] = "connecting" /\ targets[i].net \in {"accepts", "refuses"}
    /\ attempt' = [attempt EXCEPT ![i] = IF targets[i].net = "accepts" THEN "ok" ELSE "error"]
    /\ UNCHANGED <<fixedVars, parent, started, failed, sockets, open_sockets, winning_socket, scope,
                   outer, raised, result>>

\* connect() is cancelled and closes its socket
ConnectCancelled(i) ==
    /\ attempt[i] = "connecting" /\ Cancelling
    /\ attempt' = [attempt EXCEPT ![i] = "cancelled"]
    /\ sockets' = sockets \ {i} /\ raised' = TRUE
    /\ UNCHANGED <<fixedVars, parent, started, failed, open_sockets, winning_socket, scope, outer, result>>

\* attempt_connect resumes: success calls off the others, an OSError lets the
\* next one start
EndAttempt(i) ==
    /\ attempt[i] \in {"ok", "error"}
    /\ IF attempt[i] = "ok"
       THEN /\ attempt' = [attempt EXCEPT ![i] = "won"]
            /\ winning_socket' = i /\ scope' = TRUE /\ UNCHANGED failed
       ELSE /\ attempt' = [attempt EXCEPT ![i] = "failed"]
            /\ failed' = failed \cup {i} /\ UNCHANGED <<winning_socket, scope>>
    /\ UNCHANGED <<fixedVars, parent, started, sockets, open_sockets, outer, raised, result>>

CancelOpen ==
    /\ result = "none" /\ ~outer /\ outer' = TRUE
    /\ UNCHANGED <<fixedVars, parent, started, attempt, failed, sockets, open_sockets, winning_socket,
                   scope, raised, result>>

\* A plausible bug: the winner is taken out of open_sockets although the call
\* is cancelled.
KeptAnyway == {winning_socket} \ {0}

\* The socket that is returned in a stream
Kept == IF raised /\ outer THEN {} ELSE {winning_socket} \ {0}

\* The nursery is empty: its scope absorbs a Cancelled unless it comes from
\* outside; then the stream or the error, and close_all()
Finish ==
    /\ parent = "join" /\ \A i \in Target : attempt[i] \in {"none", "won", "failed", "cancelled"}
    /\ parent' = "over"
    /\ result' = CASE raised /\ outer -> "Cancelled"
                   [] winning_socket # 0 /\ ~(raised /\ outer) -> "stream"
                   [] OTHER -> IF Cardinality(failed) = Len(targets) THEN "OSError" ELSE "AssertionError"
    /\ open_sockets' = {} /\ sockets' = sockets \ (open_sockets \ Kept)
    /\ UNCHANGED <<fixedVars, started, attempt, failed, winning_socket, scope, outer, raised>>

EyeballsNext ==
    \/ Loop \/ MoveOn \/ ParentCancelled \/ CancelOpen \/ Finish
    \/ \E i \in Target : \/ StartAttempt(i) \/ Bind(i) \/ Answer(i) \/ ConnectCancelled(i)
                         \/ EndAttempt(i)

EyeballsSpec == EyeballsInit /\ [][EyeballsNext]_eyeVars

\* Once open_tcp_stream has begun, tasks that can run do run, the delay
\* passes, and the network answers
EyeballsFairness ==
    /\ WF_eyeVars(started > 0 /\ Loop) /\ WF_eyeVars(MoveOn)
    /\ WF_eyeVars(ParentCancelled) /\ WF_eyeVars(Finish)
    /\ WF_eyeVars(\E i \in Target : StartAttempt(i) \/ Bind(i) \/ EndAttempt(i) \/ ConnectCancelled(i))
    /\ WF_eyeVars(\E i \in Target : Answer(i))
----------------------------------------------------------------------------
\* However the attempts, the timer, the answers and a cancellation interleave,
\* open_tcp_stream ends with exactly one open socket, the connected one it
\* returns, or with none and an exception; never with the failed assertion;
\* and its first two targets are of different families if any two are.
OneSocketSurvives ==
    /\ result # "none" =>
         /\ sockets = IF result = "stream" THEN {winning_socket} ELSE {}
         /\ result = "stream" => attempt[winning_socket] = "won"
         /\ result # "AssertionError"
         /\ result = "OSError" => failed = Target
    /\ (\E i \in Target : targets[i].family # targets[1].family) => targets[1].family # targets[2].family

\* If a target that can be bound to accepts and the delay is finite, or no
\* target is a black hole, then open_tcp_stream ends, with a stream if there
\* is one to get and it is not cancelled.
Reachable(i) == targets[i].net = "accepts" /\ local_address \in {0, targets[i].family}

ReachableTargetIsFound ==
    (started > 0 /\ IF impatient THEN \E i \in Target : Reachable(i)
                    ELSE \A i \in Target : targets[i].net # "blackhole")
       ~> IF \E i \in Target : Reachable(i) THEN result \in {"stream", "Cancelled"}
          ELSE result # "none"
=============================================================================
