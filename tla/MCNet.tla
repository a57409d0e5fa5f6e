--------------------------------- MODULE MCNet ---------------------------------
(***************************************************************************)
(* Model-checking instance of what talks to the world outside the run:     *)
(* a child process, outgoing connections, a server, signals, and, because  *)
(* they too have to be cleaned up when the run ends, async generators.     *)
(* They share no state, so one of them is in use.                          *)
(***************************************************************************)
EXTENDS Subprocess, HappyEyeballs, TcpServer, SignalReceiver, AsyncGens

VARIABLE part    \* "process", "eyeballs", "server", "signals" or "agens"

\* Up to three addresses of two families, on hosts of every kind.  The first
\* family may be called 4: they are only ever compared.
MCLookups ==
    {list \in UNION {[1 .. n -> [family : {4, 6}, net : Nets]] : n \in 1 .. 3} : list[1].family = 4}

netVars == <<procVars, eyeVars, serverVars, signalVars, agenVars, part>>

NetInit ==
    /\ ProcessInit /\ EyeballsInit /\ ServerInit /\ SignalInit /\ AgenInit
    /\ part \in {"process", "eyeballs", "server", "signals", "agens"}
    /\ part # "process" => platform = "kqueue" /\ obeys /\ permitted /\ ~inherited
    /\ part # "eyeballs" => impatient /\ local_address = 0 /\ targets = <<[family |-> 4, net |-> "accepts"]>>
    /\ local_address # 0 => Len(targets) <= 2
    /\ part # "server" => todo = <<CHOOSE a \in Address : TRUE>>

NetNext ==
    /\ \/ /\ part = "process" /\ ProcessNext
          /\ UNCHANGED <<eyeVars, serverVars, signalVars, agenVars>>
       \/ /\ part = "eyeballs" /\ EyeballsNext
          /\ UNCHANGED <<procVars, serverVars, signalVars, agenVars>>
       \/ /\ part = "server" /\ ServerNext
          /\ UNCHANGED <<procVars, eyeVars, signalVars, agenVars>>
       \/ /\ part = "signals" /\ SignalNext
          /\ UNCHANGED <<procVars, eyeVars, serverVars, agenVars>>
       \/ /\ part = "agens" /\ AgenNext
          /\ UNCHANGED <<procVars, eyeVars, serverVars, signalVars>>
    /\ UNCHANGED part

NetSpec ==
    /\ NetInit
    /\ [][NetNext]_netVars
    /\ ProcessFairness /\ EyeballsFairness /\ ServerFairness

\* No way through open_tcp_stream or serve_tcp, with attempts, timers,
\* errors and cancellation in any order, leaves a socket open that nobody
\* holds, or closes the one that is returned.
NoSocketLeaked == OneSocketSurvives /\ ServerLeavesNothingOpen

\* Whoever can be connected is: an outgoing connection is made if any
\* address accepts it, and an incoming one gets its handler even if the
\* process is out of descriptors for a while.
ConnectionsAreMade == ReachableTargetIsFound /\ ConnectionIsServed
================================================================================
