------------------------------ MODULE Startup ------------------------------
(***************************************************************************)
(* How the processes of a configuration come up (mpaxos-config.c, view.c,  *)
(* comm.c, client.c): each loads the same list of nodes, opens its server  *)
(* and then connects to every node of the view, itself included, one after *)
(* the other, trying again for as long as it is refused.                   *)
(*                                                                         *)
(* The kernel completes a connection as soon as the other side listens.    *)
(* The poll thread there accepts it (handle_server_accept) before it reads *)
(* from it, so accepting is part of the delay any message may have.        *)
(***************************************************************************)
EXTENDS Integers, Sequences, FiniteSets, Functions

CONSTANT Config    \* the names in the "nodes" array of the configuration files

Process == Range(Config)

\* The files of all processes have the same nodes in the same order, no name
\* twice.
ASSUME ConfigAssumption == /\ Config \in Seq(Process) /\ Config # <<>>
                           /\ IsInjective(Config)

VARIABLES
  stage,      \* how far process p is; "aborted" by a SAFE_ASSERT or otherwise gone
  local_nid,  \* local_nid_, 0 for the code's -1
  arr_nodes,  \* arr_nodes_, the view of every group
  connected   \* the number of senders client_connect has returned for

startupVars == <<stage, local_nid, arr_nodes, connected>>

Stage == {"off", "configured", "connecting", "started", "aborted"}

\* Mutant of Listening: the server is started last.
ListeningLate(p) == stage[p] = "started"

\* The port is bound and listened to.
Listening(p) == stage[p] \in {"connecting", "started"}

\* set_node: the node ids are counted from 1 in the order of the list; the "nid"
\* of the file is not used.
NodeIds == [i \in 1 .. Len(Config) |-> i]

\* set_nodename: the id under which the own name was entered.
NidOf(name) == CHOOSE i \in 1 .. Len(Config) : Config[i] = name

\* get_view: the same array for every group.
get_view(p) == arr_nodes[p]

StartupInit ==
  /\ stage     = [p \in Process |-> "off"]
  /\ local_nid = [p \in Process |-> 0]
  /\ arr_nodes = [p \in Process |-> <<>>]
  /\ connected = [p \in Process |-> 0]

\* mpaxos_init and mpaxos_config_load.
LoadConfig(p) ==
  /\ stage[p] = "off"
  /\ stage' = [stage EXCEPT ![p] = "configured"]
  /\ arr_nodes' = [arr_nodes EXCEPT ![p] = NodeIds]
  /\ local_nid' = [local_nid EXCEPT ![p] = NidOf(p)]
  /\ UNCHANGED connected

\* start_server up to connect_all_senders.
StartServer(p) ==
  /\ stage[p] = "configured"
  /\ stage' = [stage EXCEPT ![p] = "connecting"]
  /\ UNCHANGED <<local_nid, arr_nodes, connected>>

\* Mutant of ConnectSender: a refused connection is not tried again.
ConnectSenderOnce(p) ==
  /\ stage[p] = "connecting"
  /\ connected' = [connected EXCEPT ![p] = @ + 1]
  /\ stage' = IF connected'[p] = Len(get_view(p))
              THEN [stage EXCEPT ![p] = "started"] ELSE stage
  /\ UNCHANGED <<local_nid, arr_nodes>>

\* One client_connect of connect_all_senders; refused while the other side does
\* not listen.  mpaxos_start returns after the last one.
ConnectSender(p) ==
  /\ stage[p] = "connecting"
  /\ LET next == connected[p] + 1
     IN  /\ Listening(Config[get_view(p)[next]])
         /\ connected' = [connected EXCEPT ![p] = next]
         /\ stage' = IF next = Len(get_view(p))
                     THEN [stage EXCEPT ![p] = "started"] ELSE stage
  /\ UNCHANGED <<local_nid, arr_nodes>>

\* The process ends.
Abort(p) ==
  /\ stage' = [stage EXCEPT ![p] = "aborted"]
  /\ UNCHANGED <<local_nid, arr_nodes, connected>>

Start(p) == LoadConfig(p) \/ StartServer(p) \/ ConnectSender(p)

StartupNext == \E p \in Process : Start(p) \/ Abort(p)

StartupSpec == StartupInit /\ [][StartupNext]_startupVars
-----------------------------------------------------------------------------
StartupTypeOK ==
  /\ stage \in [Process -> Stage]
  /\ local_nid \in [Process -> 0 .. Len(Config)]
  /\ arr_nodes \in [Process -> {<<>>, NodeIds}]
  /\ connected \in [Process -> 0 .. Len(Config)]

\* When mpaxos_start has returned somewhere, the server of every node was
\* started (its process may be gone since), and there is a connection to each:
\* whatever broadcast_msg_prepare
\* and broadcast_msg_accept_c send has a job in the pollset (SAFE_ASSERT on
\* job->worker, polling.c:225) and a server with its handlers registered.
StartedReachesAll ==
  \A p \in Process : stage[p] = "started" =>
    /\ connected[p] = Len(Config)
    /\ \A q \in Process : stage[q] \in {"connecting", "started", "aborted"}
=============================================================================
