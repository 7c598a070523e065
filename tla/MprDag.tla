------------------------------- MODULE MprDag -------------------------------
(***************************************************************************)
(* The request queues of a libmpaxos process (async.c, mpr_dag.h): every   *)
(* group has a queue of requests, and a request is given to the thread     *)
(* pool once it is first in the queues of all its groups.  The threads are *)
(* the application's (mpaxos_commit_req), the daemon, the pool's, the poll *)
(* thread that calls back and pops, and the one in mpaxos_destroy.         *)
(***************************************************************************)
EXTENDS MprQueue, SequencesExt

CONSTANTS Queue,   \* the groups
          Req      \* the requests, each committed at most once

\* A group is a group_id_t, and no node is at address 0.
ASSUME GroupAssumption == IsFiniteSet(Queue)
ASSUME NodeAssumption  == Null \notin Req

VARIABLES
  ht,        \* ht[q]: dag->ht, the queue of group q
  qids,      \* qids[r]: node->qids, the groups of r
  color,     \* color[r]: the color of r's node
  job,       \* job[r]: how far r has come
  white,     \* dag->qu, the nodes that wait for the daemon
  daemon,    \* the daemon: where it is, and the node it has in hand
  stage,     \* how far mpaxos_destroy has come
  crashed,   \* an assertion failed: the process is gone
  pending    \* history: the requests committed and not popped, in commit order

dagVars == <<ht, qids, color, white>>
vars == <<dagVars, job, daemon, stage, crashed, pending>>

Job    == {"new", "enlisted", "pooled", "started", "calledback", "popped"}
Stage  == {"run", "nocomm", "exit", "interrupted", "joined"}
At     == {"check", "pop", "waiting", "woken", "gray", "give", "exit"}

-----------------------------------------------------------------------------
\* r is first in the queue of every group it is in.
AtHead(r, q_of) == \A q \in qids[r] : q_of[q].head = r

Init ==
  /\ ht      = [q \in Queue |-> NewQueue]
  /\ qids    = [r \in Req |-> {}]
  /\ color   = [r \in Req |-> "BLACK"]
  /\ job     = [r \in Req |-> "new"]
  /\ white   = <<>>
  /\ daemon  = [at |-> "check", node |-> Null]
  /\ stage   = "run"
  /\ crashed = FALSE
  /\ pending = <<>>

\* Mutant of DagPush: to be first in one of the queues makes the node white.
DagPushEager(r, S) ==
  LET pushed == [q \in Queue |-> IF q \in S THEN Peek(Push(ht[q], r)) ELSE ht[q]]
      goto_white == \E q \in S : pushed[q].head = r
  IN  /\ ht' = pushed
      /\ qids' = [qids EXCEPT ![r] = S]
      /\ color' = [color EXCEPT ![r] = IF goto_white THEN "WHITE" ELSE "BLACK"]
      /\ white' = IF goto_white THEN Append(white, r) ELSE white

\* mpr_dag_push, under dag->mx: r is pushed to the queues of its groups, and is
\* white when it is first in all of them.
DagPush(r, S) ==
  LET pushed == [q \in Queue |-> IF q \in S THEN Peek(Push(ht[q], r)) ELSE ht[q]]
      goto_white == \A q \in S : pushed[q].head = r
  IN  /\ ht' = pushed
      /\ qids' = [qids EXCEPT ![r] = S]
      /\ color' = [color EXCEPT ![r] = IF goto_white THEN "WHITE" ELSE "BLACK"]
      /\ white' = IF goto_white THEN Append(white, r) ELSE white

\* mpaxos_commit_req, up to mpaxos_async_enlist.
Commit(r) ==
  /\ ~ crashed /\ stage = "run" /\ job[r] = "new"
  /\ \E S \in (SUBSET Queue) \ {{}} :
       /\ \A q \in S : HasRoom(ht[q])
       /\ DagPush(r, S)
  /\ job' = [job EXCEPT ![r] = "enlisted"]
  /\ pending' = Append(pending, r)
  /\ UNCHANGED <<daemon, stage, crashed>>

\* A queue is full: SAFE_ASSERT in mpr_queue_push aborts the process.
CommitAborts(r) ==
  /\ ~ crashed /\ stage = "run" /\ job[r] = "new"
  /\ \E q \in Queue : ~ HasRoom(ht[q])
  /\ crashed' = TRUE
  /\ UNCHANGED <<dagVars, job, daemon, stage, pending>>

-----------------------------------------------------------------------------
\* while (!is_exit_) in mpaxos_async_daemon.
DaemonCheck ==
  /\ ~ crashed /\ daemon.at = "check"
  /\ daemon' = [daemon EXCEPT !.at = IF stage \in {"exit", "interrupted"}
                                     THEN "exit" ELSE "pop"]
  /\ UNCHANGED <<dagVars, job, stage, crashed, pending>>

\* apr_queue_pop in mpr_dag_getwhite returns a node, at once or after a wait.
DaemonPop ==
  /\ ~ crashed /\ daemon.at \in {"pop", "waiting", "woken"} /\ white # <<>>
  /\ daemon' = [at |-> "gray", node |-> Head(white)]
  /\ white' = Tail(white)
  /\ UNCHANGED <<ht, qids, color, job, stage, crashed, pending>>

\* apr_queue_pop finds no node: it waits, or gives up when it was interrupted
\* while it waited (APR_EINTR), and the loop continues.
DaemonNoNode ==
  /\ ~ crashed /\ daemon.at \in {"pop", "woken"} /\ white = <<>>
  /\ daemon' = [daemon EXCEPT !.at = IF @ = "pop" THEN "waiting" ELSE "check"]
  /\ UNCHANGED <<dagVars, job, stage, crashed, pending>>

\* mpr_dag_getwhite colors the node, without dag->mx.
DaemonGray ==
  /\ ~ crashed /\ daemon.at = "gray"
  /\ color' = [color EXCEPT ![daemon.node] = "GRAY"]
  /\ daemon' = [daemon EXCEPT !.at = "give"]
  /\ UNCHANGED <<ht, qids, white, job, stage, crashed, pending>>

\* apr_thread_pool_push of async_commit_job.
DaemonGive ==
  /\ ~ crashed /\ daemon.at = "give"
  /\ job' = [job EXCEPT ![daemon.node] = "pooled"]
  /\ daemon' = [at |-> "check", node |-> Null]
  /\ UNCHANGED <<dagVars, stage, crashed, pending>>

-----------------------------------------------------------------------------
\* async_commit_job: a pool thread runs mpaxos_start_request, which only sends.
StartJob(r) ==
  /\ ~ crashed /\ job[r] = "pooled"
  /\ job' = [job EXCEPT ![r] = "started"]
  /\ UNCHANGED <<dagVars, daemon, stage, crashed, pending>>

\* The poll thread decided r's slot (module MPaxos): async_ready_callback calls
\* the application back.
CallBack(r) ==
  /\ ~ crashed /\ stage = "run" /\ job[r] = "started"
  /\ \A s \in Req : job[s] # "calledback"
  /\ job' = [job EXCEPT ![r] = "calledback"]
  /\ UNCHANGED <<dagVars, daemon, stage, crashed, pending>>

\* Mutants of DagPop: the nodes that come first are whitened without a look at
\* their other queues, and no node is whitened.
DagPopEager(r) ==
  LET popped == [q \in Queue |-> IF q \in qids[r] THEN Peek(TryPop(ht[q])) ELSE ht[q]]
      whitened == {s \in Req : /\ \E q \in qids[r] : popped[q].head = s
                               /\ color[s] # "WHITE"}
  IN  /\ ht' = popped
      /\ color' = [s \in Req |-> IF s \in whitened THEN "WHITE" ELSE color[s]]
      /\ \E order \in SetToSeqs(whitened) : white' = white \o order
      /\ UNCHANGED qids

DagPopOnly(r) ==
  /\ ht' = [q \in Queue |-> IF q \in qids[r] THEN Peek(TryPop(ht[q])) ELSE ht[q]]
  /\ UNCHANGED <<qids, color, white>>

\* mpr_dag_pop, under dag->mx: r leaves its queues, and the nodes that are now
\* first in all their queues become white.
DagPop(r) ==
  LET popped == [q \in Queue |-> IF q \in qids[r] THEN Peek(TryPop(ht[q])) ELSE ht[q]]
      whitened == {s \in Req : /\ \E q \in qids[r] : popped[q].head = s
                               /\ color[s] # "WHITE" /\ AtHead(s, popped)}
  IN  /\ ht' = popped
      /\ color' = [s \in Req |-> IF s \in whitened THEN "WHITE" ELSE color[s]]
      /\ \E order \in SetToSeqs(whitened) : white' = white \o order
      /\ UNCHANGED qids

\* The rest of async_ready_callback: pop, and SAFE_ASSERT that it was r.
Pop(r) ==
  /\ ~ crashed /\ job[r] = "calledback"
  /\ IF \A q \in qids[r] : Popped(ht[q]) = r
     THEN /\ DagPop(r)
          /\ job' = [job EXCEPT ![r] = "popped"]
          /\ \E i \in DOMAIN pending :
               pending[i] = r /\ pending' = RemoveAt(pending, i)
          /\ UNCHANGED crashed
     ELSE /\ crashed' = TRUE
          /\ UNCHANGED <<dagVars, job, pending>>
  /\ UNCHANGED <<daemon, stage>>

-----------------------------------------------------------------------------
\* mpaxos_destroy, first part: comm_destroy joins the poll thread between two
\* handlers; nothing is called back any more.
DestroyComm ==
  /\ ~ crashed /\ stage = "run" /\ \A r \in Req : job[r] # "calledback"
  /\ stage' = "nocomm"
  /\ UNCHANGED <<dagVars, job, daemon, crashed, pending>>

\* mpaxos_async_destroy sets is_exit_ ...
SetExit ==
  /\ ~ crashed /\ stage = "nocomm"
  /\ stage' = "exit"
  /\ UNCHANGED <<dagVars, job, daemon, crashed, pending>>

\* ... wakes who waits in apr_queue_pop now ...
Interrupt ==
  /\ ~ crashed /\ stage = "exit"
  /\ stage' = "interrupted"
  /\ daemon' = [daemon EXCEPT !.at = IF @ = "waiting" THEN "woken" ELSE @]
  /\ UNCHANGED <<dagVars, job, crashed, pending>>

\* ... and joins the daemon.
Join ==
  /\ ~ crashed /\ stage = "interrupted" /\ daemon.at = "exit"
  /\ stage' = "joined"
  /\ UNCHANGED <<dagVars, job, daemon, crashed, pending>>

DaemonStep  == DaemonCheck \/ DaemonPop \/ DaemonNoNode \/ DaemonGray \/ DaemonGive
DestroyStep == SetExit \/ Interrupt \/ Join

Next ==
  \/ \E r \in Req : Commit(r) \/ CommitAborts(r) \/ StartJob(r) \/ CallBack(r) \/ Pop(r)
  \/ DaemonStep \/ DestroyComm \/ DestroyStep

Spec == Init /\ [][Next]_vars

\* Threads run, and the protocol calls back what was started; no one has to
\* commit or to destroy.
Fairness ==
  /\ WF_vars(DaemonStep) /\ WF_vars(DestroyStep)
  /\ \A r \in Req : WF_vars(StartJob(r)) /\ WF_vars(CallBack(r)) /\ WF_vars(Pop(r))

FairSpec == Spec /\ Fairness
-----------------------------------------------------------------------------
\* Type correctness; no queue of a group holds more than its capacity.
TypeOK ==
  /\ \A q \in Queue : Len(ht[q].queue) <= Capacity
  /\ ht \in [Queue -> [head : Req \cup {Null}, queue : Seq(Req)]]
  /\ qids \in [Req -> SUBSET Queue]
  /\ color \in [Req -> {"BLACK", "WHITE", "GRAY"}]
  /\ job \in [Req -> Job]
  /\ white \in Seq(Req)
  /\ daemon \in [at : At, node : Req \cup {Null}]
  /\ stage \in Stage
  /\ crashed \in BOOLEAN
  /\ pending \in Seq(Req)

\* The daemon has r's node, or will find it in the white queue.
InHand(r) == r \in Range(white) \/ daemon.node = r

\* No request is forgotten and none is given out twice: an enlisted request is
\* on its way to the pool, exactly once, if and only if it is first in the
\* queues of all its groups, although the queues change in several steps of
\* mpr_dag_pop and the color is set without the lock.
WhiteIffReady ==
  ~ crashed =>
    /\ \A r \in Req : job[r] = "enlisted" => (InHand(r) <=> AtHead(r, ht))
    /\ \A r \in Req : InHand(r) => job[r] = "enlisted"
    /\ \A i, j \in DOMAIN white : white[i] = white[j] => i = j
    /\ daemon.node \notin Range(white)

\* r was committed before s, and neither is popped.
Before(r, s) ==
  \E i, j \in DOMAIN pending : i < j /\ pending[i] = r /\ pending[j] = s

\* mpr_dag_pop finds the request it was called for first in every queue: the
\* three SAFE_ASSERTs on the node and SAFE_ASSERT(data == req) hold, and each
\* queue holds exactly the requests of its group, once each, in commit order.
QueuesAreInOrder ==
  ~ crashed =>
    /\ \A r \in Req : job[r] \in {"pooled", "started", "calledback"} => AtHead(r, ht)
    /\ \A i, j \in DOMAIN pending : pending[i] = pending[j] => i = j
    /\ \A q \in Queue :
         LET queued == Contents(ht[q])
         IN  /\ Range(queued) = {r \in Range(pending) : q \in qids[r]}
             /\ \A i, j \in DOMAIN queued : i < j => Before(queued[i], queued[j])

\* Nothing aborts the process but a group that has filled its queue, with one
\* request more than the capacity because mpr_dag_push and mpr_dag_pop always
\* leave the first one in the head: of the limit that mpr_queue.h:5-6 wants to
\* be rid of (SAFE_ASSERT in mpr_queue_push), this is what the callers can rely on.
OnlyFullQueueAborts ==
  crashed => \E q \in Queue : Len(Contents(ht[q])) = Capacity + 1

\* "cannot call on same group concurrently, otherwise would be wrong"
\* (async.c:142), and first come, first served in each group.
Running == {r \in Req : job[r] \in {"pooled", "started", "calledback"}}
Order == INSTANCE GroupOrder WITH running <- Running
ServesGroupsInOrder == Order!Spec

\* As long as the process is not being destroyed, every committed request is
\* popped: requests of several groups do not wait for each other in a circle,
\* and the daemon misses no node.
EventuallyPopped ==
  \A r \in Req : job[r] = "enlisted" ~> (job[r] = "popped" \/ crashed \/ stage # "run")

\* mpaxos_destroy comes to its end (bench_mpaxos.c:75 logs and exits after it):
\* the daemon it joins leaves its loop.
DestroyReturns == (stage = "exit") ~> (stage = "joined")
=============================================================================
