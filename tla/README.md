# libmpaxos in TLA+

TLA+ models, model-checking runs and machine-checked proofs for `libmpaxos`
(`src/libmpaxos`), a C library in which the processes of a fixed group of
nodes agree on the contents of replicated logs with Paxos. Applications commit
requests (`mpaxos_commit_req`) to one or several *groups*; each group has a log
of its own, and the library calls the application back once a request is
decided in the log's next slot.

    tlasany M.tla                              parse
    tlc -workers 2 -config forget.cfg MCMPaxos model-check
    tlapm MPaxosProof.tla                      check proofs

## 1. Inventory

| component | state | operations | interacts with |
|---|---|---|---|
| application interface, request DAG, async module: `mpaxos.c`, `async.c`, `utils/mpr_dag.h` | per group a queue of requests (`dag->ht`), the queue of ready nodes (`dag->qu`), colors, `is_exit_` | `mpaxos_commit_req`, `mpr_dag_push`, `mpr_dag_getwhite`, `mpr_dag_pop`, `async_ready_callback`, `mpaxos_async_destroy` | starts transactions on the thread pool; is called by the poll thread when a slot is decided |
| queue with peek: `utils/mpr_queue.h` | `head`, a bounded `apr_queue_t` | push, peek, trypop | DAG |
| controller and proposer: `controller.c`, `proposer.c` | `txn_info` with a `group_info` per group: phase, responses, `prop_max` | `mpaxos_start_request`, `mpaxos_prepare`, `handle_msg_promise`, `mpaxos_accept`, `handle_msg_accepted`, `phase_2_async_after` | sends to every acceptor, its own included; recorder; acceptor (forget); DAG (callback) |
| acceptor: `acceptor.c` | `ht_accp_`: per group and slot `bid_max` and the accepted proposals | `handle_msg_prepare`, `handle_msg_accept`, `acceptor_forget` | replies on the connection of the request |
| recorder: `recorder.c` | `ht_newest_` (next slot, did I decide the last one), `ht_decided_` | `get_newest_sid`, `record_decided` | read by pool threads, written by the poll thread |
| connections: `comm.c`, `rpc/client.c`, `rpc/server.c` | a client per peer, a connection per accepted socket, input and output buffers | `connect_all_senders`, `send_to`, `add_reply`, the read and write handlers | poll loop; assertions on I/O errors |
| poll loop and framing: `rpc/polling.c`, `rpc/buf.c`, `rpc/rpc.c` | pollset, table of jobs, read and write positions | `poll_mgr_add_job`, `update_job`, `remove_job`, `buf_read`, `buf_write`, message size and type prefix | one thread runs all handlers of a process |
| view, configuration, start-up: `view.c`, `mpaxos-config.c`, `comm.c` | the nodes in the order of the file, the own id, who is connected | `mpaxos_config_load`, `set_node`, `set_nodename`, `get_view`, `start_server`, `connect_all_senders` | every process connects to every node before `mpaxos_start` returns |
| messages: `mpaxos.pb-c.*` (generated), `protobuf-c` (vendored) | none | sizes, packing, unpacking, driven by descriptors | every message between nodes |
| coded values: `rs_helper.h`, `libzfec` | tables of GF(256) | `rs_encode`, `fec_new`, `fec_encode`, `fec_decode` | `mpaxos_accept` sends each node its share |
| hash table `utils/mpr_hash.h`, logging | a lock around `apr_hash` | | everything |
| not part of the protocol: `db_helper.c` (does nothing), `learner.c` (empty), `slot_mgr.c`, `mlock.c`, `mht.c`, `mpr_thread_pool.h` (no caller), `libkvdb` (a client), `src/test` | | | |

A request travels like this. `mpaxos_commit_req` pushes it to the queue of each
of its groups. When it is first in all of them its node turns white; the
daemon thread takes it out of the white queue and gives it to the thread pool.
A pool thread runs `mpaxos_start_request`: the node that decided the previous
slot skips phase 1 (`is_saveprep`) and proposes with ballot 1, every other node
prepares with ballot 2. The rest happens in the poll thread: acceptors answer,
the proposer counts, and the handler that sees a majority of `accepted` runs
`phase_2_async_after`, which records the decision, forgets an old slot, calls
the application back and pops the request from its queues, whereby the next
ones may turn white.

What is hard here:

- *duelling proposers*: ballots carry no node id and `n_retry` is never
  raised, so that different nodes use equal ballots;
- *skipping phase 1*: agreement on every slot but the first rests on what
  happened in the first;
- *forgetting*: an acceptor drops slot `s - 10` when its own node decides `s`,
  whatever the other nodes know;
- *late and stale messages*: responses arrive for transactions that are gone;
- *death of a peer*: the poll thread asserts on write errors;
- *threads*: application threads, daemon, pool threads, poll thread and the one
  in `mpaxos_destroy` share the DAG; part of that is done without its lock;
- *bounds*: queues of 1000 with an assertion, five coded values;
- *several groups*: a request over several groups is accepted, queued and prepared,
  and then fails an assertion when it proposes;
- *the value*: it travels in two fields of a proposal, one of which is not sent and
  the other not kept; shares whose size does not divide the data are read past its end;
- *bytes*: sizes are computed apart from what is packed, with numbers of one to
  ten bytes;
- *start-up*: everyone waits for everyone, and sending to a node that is not
  connected aborts.

`PROJECT.json` lists these hazards at their lines, each with the properties
that would catch it or the reason why none does.

What makes each component correct:

- protocol: a slot is decided once; a node fills slots without gaps, in the
  order of its commits; what was decided stays held by a majority; an acceptor
  never takes back a promise or an accepted proposal; every request is called
  back;
- DAG: requests that share a group run one at a time in commit order; a request
  is given to the pool exactly once, when it is first everywhere; no circle of
  waiting requests; shutdown ends;
- queue: first in, first out with the peeked element counted in; capacity;
- buffer: a queue of bytes, which grows only for what is in it;
- transaction and messages: a message means to its receiver what its sender meant;
  what is decided is with a majority, its value included; any `k` shares give the
  data back; only a request over several groups aborts;
- start-up: whoever has started can reach all; if all are started, all get there;
- connections: whole messages are handed to handlers, in order and once; whoever
  has output is polled for it; a request is answered; the death of the other
  process is noticed; nobody aborts on the pollset.

## 2. Modules

| module | models | role |
|---|---|---|
| `MPaxos` | `controller.c`, `proposer.c`, `acceptor.c`, `recorder.c`, the connections | the protocol of one group, with its properties |
| `MPaxosInv` | | the inductive invariant behind agreement |
| `ReplicatedLog` | | what the protocol promises: an abstract log |
| `MPaxosLog` | | the refinement mapping to `ReplicatedLog` |
| `MPaxosForget` | | the inductive invariants that survive `acceptor_forget` |
| `MPaxosProof`, `MPaxosForgetProof` | | theorems and proofs: types, agreement and the refinement; what holds although slots are dropped |
| `MprQueue` | `utils/mpr_queue.h` | operators on one queue |
| `MprDag` | `mpaxos.c`, `async.c`, `utils/mpr_dag.h` | the threads around the DAG, with its properties |
| `GroupOrder` | | what the DAG promises: requests of a group in order, one at a time |
| `MprDagProof` | | theorems and proofs |
| `RpcChannel` | `rpc/client.c`, `rpc/server.c`, `rpc/polling.c` | the two ends of one connection, with its properties |
| `Buf` | `rpc/buf.c` | the memory of one buffer |
| `ByteQueue` | | what a buffer promises: a queue of bytes |
| `RpcChannelProof`, `BufProof` | | theorems and proofs |
| `Startup` | `mpaxos-config.c`, `view.c`, `comm.c`, `rpc/client.c` | how the processes come up and connect, with its properties |
| `Fec` | `libzfec/fec.c` | operators of the erasure code |
| `ProtobufC` | `protobuf-c/protobuf-c.c` | operators that size, pack and unpack a message |
| `MPaxosMessages` | `mpaxos.pb-c.c`, `rs_helper.h` | the descriptors, and `rs_encode` |
| `Transaction` | `controller.c`, `proposer.c`, `acceptor.c`, `recorder.c`, `comm.c` | `Startup`, messages and coded values composed: requests over one or several groups, with its properties |
| `TransactionInv` | | the inductive invariant of `Transaction` |
| `ProtobufCProof`, `TransactionProof` | | theorems and proofs: packing and unpacking; start-up and transactions |
| `Recursion` | | lemmas on recursive functions for the proof modules; nothing of the system |
| `MCMPaxos`, `MCMprDag`, `MCBuf`, `MCTransaction` | | model values, instances and a state constraint for TLC |

### MPaxos

| variable | code |
|---|---|
| `up` | the process runs |
| `asked`, `done` | requests enlisted by `mpaxos_commit_req`, requests popped; `done + 1` is the one at the head of the group's queue |
| `txn` | the `txn_info` in `ht_txn_info_` and its only `group_info`; `in_phase = 0` is the model's value for "none attached" |
| `newest`, `decided` | `ht_newest_` and `ht_decided_` of the recorder |
| `acc` | `ht_accp_`; a slot that is not in the table is `Fresh`, what `get_accp_info` would create |
| `link`, `reply` | the two directions of the TCP connection a node opened to another (or itself) |
| `log`, `grants` | history variables, for the properties |

| action | code |
|---|---|
| `Commit` | `mpaxos_commit_req` |
| `StartRequest` | `async_commit_job`: `mpaxos_start_request`, `get_newest_sid`, `attach_txn_info`, `mpaxos_prepare` or `mpaxos_accept`, broadcast |
| `HandlePrepare`, `AbortOnPrepare` | `handle_msg_prepare`; the second is its `SAFE_ASSERT(0)` |
| `HandleAccept` | `handle_msg_accept` |
| `HandlePromise` | `handle_msg_promise` with `check_majority` and, on a majority, `phase_1_async_after`, `mpaxos_accept` and its broadcast |
| `HandleAccepted` | `handle_msg_accepted` with, on a majority, `phase_2_async_after`: `record_decided`, `acceptor_forget`, `detach_txn_info`, callback and pop |
| `Crash`, `AbortOnWrite` | a process dies; a process dies because the peer it writes to is gone (`SAFE_ASSERT` in `handle_client_write`) |

A handler is one action. All of a process run in one poll thread
(`rpc/rpc.c:42`), one after the other, and `mpaxos_start_request`, which runs
in a pool thread, holds `tinfo->mx` through its broadcast, so that a response to
the transaction waits. The recorder is called from both threads, under a lock
of its own tables; a node has one transaction per group at a time, and the pool
thread starts the next only after `phase_2_async_after` popped the last
(`GroupOrder`, checked for `MprDag`, is the promise `MPaxos` relies on here).

Details kept because they matter: an accept does not raise `bid_max`; a prepare
below `bid_max` gets `ERR_BID`, one equal to it aborts; every response to a
prepare carries the accepted proposals of the slot; a second response of one
acceptor aborts the proposer; a response for another transaction, or for
another phase, is dropped; a majority of denials leaves the transaction in
phase -1, and nothing takes it from there; `prop_max` is replaced only by a
larger ballot. Abstracted: a proposal is its ballot and its node, which
identify the value; coded values and packing are left to `Transaction`.

### MprQueue, MprDag

`ht`, `color`, `white`, `qids` are the fields of the DAG; `job` follows a request
through commit, pool, start, callback and pop; `daemon` is the program counter of
`mpaxos_async_daemon` and of `mpr_dag_getwhite` inside it; `stage` the progress of
`mpaxos_destroy`. `Commit` (with `DagPush`) and `Pop` (with `DagPop`) hold
`dag->mx` and are atomic; the daemon's steps are separate because
`apr_queue_pop`, the store to `node->color` and the push to the thread pool
happen without it. `apr_queue_t` and the thread pool are external: `waiting` and
`woken` say what `apr_queue_pop` does when it is interrupted. The protocol below
(`CallBack`) decides a started request at any later time.

Assumed of the callers: the groups of a request are distinct; a request is
committed once; nobody commits once `mpaxos_destroy` was called. The white queue's
own limit (10000) is not modelled. `CommitAborts` is the assertion on a full queue
(`mpr_queue.h:51`). This disagrees with the header, which says of `apr_queue`: "it has
two flaws: 1) does not support peek/glance; 2) has a maximum capacity limitation. This
is targeted to solve the two issues." (`mpr_queue.h:5-6`). The peek is there, the limit
has stayed: with capacity `c`, the commit that follows `c + 1` outstanding ones of a
group (one is in `head`) aborts the process, and nothing else does
(`OnlyFullQueueAborts`); the code's capacity is 1000 (`mpr_dag.h:86`). The order in which `mpr_dag_pop` meets the
requests it whitens is left open, as it is an iteration over a hash of groups.

### RpcChannel, Buf

`MPaxos` takes a FIFO queue of whole messages for granted between two nodes
(`link`, `reply`). `RpcChannel` is about where that comes from: the client end of a
connection (`"cli"`) in one process, the `sconn` (`"srv"`) in another. `obuf` and
`ibuf` are `buf_send` and `buf_recv`, `net` what TCP holds, `wantout` the
`APR_POLLOUT` in `pfd.reqevents`, `inset` whether the pollset has the descriptor,
`ps` the field of that name of the job, `round` the events `apr_pollset_poll`
returned that are not handled yet, `caller` where a pool thread is in `update_job`.

| action | code |
|---|---|
| `Call`, `CallRemove`, `CallAdd` | `client_call` by a pool thread: `write_trigger_poll` up to the tests in `poll_worker_update_job`, the removal from the pollset, the return with the new mode |
| `Poll` | one return of `apr_pollset_poll` in `poll_worker_run` |
| `Read` | `handle_client_read`, `handle_sconn_read`: all bytes that arrived, all complete messages, the handlers with what they send, `remove_job` at the end of the stream |
| `Write`, `WriteFails` | `handle_client_write`, `handle_sconn_write`: the socket takes some bytes; the other process is gone |
| `Die` | external: the death of a process |

Grain. `update_job` is three steps, because `remove_job`, which the read handlers
call without `comm->mx`, can come between them; a step of the poll thread's own
handlers is one, as nothing else of it can be seen. The write handler waits for
`comm->mx` (`caller = "idle"`). Handlers run in the poll thread: no message id
(`comm.h:11-17`) has the bit `NEW_THREAD_CALL`. The server's handler answers each
message; the client's may send one more (`phase_1_async_after` does). A message
is its sender, number and size; a byte is a message and a position, so that a cut
or a shift in the framing cannot go unnoticed. Who writes
to a dead process dies with it if it is the client (`WriteFails`, in `MPaxos`
`AbortOnWrite`): the assertion at `client.c:166` comes before the branches for `ECONNRESET`
and `EPIPE` (`client.c:182-191`), which log and remove the job as those of the server
do. No property promises that the writer survives. Connecting is the
subject of `Startup`; accepting, the destruction of jobs and several jobs in a round
are left out.

`Buf` is the memory that `RpcChannel` abstracts to a sequence: the block, the two
indexes, `buf_readjust` and `buf_realloc`, every function of `buf.c`. It is shown to
implement `ByteQueue`. `SzBuf >= 2` is assumed: half of a block of one byte is 0, and
`buf_readjust` would copy it to a block of one byte for ever.

### Startup

`stage` is how far a process is between `mpaxos_init` and the return of
`mpaxos_start`; `local_nid`, `arr_nodes` are the globals of `view.c`, `connected` counts
the calls of `client_connect` that returned.

| action | code |
|---|---|
| `LoadConfig` | `mpaxos_init` and `mpaxos_config_load` with `set_node` and `set_nodename` |
| `StartServer` | `start_server` up to `connect_all_senders`: the port is listened to |
| `ConnectSender` | one `client_connect`; it retries while it is refused, so that the action waits for the other's `Listening` |
| `Abort` | the end of a process |

All processes read the same nodes in the same order, no name twice
(`ConfigAssumption`): the id of a node is its place in the file, so that this is
what the code needs. The kernel completes a connection as soon as the port
is listened to; the poll thread accepts it before it reads from it, which is
part of the delay any message may have.

### Transaction, with MPaxosMessages, ProtobufC and Fec

`MPaxos` is about contention and death and knows of a proposal only its ballot and
node. `Transaction` is about what it leaves out: several groups in one request, the
messages as bytes, the values and shares, and processes that are still starting.
One process commits, one request after the other.

| variable | code |
|---|---|
| `n_req` | the counter of `gen_txn_id` |
| `txn` | the `txn_info` with its `group_info`s (`ginfo`), rounds, request, `prop_max` and proposal |
| `newest`, `acc` | the tables of the recorder of the committer and of the acceptors |
| `link`, `reply` | the two directions of the connections of the committer; each message with its bytes and, for the properties, what its sender meant |
| `begun`, `coding`, `decided` | history variables, for the properties: the rounds of each request, what the encoder returned last, what was decided |

| action | code |
|---|---|
| `StartRequest` | `mpaxos_commit_req` (a request without a group is one for group 1) and `mpaxos_start_request`: slots, ballots, phase 1 or, if this node decided the previous slot in every group, phase 2 |
| `HandlePrepare`, `HandleAccept` | `on_prepare`, `on_accept` and their handlers: unpack, answer each round, pack |
| `HandlePromise`, `HandleAccepted` | `on_promise`, `on_accepted` and their handlers: the responses counted by group, what they carry learned, `check_majority`, then `mpaxos_accept` or `phase_2_async_after` |

`check_majority` goes over a hash of groups and stops at the first without a
majority of yes; which one that is, is left open. `mpaxos_accept` encodes and then
asserts that there is one round (`proposer.c:523`): `AbortCommitter` is that
assertion, with any part of what was queued lost. `prop_self` sets `value` and not `has_value`,
`prop_copy` copies three members, as the code does; what follows from it is the
finding of `lost_value`.

`ProtobufC` follows the library's functions by name: `get_packed_size`, `pack` and
`unpack` for each label, the search for a field number over ranges
(`int_range_lookup`), the scan of the members and the parse in order, unknown
fields and the merging of a repeated embedded message. A packed message is a
sequence of numbers below 256. The library calls itself for an embedded message. The
messages nest at most four deep (a `msg_promise` with responses, with proposals, with a
coded value), so there is one definition per level (`pack1` .. `message_pack`), and what
is common to the levels takes the results for the embedded messages as a function
(`inner`). Without RECURSIVE operators the provers can reason about it. `Fec` does the arithmetic of GF(256) on sets of
exponents (addition is the symmetric difference), with the inversions of general
and of Vandermonde matrices as the code does them; tables are replaced by what
they hold.

## 3. Runs

| run | constants | what it shows |
|---|---|---|
| `agreement` | 3 nodes, all propose, 2 requests each, `ForgetLag` 10, any node may die at any time | types; the inductive invariant `RememberedInv`; `AgreementWhileRemembered`; `SoleLeader`; the refinement of `ReplicatedLog` |
| `forget` | 3 nodes, 2 propose, 3 requests each, `ForgetLag` 1, any node may die at any time | with slots dropped: the inductive invariant `ForgottenInv`; `SlotsConsecutive`, `DecidedIsHeld`, `PropMaxIsNull`, `NoDuplicateReply`, `AcceptorMemory` |
| `solo` | 1 proposer, 3 requests, `ForgetLag` 1, one acceptor may die | `EventuallyCalledBack`, under fairness; the refinement of `ReplicatedLog` although slots are dropped |
| `transaction` | 3 nodes, one commits 2 requests out of three kinds; slots at the boundaries of the encoding | types; the inductive invariant `RequestsInv`; `StartedReachesAll`; `AnySharesDecode`; `SlotUsedOnce`; `DecidedRoundIsHeld`; `WireRoundTrip`; `OnlySeveralGroupsAbort`; under fairness `EventuallyStarted` and `EventuallyDecided` |
| `dag` | 2 groups, 4 requests, capacity 2 | types and capacity; `WhiteIffReady`; `QueuesAreInOrder`; `OnlyFullQueueAborts`; the refinement of `GroupOrder`; `EventuallyPopped`, under fairness |
| `buf` | first size 2, up to 3 bytes a call and 4 in the buffer | types; the refinement of `ByteQueue`; `GrowsWithContent` |
| `channel` | sizes of 2 and types of 1 byte, data of 1 or 2; 2 requests; 3 bytes in the network; either process may die | types; `DeliversInOrder`; `OutputIsPolled`; under fairness `EventuallyAnswered` and `DeathNoticed` |
| `undefined_bid` | 2 proposers, 1 request | violated: `NoUndefinedBid` |
| `stale_slot` | 2 proposers, 11 requests, the code's lag of 10 | violated: `ForgottenStaysClosed` |
| `lost_value` | as `transaction` | violated: `DecidedValueIsStored` |
| `shutdown` | 1 group, 1 request | violated: `DestroyReturns` |
| `pollset_race` | 1 request, the server may die | violated: `NoPollsetAbort` |

Bounds. Three nodes are the least with a majority that is not everyone. Two
requests per node contain a first slot with phase 1 and a later one without;
three, with `ForgetLag` 1, contain a slot that is dropped while others still work
with it. `ForgetLag` is a parameter because the code's 10 is reached only after
eleven slots; with 1, the same step of `phase_2_async_after` happens at the
second. `ForgetLag` 10 in `agreement` means that nothing is forgotten.
Capacity 2 stands for 1000: `dag` lets the fourth commit meet a full queue (one is
held in `head`), with every overlap of the group sets of four requests over two
groups, which are enough for two requests that head one queue each and wait in the
other. A buffer that starts with 2 bytes and holds 4 is compacted,
doubled, and doubled twice in one call. The network of 3 bytes is shorter than
the shortest message (4), so that every message is cut at least once, at every
place, and a longer read holds the end of one message and the beginning of the
next. In `transaction` each kind of request meets what is special about it:
data as one share; four bytes in three shares of two, two of which are read past
the end, and no group; two groups, with an empty share. The slots are at places where
a number takes another byte: 127 and 128, and a high word of 7 and of 8. TLC's
integers end at 2^31 - 1: a 32-bit number stays below that, a 64-bit number is its
two words. A transaction id has the node id in the high word, so that it takes
both. Two requests contain one that follows a decision, with phase 1 skipped. A
view of more than five nodes is excluded (`ViewAssumption`), as there are five coded
values. The acceptors start with empty tables also where the slot is a later one:
no message is about earlier slots. With two requests the committer does not get to the
slot it drops, ten later (`Dropped` in `DecidedRoundIsHeld`); `forget` has that step for
one group with a lag of 1, and the proof has it for any number of requests.
Symmetry is not used. Deadlock is not checked (except in `buf`): a system
whose requests are all called back, or whose processes are dead, stops.

Fairness is weak, and only for threads of the process: the pool runs what it was
given, the poll thread runs a handler whose message has arrived (from a node that
lives: what a dead one had sent may be lost), the daemon and
the destroyer go on, and the protocol calls back what was started. Commits,
crashes, aborts and the call of `mpaxos_destroy` are never forced. Weak fairness is
enough as each of these steps, once possible, stays possible until it is taken
or the process dies. In `channel` the same holds of the poll threads and of a pool
thread inside `update_job`, and the network delivers what it holds; calls and
deaths are never forced. In `transaction` a process that has read its configuration
goes on and retries, and every connection delivers its next message; nobody has to
load a configuration or commit.

### What the violated runs say

- `undefined_bid`. `handle_msg_prepare` treats a prepare with the ballot it has
  already promised as impossible (`acceptor.c:141`), but every node's first
  ballot is the same 2. Two nodes that start at the same time abort the acceptors
  that hear from both. This is also why phase -1 is not reached with one group:
  the abort comes before a denial.
- `stale_slot`. `acceptor.c:64` asks for a check that a slot was not decided and
  forgotten; there is none, so a late prepare for such a slot is promised. The
  counterexample does not need the forgetting node's peers to be faulty, only
  slow. With the same constants, `Agreement` itself (without the condition
  `NothingForgotten`) is violated a few steps later: two requests are called
  back in slot 1. The condition in `AgreementWhileRemembered` is there for that
  reason.
- `lost_value`. `mpaxos_accept` fills `prop->value` and leaves `has_value` 0, so that
  the value is not packed; the coded value is, but `prop_copy`, with which the
  acceptor keeps the proposal, does not copy it. A decided value is then at no
  acceptor, while `acceptor.c:144` and `proposer.c:90` are written so that a later
  proposer learns it from them. The rounds and the node of the proposal do survive
  (`DecidedRoundIsHeld`).
- `shutdown`. `mpaxos_async_destroy` interrupts the white queue once; a daemon
  between its test of `is_exit_` and its wait sleeps for ever, and the join with it.
- `pollset_race`. `rpc_comm.h:34` says that `comm->mx` guards the poll event; the read
  handlers call `remove_job` without it. When the server dies while a pool thread
  is inside `update_job`, both threads take the descriptor out of the pollset, and
  the second one fails its assertion. The abort can happen in `channel`, too: its
  safety properties hold all the same, and `EventuallyAnswered` and `DeathNoticed`
  ask nothing of a process that ended, however it ended.

## 4. Proofs

The theorems about `MPaxos` hold for every finite set of nodes, every choice of
`Proposer` and `Faulty` and every bound (`NodeAssumption`, `BoundAssumption`);
those about `MprDag` for every set of requests, every finite set of groups and any
capacity of the queues (`GroupAssumption`, `NodeAssumption`); those about `RpcChannel` for every size of prefix, type
and message, every network and either process dying; those about `Buf` for every
set of bytes and every first size from 2; those about `Startup` for every
configuration (`ConfigAssumption`). Those about `Transaction` hold for every
configuration of up to five nodes (`ViewAssumption`: five coded values), every committer
in it, all requests over any distinct groups with data of up to 2^30 bytes, so
that a message fits the 32-bit length of a field (`RequestAssumption`, `MaxValueLen`), any
first slots whose low word does not wrap in the run (`SlotAssumption`), and any number
of requests. `NullAssumption` and `TxnAssumption` say that `NULL` is none of the
records.

| theorem | module | says |
|---|---|---|
| `TypeCorrect` | `MPaxosProof` | `Spec => []TypeOK` |
| `SlotsAreConsecutive` | `MPaxosProof` | `Spec => []SlotsConsecutive` |
| `AcceptorsRemember` | `MPaxosProof` | `Spec => AcceptorMemory`, an action property |
| `RememberedIsInvariant` | `MPaxosProof` | `Spec => []RememberedInv` |
| `AgreementHolds` | `MPaxosProof` | `Spec => []AgreementWhileRemembered` |
| `SoleLeaderHolds` | `MPaxosProof` | `Spec => []SoleLeader` |
| `Refinement` | `MPaxosProof` | if `MaxReq <= ForgetLag`: `Spec => ImplementsLog` |
| `SoloRefinement` | `MPaxosProof` | if at most one node proposes: `Spec => ImplementsLog` |
| `AnsweredOnce` | `MPaxosForgetProof` | `Spec => []AnswerInv` |
| `RepliesAreNotDuplicate` | `MPaxosForgetProof` | `Spec => []NoDuplicateReply` |
| `ForgottenIsInvariant` | `MPaxosForgetProof` | `Spec => []ForgottenInv` |
| `DecidersLearnNothing` | `MPaxosForgetProof` | `Spec => []PropMaxIsNull` |
| `DecidedStaysHeld` | `MPaxosForgetProof` | `Spec => []DecidedIsHeld` |
| `DagTypeCorrect` | `MprDagProof` | `Spec => []TypeOK` |
| `WhiteIsReady` | `MprDagProof` | `Spec => []WhiteIffReady` |
| `QueuesHoldGroups` | `MprDagProof` | `Spec => []QueuesAreInOrder` |
| `PopNeverAborts` | `MprDagProof` | the assertions in `mpr_dag_pop` hold |
| `AbortsOnlyWhenFull` | `MprDagProof` | `Spec => []OnlyFullQueueAborts` |
| `DagImplementsOrder` | `MprDagProof` | `Spec => ServesGroupsInOrder`, the refinement of `GroupOrder` |
| `ChannelTypeCorrect` | `RpcChannelProof` | `Spec => []TypeOK` |
| `OutputIsAlwaysPolled` | `RpcChannelProof` | `Spec => []OutputIsPolled` |
| `MessagesArriveInOrder` | `RpcChannelProof` | `Spec => []DeliversInOrder` |
| `BufTypeCorrect` | `BufProof` | `Spec => []TypeOK` |
| `BufImplementsQueue` | `BufProof` | `Spec => IsByteQueue`, the refinement of `ByteQueue` |
| `BufGrowsWithContent` | `BufProof` | `Spec => GrowsWithContent`, an action property |
| `ReallocFits` | `BufProof` | the assertion in `buf_realloc` holds |
| `StartupTypeCorrect` | `TransactionProof` | `StartupSpec => []StartupTypeOK` |
| `StartedIsConnected` | `TransactionProof` | `StartupSpec => []StartedReachesAll` |
| `RoundTripWhole` | `ProtobufCProof` | a message of a well-formed descriptor takes the room `get_packed_size` says and unpacks to what was packed |
| `RequestsGoThrough` | `TransactionProof` | `Spec => []RequestsInv` |
| `TransactionTypeOK` | `TransactionProof` | `Spec => []TypeOK` |
| `SlotsUsedOnce` | `TransactionProof` | `Spec => []SlotUsedOnce` |
| `DecidedIsHeldByMajority` | `TransactionProof` | `Spec => []DecidedRoundIsHeld` |
| `MessagesAreIntact` | `TransactionProof` | `Spec => WireRoundTrip`, an action property |
| `OnlySeveralGroups` | `TransactionProof` | `Spec => OnlySeveralGroupsAbort`, an action property |

**Types.** `TypeOK` of `MPaxos` is inductive only together with `SlotsConsecutive`:
that a slot stays within `1 .. MaxReq` follows from its being one more than the
number of requests called back, and that from the queue discipline. `TypeInv` is
the conjunction.

**Agreement.** It is not inductive, and the usual argument of Paxos (a later ballot
sees what an earlier one chose) is not the one this code uses, since after slot 1 a
leader proposes with a ballot below everyone's prepare. `CoreInv` says why it
works as long as no slot is dropped: prepares exist for slot 1 only and carry
ballot 2; an acceptor grants at most one of them (`GrantInv`), as an equal ballot
aborts it; so at most one node is granted by a majority (`Won`, two majorities
meet); only that node sends accepts, for any slot (`LinkInv`), because a node
gets past slot 1 only by winning it (`ProposerInv`); and its accept for slot 1
comes behind its prepare on the same connection (`PreparedBefore`), so that an
acceptor's list of proposals is empty when it promises and no proposal is
ever learned (`ReplyInv`). `LogInv` ties the decided slots to the winner. The
invariant is `NothingForgotten => CoreInv`: since `newest` never falls, a state
in which nothing was forgotten has only such states before it. The proof has one
lemma per action and conjunct, and one on majorities from `FS_MajoritiesIntersect`
of `FiniteSetTheorems`.

**The log.** The refinement maps a decision to the first empty slot of the log; a
step implements the log if whoever decides finds its slot empty and the earlier ones
filled (`FirstEmpty`). `LogInv` gives that while nothing is forgotten. With one
proposer nothing of the acceptors is needed: `SoloInv` says that every entry is its
own and below its newest slot. So slots that are dropped do harm only where two
nodes propose, and there they do (`stale_slot`).

**Answers.** `AnswerInv` (`MPaxosForget`): of each phase of each request there is at
most one message between a proposer and an acceptor, on the way there, on the way
back or counted. It needs no majorities and holds whatever is forgotten; the
assertions on a second response follow.

**With slots dropped.** Agreement is lost then, but three things are not, and none
is inductive alone. An acceptor promises slot 1 again only after it dropped it,
which only a node does that won slot 1 and decided `ForgetLag` slots more. So an
acceptor shared by two winners is a winner itself, it promises slot 1 at most twice,
and at most two nodes win (`RegrantInv`): three majorities which share, two by two,
no more than two nodes would have more members than there are (`TripleSum`,
`NoThirdLeader`). A leader that dropped slot 1 can then get its own late accept for it,
hold a proposal without a promise, and report it to another node's prepare
(`LateAcceptInv`, `PromiseInv`). `SafeLeader` is why that does no harm: an accept that
is late comes behind a majority without this node, so that with its own promise one
more than a majority promised it slot 1. Another winner would share two of
them, but shares at most the leader itself (`NoOtherLeader`). Hence a proposer that
learned a proposal never reaches phase 2 (`LeaderInv`), which is `PropMaxIsNull`.
A node then decides its own proposals only (`DecidesOwn`), which a majority holds
(`HeldInv`); no later step but the node's own `acceptor_forget` takes one away: that
is `DecidedIsHeld`.

**The DAG.** `WhiteIffReady` and `QueuesAreInOrder` are inductive only with what is
known of each queue and of a request in each stage of its life (`DagInv`): a queue
holds the pending requests of its group in the order of their commits, and is
always left peeked (`HoldsGroup`); from the pool to its pop a request stays first in
all its queues, and one that is enlisted and in nobody's hand is not white
(`Follows`), or `mpr_dag_pop` would not put it in the white queue when its turn comes.
Nothing more is known of the color, which the daemon sets without the lock. The
refinement of `GroupOrder` and the assertions of `mpr_dag_pop` follow: who is
started is first in all its queues. So does `OnlyFullQueueAborts`: a full queue that is
left peeked holds one request more than its capacity.

**The connection.** `JobInv` is about control: a descriptor is in the pollset unless
its job was removed or `update_job` has it out, and output is polled for unless a
pool thread is about to see to it. `StreamInv` is about data: the messages not
handed over yet are, as bytes, the input buffer, the network and what is still to
come, after one another. That a read handler keeps it rests on `ReadTakes`: from
the stream of some messages, cut anywhere, it takes the first ones whole and leaves
the rest. `ReadTakes` and the facts on `FlattenSeq` and `Frames` before it are
inductions. The library's induction theorems have an operator as a parameter, which
the provers cannot instantiate; `SetInduction` says the same of a set of numbers, is
proved from the cardinality of finite sets, and is cited with the set of numbers for
which the claim holds.

**The buffer.** The loops of `buf_readjust` and `buf_from_sock` are recursive
functions. `LoopExists` says that such a function has a value if a measure goes down
with each round (`Need`: what the block is too small by, and whether read bytes are
in front); with `SetInduction` follow `ReadjustMakesRoom` and `FromSockTakes`. Every
action then puts bytes behind the content or takes some from its front.

**Start-up.** `StartedReachesAll` is not inductive: that a process has connected to as
many nodes as there are says nothing of which ones listened. `StartupInv` adds that
the first `connected[p]` nodes of the list have all started their servers, that a
connecting process has the list of the file, and that it stops at its end.
`StartupSpec` has every step of a process that `Transaction` has, and lets any of
them end at any time.

**The bytes.** `RoundTripWhole` is built from below: a number of 32 or 64 bits takes as
many bytes as its size function says, ends at its first byte below 128, and parses to
itself; a tag gives back its field number and wire type; `int_range_lookup` finds a field
in the ranges of a well-formed descriptor (`WellFormed`, shown of every descriptor in
use); so one round of the first loop of `message_unpack` takes exactly one packed field
off the front (`ScanMember`), all rounds take the fields in their order, and the last
loop puts each where it was. `Through` is what is then left of the message: everything
but an optional member whose `has_...` is 0, which is not sent. Each level of nesting
uses the theorem of the level below. The loops are recursive functions, and the facts about them
inductions over the number of fields or elements, with `SetInduction`.

**The transactions.** That a decided round is at a majority, and that nobody aborts without
need, is about stale and repeated messages, of which `DecidedRoundIsHeld` and
`OnlySeveralGroupsAbort` say nothing. `RequestsInv` does, in parts. Each request
goes for slots of its own: `record_decided` renews the newest slot before the
transaction is detached (`SlotUsedOnce`, with `NewestInv` and `BegunInv`). So an acceptor
knows nothing of these slots before the request's own messages arrive, never meets a
ballot it promised, and answers yes (`AcceptorInv`, `ReplyInv`), without a proposal
to learn (`TxnInv`: `prop_max` stays NULL). The messages of a connection are in the order of
requests and phases, the answers ahead of what is not yet answered (`Stamp`,
`OrderInv`), so that a node whose answer was counted has none left to send
(`CountedInv`): no answer comes twice, and a late one does not count for the next
request. Who was counted in phase 2 holds the round, in the form in which it was proposed, because a
message is what its sender packed (`Genuine`) and comes out as it went in; or it is the
committer itself and dropped it, for which it must have decided ten slots more. A
majority of such nodes is what `check_majority` saw, and no later step but that one takes
a round away. `StartupInv` is used for the ids: a counted `nid` is one process.

Only model-checked: `AnySharesDecode`, as the inversion of a matrix over GF(256) is an
induction over its size about sums of field elements, which is not attempted; every liveness property (`EventuallyCalledBack`,
`EventuallyPopped`, `EventuallyAnswered`, `DeathNoticed`, `EventuallyStarted`,
`EventuallyDecided`), as the prover has no fairness and no ENABLED. `Agreement` without
a condition is neither, since it does not hold.

## 5. What is left out, and the plan

Not modelled: logging, the parsing of JSON, persistence (its functions are empty),
code without a caller, the messages nobody sends (`msg_decide`, `msg_learn`). Of
protobuf-c, packing into a buffer object, packed repeated fields, the scalar types
the messages do not use, freeing and services. A restart is not modelled because
no code recovers anything. Use of freed memory (`async.c:212`, `mpaxos.c:72`)
is not modelled; the hazards name it. Nor is the one in the code that replaces a learned
proposal by a larger one (`proposer.c:170`): no run learns even one (`PropMaxIsNull`). `Transaction` has one committer
and no deaths besides the assertion: two committers abort the acceptors
(`undefined_bid`), and `MPaxos` has both. Phase -1 needs a majority of denials,
which one committer cannot meet; with two, the equal ballots abort the acceptors before
a majority has denied.

Next, in this order:

1. `MPaxosNode`: `MprDag` composed with `MPaxos`, in place of the counters `asked`
   and `done`; the recorder's operations as steps of two threads.
2. Accepting a connection; `mpaxos_destroy` of the poll manager.
3. Proofs: that the pollset holds the descriptor whenever `update_job` looks for it, as
   long as nobody dies (`NoPollsetAbort` with `Faulty` empty); that `Transaction` with
   requests of one group implements `ReplicatedLog`.

Runs that ask related questions of one module are to share a configuration, as
`agreement` and `forget` do with deaths, rather than to grow in number.
