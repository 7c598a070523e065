---------------------------- MODULE Transaction ----------------------------
(***************************************************************************)
(* Requests over one or several groups from commit to callback, down to    *)
(* the bytes on the wire, in processes that come up as module Startup says.*)
(* One process commits, one request at a time; contention between          *)
(* proposers is the subject of module MPaxos.  A message is packed by its  *)
(* sender and unpacked by its receiver (ProtobufC), the value travels as   *)
(* coded values (Fec).  A connection carries messages whole and in order   *)
(* (module RpcChannel); an action is a handler.                            *)
(***************************************************************************)
EXTENDS Startup, MPaxosMessages

CONSTANTS Committer,   \* the process whose application commits
          Requests,    \* what it may commit: [gids, data, data_c]
          NextSlots,   \* what the recorder may know at first: gid -> [sid, is_me]
          MaxRequest   \* bound: requests committed

\* mpaxos_commit_req: a request without a group is one for group 1.
Groups(req) == IF req.gids = <<>> THEN <<1>> ELSE req.gids

\* A group is in a request once, and the data is well within the range of its
\* uint32_t size.
ASSUME RequestAssumption ==
  /\ Committer \in Process /\ MaxRequest \in UInt32
  /\ \A r \in Requests :
       /\ r.gids \in Seq(UInt32) /\ IsInjective(r.gids)
       /\ \A data \in {r.data, r.data_c} : data \in Seq(Octet) /\ Len(data) <= MaxValueLen

\* The recorder has a slot for every group, and its low word does not wrap.
ASSUME SlotAssumption ==
  \A slots \in NextSlots :
    /\ \A r \in Requests : Range(Groups(r)) \subseteq DOMAIN slots
    /\ \A gid \in DOMAIN slots : /\ slots[gid] \in [sid : UInt64, is_me : BOOLEAN]
                                 /\ slots[gid].sid.lo + MaxRequest \in UInt32

ASSUME ViewAssumption == Len(Config) <= 5    \* cvs has n = 5 elements

\* The transaction of a request (txn_info_t): for each of its groups the round, the
\* answers to it and the proposal to adopt.
Said  == UNION {[nids -> {SUCCESS, ERR_BID}] : nids \in SUBSET Range(NodeIds)}
Ginfo == [rid : Roundid, prom : Said, accd : Said, max_prop : Proposal \cup {NULL}]
Txn(req) ==
         [tid : UInt64, req : {req}, in_phase : {-1, 1, 2}, rids : Seq(Roundid),
          ginfo : [Range(Groups(req)) -> Ginfo],
          prop_max : Proposal \cup {NULL}, prop : Proposal \cup {NULL}]

ASSUME TxnAssumption == \A req \in Requests : NULL \notin Txn(req)

VARIABLES
  n_req,    \* the requests committed so far: the counter of gen_txn_id
  txn,      \* the transaction attached at Committer, or NULL
  newest,   \* ht_newest_ of Committer's recorder
  acc,      \* acc[p]: ht_accp_info_, <<gid, sid>> to bid_max and arr_prop
  link,     \* link[p]: messages from Committer to p, in order
  reply,    \* reply[p]: those back on the same connection
  begun,    \* history: the rounds of each request, in the order of their start
  coding,   \* history: what was last given to rs_encode and what it returned
  decided   \* history: the proposals given to record_decided

txnVars == <<n_req, txn, newest, acc, link, reply, begun, coding, decided>>
vars == <<startupVars, txnVars>>

Self == local_nid[Committer]
Up(p) == stage[p] # "aborted"

\* gen_txn_id: the node id is the high word, the counter the low one.
gen_txn_id(nid, counter) == [hi |-> nid, lo |-> counter]

\* A slot is a number of two words; slots with a low word at its limits are left out.
Later(sid, n) == [sid EXCEPT !.lo = @ + n]
Next64(sid) == Later(sid, 1)
ForgetLag == 10    \* in phase_2_async_after
Less64(a, b) == a.hi < b.hi \/ (a.hi = b.hi /\ a.lo < b.lo)

\* A packed message, next to what its sender meant.
Packed(desc, message) ==
  [t |-> message.h.t, meant |-> message, bytes |-> message_pack(desc, message)]

Header(t, nid, tid) == Message(msg_header, [t |-> t, nid |-> nid, tid |-> tid])

Init ==
  /\ StartupInit
  /\ n_req = 0
  /\ txn = NULL
  /\ newest \in NextSlots
  /\ acc = [p \in Process |-> <<>>]
  /\ link = [p \in Process |-> <<>>]
  /\ reply = [p \in Process |-> <<>>]
  /\ begun = <<>>
  /\ coding = NULL
  /\ decided = {}

-----------------------------------------------------------------------------
\* The proposer.

\* broadcast_msg_prepare: to the view of the first group.
broadcast_msg_prepare(t) ==
  LET message == Message(msg_prepare, [h |-> Header(PREPARE, Self, t.tid), rids |-> t.rids])
  IN  link' = [p \in Process |-> Append(link[p], Packed(msg_prepare, message))]

\* broadcast_msg_accept_c: the i-th node of the view gets the i-th coded value.
broadcast_msg_accept_c(t, prop, cvs) ==
  LET message(i) == Message(msg_accept, [h |-> Header(ACCEPT, Self, t.tid),
                                         prop |-> [prop EXCEPT !.coded_value = cvs[i]]])
  IN  link' = [p \in Process |->
        Append(link[p], Packed(msg_accept, message(NidOf(p) - 1)))]

\* The proposal mpaxos_accept makes of the request.  has_value is not set.
prop_self(t) == Message(proposal, [rids |-> t.rids, nid |-> Self, value |-> t.req.data])

\* What the encoder gets: data_c if there is one, else all of data as one share.
\* b is what lies in memory behind it.
Coding(req, b) ==
  LET data == IF req.data_c # <<>> THEN req.data_c ELSE req.data
      k    == IF req.data_c # <<>> THEN 3 ELSE 1
      tail == [j \in 1 .. Overread(data, k) |-> b]
  IN  [data |-> data, k |-> k, cvs |-> rs_encode(data, tail, k, 5)]

\* What the encoder may return for each request.
Codings == [req \in Requests |-> {Coding(req, b) : b \in {0, 255}}]

\* The process aborts in a handler; what it has not sent is lost.
AbortCommitter ==
  /\ Abort(Committer)
  /\ \E lost \in SUBSET Process :
       link' = [p \in Process |-> IF p \in lost THEN <<>> ELSE link[p]]

\* mpaxos_accept: take the proposal learned or make one, encode the value, and
\* send it; SAFE_ASSERT(n_rids == 1) comes after the encoding.
mpaxos_accept(t) ==
  \E c \in Codings[t.req] :
    LET prop == IF t.prop_max # NULL THEN t.prop_max ELSE prop_self(t)
    IN  /\ txn' = [t EXCEPT !.in_phase = 2, !.prop = prop]
        /\ coding' = c
        /\ IF Len(prop.rids) = 1
           THEN broadcast_msg_accept_c(t, prop, c.cvs) /\ UNCHANGED startupVars
           ELSE AbortCommitter

\* mpaxos_commit_req and, once the request is first in its groups, async_commit_job
\* with mpaxos_start_request: slots and ballots, attach_txn_info, then phase 1, or
\* phase 2 at once if this node decided the slot before in each of the groups.
StartRequest ==
  /\ stage[Committer] = "started" /\ txn = NULL /\ n_req < MaxRequest
  /\ n_req' = n_req + 1
  /\ \E req \in Requests :
       LET gids     == Groups(req)
           saveprep == \A g \in Range(gids) : newest[g].is_me
           rid(g)   == Message(roundid_t, [gid |-> g, sid |-> newest[g].sid,
                                           bid |-> Word64(IF saveprep THEN 1 ELSE 2)])
           ginfo(g) == [rid |-> rid(g), prom |-> <<>>, accd |-> <<>>, max_prop |-> NULL]
           t == [tid |-> gen_txn_id(Self, n_req + 1), req |-> req, in_phase |-> 1,
                 rids |-> [i \in DOMAIN gids |-> rid(gids[i])],
                 ginfo |-> [g \in Range(gids) |-> ginfo(g)],
                 prop_max |-> NULL, prop |-> NULL]
       IN  /\ begun' = Append(begun, t.rids)
           /\ IF saveprep THEN mpaxos_accept(t)
              ELSE txn' = t /\ broadcast_msg_prepare(t) /\ UNCHANGED <<startupVars, coding>>
  /\ UNCHANGED <<newest, acc, reply, decided>>

-----------------------------------------------------------------------------
\* The acceptor.  Every node is in every group (is_in_group).

\* p takes the next message from its connection.
TakeMessage(p) == /\ Up(p) /\ link[p] # <<>>
                  /\ link' = [link EXCEPT ![p] = Tail(@)]

Unpacked(packed) == message_unpack(DescriptorOf(packed.t), packed.bytes)

\* The message at the head of a queue as it is unpacked (on_prepare, on_accept,
\* on_promise, on_accepted): a set of one, so that \E unpacks it once.
Received(queue) == {Unpacked(Head(queue))}

Key(rid) == <<rid.gid, rid.sid>>

\* The table with new entries, in place of those it had for their keys.
Updated(table, entries) ==
  [key \in DOMAIN table \cup DOMAIN entries |->
     IF key \in DOMAIN entries THEN entries[key] ELSE table[key]]

get_accp_info(p, rid) ==
  IF Key(rid) \in DOMAIN acc[p] THEN acc[p][Key(rid)]
  ELSE [bid_max |-> Word64(0), props |-> <<>>]

Response(rid, ok, props) ==
  Message(response_t, [rid |-> rid, ack |-> IF ok THEN SUCCESS ELSE ERR_BID, props |-> props])

\* p's answer, packed; a dead process receives nothing.
Answer(p, desc, t, tid, ress) ==
  LET message == Message(desc, [h |-> Header(t, local_nid[p], tid), ress |-> ress])
  IN  reply' = IF Up(Committer) THEN [reply EXCEPT ![p] = Append(@, Packed(desc, message))]
               ELSE reply

\* handle_msg_prepare: one response per round; a ballot promised before is an
\* undefined bid, SAFE_ASSERT(0).
HandlePrepare(p) ==
  /\ TakeMessage(p) /\ Head(link[p]).t = PREPARE
  /\ \E msg \in Received(link[p]) :
     LET info(r) == get_accp_info(p, r)
         ok(r)   == Less64(info(r).bid_max, r.bid)
         promise(r) == [info(r) EXCEPT !.bid_max = IF ok(r) THEN r.bid ELSE @]
         rounds  == Range(msg.rids)
         at(key) == CHOOSE r \in rounds : Key(r) = key
     IN  IF \E r \in rounds : r.bid = info(r).bid_max
         THEN Abort(p) /\ UNCHANGED <<acc, reply>>
         ELSE /\ acc' = [acc EXCEPT ![p] =
                           Updated(@, [key \in {Key(r) : r \in rounds} |-> promise(at(key))])]
              /\ Answer(p, msg_promise, PROMISE, msg.h.tid,
                        [i \in DOMAIN msg.rids |->
                           Response(msg.rids[i], ok(msg.rids[i]), info(msg.rids[i]).props)])
              /\ UNCHANGED startupVars
  /\ UNCHANGED <<n_req, txn, newest, begun, coding, decided>>

\* prop_copy and prop_cpy: the node, the rounds and the value, but not has_value
\* and not the coded value.
prop_copy(prop) ==
  Message(proposal, [nid |-> prop.nid, rids |-> prop.rids, value |-> prop.value])

\* Mutant of Acceptable: the ballot promised is not accepted.
AcceptableAbove(rid, info) == Less64(info.bid_max, rid.bid)

Acceptable(rid, info) == ~ Less64(rid.bid, info.bid_max)

\* handle_msg_accept, for the one round a proposal is sent with.
HandleAccept(p) ==
  /\ TakeMessage(p) /\ Head(link[p]).t = ACCEPT
  /\ \E msg \in Received(link[p]) :
     LET rid  == Head(msg.prop.rids)
         info == get_accp_info(p, rid)
         ok   == Acceptable(rid, info)
         accepted == [info EXCEPT !.props = IF ok THEN Append(@, prop_copy(msg.prop)) ELSE @]
     IN  /\ acc' = [acc EXCEPT ![p] = Updated(@, [key \in {Key(rid)} |-> accepted])]
         /\ Answer(p, msg_accepted, ACCEPTED, msg.h.tid, <<Response(rid, ok, <<>>)>>)
  /\ UNCHANGED <<startupVars, n_req, txn, newest, begun, coding, decided>>

-----------------------------------------------------------------------------
\* The proposer again.

\* A proposal in a response: the largest ballot for its group, and over all groups.
Bid(prop) == Head(prop.rids).bid
Above(prop, old) == old = NULL \/ Less64(Bid(old), Bid(prop))
LearnProposal(t, gid, prop) ==
  IF ~ Above(prop, t.ginfo[gid].max_prop) THEN t
  ELSE [t EXCEPT !.ginfo[gid].max_prop = prop_copy(prop),
                 !.prop_max = IF Above(prop, @) THEN prop_copy(prop) ELSE @]

\* The loop over the proposals in a response.
Learn(t, gid, props) ==
  LET learned[i \in 0 .. Len(props)] ==
        IF i = 0 THEN t ELSE LearnProposal(learned[i - 1], gid, props[i])
  IN  learned[Len(props)]

\* A response of node nid, into "prom" or "accd"; one for another slot or ballot is
\* skipped.
CountResponse(t, nid, table, res) ==
  IF res.rid # t.ginfo[res.rid.gid].rid THEN t
  ELSE Learn([t EXCEPT !.ginfo[res.rid.gid][table] =
                Updated(@, [n \in {nid} \ DOMAIN @ |-> res.ack])], res.rid.gid, res.props)

\* The loop over the responses.
Count(t, nid, table, ress) ==
  LET counted[i \in 0 .. Len(ress)] ==
        IF i = 0 THEN t ELSE CountResponse(counted[i - 1], nid, table, ress[i])
  IN  counted[Len(ress)]

\* Mutant of check_majority: half of the nodes is taken for a majority.
check_majority_half(t, table) ==
  LET yes(g) == {nid \in DOMAIN t.ginfo[g][table] : t.ginfo[g][table][nid] = SUCCESS}
  IN  {IF \A g \in DOMAIN t.ginfo : Cardinality(yes(g)) >= Len(get_view(Committer)) \div 2
       THEN "YES" ELSE "UNCERTAIN"}

\* check_majority: the hash table gives the groups in any order, and the first
\* without a majority of yes ends the loop.
check_majority(t, table) ==
  LET majority == Len(get_view(Committer)) \div 2 + 1
      said(g, ack) == Cardinality({nid \in DOMAIN t.ginfo[g][table] :
                                     t.ginfo[g][table][nid] = ack})
      verdict(g) == IF said(g, ERR_BID) >= majority THEN "NO"
                    ELSE IF said(g, SUCCESS) < majority THEN "UNCERTAIN" ELSE "YES"
      verdicts == {verdict(g) : g \in DOMAIN t.ginfo}
  IN  IF verdicts = {"YES"} THEN verdicts ELSE verdicts \ {"YES"}

\* The proposer takes the next reply from its connection to p.
TakeReply(p) == /\ Up(Committer) /\ reply[p] # <<>>
                /\ reply' = [reply EXCEPT ![p] = Tail(@)]

\* An answer to a transaction that is gone, or in another phase, is dropped.
Current(msg, phase) == txn # NULL /\ txn.tid = msg.h.tid /\ txn.in_phase = phase

\* A second answer of a node for a group fails SAFE_ASSERT(re == NULL).
Repeated(msg, table) ==
  \E res \in Range(msg.ress) :
    LET ginfo == txn.ginfo[res.rid.gid]
    IN  res.rid = ginfo.rid /\ msg.h.nid \in DOMAIN ginfo[table]

HandlePromise(p) ==
  /\ TakeReply(p) /\ Head(reply[p]).t = PROMISE
  /\ \E msg \in Received(reply[p]) :
       IF ~ Current(msg, 1) THEN UNCHANGED <<startupVars, txn, link, coding>>
       ELSE IF Repeated(msg, "prom") THEN AbortCommitter /\ UNCHANGED <<txn, coding>>
       ELSE \E t \in {Count(txn, msg.h.nid, "prom", msg.ress)} :
              \E verdict \in check_majority(t, "prom") :
                IF verdict = "YES" THEN mpaxos_accept(t)
                ELSE /\ txn' = [t EXCEPT !.in_phase = IF verdict = "NO" THEN -1 ELSE 1]
                     /\ UNCHANGED <<startupVars, link, coding>>
  /\ UNCHANGED <<n_req, newest, acc, begun, decided>>

\* Mutant of record_decided: the newest slot is not renewed.
record_decided_late(prop) == newest' = newest /\ decided' = decided \cup {prop}

\* record_decided: the slot after the largest decided is next in its group, and
\* the prepare can be saved there if the proposal was this node's.
record_decided(prop) ==
  LET slots(g) == {rid.sid : rid \in {r \in Range(prop.rids) : r.gid = g}}
      after(g) == {[sid |-> Next64(sid), is_me |-> prop.nid = Self] :
                     sid \in {s \in slots(g) : ~ Less64(s, newest[g].sid)}}
  IN  /\ newest' = [g \in DOMAIN newest |->
                      IF after(g) = {} THEN newest[g] ELSE CHOOSE n \in after(g) : TRUE]
      /\ decided' = decided \cup {prop}

\* Mutant of phase_2_async_after: the transaction stays attached.
phase_2_async_attached(prop) == record_decided(prop) /\ UNCHANGED <<acc, txn>>

\* phase_2_async_after: record the decision, forget the slot ForgetLag earlier,
\* detach the transaction and call back.
phase_2_async_after(prop) ==
  /\ record_decided(prop)
  /\ acc' = [acc EXCEPT ![Committer] =
       Restrict(@, {key \in DOMAIN @ : \A rid \in Range(prop.rids) :
                      ~ (key[1] = rid.gid /\ Later(key[2], ForgetLag) = rid.sid)})]
  /\ txn' = NULL

HandleAccepted(p) ==
  /\ TakeReply(p) /\ Head(reply[p]).t = ACCEPTED
  /\ \E msg \in Received(reply[p]) :
     LET rest == <<newest, acc, decided>>
     IN  IF ~ Current(msg, 2) THEN UNCHANGED <<startupVars, txn, link, rest>>
         ELSE IF Repeated(msg, "accd") THEN AbortCommitter /\ UNCHANGED <<txn, rest>>
         ELSE \E t \in {Count(txn, msg.h.nid, "accd", msg.ress)} :
              \E verdict \in check_majority(t, "accd") :
                /\ UNCHANGED <<startupVars, link>>
                /\ IF verdict = "YES" THEN phase_2_async_after(t.prop)
                   ELSE /\ txn' = [t EXCEPT !.in_phase = IF verdict = "NO" THEN -1 ELSE 2]
                        /\ UNCHANGED rest
  /\ UNCHANGED <<n_req, begun, coding>>

-----------------------------------------------------------------------------
StartProcess == (\E p \in Process : Start(p)) /\ UNCHANGED txnVars

Handle(p) == HandlePrepare(p) \/ HandleAccept(p) \/ HandlePromise(p) \/ HandleAccepted(p)

Next == StartProcess \/ StartRequest \/ \E p \in Process : Handle(p)

Spec == Init /\ [][Next]_vars

\* A process that has read its configuration goes on, and tries refused
\* connections again; the connections deliver and the poll threads run the
\* handler of what arrives.  Nobody need start a process or commit a request.
Fairness ==
  \A p \in Process :
    /\ WF_startupVars(StartServer(p)) /\ WF_startupVars(ConnectSender(p))
    /\ WF_link(TakeMessage(p)) /\ WF_reply(TakeReply(p))

FairSpec == Spec /\ Fairness
-----------------------------------------------------------------------------
\* Type correctness, with what ties the transaction to the request and slot.
TypeOK ==
  /\ StartupTypeOK
  /\ n_req \in 0 .. MaxRequest
  /\ txn # NULL => /\ txn.req \in Requests /\ txn \in Txn(txn.req)
                   /\ txn.tid = gen_txn_id(Self, n_req)
                   /\ \A i \in DOMAIN txn.rids :
                        /\ txn.rids[i].gid = Groups(txn.req)[i]
                        /\ txn.rids[i].sid = newest[txn.rids[i].gid].sid
  /\ coding = NULL \/ \E req \in Requests : coding \in Codings[req]
  /\ Cardinality(decided) <= n_req

\* A message as its receiver sees it: of a proposal's value, for which has_value
\* is not set, nothing.
Delivered(message) ==
  IF message.h.t = ACCEPT THEN [message EXCEPT !.prop.value = <<>>] ELSE message

\* What is packed takes the room get_packed_size promised, and unpacks to what
\* was meant: every message sent, with the numbers of this instance in it.
Intact(packed) ==
  /\ Len(packed.bytes) = message_get_packed_size(DescriptorOf(packed.t), packed.meant)
  /\ Unpacked(packed) = Delivered(packed.meant)

WireRoundTrip ==
  [][\A p \in Process :
       /\ Len(link'[p]) > Len(link[p])   => Intact(Last(link'[p]))
       /\ Len(reply'[p]) > Len(reply[p]) => Intact(Last(reply'[p]))]_vars

\* What fec_decode makes of the shares with the ids in S: a data block goes to
\* its own place, check blocks fill the places left.
Decode(c, S) ==
  LET lost   == SetToSortSeq((0 .. c.k - 1) \ S, <)
      checks == SetToSortSeq(S \ (0 .. c.k - 1), <)
      index  == Array(c.k, LAMBDA row : IF row \in S THEN row
                                        ELSE checks[CHOOSE i \in DOMAIN lost : lost[i] = row])
      blocks == fec_decode(fec_new(c.k, 5),
                           Array(c.k, LAMBDA row : BlockOf(c.cvs[index[row]].value)), index)
  IN  FlattenSeq([i \in 1 .. c.k |-> BytesOf(blocks[i - 1], Len(c.cvs[0].value))])

\* Whichever k of the coded values survive, the first sz bytes they decode to
\* are the data, whatever rs_encode read behind the end of it.
Decodable == {c \in UNION Range(Codings) :
                \A S \in kSubset(c.k, 0 .. 4) :
                  SubSeq(Decode(c, S), 1, c.cvs[0].sz) = c.data}
AnySharesDecode == coding = NULL \/ coding \in Decodable

\* Only the proposer aborts, and only over a request for several groups
\* (broadcast_msg_accept_c): with one proposer no acceptor ever meets a ballot
\* it has promised before (acceptor.c:141), and no answer comes twice.
OnlySeveralGroupsAbort ==
  [][\A p \in Process : stage[p] # "aborted" /\ stage'[p] = "aborted" =>
       p = Committer /\ Len(Groups(txn'.req)) > 1]_vars

\* The node holds, for each round of the proposal, one of the same node over the
\* same rounds.
Holds(p, prop) ==
  \A rid \in Range(prop.rids) : \E held \in Range(get_accp_info(p, rid).props) :
    held.rids = prop.rids /\ held.nid = prop.nid

\* The committer drops a round once it has decided the one ForgetLag later.
Dropped(p, prop) ==
  p = Committer /\ \A rid \in Range(prop.rids) :
                     Less64(Later(rid.sid, ForgetLag), newest[rid.gid].sid)

\* A decided round is at a majority, as it was decided, after its way through
\* packing, unpacking and prop_copy; only the committer forgets it, in time.
DecidedRoundIsHeld ==
  \A prop \in decided :
    2 * Cardinality({p \in Process : Holds(p, prop) \/ Dropped(p, prop)}) > Len(Config)

\* No two requests go for the same slot of a group: an acceptor keeps one ballot
\* and one list of proposals per slot.
SlotUsedOnce ==
  \A m, n \in DOMAIN begun : m < n =>
    \A r \in Range(begun[m]), s \in Range(begun[n]) : Key(r) # Key(s)

\* What the logic of handle_msg_promise relies on: a decided value that is not
\* empty is at some acceptor, whole or as a share, to be added to the response
\* to a later prepare.
DecidedValueIsStored ==
  \A prop \in decided : prop.value # <<>> =>
    \E p \in Process, rid \in Range(prop.rids) :
      \E held \in Range(get_accp_info(p, rid).props) :
        held.value = prop.value \/ held.coded_value # NULL

\* If every process is started, each gets its connections, whatever the order;
\* unless a process is gone, which keeps the others trying.
EventuallyStarted ==
  (\A p \in Process : stage[p] # "off") ~>
    ((\A p \in Process : stage[p] = "started") \/ \E p \in Process : stage[p] = "aborted")

\* A request for one group is called back, whether or not the other nodes have
\* finished connecting.
EventuallyDecided == (txn # NULL /\ Len(txn.rids) = 1) ~> (txn = NULL)
=============================================================================
