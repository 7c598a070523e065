--------------------------- MODULE TransactionInv ---------------------------
(***************************************************************************)
(* Why the requests of one committer go through: the inductive invariant   *)
(* of Transaction, conjunct by conjunct.  Each request goes for slots of   *)
(* its own, so an acceptor that gets its messages knows nothing of these   *)
(* slots and answers yes; the messages on one connection are in the order  *)
(* of the requests and their phases, there and back, so none comes twice.  *)
(***************************************************************************)
EXTENDS Transaction

\* The id of the committer, and the n-th transaction of it.
Me       == NidOf(Committer)
TidOf(n) == gen_txn_id(Me, n)

\* Whoever is past "off" knows its id; when a request has begun, every process has
\* got as far as to listen.
ProcessesInv ==
  /\ \A p \in Process : stage[p] # "off" => local_nid[p] = NidOf(p)
  /\ n_req > 0 => /\ stage[Committer] \in {"started", "aborted"} /\ arr_nodes[Committer] = NodeIds
                  /\ \A p \in Process : stage[p] \in {"connecting", "started", "aborted"}

\* The recorder has a slot for every group, with room for those still to come.
NewestInv ==
  /\ \A r \in Requests : Range(Groups(r)) \subseteq DOMAIN newest
  /\ \A gid \in DOMAIN newest :
       /\ newest[gid] \in [sid : UInt64, is_me : BOOLEAN]
       /\ newest[gid].sid.lo + (MaxRequest - n_req) + (IF txn = NULL THEN 0 ELSE 1) \in UInt32

\* A round that a request has begun with, of a ballot that is not 0: in a slot before
\* the newest, unless the request is attached.
RoundOf(rid, n) ==
  /\ rid.gid \in DOMAIN newest
  /\ rid.sid.hi = newest[rid.gid].sid.hi /\ rid.sid.lo <= newest[rid.gid].sid.lo
  /\ rid.sid.lo = newest[rid.gid].sid.lo => n = n_req /\ txn # NULL
  /\ rid.bid \in {Word64(1), Word64(2)}

\* The rounds of a request, one for each group.
BegunInv ==
  /\ n_req \in 0 .. MaxRequest /\ begun \in Seq(Seq(Roundid) \ {<<>>}) /\ Len(begun) = n_req
  /\ \A n \in 1 .. n_req : \A i \in 1 .. Len(begun[n]) :
       /\ RoundOf(begun[n][i], n)
       /\ \A j \in 1 .. Len(begun[n]) : begun[n][j].gid = begun[n][i].gid => i = j

\* A transaction of the last request, to which no answer was a no, and which learned
\* no proposal.
Attached(t) ==
  /\ t.req \in Requests /\ t \in Txn(t.req) /\ n_req > 0
  /\ t.tid = TidOf(n_req) /\ t.rids = begun[n_req]
  /\ Len(t.rids) = Len(Groups(t.req))
  /\ \A i \in 1 .. Len(t.rids) :
       /\ t.rids[i].gid = Groups(t.req)[i] /\ t.rids[i].sid = newest[t.rids[i].gid].sid
       /\ t.ginfo[t.rids[i].gid].rid = t.rids[i]
  /\ t.prop_max = NULL
  /\ t.in_phase = 1 => \A g \in DOMAIN t.ginfo : DOMAIN t.ginfo[g].accd = {}
  /\ t.in_phase = 2 => t.prop.rids = t.rids /\ t.prop.nid = Me /\ t.prop \in Proposal
TxnInv == txn # NULL => Attached(txn)

\* What was last encoded is the value of a request.
CodingInv == coding = NULL \/ \E req \in Requests : coding \in Codings[req]

\* Whether p holds the rounds of request n, or has dropped them.
Keeps(p, n) == LET prop == [rids |-> begun[n], nid |-> Me]
               IN  Holds(p, prop) \/ Dropped(p, prop)

\* When a message was sent: by request and phase.
Request(k) == k.meant.h.tid.lo
Stamp(k)   == 2 * Request(k) + (IF k.t \in {PREPARE, PROMISE} THEN 0 ELSE 1)

\* A message in transit is as it was packed, and of a request that has begun.
Genuine(k) ==
  /\ k = Packed(DescriptorOf(k.t), k.meant) /\ k.meant.h.t = k.t
  /\ Request(k) \in 1 .. n_req /\ k.meant.h.tid = TidOf(Request(k))

\* To an acceptor go prepares and accepts, ...
Asked(k) ==
  /\ Genuine(k)
  /\ \/ k.t = PREPARE /\ k.meant \in Prepare_t /\ k.meant.rids = begun[Request(k)]
     \/ /\ k.t = ACCEPT /\ k.meant \in Accept_t /\ k.meant.prop.rids = begun[Request(k)]
        /\ k.meant.prop.nid = Me
LinkInv == \A p \in Process : \A i \in 1 .. Len(link[p]) : Asked(link[p][i])

\* ... and back come its answers, none of which is a no.
Answered(p, k) ==
  /\ Genuine(k) /\ k.t \in {PROMISE, ACCEPTED}
  /\ k.meant.h.nid = NidOf(p) /\ k.meant \in Answer_t
  /\ Len(k.meant.ress) = Len(begun[Request(k)])
  /\ \A j \in 1 .. Len(begun[Request(k)]) : /\ k.meant.ress[j].rid = begun[Request(k)][j]
                                            /\ k.meant.ress[j].ack = SUCCESS
  /\ k.t = ACCEPTED => \E n \in {Request(k)} : Len(begun[n]) = 1 /\ Keeps(p, n)
ReplyInv == \A p \in Process : \A i \in 1 .. Len(reply[p]) : Answered(p, reply[p][i])

\* They are in the order they were sent, the answers ahead; none of phase 2 is of a
\* request in phase 1.
Ordered(queue) == \A i, j \in 1 .. Len(queue) : i < j => Stamp(queue[i]) < Stamp(queue[j])
InPhase1 == txn # NULL /\ txn.in_phase = 1
OrderInv ==
  /\ DOMAIN link = Process /\ DOMAIN reply = Process
  /\ \A p \in Process :
       /\ link[p] \in Seq(Range(link[p])) /\ reply[p] \in Seq(Range(reply[p]))
       /\ Ordered(link[p]) /\ Ordered(reply[p])
       /\ \A i \in 1 .. Len(reply[p]), j \in 1 .. Len(link[p]) :
            Stamp(reply[p][i]) < Stamp(link[p][j])
       /\ InPhase1 => /\ \A j \in 1 .. Len(link[p]) : Stamp(link[p][j]) <= 2 * n_req
                      /\ \A i \in 1 .. Len(reply[p]) : Stamp(reply[p][i]) <= 2 * n_req

\* An acceptor knows slots of requests only, what it knows is of that request, and
\* its prepare is not to come.
AcceptorInv ==
  /\ DOMAIN acc = Process
  /\ \A p \in Process :
       /\ DOMAIN acc[p] \subseteq {Key(rid) : rid \in UNION {Range(begun[n]) : n \in 1 .. n_req}}
       /\ \A n \in 1 .. n_req : \A i \in 1 .. Len(begun[n]) :
            Key(begun[n][i]) \in DOMAIN acc[p] =>
              /\ acc[p][Key(begun[n][i])] \in
                   [bid_max : {Word64(0), begun[n][i].bid}, props : Seq(Proposal)]
              /\ \A j \in 1 .. Len(link[p]) : Stamp(link[p][j]) > 2 * n

\* Who is counted has answered, and will not answer again; who accepted keeps the round.
Counted(t) ==
  \A p \in Process : \A g \in DOMAIN t.ginfo :
    /\ NidOf(p) \in DOMAIN t.ginfo[g].prom =>
         /\ \A i \in 1 .. Len(reply[p]) : Stamp(reply[p][i]) # 2 * n_req
         /\ \A j \in 1 .. Len(link[p]) : Stamp(link[p][j]) # 2 * n_req
    /\ NidOf(p) \in DOMAIN t.ginfo[g].accd =>
         /\ \A i \in 1 .. Len(reply[p]) : Stamp(reply[p][i]) # 2 * n_req + 1
         /\ \A j \in 1 .. Len(link[p]) : Stamp(link[p][j]) # 2 * n_req + 1
         /\ Len(begun[n_req]) = 1 /\ Keeps(p, n_req)
CountedInv == txn # NULL => Counted(txn)

\* A decision is for a request of one round, that is not attached any more.
DecidedInv ==
  /\ IsFiniteSet(decided)
  /\ Cardinality(decided) + (IF txn = NULL THEN 0 ELSE 1) <= n_req
  /\ \A prop \in decided :
       /\ \E n \in 1 .. n_req : prop.rids = begun[n] /\ Len(begun[n]) = 1
       /\ prop.nid = Me

RequestsInv ==
  /\ ProcessesInv /\ NewestInv /\ BegunInv /\ SlotUsedOnce /\ TxnInv /\ CodingInv /\ LinkInv
  /\ ReplyInv /\ OrderInv /\ AcceptorInv /\ CountedInv /\ DecidedInv /\ DecidedRoundIsHeld
=============================================================================
