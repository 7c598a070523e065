-------------------------- MODULE TransactionProof --------------------------
(***************************************************************************)
(* Proofs about modules Startup and Transaction, for every configuration,  *)
(* all requests and slots.  First the start-up: its types, and that whoever*)
(* has started is connected to servers that were started.  Then what is    *)
(* put into the messages, and that it comes out again (ProtobufCProof).    *)
(* Last the inductive invariant of TransactionInv, action by action.       *)
(***************************************************************************)
EXTENDS TransactionInv, ProtobufCProof

Served(p) == stage[p] \in {"connecting", "started", "aborted"}

\* The view is set by the time the first sender connects; the senders that have
\* connected are the first ones of the view, and reached a server each; not all
\* have as long as the process is connecting.
StartupInv ==
  /\ StartupTypeOK
  /\ \A p \in Process :
       /\ stage[p] \in {"configured", "connecting", "started"} => arr_nodes[p] = NodeIds
       /\ stage[p] \in {"off", "configured"} => connected[p] = 0
       /\ stage[p] = "connecting" => connected[p] < Len(Config)
       /\ stage[p] = "started" => connected[p] = Len(Config)
       /\ \A i \in 1 .. connected[p] : Served(Config[i])

\* The list of nodes is a sequence of at least one process.
LEMMA ConfigIsSequence ==
  /\ Len(Config) \in Nat \ {0}
  /\ \A i \in 1 .. Len(Config) : Config[i] \in Process
  /\ \A p \in Process : \E i \in 1 .. Len(Config) : Config[i] = p
<1>1. Config \in Seq(Process) /\ Config # <<>>
  BY ConfigAssumption
<1>2. DOMAIN Config = 1 .. Len(Config)
  BY <1>1
<1>3. Len(Config) \in Nat \ {0}
  BY <1>1
<1>4. \A p \in Process : \E i \in DOMAIN Config : Config[i] = p
  BY DEF Process, Range
<1> QED BY <1>1, <1>2, <1>3, <1>4

\* The id of a node is one of those of the list.
LEMMA NidOfIsNodeId == ASSUME NEW p \in Process PROVE NidOf(p) \in 1 .. Len(Config)
BY ConfigIsSequence DEF NidOf

\* Initially no process serves, connects or has started.
LEMMA StartupInvInit == StartupInit => StartupInv
<1> SUFFICES ASSUME StartupInit PROVE StartupInv
  OBVIOUS
<1>1. StartupTypeOK
  BY ConfigIsSequence DEF StartupInit, StartupTypeOK, Stage
<1>2. ASSUME NEW p \in Process
      PROVE  stage[p] = "off" /\ connected[p] = 0
  BY DEF StartupInit
<1> QED BY <1>1, <1>2 DEF StartupInv

\* LoadConfig and StartServer only move p on before it has connected to anyone.
LEMMA LoadConfigInv ==
  ASSUME StartupInv, NEW p \in Process, LoadConfig(p) PROVE StartupInv'
<1>1. StartupTypeOK'
  BY NidOfIsNodeId, ConfigIsSequence DEF StartupInv, StartupTypeOK, LoadConfig, Stage
<1>2. ASSUME NEW q \in Process, Served(q) PROVE Served(q)'
  BY <1>2 DEF StartupInv, StartupTypeOK, LoadConfig, Served
<1>3. ASSUME NEW q \in Process
      PROVE /\ stage'[q] \in {"configured", "connecting", "started"} => arr_nodes'[q] = NodeIds
            /\ stage'[q] \in {"off", "configured"} => connected'[q] = 0
            /\ stage'[q] = "connecting" => connected'[q] < Len(Config)
            /\ stage'[q] = "started" => connected'[q] = Len(Config)
  BY DEF StartupInv, StartupTypeOK, LoadConfig
<1>4. ASSUME NEW q \in Process, NEW i \in 1 .. connected'[q] PROVE Served(Config[i])'
  <2>1. connected'[q] \in 0 .. Len(Config) /\ connected'[q] = connected[q]
    BY <1>1 DEF StartupTypeOK, LoadConfig
  <2>2. Config[i] \in Process /\ Served(Config[i])
    BY <2>1, ConfigIsSequence DEF StartupInv
  <2> QED BY <2>2, <1>2
<1> QED BY <1>1, <1>3, <1>4 DEF StartupInv

\* A process starts its server.
LEMMA StartServerInv ==
  ASSUME StartupInv, NEW p \in Process, StartServer(p) PROVE StartupInv'
<1>1. StartupTypeOK'
  BY DEF StartupInv, StartupTypeOK, StartServer, Stage
<1>2. ASSUME NEW q \in Process, Served(q) PROVE Served(q)'
  BY <1>2 DEF StartupInv, StartupTypeOK, StartServer, Served
<1>3. ASSUME NEW q \in Process
      PROVE /\ stage'[q] \in {"configured", "connecting", "started"} => arr_nodes'[q] = NodeIds
            /\ stage'[q] \in {"off", "configured"} => connected'[q] = 0
            /\ stage'[q] = "connecting" => connected'[q] < Len(Config)
            /\ stage'[q] = "started" => connected'[q] = Len(Config)
  BY ConfigIsSequence DEF StartupInv, StartupTypeOK, StartServer
<1>4. ASSUME NEW q \in Process, NEW i \in 1 .. connected'[q] PROVE Served(Config[i])'
  <2>1. connected'[q] \in 0 .. Len(Config) /\ connected'[q] = connected[q]
    BY <1>1 DEF StartupTypeOK, StartServer
  <2>2. Config[i] \in Process /\ Served(Config[i])
    BY <2>1, ConfigIsSequence DEF StartupInv
  <2> QED BY <2>2, <1>2
<1> QED BY <1>1, <1>3, <1>4 DEF StartupInv

\* The next sender connects: to the node after those it has reached, as the view
\* lists the nodes in the order of the configuration, and that node listens.
LEMMA ConnectSenderInv ==
  ASSUME StartupInv, NEW p \in Process, ConnectSender(p) PROVE StartupInv'
<1> DEFINE next == connected[p] + 1
<1>1. /\ stage[p] = "connecting" /\ arr_nodes[p] = NodeIds
      /\ connected[p] \in 0 .. Len(Config) /\ connected[p] < Len(Config)
      /\ connected \in [Process -> 0 .. Len(Config)] /\ stage \in [Process -> Stage]
  BY DEF StartupInv, StartupTypeOK, ConnectSender
<1>2. next \in 1 .. Len(Config)
  BY <1>1, ConfigIsSequence
<1>3. get_view(p)[next] = next /\ Len(get_view(p)) = Len(Config)
  BY <1>1, <1>2, ConfigIsSequence DEF get_view, NodeIds
<1>4. /\ Listening(Config[next])
      /\ connected' = [connected EXCEPT ![p] = next]
      /\ stage' = IF next = Len(Config) THEN [stage EXCEPT ![p] = "started"] ELSE stage
  BY <1>3 DEF ConnectSender
<1> HIDE DEF next
<1>5. StartupTypeOK'
  BY <1>1, <1>2, <1>4 DEF StartupInv, StartupTypeOK, ConnectSender, Stage
<1>6. ASSUME NEW q \in Process, Served(q) PROVE Served(q)'
  BY <1>1, <1>4, <1>6 DEF Served
<1>7. ASSUME NEW q \in Process
      PROVE /\ stage'[q] \in {"configured", "connecting", "started"} => arr_nodes'[q] = NodeIds
            /\ stage'[q] \in {"off", "configured"} => connected'[q] = 0
            /\ stage'[q] = "connecting" => connected'[q] < Len(Config)
            /\ stage'[q] = "started" => connected'[q] = Len(Config)
  <2>1. CASE q = p
    BY <2>1, <1>1, <1>2, <1>4 DEF ConnectSender
  <2>2. CASE q # p
    <3>1. stage'[q] = stage[q] /\ connected'[q] = connected[q] /\ arr_nodes'[q] = arr_nodes[q]
      BY <2>2, <1>1, <1>4 DEF ConnectSender
    <3> QED BY <3>1 DEF StartupInv
  <2> QED BY <2>1, <2>2
<1>8. ASSUME NEW q \in Process, NEW i \in 1 .. connected'[q] PROVE Served(Config[i])'
  <2>1. connected'[q] \in 0 .. Len(Config) /\ i \in 1 .. Len(Config)
    BY <1>5, ConfigIsSequence DEF StartupTypeOK
  <2>2. Config[i] \in Process
    BY <2>1, ConfigIsSequence
  <2>3. i \in 1 .. connected[q] \/ i = next
    BY <1>1, <1>4, <2>1 DEF next
  <2>4. Served(Config[i])
    BY <2>3, <1>4 DEF StartupInv, Listening, Served
  <2> QED BY <2>2, <2>4, <1>6
<1> QED BY <1>5, <1>7, <1>8 DEF StartupInv

\* A process aborts.
LEMMA AbortInv == ASSUME StartupInv, NEW p \in Process, Abort(p) PROVE StartupInv'
<1>1. StartupTypeOK'
  BY DEF StartupInv, StartupTypeOK, Abort, Stage
<1>2. ASSUME NEW q \in Process, Served(q) PROVE Served(q)'
  BY <1>2 DEF StartupInv, StartupTypeOK, Abort, Served
<1>3. ASSUME NEW q \in Process
      PROVE /\ stage'[q] \in {"configured", "connecting", "started"} => arr_nodes'[q] = NodeIds
            /\ stage'[q] \in {"off", "configured"} => connected'[q] = 0
            /\ stage'[q] = "connecting" => connected'[q] < Len(Config)
            /\ stage'[q] = "started" => connected'[q] = Len(Config)
  BY DEF StartupInv, StartupTypeOK, Abort
<1>4. ASSUME NEW q \in Process, NEW i \in 1 .. connected'[q] PROVE Served(Config[i])'
  <2>1. connected'[q] \in 0 .. Len(Config) /\ connected'[q] = connected[q]
    BY <1>1 DEF StartupTypeOK, Abort
  <2>2. Config[i] \in Process /\ Served(Config[i])
    BY <2>1, ConfigIsSequence DEF StartupInv
  <2> QED BY <2>2, <1>2
<1> QED BY <1>1, <1>3, <1>4 DEF StartupInv

\* Every step preserves the invariant.
LEMMA StartupInvNext == StartupInv /\ [StartupNext]_startupVars => StartupInv'
<1> SUFFICES ASSUME StartupInv, [StartupNext]_startupVars PROVE StartupInv'
  OBVIOUS
<1>1. CASE UNCHANGED startupVars
  BY <1>1 DEF startupVars, StartupInv, StartupTypeOK, Served
<1>2. CASE StartupNext
  <2> PICK p \in Process : Start(p) \/ Abort(p)
    BY <1>2 DEF StartupNext
  <2> QED BY LoadConfigInv, StartServerInv, ConnectSenderInv, AbortInv DEF Start
<1> QED BY <1>1, <1>2

\* The invariant implies the types and the property.
LEMMA StartupSafe == StartupInv => StartupTypeOK /\ StartedReachesAll
<1> SUFFICES ASSUME StartupInv,
                    NEW p \in Process, stage[p] = "started", NEW q \in Process
             PROVE  connected[p] = Len(Config) /\ Served(q)
  BY DEF StartupInv, StartedReachesAll, Served
<1>1. connected[p] = Len(Config)
  BY DEF StartupInv
<1>2. PICK i \in 1 .. Len(Config) : Config[i] = q
  BY ConfigIsSequence
<1> QED BY <1>1, <1>2 DEF StartupInv

-----------------------------------------------------------------------------
\* The variables of the start-up have their types.
THEOREM StartupTypeCorrect == StartupSpec => []StartupTypeOK
<1>1. StartupSpec => []StartupInv
  BY StartupInvInit, StartupInvNext, PTL DEF StartupSpec
<1> QED BY <1>1, StartupSafe, PTL

\* Whatever the configuration, and whoever dies on the way: where mpaxos_start has
\* returned, every node has a sender whose server was started.
THEOREM StartedIsConnected == StartupSpec => []StartedReachesAll
<1>1. StartupSpec => []StartupInv
  BY StartupInvInit, StartupInvNext, PTL DEF StartupSpec
<1> QED BY <1>1, StartupSafe, PTL

-----------------------------------------------------------------------------
\* The members of the messages.
LEMMA NamesOfMembers ==
  /\ MemberNames(roundid_t) = {"gid", "sid", "bid", "has", "unknown"}
  /\ MemberNames(msg_header) = {"t", "nid", "tid", "has", "unknown"}
  /\ MemberNames(coded_value_t) = {"sz", "k", "n", "id", "value", "has", "unknown"}
  /\ MemberNames(proposal) = {"rids", "tid", "nid", "value", "coded_value", "has", "unknown"}
  /\ MemberNames(response_t) = {"rid", "ack", "props", "has", "unknown"}
  /\ MemberNames(msg_prepare) = {"h", "rids", "has", "unknown"}
  /\ MemberNames(msg_promise) = {"h", "ress", "has", "unknown"}
  /\ MemberNames(msg_accept) = {"h", "prop", "has", "unknown"}
  /\ MemberNames(msg_accepted) = {"h", "ress", "has", "unknown"}
<1>1. MemberNames(roundid_t) = {"gid", "sid", "bid", "has", "unknown"}
  BY DEF roundid_t, Descriptor, MemberNames, Range, required, required_message, repeated_message, Field
<1>2. MemberNames(msg_header) = {"t", "nid", "tid", "has", "unknown"}
  BY DEF msg_header, Descriptor, MemberNames, Range, required, required_message, repeated_message, Field
<1>3. MemberNames(coded_value_t) = {"sz", "k", "n", "id", "value", "has", "unknown"}
  BY DEF coded_value_t, Descriptor, MemberNames, Range, required, required_message, repeated_message, Field
<1>4. MemberNames(proposal) = {"rids", "tid", "nid", "value", "coded_value", "has", "unknown"}
  BY DEF proposal, Descriptor, MemberNames, Range, required, required_message, repeated_message, Field
<1>5. MemberNames(response_t) = {"rid", "ack", "props", "has", "unknown"}
  BY DEF response_t, Descriptor, MemberNames, Range, required, required_message, repeated_message, Field
<1>6. MemberNames(msg_prepare) = {"h", "rids", "has", "unknown"}
  BY DEF msg_prepare, Descriptor, MemberNames, Range, required, required_message, repeated_message, Field
<1>7. MemberNames(msg_promise) = {"h", "ress", "has", "unknown"}
  BY DEF msg_promise, Descriptor, MemberNames, Range, required, required_message, repeated_message, Field
<1>8. MemberNames(msg_accept) = {"h", "prop", "has", "unknown"}
  BY DEF msg_accept, Descriptor, MemberNames, Range, required, required_message, repeated_message, Field
<1>9. MemberNames(msg_accepted) = {"h", "ress", "has", "unknown"}
  BY DEF msg_accepted, Descriptor, MemberNames, Range, required, required_message, repeated_message, Field
<1> QED
  BY <1>1, <1>2, <1>3, <1>4, <1>5, <1>6, <1>7, <1>8, <1>9

\* m is what the init function leaves, with the given members set.
MadeFrom(m, desc, members) ==
  /\ m = [name \in MemberNames(desc) |-> m[name]]
  /\ \A name \in MemberNames(desc) :
       m[name] = IF name \in DOMAIN members THEN members[name] ELSE message_init(desc)[name]
  /\ m.has = {} /\ m.unknown = <<>>

\* A message made of some of its members has the others as message_init left them.
LEMMA MadeMessage ==
  ASSUME NEW desc, NEW members, "has" \notin DOMAIN members, "unknown" \notin DOMAIN members
  PROVE  MadeFrom(Message(desc, members), desc, members)
<1> DEFINE m == Message(desc, members)
<1>1. "has" \in MemberNames(desc) /\ "unknown" \in MemberNames(desc)
  BY DEF MemberNames
<1>2. message_init(desc)["has"] = {} /\ message_init(desc)["unknown"] = <<>>
  BY <1>1 DEF message_init
<1>3. \A name \in MemberNames(desc) :
        m[name] = IF name \in DOMAIN members THEN members[name] ELSE message_init(desc)[name]
  BY DEF Message
<1>4. m = [name \in MemberNames(desc) |-> m[name]]
  BY DEF Message
<1>5. m["has"] = {} /\ m["unknown"] = <<>>
  BY <1>1, <1>2, <1>3
<1> HIDE DEF m
<1>6. MadeFrom(m, desc, members)
  BY <1>3, <1>4, <1>5 DEF MadeFrom
<1> QED
  BY <1>6 DEF m

\* A round id, a header and a whole message have the members they are made with.
LEMMA RoundidMade ==
  ASSUME NEW gid \in UInt32, NEW sid \in UInt64, NEW bid \in UInt64, NEW r,
         r = Message(roundid_t, [gid |-> gid, sid |-> sid, bid |-> bid])
  PROVE  r \in Roundid /\ r.gid = gid /\ r.sid = sid /\ r.bid = bid
<1> DEFINE members == [gid |-> gid, sid |-> sid, bid |-> bid]
<1>1. DOMAIN members = {"gid", "sid", "bid"}
  OBVIOUS
<1>2. members["gid"] = gid /\ members["sid"] = sid /\ members["bid"] = bid
  OBVIOUS
<1>3. r = Message(roundid_t, members)
  BY DEF members
<1> HIDE DEF members
<1>4. "has" \notin DOMAIN members /\ "unknown" \notin DOMAIN members
  BY <1>1
<1>5. MadeFrom(r, roundid_t, members)
  BY <1>3, <1>4, MadeMessage
<1>6. r.gid = gid /\ r.sid = sid /\ r.bid = bid
  BY <1>1, <1>2, <1>5, NamesOfMembers DEF MadeFrom
<1>7. /\ r = [name \in {"gid", "sid", "bid", "has", "unknown"} |-> r[name]]
      /\ r.has = {} /\ r.unknown = <<>>
  BY <1>5, NamesOfMembers DEF MadeFrom
<1> QED
  BY <1>6, <1>7 DEF Roundid

\* The headers, ...
LEMMA HeaderMade ==
  ASSUME NEW t \in PREPARE .. ACCEPTED, NEW nid \in UInt32, NEW tid \in UInt64, NEW h,
         h = Header(t, nid, tid)
  PROVE  h \in Header_t /\ h.t = t /\ h.nid = nid /\ h.tid = tid
<1> DEFINE members == [t |-> t, nid |-> nid, tid |-> tid]
<1>1. DOMAIN members = {"t", "nid", "tid"}
  OBVIOUS
<1>2. members["t"] = t /\ members["nid"] = nid /\ members["tid"] = tid
  OBVIOUS
<1>3. h = Message(msg_header, members)
  BY DEF Header
<1> HIDE DEF members
<1>4. "has" \notin DOMAIN members /\ "unknown" \notin DOMAIN members
  BY <1>1
<1>5. MadeFrom(h, msg_header, members)
  BY <1>3, <1>4, MadeMessage
<1>6. h.t = t /\ h.nid = nid /\ h.tid = tid
  BY <1>1, <1>2, <1>5, NamesOfMembers DEF MadeFrom
<1>7. /\ h = [name \in {"t", "nid", "tid", "has", "unknown"} |-> h[name]]
      /\ h.has = {} /\ h.unknown = <<>>
  BY <1>5, NamesOfMembers DEF MadeFrom
<1> QED
  BY <1>6, <1>7 DEF Header_t

\* ... the prepares, ...
LEMMA PrepareMade ==
  ASSUME NEW h \in Header_t, NEW rids \in Seq(Roundid), NEW m,
         m = Message(msg_prepare, [h |-> h, rids |-> rids])
  PROVE  m \in Prepare_t /\ m.h = h /\ m.rids = rids
<1> DEFINE members == [h |-> h, rids |-> rids]
<1>1. DOMAIN members = {"h", "rids"}
  OBVIOUS
<1>2. members["h"] = h /\ members["rids"] = rids
  OBVIOUS
<1>3. m = Message(msg_prepare, members)
  BY DEF members
<1> HIDE DEF members
<1>4. "has" \notin DOMAIN members /\ "unknown" \notin DOMAIN members
  BY <1>1
<1>5. MadeFrom(m, msg_prepare, members)
  BY <1>3, <1>4, MadeMessage
<1>6. m.h = h /\ m.rids = rids
  BY <1>1, <1>2, <1>5, NamesOfMembers DEF MadeFrom
<1>7. /\ m = [name \in {"h", "rids", "has", "unknown"} |-> m[name]]
      /\ m.has = {} /\ m.unknown = <<>>
  BY <1>5, NamesOfMembers DEF MadeFrom
<1> QED
  BY <1>6, <1>7 DEF Prepare_t

\* ... the promises, ...
LEMMA PromiseMade ==
  ASSUME NEW h \in Header_t, NEW ress \in Seq(Bare), NEW m,
         m = Message(msg_promise, [h |-> h, ress |-> ress])
  PROVE  m \in Answer_t /\ m.h = h /\ m.ress = ress
<1> DEFINE members == [h |-> h, ress |-> ress]
<1>1. DOMAIN members = {"h", "ress"}
  OBVIOUS
<1>2. members["h"] = h /\ members["ress"] = ress
  OBVIOUS
<1>3. m = Message(msg_promise, members)
  BY DEF members
<1> HIDE DEF members
<1>4. "has" \notin DOMAIN members /\ "unknown" \notin DOMAIN members
  BY <1>1
<1>5. MadeFrom(m, msg_promise, members)
  BY <1>3, <1>4, MadeMessage
<1>6. m.h = h /\ m.ress = ress
  BY <1>1, <1>2, <1>5, NamesOfMembers DEF MadeFrom
<1>7. /\ m = [name \in {"h", "ress", "has", "unknown"} |-> m[name]]
      /\ m.has = {} /\ m.unknown = <<>>
  BY <1>5, NamesOfMembers DEF MadeFrom
<1> QED
  BY <1>6, <1>7 DEF Answer_t

\* ... the answers to an accept, ...
LEMMA AcceptedMade ==
  ASSUME NEW h \in Header_t, NEW ress \in Seq(Bare), NEW m,
         m = Message(msg_accepted, [h |-> h, ress |-> ress])
  PROVE  m \in Answer_t /\ m.h = h /\ m.ress = ress
<1> DEFINE members == [h |-> h, ress |-> ress]
<1>1. DOMAIN members = {"h", "ress"}
  OBVIOUS
<1>2. members["h"] = h /\ members["ress"] = ress
  OBVIOUS
<1>3. m = Message(msg_accepted, members)
  BY DEF members
<1> HIDE DEF members
<1>4. "has" \notin DOMAIN members /\ "unknown" \notin DOMAIN members
  BY <1>1
<1>5. MadeFrom(m, msg_accepted, members)
  BY <1>3, <1>4, MadeMessage
<1>6. m.h = h /\ m.ress = ress
  BY <1>1, <1>2, <1>5, NamesOfMembers DEF MadeFrom
<1>7. /\ m = [name \in {"h", "ress", "has", "unknown"} |-> m[name]]
      /\ m.has = {} /\ m.unknown = <<>>
  BY <1>5, NamesOfMembers DEF MadeFrom
<1> QED
  BY <1>6, <1>7 DEF Answer_t

\* ... the accepts ...
LEMMA AcceptMade ==
  ASSUME NEW h \in Header_t, NEW prop \in Proposal, Len(prop.rids) = 1, NEW m,
         m = Message(msg_accept, [h |-> h, prop |-> prop])
  PROVE  m \in Accept_t /\ m.h = h /\ m.prop = prop
<1> DEFINE members == [h |-> h, prop |-> prop]
<1>1. DOMAIN members = {"h", "prop"}
  OBVIOUS
<1>2. members["h"] = h /\ members["prop"] = prop
  OBVIOUS
<1>3. m = Message(msg_accept, members)
  BY DEF members
<1> HIDE DEF members
<1>4. "has" \notin DOMAIN members /\ "unknown" \notin DOMAIN members
  BY <1>1
<1>5. MadeFrom(m, msg_accept, members)
  BY <1>3, <1>4, MadeMessage
<1>6. m.h = h /\ m.prop = prop
  BY <1>1, <1>2, <1>5, NamesOfMembers DEF MadeFrom
<1>7. /\ m = [name \in {"h", "prop", "has", "unknown"} |-> m[name]]
      /\ m.has = {} /\ m.unknown = <<>>
  BY <1>5, NamesOfMembers DEF MadeFrom
<1> QED
  BY <1>6, <1>7 DEF Accept_t

\* ... and the responses that the code makes have the types of mpaxos.pb-c.h.
LEMMA ResponseMade ==
  ASSUME NEW rid \in Roundid, NEW ok \in BOOLEAN, NEW res, res = Response(rid, ok, <<>>)
  PROVE  res \in Bare /\ res.rid = rid /\ res.ack = IF ok THEN SUCCESS ELSE ERR_BID
<1> DEFINE ack == IF ok THEN SUCCESS ELSE ERR_BID
           members == [rid |-> rid, ack |-> ack, props |-> <<>>]
<1>1. DOMAIN members = {"rid", "ack", "props"}
  OBVIOUS
<1>2. members["rid"] = rid /\ members["ack"] = ack /\ members["props"] = <<>>
  OBVIOUS
<1>3. res = Message(response_t, members)
  BY DEF Response
<1>4. ack \in {SUCCESS, ERR_BID} /\ <<>> \in Seq(Proposal)
  OBVIOUS
<1> HIDE DEF members, ack
<1>5. "has" \notin DOMAIN members /\ "unknown" \notin DOMAIN members
  BY <1>1
<1>6. MadeFrom(res, response_t, members)
  BY <1>3, <1>5, MadeMessage
<1>7. res.rid = rid /\ res.ack = ack /\ res.props = <<>>
  BY <1>1, <1>2, <1>6, NamesOfMembers DEF MadeFrom
<1>8. /\ res = [name \in {"rid", "ack", "props", "has", "unknown"} |-> res[name]]
      /\ res.has = {} /\ res.unknown = <<>>
  BY <1>6, NamesOfMembers DEF MadeFrom
<1>9. res \in Bare
  BY <1>4, <1>7, <1>8 DEF Response_t, Bare
<1> QED
  BY <1>7, <1>9 DEF ack

\* A new proposal has no coded value.
LEMMA ProposalMade ==
  ASSUME NEW rids \in Seq(Roundid), NEW nid \in UInt32, NEW value \in Seq(Octet), NEW prop,
         prop = Message(proposal, [rids |-> rids, nid |-> nid, value |-> value])
  PROVE  /\ prop \in Proposal /\ prop.rids = rids /\ prop.nid = nid /\ prop.value = value
         /\ prop.coded_value = NULL
<1> DEFINE members == [rids |-> rids, nid |-> nid, value |-> value]
           init == message_init(proposal)
<1>1. DOMAIN members = {"rids", "nid", "value"}
  OBVIOUS
<1>2. members["rids"] = rids /\ members["nid"] = nid /\ members["value"] = value
  OBVIOUS
<1>3. prop = Message(proposal, members)
  BY DEF members
<1> HIDE DEF members
<1>4. "has" \notin DOMAIN members /\ "unknown" \notin DOMAIN members
  BY <1>1
<1>5. MadeFrom(prop, proposal, members)
  BY <1>3, <1>4, MadeMessage
<1>6. init["tid"] = Word64(0) /\ init["coded_value"] = NULL
  <2> DEFINE ftid == proposal.fields[2]
             fcv == proposal.fields[5]
  <2>1. /\ ftid.name = "tid" /\ ftid.label = "REQUIRED" /\ ftid.type = "UINT64"
        /\ fcv.name = "coded_value" /\ fcv.label = "OPTIONAL" /\ fcv.type = "MESSAGE"
    BY DEF proposal, Descriptor, Field, required
  <2>2. Len(proposal.fields) = 5 /\ \A i \in 1 .. 5 : proposal.fields[i] \in Range(proposal.fields)
    BY DEF proposal, Descriptor, Range
  <2>3. \A i, j \in 1 .. 5 : proposal.fields[i].name = proposal.fields[j].name => i = j
    BY DescriptorsWellFormed, <2>2 DEF WellFormed
  <2>4. \A f \in Range(proposal.fields) : \E i \in 1 .. 5 : f = proposal.fields[i]
    BY <2>2 DEF proposal, Descriptor, Range
  <2> HIDE DEF ftid, fcv
  <2>5. \A f \in Range(proposal.fields) :
          /\ f.name = "tid" => f = ftid
          /\ f.name = "coded_value" => f = fcv
    BY <2>1, <2>3, <2>4 DEF ftid, fcv
  <2>6. ftid \in Range(proposal.fields) /\ fcv \in Range(proposal.fields)
    BY <2>2 DEF ftid, fcv
  <2>7. FieldNamed(proposal, "tid") = ftid /\ FieldNamed(proposal, "coded_value") = fcv
    BY <2>1, <2>5, <2>6 DEF FieldNamed
  <2>8. EmptyMember(ftid) = Word64(0) /\ EmptyMember(fcv) = NULL
    BY <2>1 DEF EmptyMember
  <2> QED
    BY <2>7, <2>8, NamesOfMembers DEF message_init
<1> HIDE DEF init
<1>7. /\ prop.rids = rids /\ prop.nid = nid /\ prop.value = value
      /\ prop.tid = Word64(0) /\ prop.coded_value = NULL
  BY <1>1, <1>2, <1>5, <1>6, NamesOfMembers DEF MadeFrom, init
<1>8. /\ prop = [name \in {"rids", "tid", "nid", "value", "coded_value", "has", "unknown"} |-> prop[name]]
      /\ prop.has = {} /\ prop.unknown = <<>>
  BY <1>5, NamesOfMembers DEF MadeFrom
<1>9. Word64(0) \in UInt64
  BY SmallFits DEF Word64, UInt64
<1> QED
  BY <1>7, <1>8, <1>9 DEF Proposal

\* So has a proposal with its coded value.
LEMMA ProposalCoded ==
  ASSUME NEW prop \in Proposal, NEW cv \in CodedValue, NEW coded,
         coded = [prop EXCEPT !.coded_value = cv]
  PROVE  /\ coded \in Proposal /\ coded.rids = prop.rids /\ coded.nid = prop.nid
         /\ coded.coded_value = cv
BY DEF Proposal

-----------------------------------------------------------------------------
\* Coded values.  A byte is below 256.
LEMMA ByteOfBlock == ASSUME NEW byte PROVE Number(byte) \in Octet
<1> DEFINE b0 == IF 0 \in byte THEN 2^0 ELSE 0
           b1 == IF 1 \in byte THEN 2^1 ELSE 0
           b2 == IF 2 \in byte THEN 2^2 ELSE 0
           b3 == IF 3 \in byte THEN 2^3 ELSE 0
           b4 == IF 4 \in byte THEN 2^4 ELSE 0
           b5 == IF 5 \in byte THEN 2^5 ELSE 0
           b6 == IF 6 \in byte THEN 2^6 ELSE 0
           b7 == IF 7 \in byte THEN 2^7 ELSE 0
<1>1. /\ b0 \in 0 .. 1 /\ b1 \in 0 .. 2 /\ b2 \in 0 .. 4 /\ b3 \in 0 .. 8
      /\ b4 \in 0 .. 16 /\ b5 \in 0 .. 32 /\ b6 \in 0 .. 64 /\ b7 \in 0 .. 128
  OBVIOUS
<1>2. Number(byte) = b0 + b1 + b2 + b3 + b4 + b5 + b6 + b7
  BY DEF Number
<1> HIDE DEF b0, b1, b2, b3, b4, b5, b6, b7
<1>3. b0 + b1 + b2 + b3 + b4 + b5 + b6 + b7 \in 0 .. 255
  BY <1>1
<1> QED
  BY <1>2, <1>3 DEF Octet

\* So a block gives as many bytes as are asked for.
LEMMA BytesOfBlock ==
  ASSUME NEW block, NEW len \in Nat
  PROVE  BytesOf(block, len) \in Seq(Octet) /\ Len(BytesOf(block, len)) = len
<1>1. \A i \in 1 .. len : Number(block[i]) \in Octet
  BY ByteOfBlock
<1> QED
  BY <1>1 DEF BytesOf

\* A share is not longer than the data it is of.
LEMMA ShareFits ==
  ASSUME NEW len \in Nat, NEW k \in {1, 3}, k = 3 => len > 0
  PROVE  sz_share(len, k) \in 0 .. len
<1>1. CASE k = 1
  BY <1>1 DEF sz_share
<1>2. CASE k = 3
  BY <1>2 DEF sz_share
<1> QED
  BY <1>1, <1>2

\* Each of the n shares rs_encode returns is some block, with its numbers.
LEMMA EncodedAt ==
  ASSUME NEW data, NEW tail, NEW k, NEW n, NEW i \in 0 .. n - 1
  PROVE  \E block : rs_encode(data, tail, k, n)[i] =
           Message(coded_value_t, [sz |-> Len(data), k |-> k, n |-> n, id |-> i,
                                   value |-> BytesOf(block, sz_share(Len(data), k))])
<1> DEFINE size   == sz_share(Len(data), k)
           source == Array(k, LAMBDA j : BlockOf(Slice(data \o tail, j, size)))
           nums   == [j \in 1 .. n - k |-> k + j - 1]
           checks == fec_encode(fec_new(k, n), source, nums)
           block  == IF i < k THEN source[i] ELSE checks[i - k + 1]
<1>1. rs_encode(data, tail, k, n)[i] =
           Message(coded_value_t, [sz |-> Len(data), k |-> k, n |-> n, id |-> i,
                                   value |-> BytesOf(block, size)])
  BY Zenon DEF rs_encode
<1> QED
  BY <1>1

\* What rs_encode makes of a request is a coded value for each of 5 nodes.
LEMMA CodedValueMade ==
  ASSUME NEW req \in Requests, NEW c \in Codings[req], NEW i \in 0 .. 4
  PROVE  c.cvs[i] \in CodedValue
<1> DEFINE data == IF req.data_c # <<>> THEN req.data_c ELSE req.data
           k    == IF req.data_c # <<>> THEN 3 ELSE 1
           len  == Len(data)
           size == sz_share(len, k)
<1>1. /\ req.data \in Seq(Octet) /\ Len(req.data) <= MaxValueLen
      /\ req.data_c \in Seq(Octet) /\ Len(req.data_c) <= MaxValueLen
  BY RequestAssumption
<1>2. /\ data \in Seq(Octet) /\ len \in Nat /\ len <= MaxValueLen
      /\ k \in {1, 3} /\ (k = 3 => len > 0)
  BY <1>1
<1>3. PICK b : c = Coding(req, b)
  BY DEF Codings
<1> DEFINE tail == [j \in 1 .. Overread(data, k) |-> b]
<1>4. c.cvs = rs_encode(data, tail, k, 5)
  BY <1>3 DEF Coding
<1> HIDE DEF data, k, tail
<1>5. i \in 0 .. 5 - 1
  OBVIOUS
<1>6. \E block : rs_encode(data, tail, k, 5)[i] =
        Message(coded_value_t, [sz |-> Len(data), k |-> k, n |-> 5, id |-> i,
                                value |-> BytesOf(block, sz_share(Len(data), k))])
  BY <1>5, EncodedAt
<1>7. PICK block : c.cvs[i] = Message(coded_value_t,
                     [sz |-> len, k |-> k, n |-> 5, id |-> i, value |-> BytesOf(block, size)])
  BY <1>4, <1>6
<1> HIDE DEF len
<1>8. size \in 0 .. len
  BY <1>2, ShareFits
<1> HIDE DEF size
<1>9. size \in Nat /\ size <= MaxValueLen
  BY <1>2, <1>8, ValueFits
<1> DEFINE value == BytesOf(block, size)
           members == [sz |-> len, k |-> k, n |-> 5, id |-> i, value |-> value]
           cv == c.cvs[i]
<1>10. value \in Seq(Octet) /\ Len(value) <= MaxValueLen
  BY <1>9, BytesOfBlock
<1>11. cv = Message(coded_value_t, members)
  BY <1>7
<1> HIDE DEF value
<1>12. DOMAIN members = {"sz", "k", "n", "id", "value"}
  OBVIOUS
<1>13. /\ members["sz"] = len /\ members["k"] = k /\ members["n"] = 5 /\ members["id"] = i
       /\ members["value"] = value
  OBVIOUS
<1> HIDE DEF members, cv
<1>14. "has" \notin DOMAIN members /\ "unknown" \notin DOMAIN members
  BY <1>12
<1>15. MadeFrom(cv, coded_value_t, members)
  BY <1>11, <1>14, MadeMessage
<1>16. cv.sz = len /\ cv.k = k /\ cv.n = 5 /\ cv.id = i /\ cv.value = value
  BY <1>12, <1>13, <1>15, NamesOfMembers DEF MadeFrom
<1>17. /\ cv = [name \in {"sz", "k", "n", "id", "value", "has", "unknown"} |-> cv[name]]
       /\ cv.has = {} /\ cv.unknown = <<>>
  BY <1>15, NamesOfMembers DEF MadeFrom
<1>18. len \in UInt32
  <2>1. len \in 0 .. MaxValueLen + 46
    BY <1>2, ValueFits
  <2> QED
    BY <2>1, ValueFits
<1>19. 1 \in UInt32 /\ 3 \in UInt32 /\ 5 \in UInt32
  BY SmallFits
<1>20. k \in UInt32
  BY <1>2, <1>19
<1>21. i \in UInt32
  <2>1. i \in 0 .. 60
    OBVIOUS
  <2> QED
    BY <2>1, SmallFits
<1>22. cv \in CodedValue
  BY <1>10, <1>16, <1>17, <1>18, <1>19, <1>20, <1>21 DEF CodedValue
<1> QED
  BY <1>22 DEF cv

-----------------------------------------------------------------------------
\* A message that is packed as it was made arrives as it was meant, and takes the
\* room that was promised.
LEMMA PrepareIntact ==
  ASSUME NEW m \in Prepare_t, m.h.t = PREPARE, NEW k, k = Packed(msg_prepare, m)
  PROVE  Intact(k) /\ Unpacked(k) = m
<1>1. k.t = PREPARE /\ k.meant = m /\ k.bytes = message_pack(msg_prepare, m)
  BY DEF Packed
<1>2. DescriptorOf(k.t) = msg_prepare
  BY <1>1 DEF DescriptorOf
<1>3. RoundTrip(msg_prepare, m, m)
  BY PrepareSent
<1>4. Delivered(m) = m
  BY DEF Delivered, PREPARE, ACCEPT
<1> QED
  BY <1>1, <1>2, <1>3, <1>4 DEF Intact, Unpacked, RoundTrip

\* So are promises and the answers to accepts.
LEMMA AnswerIntact ==
  ASSUME NEW m \in Answer_t, NEW desc, NEW k, k = Packed(desc, m),
         \/ m.h.t = PROMISE /\ desc = msg_promise
         \/ m.h.t = ACCEPTED /\ desc = msg_accepted
  PROVE  Intact(k) /\ Unpacked(k) = m
<1>1. k.t = m.h.t /\ k.meant = m /\ k.bytes = message_pack(desc, m)
  BY DEF Packed
<1>2. DescriptorOf(k.t) = desc
  BY <1>1 DEF DescriptorOf, PREPARE, PROMISE, ACCEPT, ACCEPTED
<1>3. RoundTrip(desc, m, m)
  BY AnswerSent
<1>4. Delivered(m) = m
  BY DEF Delivered, PROMISE, ACCEPT, ACCEPTED
<1> QED
  BY <1>1, <1>2, <1>3, <1>4 DEF Intact, Unpacked, RoundTrip

\* Of a proposal it is all but the value, for which has_value is not set.
LEMMA AcceptIntact ==
  ASSUME NEW m \in Accept_t, m.h.t = ACCEPT, NEW k, k = Packed(msg_accept, m)
  PROVE  /\ Intact(k) /\ Unpacked(k).h = m.h
         /\ Unpacked(k).prop = WithoutValue(m.prop)
<1> DEFINE w == Delivered(m)
<1>1. k.t = ACCEPT /\ k.meant = m /\ k.bytes = message_pack(msg_accept, m)
  BY DEF Packed
<1>2. DescriptorOf(k.t) = msg_accept
  BY <1>1 DEF DescriptorOf, PREPARE, PROMISE, ACCEPT
<1>3. /\ w.h = m.h /\ w.prop = WithoutValue(m.prop) /\ w.has = {} /\ w.unknown = <<>>
      /\ w = [x \in {"h", "prop", "has", "unknown"} |-> w[x]]
  BY DEF Delivered, Accept_t, WithoutValue
<1> HIDE DEF w
<1>4. RoundTrip(msg_accept, m, w)
  BY <1>3, AcceptSent
<1> QED
  BY <1>1, <1>2, <1>3, <1>4 DEF Intact, Unpacked, RoundTrip, w

\* Without its value a proposal is one over the same rounds by the same node.
LEMMA ProposalWithoutValue ==
  ASSUME NEW prop \in Proposal, NEW bare, bare = WithoutValue(prop)
  PROVE  bare \in Proposal /\ bare.rids = prop.rids /\ bare.nid = prop.nid /\ bare.value = <<>>
<1>1. <<>> \in Seq(Octet)
  OBVIOUS
<1> QED
  BY <1>1 DEF Proposal, WithoutValue

-----------------------------------------------------------------------------
\* The node ids are those of the processes, one each, and fit into the messages.
LEMMA NodeIdsOfProcesses ==
  /\ Range(NodeIds) = 1 .. Len(Config) /\ Len(NodeIds) = Len(Config) /\ Len(Config) \in 1 .. 5
  /\ \A p \in Process : NidOf(p) \in 1 .. Len(Config) /\ NidOf(p) \in UInt32 /\ NidOf(p) - 1 \in 0 .. 4
  /\ \A p, q \in Process : NidOf(p) = NidOf(q) => p = q
  /\ \A nid \in 1 .. Len(Config) : \E p \in Process : NidOf(p) = nid
<1> DEFINE n == Len(Config)
<1>1. n \in 1 .. 5
  <2>1. n \in Nat \ {0}
    BY ConfigIsSequence
  <2>2. n <= 5
    BY ViewAssumption
  <2> HIDE DEF n
  <2> QED
    BY <2>1, <2>2
<1>2. Range(NodeIds) = 1 .. Len(Config) /\ Len(NodeIds) = Len(Config)
  BY <1>1 DEF NodeIds, Range
<1>3. ASSUME NEW p \in Process PROVE NidOf(p) \in 1 .. Len(Config) /\ Config[NidOf(p)] = p
  BY ConfigIsSequence DEF NidOf
<1>4. \A i, j \in 1 .. Len(Config) : Config[i] = Config[j] => i = j
  BY ConfigAssumption DEF IsInjective
<1>5. ASSUME NEW p \in Process PROVE NidOf(p) \in UInt32 /\ NidOf(p) - 1 \in 0 .. 4
  <2> DEFINE id == NidOf(p)
  <2>0. id \in 1 .. n
    BY <1>3
  <2> HIDE DEF id, n
  <2>1. id \in 0 .. 60 /\ id - 1 \in 0 .. 4
    BY <1>1, <2>0
  <2> QED
    BY <2>1, SmallFits DEF id
<1>6. \A p, q \in Process : NidOf(p) = NidOf(q) => p = q
  BY <1>3
<1>7. ASSUME NEW nid \in 1 .. Len(Config) PROVE \E p \in Process : NidOf(p) = nid
  <2>1. Config[nid] \in Process
    BY ConfigIsSequence
  <2>2. NidOf(Config[nid]) = nid
    BY <1>3, <1>4, <2>1
  <2> QED
    BY <2>1, <2>2
<1> QED
  BY <1>1, <1>2, <1>3, <1>5, <1>6, <1>7

\* A request has at least one group, and none twice.
LEMMA GroupsOfRequest ==
  ASSUME NEW req \in Requests
  PROVE  /\ Groups(req) \in Seq(UInt32) /\ Len(Groups(req)) \in Nat \ {0}
         /\ DOMAIN Groups(req) = 1 .. Len(Groups(req))
         /\ \A i \in 1 .. Len(Groups(req)) : Groups(req)[i] \in Range(Groups(req))
         /\ \A g \in Range(Groups(req)) : \E i \in 1 .. Len(Groups(req)) : Groups(req)[i] = g
         /\ Range(Groups(req)) \subseteq UInt32
         /\ \A i, j \in 1 .. Len(Groups(req)) : Groups(req)[i] = Groups(req)[j] => i = j
<1> DEFINE gids == Groups(req)
<1>1. req.gids \in Seq(UInt32) /\ IsInjective(req.gids)
  BY RequestAssumption
<1>2. 1 \in UInt32
  BY SmallFits
<1>3. gids \in Seq(UInt32) /\ gids # <<>>
  BY <1>1, <1>2 DEF Groups
<1>4. IsInjective(gids)
  <2>1. CASE req.gids = <<>>
    <3>1. gids = <<1>>
      BY <2>1 DEF Groups
    <3> QED
      BY <3>1 DEF IsInjective
  <2>2. CASE req.gids # <<>>
    BY <1>1, <2>2 DEF Groups
  <2> QED
    BY <2>1, <2>2
<1> HIDE DEF gids
<1>5. Len(gids) \in Nat \ {0} /\ DOMAIN gids = 1 .. Len(gids)
  BY <1>3
<1>6. \A i \in 1 .. Len(gids) : gids[i] \in UInt32
  BY <1>3
<1>7. \A i, j \in 1 .. Len(gids) : gids[i] = gids[j] => i = j
  BY <1>4, <1>5 DEF IsInjective
<1>8. /\ \A i \in 1 .. Len(gids) : gids[i] \in Range(gids)
      /\ \A g \in Range(gids) : \E i \in 1 .. Len(gids) : gids[i] = g
  BY <1>5 DEF Range
<1>9. Range(gids) \subseteq UInt32
  BY <1>6, <1>8
<1> QED
  BY <1>3, <1>5, <1>7, <1>8, <1>9 DEF gids

\* The numbers of the transactions and of the ballots.
LEMMA SmallWords == Word64(0) \in UInt64 /\ Word64(1) \in UInt64 /\ Word64(2) \in UInt64
BY SmallFits DEF Word64, UInt64

\* What is below a number of 32 bits is one.
LEMMA UpTo32 == ASSUME NEW n \in UInt32, NEW m \in 0 .. n PROVE m \in UInt32
BY SMT DEF UInt32

\* The ids of transactions are 64 bits.
LEMMA TidFits == ASSUME NEW n \in 0 .. MaxRequest PROVE TidOf(n) \in UInt64 /\ n \in UInt32
<1>1. n \in UInt32
  BY RequestAssumption, UpTo32
<1>2. Me \in UInt32
  BY NodeIdsOfProcesses, RequestAssumption DEF Me
<1> QED
  BY <1>1, <1>2 DEF TidOf, gen_txn_id, UInt64

\* A later slot, if its low word does not wrap.
LEMMA LaterSlot ==
  ASSUME NEW sid \in UInt64, NEW n \in Nat, sid.lo + n \in UInt32
  PROVE  /\ Later(sid, n) \in UInt64 /\ Later(sid, n).hi = sid.hi /\ Later(sid, n).lo = sid.lo + n
BY DEF Later, UInt64

-----------------------------------------------------------------------------
\* Counting the responses of one node.  From a response without proposals nothing is
\* learned.
LEMMA LearnNothing == ASSUME NEW t, NEW gid PROVE Learn(t, gid, <<>>) = t
<1> DEFINE f == [i \in 0 .. 0 |-> t]
           learned == CHOOSE g : g = [i \in 0 .. Len(<<>>) |->
                        IF i = 0 THEN t ELSE LearnProposal(g[i - 1], gid, <<>>[i])]
<1>1. Len(<<>>) = 0
  OBVIOUS
<1>2. f = [i \in 0 .. Len(<<>>) |-> IF i = 0 THEN t ELSE LearnProposal(f[i - 1], gid, <<>>[i])]
  BY <1>1
<1>3. learned = [i \in 0 .. Len(<<>>) |->
                   IF i = 0 THEN t ELSE LearnProposal(learned[i - 1], gid, <<>>[i])]
  BY <1>2
<1>4. Learn(t, gid, <<>>) = learned[Len(<<>>)]
  BY DEF Learn
<1> HIDE DEF learned, f
<1>5. learned[0] = t
  BY <1>1, <1>3
<1> QED
  BY <1>1, <1>4, <1>5

\* u is t with answers of node nid in the table.
CountedAs(t, u, nid, table) ==
  /\ u \in Txn(t.req) /\ u.tid = t.tid /\ u.in_phase = t.in_phase /\ u.rids = t.rids
  /\ u.prop_max = t.prop_max /\ u.prop = t.prop
  /\ \A g \in Range(Groups(t.req)) :
       /\ u.ginfo[g].rid = t.ginfo[g].rid
       /\ DOMAIN u.ginfo[g].prom \subseteq
            DOMAIN t.ginfo[g].prom \cup (IF table = "prom" THEN {nid} ELSE {})
       /\ DOMAIN u.ginfo[g].accd \subseteq
            DOMAIN t.ginfo[g].accd \cup (IF table = "accd" THEN {nid} ELSE {})

\* What nid says, as far as it said nothing before; t with that added to a table.
Says(nid, ack, said) == [n \in {nid} \ DOMAIN said |-> ack]
AnswerAdded(t, g, table, nid, ack) ==
  [t EXCEPT !.ginfo[g][table] = Updated(@, [n \in {nid} \ DOMAIN @ |-> ack])]

\* The answers of the nodes with one more.
LEMMA SaidMore ==
  ASSUME NEW said \in Said, NEW nid \in Range(NodeIds), NEW ack \in {SUCCESS, ERR_BID}, NEW more,
         more = Updated(said, Says(nid, ack, said))
  PROVE  more \in Said /\ DOMAIN more = DOMAIN said \cup {nid}
<1> DEFINE e == Says(nid, ack, said)
<1>1. PICK nids \in SUBSET Range(NodeIds) : said \in [nids -> {SUCCESS, ERR_BID}]
  BY DEF Said
<1>2. DOMAIN e = {nid} \ DOMAIN said /\ \A n \in DOMAIN e : e[n] = ack
  BY DEF Says
<1>3. more = [key \in DOMAIN said \cup DOMAIN e |-> IF key \in DOMAIN e THEN e[key] ELSE said[key]]
  BY DEF Updated
<1> HIDE DEF e
<1>4. DOMAIN more = nids \cup {nid}
  BY <1>1, <1>2, <1>3
<1>5. more \in [nids \cup {nid} -> {SUCCESS, ERR_BID}]
  BY <1>1, <1>2, <1>3
<1>6. nids \cup {nid} \in SUBSET Range(NodeIds)
  BY <1>1
<1> QED
  BY <1>1, <1>4, <1>5, <1>6 DEF Said

\* An answer more in the one table, ...
LEMMA CountedPromise ==
  ASSUME NEW req, NEW t \in Txn(req), NEW u, NEW nid \in Range(NodeIds),
         CountedAs(t, u, nid, "prom"), NEW g \in Range(Groups(req)), NEW ack \in {SUCCESS, ERR_BID},
         NEW v, v = AnswerAdded(u, g, "prom", nid, ack)
  PROVE  CountedAs(t, v, nid, "prom")
<1> DEFINE old  == u.ginfo[g]
           more == Updated(old.prom, Says(nid, ack, old.prom))
           gi   == [old EXCEPT !.prom = more]
           gis  == [u.ginfo EXCEPT ![g] = gi]
<1>1. t.req = req
  BY DEF Txn
<1>2. u \in Txn(req) /\ u.ginfo \in [Range(Groups(req)) -> Ginfo]
  BY <1>1 DEF CountedAs, Txn
<1>3. old \in Ginfo
  BY <1>2
<1>4. old.prom \in Said
  BY <1>3 DEF Ginfo
<1>5. v = [u EXCEPT !.ginfo = gis]
  BY DEF AnswerAdded, Says
<1> HIDE DEF old
<1>6. more \in Said /\ DOMAIN more = DOMAIN old.prom \cup {nid}
  <2> DEFINE said == old.prom
  <2>1. said \in Said
    BY <1>4
  <2>2. more = Updated(said, Says(nid, ack, said))
    OBVIOUS
  <2> HIDE DEF said, more
  <2>3. more \in Said /\ DOMAIN more = DOMAIN said \cup {nid}
    BY <2>1, <2>2, SaidMore
  <2> QED
    BY <2>3 DEF said
<1> HIDE DEF more
<1>7. gi \in Ginfo /\ gi.rid = old.rid /\ gi.accd = old.accd /\ gi.prom = more
  BY <1>3, <1>6 DEF Ginfo
<1> HIDE DEF gi
<1>8. gis \in [Range(Groups(req)) -> Ginfo]
  BY <1>2, <1>7
<1>9. \A h \in Range(Groups(req)) : gis[h] = IF h = g THEN gi ELSE u.ginfo[h]
  BY <1>2
<1> HIDE DEF gis
<1>10. /\ v \in Txn(req) /\ v.tid = u.tid /\ v.in_phase = u.in_phase /\ v.rids = u.rids
       /\ v.prop_max = u.prop_max /\ v.prop = u.prop /\ v.ginfo = gis
  BY <1>2, <1>5, <1>8 DEF Txn
<1>11. ASSUME NEW h \in Range(Groups(req))
       PROVE  /\ v.ginfo[h].rid = u.ginfo[h].rid /\ v.ginfo[h].accd = u.ginfo[h].accd
              /\ DOMAIN v.ginfo[h].prom \subseteq DOMAIN u.ginfo[h].prom \cup {nid}
  BY <1>6, <1>7, <1>9, <1>10 DEF old
<1> QED
  BY <1>1, <1>10, <1>11 DEF CountedAs

\* ... and in the other.
LEMMA CountedAccepted ==
  ASSUME NEW req, NEW t \in Txn(req), NEW u, NEW nid \in Range(NodeIds),
         CountedAs(t, u, nid, "accd"), NEW g \in Range(Groups(req)), NEW ack \in {SUCCESS, ERR_BID},
         NEW v, v = AnswerAdded(u, g, "accd", nid, ack)
  PROVE  CountedAs(t, v, nid, "accd")
<1> DEFINE old  == u.ginfo[g]
           more == Updated(old.accd, Says(nid, ack, old.accd))
           gi   == [old EXCEPT !.accd = more]
           gis  == [u.ginfo EXCEPT ![g] = gi]
<1>1. t.req = req
  BY DEF Txn
<1>2. u \in Txn(req) /\ u.ginfo \in [Range(Groups(req)) -> Ginfo]
  BY <1>1 DEF CountedAs, Txn
<1>3. old \in Ginfo
  BY <1>2
<1>4. old.accd \in Said
  BY <1>3 DEF Ginfo
<1>5. v = [u EXCEPT !.ginfo = gis]
  BY DEF AnswerAdded, Says
<1> HIDE DEF old
<1>6. more \in Said /\ DOMAIN more = DOMAIN old.accd \cup {nid}
  <2> DEFINE said == old.accd
  <2>1. said \in Said
    BY <1>4
  <2>2. more = Updated(said, Says(nid, ack, said))
    OBVIOUS
  <2> HIDE DEF said, more
  <2>3. more \in Said /\ DOMAIN more = DOMAIN said \cup {nid}
    BY <2>1, <2>2, SaidMore
  <2> QED
    BY <2>3 DEF said
<1> HIDE DEF more
<1>7. gi \in Ginfo /\ gi.rid = old.rid /\ gi.prom = old.prom /\ gi.accd = more
  BY <1>3, <1>6 DEF Ginfo
<1> HIDE DEF gi
<1>8. gis \in [Range(Groups(req)) -> Ginfo]
  BY <1>2, <1>7
<1>9. \A h \in Range(Groups(req)) : gis[h] = IF h = g THEN gi ELSE u.ginfo[h]
  BY <1>2
<1> HIDE DEF gis
<1>10. /\ v \in Txn(req) /\ v.tid = u.tid /\ v.in_phase = u.in_phase /\ v.rids = u.rids
       /\ v.prop_max = u.prop_max /\ v.prop = u.prop /\ v.ginfo = gis
  BY <1>2, <1>5, <1>8 DEF Txn
<1>11. ASSUME NEW h \in Range(Groups(req))
       PROVE  /\ v.ginfo[h].rid = u.ginfo[h].rid /\ v.ginfo[h].prom = u.ginfo[h].prom
              /\ DOMAIN v.ginfo[h].accd \subseteq DOMAIN u.ginfo[h].accd \cup {nid}
  BY <1>6, <1>7, <1>9, <1>10 DEF old
<1> QED
  BY <1>1, <1>10, <1>11 DEF CountedAs

\* f is the recursion of Count.
CountRound(f, t, nid, table, ress, i) ==
  IF i = 0 THEN t ELSE CountResponse(f[i - 1], nid, table, ress[i])
IsCount(f, t, nid, table, ress, n) == f = [i \in 0 .. n |-> CountRound(f, t, nid, table, ress, i)]

\* What it is in one round of the loop.
LEMMA CountAt ==
  ASSUME NEW f, NEW t, NEW nid, NEW table, NEW ress, NEW n \in Nat,
         IsCount(f, t, nid, table, ress, n), NEW i \in 0 .. n
  PROVE  f[i] = CountRound(f, t, nid, table, ress, i)
<1> DEFINE k == [j \in 0 .. n |-> CountRound(f, t, nid, table, ress, j)]
<1>1. k[i] = CountRound(f, t, nid, table, ress, i)
  OBVIOUS
<1>2. f = k
  BY DEF IsCount
<1> HIDE DEF k
<1> QED
  BY <1>1, <1>2

\* It has a value.
LEMMA CountExists ==
  ASSUME NEW t, NEW nid, NEW table, NEW ress
  PROVE  \A n \in Nat : \E f : IsCount(f, t, nid, table, ress, n)
<1> DEFINE S == {n \in Nat : \E f : IsCount(f, t, nid, table, ress, n)}
<1>1. 0 \in S
  <2> DEFINE f == [i \in 0 .. 0 |-> t]
  <2>1. f = [i \in 0 .. 0 |-> CountRound(f, t, nid, table, ress, i)]
    BY DEF CountRound
  <2> QED
    BY <2>1 DEF IsCount, CountRound
<1>2. ASSUME NEW n \in Nat, n \in S PROVE n + 1 \in S
  <2>1. PICK f : IsCount(f, t, nid, table, ress, n)
    BY <1>2
  <2> DEFINE k == [i \in 0 .. n + 1 |-> CountRound(f, t, nid, table, ress, i)]
  <2>2. \A i \in 0 .. n : k[i] = f[i]
    <3>1. \A i \in 0 .. n : f[i] = CountRound(f, t, nid, table, ress, i)
      BY <2>1, CountAt
    <3> QED
      BY <3>1 DEF CountRound
  <2>3. \A i \in 0 .. n + 1 : k[i] = CountRound(k, t, nid, table, ress, i)
    <3>1. \A i \in 0 .. n + 1 : i # 0 => i - 1 \in 0 .. n
      OBVIOUS
    <3> QED
      BY <2>2, <3>1 DEF CountRound
  <2>4. k = [i \in 0 .. n + 1 |-> k[i]]
    OBVIOUS
  <2>5. IsCount(k, t, nid, table, ress, n + 1)
    <3> HIDE DEF k
    <3> QED
      BY <2>3, <2>4 DEF IsCount
  <2> QED
    BY <2>5
<1> HIDE DEF S
<1>3. \A n \in Nat : n \in S
  BY <1>1, <1>2, SetInduction
<1> QED
  BY <1>3 DEF S

\* Counting answers without proposals, for rounds of the transaction, adds the node to
\* the table and changes nothing else.
LEMMA CountKeeps ==
  ASSUME NEW req, NEW t \in Txn(req), NEW nid \in Range(NodeIds), NEW table \in {"prom", "accd"},
         NEW ress \in Seq(Bare),
         \A i \in 1 .. Len(ress) : ress[i].rid.gid \in Range(Groups(req))
  PROVE  CountedAs(t, Count(t, nid, table, ress), nid, table)
<1> DEFINE n == Len(ress)
           counted == CHOOSE f : f = [i \in 0 .. Len(ress) |->
                        IF i = 0 THEN t ELSE CountResponse(f[i - 1], nid, table, ress[i])]
<1>1. n \in Nat /\ \A i \in 1 .. n : ress[i] \in Bare
  OBVIOUS
<1>2. PICK f : IsCount(f, t, nid, table, ress, n)
  BY <1>1, CountExists
<1>3. counted = [i \in 0 .. Len(ress) |->
                   IF i = 0 THEN t ELSE CountResponse(counted[i - 1], nid, table, ress[i])]
  BY <1>2 DEF IsCount, CountRound
<1>4. Count(t, nid, table, ress) = counted[n]
  BY DEF Count
<1>5. IsCount(counted, t, nid, table, ress, n)
  BY <1>3 DEF IsCount, CountRound
<1> HIDE DEF counted, n
<1> DEFINE S == {i \in Nat : i <= n => CountedAs(t, counted[i], nid, table)}
<1>6. t.req = req
  BY DEF Txn
<1>7. 0 \in S
  <2>1. 0 \in 0 .. n
    BY <1>1
  <2>2. counted[0] = t
    BY <1>1, <1>5, <2>1, CountAt DEF CountRound
  <2>3. CountedAs(t, t, nid, table)
    BY <1>6 DEF CountedAs
  <2> QED
    BY <2>2, <2>3
<1>8. ASSUME NEW i \in Nat, i \in S PROVE i + 1 \in S
  <2> SUFFICES ASSUME i + 1 <= n PROVE CountedAs(t, counted[i + 1], nid, table)
    OBVIOUS
  <2> DEFINE u == counted[i]
             res == ress[i + 1]
             g == res.rid.gid
             v == AnswerAdded(u, g, table, nid, res.ack)
  <2>1. i + 1 \in 0 .. n /\ i + 1 \in 1 .. n /\ i + 1 # 0 /\ i + 1 - 1 = i
    BY <1>1
  <2>2. counted[i + 1] = CountResponse(u, nid, table, res)
    BY <1>1, <1>5, <2>1, CountAt DEF CountRound
  <2>3. CountedAs(t, u, nid, table)
    BY <1>1, <1>8, <2>1
  <2>4. res \in Bare /\ g \in Range(Groups(req))
    BY <1>1, <2>1 DEF n
  <2>5. res.ack \in {SUCCESS, ERR_BID} /\ res.props = <<>>
    BY <2>4 DEF Bare, Response_t
  <2> HIDE DEF u, res
  <2>6. CASE res.rid # u.ginfo[res.rid.gid].rid
    BY <2>2, <2>3, <2>6 DEF CountResponse
  <2>7. CASE res.rid = u.ginfo[res.rid.gid].rid
    <3>1. counted[i + 1] = Learn(v, g, <<>>)
      BY <2>2, <2>5, <2>7 DEF CountResponse, AnswerAdded
    <3>2. counted[i + 1] = v
      BY <3>1, LearnNothing
    <3>3. CountedAs(t, v, nid, table)
      <4>1. CASE table = "prom"
        BY <2>3, <2>4, <2>5, <4>1, CountedPromise
      <4>2. CASE table = "accd"
        BY <2>3, <2>4, <2>5, <4>2, CountedAccepted
      <4> QED
        BY <4>1, <4>2
    <3> QED
      BY <3>2, <3>3
  <2> QED
    BY <2>6, <2>7
<1> HIDE DEF S
<1>9. \A i \in Nat : i \in S
  BY <1>7, <1>8, SetInduction
<1>10. n \in S /\ n <= n
  BY <1>1, <1>9
<1> QED
  BY <1>4, <1>10 DEF S

-----------------------------------------------------------------------------
\* A majority of yes in a group is one of the nodes that are in the table.
LEMMA MajorityOfYes ==
  ASSUME NEW t, NEW table, "YES" \in check_majority(t, table), NEW g \in DOMAIN t.ginfo,
         get_view(Committer) = NodeIds
  PROVE  ~ (Cardinality({nid \in DOMAIN t.ginfo[g][table] : t.ginfo[g][table][nid] = SUCCESS})
              < Len(Config) \div 2 + 1)
<1> DEFINE majority == Len(get_view(Committer)) \div 2 + 1
           no(h)  == Cardinality({nid \in DOMAIN t.ginfo[h][table] : t.ginfo[h][table][nid] = ERR_BID})
           yes(h) == Cardinality({nid \in DOMAIN t.ginfo[h][table] : t.ginfo[h][table][nid] = SUCCESS})
           verdict(h) == IF no(h) >= majority THEN "NO"
                         ELSE IF yes(h) < majority THEN "UNCERTAIN" ELSE "YES"
           verdicts == {verdict(h) : h \in DOMAIN t.ginfo}
<1>1. check_majority(t, table) = IF verdicts = {"YES"} THEN verdicts ELSE verdicts \ {"YES"}
  BY DEF check_majority
<1>2. verdicts = {"YES"}
  <2> HIDE DEF verdicts
  <2> QED
    BY <1>1
<1>3. verdict(g) = "YES"
  BY <1>2
<1>4. ~ (yes(g) < majority)
  BY <1>3
<1>5. majority = Len(Config) \div 2 + 1
  BY NodeIdsOfProcesses
<1> QED
  BY <1>4, <1>5

\* The configuration has finitely many processes.
LEMMA ProcessesFinite == IsFiniteSet(Process)
<1>1. Range(Config) = {Config[i] : i \in 1 .. Len(Config)}
  BY ConfigIsSequence, ConfigAssumption DEF Range
<1>2. IsFiniteSet(1 .. Len(Config))
  BY ConfigIsSequence, FS_Interval
<1> DEFINE f == [i \in 1 .. Len(Config) |-> Config[i]]
<1>3. f \in Surjection(1 .. Len(Config), Process)
  BY <1>1 DEF Surjection, Process
<1> QED
  BY <1>2, <1>3, FS_Surjection

-----------------------------------------------------------------------------
\* The two queues of one connection, as OrderInv has them.
QueuesOk(l, r) ==
  /\ l \in Seq(Range(l)) /\ r \in Seq(Range(r))
  /\ \A i \in 1 .. Len(l) : Stamp(l[i]) \in Nat
  /\ \A i \in 1 .. Len(r) : Stamp(r[i]) \in Nat
  /\ Ordered(l) /\ Ordered(r)
  /\ \A i \in 1 .. Len(r), j \in 1 .. Len(l) : Stamp(r[i]) < Stamp(l[j])

\* Each message of q was in old.
From(q, old) == \A i \in 1 .. Len(q) : \E j \in 1 .. Len(old) : q[i] = old[j]

\* A queue without its first message, and with one more.
LEMMA TailQueue ==
  ASSUME NEW T, NEW q \in Seq(T), q # <<>>
  PROVE  /\ Head(q) = q[1] /\ Len(q) \in Nat /\ 1 \in 1 .. Len(q)
         /\ Tail(q) \in Seq(Range(Tail(q))) /\ Len(Tail(q)) = Len(q) - 1
         /\ \A i \in 1 .. Len(Tail(q)) : i + 1 \in 2 .. Len(q) /\ Tail(q)[i] = q[i + 1]
<1>1. Tail(q) \in Seq(T)
  OBVIOUS
<1>2. Tail(q) \in Seq(Range(Tail(q)))
  BY <1>1, SeqOfRange
<1>3. Head(q) = q[1] /\ Len(q) \in Nat /\ 1 \in 1 .. Len(q) /\ Len(Tail(q)) = Len(q) - 1
  OBVIOUS
<1>4. \A i \in 1 .. Len(Tail(q)) : i + 1 \in 2 .. Len(q) /\ Tail(q)[i] = q[i + 1]
  OBVIOUS
<1> QED
  BY <1>2, <1>3, <1>4

\* A queue with an element more.
LEMMA AppendQueue ==
  ASSUME NEW T, NEW q \in Seq(T), NEW k
  PROVE  /\ Len(q) \in Nat
         /\ Append(q, k) \in Seq(Range(Append(q, k))) /\ Len(Append(q, k)) = Len(q) + 1
         /\ \A i \in 1 .. Len(q) : Append(q, k)[i] = q[i]
         /\ Append(q, k)[Len(q) + 1] = k
<1>1. q \in Seq(T \cup {k}) /\ k \in T \cup {k}
  OBVIOUS
<1>2. Append(q, k) \in Seq(T \cup {k})
  BY <1>1
<1>3. Append(q, k) \in Seq(Range(Append(q, k)))
  BY <1>2, SeqOfRange
<1> QED
  BY <1>1, <1>3

\* A message arrives, ...
LEMMA TakenInOrder ==
  ASSUME NEW l, NEW r, QueuesOk(l, r), l # <<>>
  PROVE  /\ QueuesOk(Tail(l), r) /\ From(Tail(l), l)
         /\ \A i \in 1 .. Len(Tail(l)) : Stamp(Tail(l)[i]) > Stamp(Head(l))
         /\ \A i \in 1 .. Len(r) : Stamp(r[i]) < Stamp(Head(l))
<1> DEFINE q == Tail(l)
<1>1. l \in Seq(Range(l)) /\ r \in Seq(Range(r))
  BY DEF QueuesOk
<1>2. /\ Head(l) = l[1] /\ Len(l) \in Nat /\ 1 \in 1 .. Len(l)
      /\ q \in Seq(Range(q)) /\ Len(q) = Len(l) - 1
      /\ \A i \in 1 .. Len(q) : i + 1 \in 2 .. Len(l) /\ q[i] = l[i + 1]
  BY <1>1, TailQueue
<1> HIDE DEF q
<1>3. \A i \in 1 .. Len(q) : i + 1 \in 1 .. Len(l) /\ 1 < i + 1
  BY <1>2
<1>4. \A i \in 1 .. Len(q) : Stamp(q[i]) \in Nat /\ Stamp(q[i]) > Stamp(Head(l))
  BY <1>2, <1>3 DEF QueuesOk, Ordered
<1>5. From(q, l)
  BY <1>2, <1>3 DEF From
<1>6. Ordered(q)
  <2>1. Ordered(l)
    BY DEF QueuesOk
  <2>2. ASSUME NEW i \in 1 .. Len(q), NEW j \in 1 .. Len(q), i < j
        PROVE  Stamp(q[i]) < Stamp(q[j])
    <3>1. i + 1 \in 1 .. Len(l) /\ j + 1 \in 1 .. Len(l) /\ i + 1 < j + 1
      BY <1>2, <1>3, <2>2
    <3>2. Stamp(l[i + 1]) < Stamp(l[j + 1])
      BY <2>1, <3>1 DEF Ordered
    <3> QED
      BY <1>2, <3>2
  <2> QED
    BY <2>2 DEF Ordered
<1>7. \A i \in 1 .. Len(r), j \in 1 .. Len(q) : Stamp(r[i]) < Stamp(q[j])
  BY <1>2, <1>3 DEF QueuesOk
<1>8. QueuesOk(q, r)
  BY <1>1, <1>2, <1>4, <1>6, <1>7 DEF QueuesOk
<1>9. \A i \in 1 .. Len(r) : Stamp(r[i]) < Stamp(Head(l))
  BY <1>2 DEF QueuesOk
<1> QED
  BY <1>4, <1>5, <1>8, <1>9 DEF q

\* ... and is answered; an answer arrives; ...
LEMMA AnsweredInOrder ==
  ASSUME NEW l, NEW r, QueuesOk(l, r), NEW a, Stamp(a) \in Nat,
         \A j \in 1 .. Len(l) : Stamp(a) < Stamp(l[j]),
         \A i \in 1 .. Len(r) : Stamp(r[i]) < Stamp(a)
  PROVE  QueuesOk(l, Append(r, a))
<1> DEFINE q == Append(r, a)
<1>1. l \in Seq(Range(l)) /\ r \in Seq(Range(r))
  BY DEF QueuesOk
<1>2. /\ Len(r) \in Nat /\ q \in Seq(Range(q)) /\ Len(q) = Len(r) + 1
      /\ \A i \in 1 .. Len(r) : q[i] = r[i]
      /\ q[Len(r) + 1] = a
  BY <1>1, AppendQueue
<1> HIDE DEF q
<1>3. \A i \in 1 .. Len(q) : i \in 1 .. Len(r) \/ i = Len(r) + 1
  BY <1>2
<1>4. \A i \in 1 .. Len(q) : Stamp(q[i]) \in Nat
  BY <1>2, <1>3 DEF QueuesOk
<1>5. Ordered(q)
  <2>1. ASSUME NEW i \in 1 .. Len(q), NEW j \in 1 .. Len(q), i < j
        PROVE  Stamp(q[i]) < Stamp(q[j])
    <3>1. i \in 1 .. Len(r)
      BY <1>2, <2>1
    <3>2. CASE j \in 1 .. Len(r)
      BY <1>2, <2>1, <3>1, <3>2 DEF QueuesOk, Ordered
    <3>3. CASE j = Len(r) + 1
      BY <1>2, <3>1, <3>3
    <3> QED
      BY <1>3, <3>2, <3>3
  <2> QED
    BY <2>1 DEF Ordered
<1>6. \A i \in 1 .. Len(q), j \in 1 .. Len(l) : Stamp(q[i]) < Stamp(l[j])
  BY <1>2, <1>3 DEF QueuesOk
<1>7. QueuesOk(l, q)
  BY <1>1, <1>2, <1>4, <1>5, <1>6 DEF QueuesOk
<1> QED
  BY <1>7 DEF q

\* An answer taken leaves the queues in order, and was of the earliest phase in them.
LEMMA AnswerTakenInOrder ==
  ASSUME NEW l, NEW r, QueuesOk(l, r), r # <<>>
  PROVE  /\ QueuesOk(l, Tail(r)) /\ From(Tail(r), r)
         /\ \A i \in 1 .. Len(Tail(r)) : Stamp(Tail(r)[i]) > Stamp(Head(r))
         /\ \A i \in 1 .. Len(l) : Stamp(l[i]) > Stamp(Head(r))
<1> DEFINE q == Tail(r)
<1>1. l \in Seq(Range(l)) /\ r \in Seq(Range(r))
  BY DEF QueuesOk
<1>2. /\ Head(r) = r[1] /\ Len(r) \in Nat /\ 1 \in 1 .. Len(r)
      /\ q \in Seq(Range(q)) /\ Len(q) = Len(r) - 1
      /\ \A i \in 1 .. Len(q) : i + 1 \in 2 .. Len(r) /\ q[i] = r[i + 1]
  BY <1>1, TailQueue
<1> HIDE DEF q
<1>3. \A i \in 1 .. Len(q) : i + 1 \in 1 .. Len(r) /\ 1 < i + 1
  BY <1>2
<1>4. \A i \in 1 .. Len(q) : Stamp(q[i]) \in Nat /\ Stamp(q[i]) > Stamp(Head(r))
  BY <1>2, <1>3 DEF QueuesOk, Ordered
<1>5. From(q, r)
  BY <1>2, <1>3 DEF From
<1>6. Ordered(q)
  <2>1. Ordered(r)
    BY DEF QueuesOk
  <2>2. ASSUME NEW i \in 1 .. Len(q), NEW j \in 1 .. Len(q), i < j
        PROVE  Stamp(q[i]) < Stamp(q[j])
    <3>1. i + 1 \in 1 .. Len(r) /\ j + 1 \in 1 .. Len(r) /\ i + 1 < j + 1
      BY <1>2, <1>3, <2>2
    <3>2. Stamp(r[i + 1]) < Stamp(r[j + 1])
      BY <2>1, <3>1 DEF Ordered
    <3> QED
      BY <1>2, <3>2
  <2> QED
    BY <2>2 DEF Ordered
<1>7. \A i \in 1 .. Len(q), j \in 1 .. Len(l) : Stamp(q[i]) < Stamp(l[j])
  BY <1>2, <1>3 DEF QueuesOk
<1>8. QueuesOk(l, q)
  BY <1>1, <1>2, <1>4, <1>6, <1>7 DEF QueuesOk
<1>9. \A i \in 1 .. Len(l) : Stamp(l[i]) > Stamp(Head(r))
  BY <1>2 DEF QueuesOk
<1> QED
  BY <1>4, <1>5, <1>8, <1>9 DEF q

\* ... a message is sent, behind all others; or all are lost.
LEMMA SentInOrder ==
  ASSUME NEW l, NEW r, QueuesOk(l, r), NEW k, Stamp(k) \in Nat,
         \A j \in 1 .. Len(l) : Stamp(l[j]) < Stamp(k),
         \A i \in 1 .. Len(r) : Stamp(r[i]) < Stamp(k)
  PROVE  /\ QueuesOk(Append(l, k), r)
         /\ \A i \in 1 .. Len(Append(l, k)) :
              Append(l, k)[i] = k \/ \E j \in 1 .. Len(l) : Append(l, k)[i] = l[j]
<1> DEFINE q == Append(l, k)
<1>1. l \in Seq(Range(l)) /\ r \in Seq(Range(r))
  BY DEF QueuesOk
<1>2. /\ Len(l) \in Nat /\ q \in Seq(Range(q)) /\ Len(q) = Len(l) + 1
      /\ \A i \in 1 .. Len(l) : q[i] = l[i]
      /\ q[Len(l) + 1] = k
  BY <1>1, AppendQueue
<1> HIDE DEF q
<1>3. \A i \in 1 .. Len(q) : i \in 1 .. Len(l) \/ i = Len(l) + 1
  BY <1>2
<1>4. \A i \in 1 .. Len(q) : Stamp(q[i]) \in Nat
  BY <1>2, <1>3 DEF QueuesOk
<1>5. Ordered(q)
  <2>1. ASSUME NEW i \in 1 .. Len(q), NEW j \in 1 .. Len(q), i < j
        PROVE  Stamp(q[i]) < Stamp(q[j])
    <3>1. i \in 1 .. Len(l)
      BY <1>2, <2>1
    <3>2. CASE j \in 1 .. Len(l)
      BY <1>2, <2>1, <3>1, <3>2 DEF QueuesOk, Ordered
    <3>3. CASE j = Len(l) + 1
      BY <1>2, <3>1, <3>3
    <3> QED
      BY <1>3, <3>2, <3>3
  <2> QED
    BY <2>1 DEF Ordered
<1>6. \A i \in 1 .. Len(r), j \in 1 .. Len(q) : Stamp(r[i]) < Stamp(q[j])
  BY <1>2, <1>3 DEF QueuesOk
<1>7. QueuesOk(q, r)
  BY <1>1, <1>2, <1>4, <1>5, <1>6 DEF QueuesOk
<1>8. \A i \in 1 .. Len(q) : q[i] = k \/ \E j \in 1 .. Len(l) : q[i] = l[j]
  BY <1>2, <1>3
<1> QED
  BY <1>7, <1>8 DEF q

\* What is lost leaves them in order.
LEMMA LostInOrder ==
  ASSUME NEW l, NEW r, QueuesOk(l, r)
  PROVE  QueuesOk(<<>>, r) /\ From(<<>>, l)
<1>1. <<>> \in Seq(Range(<<>>)) /\ Len(<<>>) = 0
  BY SeqOfRange
<1> QED
  BY <1>1 DEF QueuesOk, Ordered, From

-----------------------------------------------------------------------------
\* The invariant of the transactions, with that of the start-up.
Inv == StartupInv /\ RequestsInv

\* The rounds of a request that has begun.
LEMMA RoundsOfRequest ==
  ASSUME BegunInv, NEW n \in 1 .. n_req
  PROVE  /\ n_req \in Nat /\ n \in Nat /\ begun[n] \in Seq(Roundid) /\ Len(begun[n]) \in Nat \ {0}
         /\ DOMAIN begun[n] = 1 .. Len(begun[n])
         /\ \A i \in 1 .. Len(begun[n]) : /\ begun[n][i] \in Roundid /\ begun[n][i] \in Range(begun[n])
                                          /\ RoundOf(begun[n][i], n)
         /\ \A r \in Range(begun[n]) : \E i \in 1 .. Len(begun[n]) : begun[n][i] = r
<1>1. n_req \in Nat /\ n \in Nat
  BY RequestAssumption DEF BegunInv, UInt32
<1>2. begun[n] \in Seq(Roundid) \ {<<>>}
  BY DEF BegunInv
<1> DEFINE b == begun[n]
<1>3. \A i \in 1 .. Len(b) : RoundOf(b[i], n)
  BY DEF BegunInv
<1> HIDE DEF b
<1>4. b \in Seq(Roundid) \ {<<>>}
  BY <1>2 DEF b
<1>5. b \in Seq(Roundid) /\ Len(b) \in Nat \ {0} /\ DOMAIN b = 1 .. Len(b)
  BY <1>4
<1>6. \A i \in 1 .. Len(b) : b[i] \in Roundid
  BY <1>5
<1>7. /\ \A i \in 1 .. Len(b) : b[i] \in Range(b)
      /\ \A r \in Range(b) : \E i \in 1 .. Len(b) : b[i] = r
  BY <1>5 DEF Range
<1> QED
  BY <1>1, <1>3, <1>5, <1>6, <1>7 DEF b

\* Two rounds have different keys, in one request or in two.
LEMMA KeysApart ==
  ASSUME BegunInv, SlotUsedOnce, NEW m \in 1 .. n_req, NEW n \in 1 .. n_req,
         NEW i \in 1 .. Len(begun[m]), NEW j \in 1 .. Len(begun[n]),
         Key(begun[m][i]) = Key(begun[n][j])
  PROVE  m = n /\ i = j
<1>1. /\ n_req \in Nat /\ begun[m][i] \in Range(begun[m]) /\ begun[n][j] \in Range(begun[n])
  BY RoundsOfRequest
<1>2. DOMAIN begun = 1 .. n_req
  BY DEF BegunInv
<1>3. ~ (m < n)
  BY <1>1, <1>2 DEF SlotUsedOnce
<1>4. ~ (n < m)
  BY <1>1, <1>2 DEF SlotUsedOnce
<1>5. m = n
  BY <1>1, <1>3, <1>4
<1>6. begun[m][i].gid = begun[n][j].gid
  BY DEF Key
<1>7. i = j
  BY <1>5, <1>6 DEF BegunInv
<1> QED
  BY <1>5, <1>7

\* The stamp of a message, and which the messages of a connection have.
LEMMA StampOf ==
  ASSUME n_req \in Nat, NEW k, Genuine(k)
  PROVE  /\ Request(k) \in 1 .. n_req /\ Stamp(k) \in Nat
         /\ 2 * Request(k) <= Stamp(k) /\ Stamp(k) <= 2 * Request(k) + 1
         /\ k.t \in {PREPARE, PROMISE} => Stamp(k) = 2 * Request(k)
         /\ k.t \notin {PREPARE, PROMISE} => Stamp(k) = 2 * Request(k) + 1
<1>1. Request(k) \in 1 .. n_req
  BY DEF Genuine
<1> QED
  BY <1>1 DEF Stamp

\* The queues of a connection, and what is in them.
LEMMA ConnectionOk ==
  ASSUME Inv, NEW p \in Process
  PROVE  /\ QueuesOk(link[p], reply[p]) /\ n_req \in Nat
         /\ \A i \in 1 .. Len(link[p]) : /\ Asked(link[p][i]) /\ Genuine(link[p][i])
                                         /\ Stamp(link[p][i]) \in Nat /\ Stamp(link[p][i]) <= 2 * n_req + 1
         /\ \A i \in 1 .. Len(reply[p]) : /\ Answered(p, reply[p][i]) /\ Genuine(reply[p][i])
                                          /\ Stamp(reply[p][i]) \in Nat /\ Stamp(reply[p][i]) <= 2 * n_req + 1
<1>1. LinkInv /\ ReplyInv /\ OrderInv /\ BegunInv
  BY DEF Inv, RequestsInv
<1>2. n_req \in Nat
  BY <1>1, RequestAssumption DEF BegunInv, UInt32
<1>3. /\ \A i \in 1 .. Len(link[p]) : Asked(link[p][i]) /\ Genuine(link[p][i])
      /\ \A i \in 1 .. Len(reply[p]) : Answered(p, reply[p][i]) /\ Genuine(reply[p][i])
  BY <1>1 DEF LinkInv, ReplyInv, Asked, Answered
<1>4. ASSUME NEW k, Genuine(k) PROVE Stamp(k) \in Nat /\ Stamp(k) <= 2 * n_req + 1
  <2>1. Request(k) \in 1 .. n_req /\ Stamp(k) \in Nat /\ Stamp(k) <= 2 * Request(k) + 1
    BY <1>2, <1>4, StampOf
  <2> QED
    BY <1>2, <2>1
<1>5. QueuesOk(link[p], reply[p])
  BY <1>1, <1>3, <1>4 DEF OrderInv, QueuesOk
<1> QED
  BY <1>2, <1>3, <1>4, <1>5

-----------------------------------------------------------------------------
\* A step by which requests are added, or none; and one after which what was kept is.
Grown ==
  /\ n_req \in Nat /\ n_req' \in Nat /\ n_req <= n_req'
  /\ \A n \in 1 .. n_req : begun'[n] = begun[n]
KeepsOn ==
  \A p \in Process : \A n \in 1 .. n_req : Len(begun[n]) = 1 /\ Keeps(p, n) => Keeps(p, n)'

\* What was genuine stays so.
LEMMA GenuineGrown == ASSUME Grown, NEW k, Genuine(k) PROVE Genuine(k)' /\ Request(k) \in 1 .. n_req
BY DEF Grown, Genuine

\* So does what was asked, ...
LEMMA AskedGrown == ASSUME Grown, NEW k, Asked(k) PROVE Asked(k)'
<1>1. Genuine(k)' /\ Request(k) \in 1 .. n_req
  BY GenuineGrown DEF Asked
<1>2. begun'[Request(k)] = begun[Request(k)]
  BY <1>1 DEF Grown
<1> QED
  BY <1>1, <1>2 DEF Asked

\* ... and what was answered, if the rounds are kept.
LEMMA AnsweredGrown ==
  ASSUME Grown, KeepsOn, NEW p \in Process, NEW k, Answered(p, k) PROVE Answered(p, k)'
<1>1. Genuine(k)' /\ Request(k) \in 1 .. n_req
  BY GenuineGrown DEF Answered
<1>2. begun'[Request(k)] = begun[Request(k)]
  BY <1>1 DEF Grown
<1>3. k.t = ACCEPTED => \E n \in {Request(k)} : Len(begun[n]) = 1 /\ Keeps(p, n)'
  BY <1>1 DEF Answered, KeepsOn
<1> QED
  BY <1>1, <1>2, <1>3 DEF Answered

\* Nothing is lost while the tables of the acceptors and the recorder stay, ...
LEMMA KeepsSame == ASSUME Grown, UNCHANGED <<acc, newest>> PROVE KeepsOn
<1> SUFFICES ASSUME NEW p \in Process, NEW n \in 1 .. n_req, Keeps(p, n) PROVE Keeps(p, n)'
  BY DEF KeepsOn
<1>1. begun'[n] = begun[n]
  BY DEF Grown
<1> QED
  BY <1>1 DEF Keeps, Holds, Dropped, get_accp_info

\* ... or proposals are only added.
LEMMA KeepsMore ==
  ASSUME Grown, newest' = newest,
         \A p \in Process : \A n \in 1 .. n_req : \A rid \in Range(begun[n]) :
           Range(get_accp_info(p, rid).props) \subseteq Range(get_accp_info(p, rid).props)'
  PROVE  KeepsOn
<1> SUFFICES ASSUME NEW p \in Process, NEW n \in 1 .. n_req, Keeps(p, n) PROVE Keeps(p, n)'
  BY DEF KeepsOn
<1> DEFINE prop == [rids |-> begun[n], nid |-> Me]
<1>1. begun'[n] = begun[n]
  BY DEF Grown
<1>2. CASE Dropped(p, prop)
  BY <1>1, <1>2 DEF Keeps, Dropped
<1>3. CASE Holds(p, prop)
  <2>1. prop' = prop /\ prop.rids = begun[n]
    BY <1>1
  <2> HIDE DEF prop
  <2>2. Holds(p, prop)'
    BY <1>3, <2>1 DEF Holds
  <2> QED
    BY <2>2 DEF Keeps, prop
<1> QED
  BY <1>2, <1>3 DEF Keeps

\* A decision of a majority stays one.
LEMMA StillHeld ==
  ASSUME Grown, KeepsOn, NEW prop, NEW n \in 1 .. n_req, prop.rids = begun[n], Len(begun[n]) = 1,
         prop.nid = Me,
         2 * Cardinality({p \in Process : Holds(p, prop) \/ Dropped(p, prop)}) > Len(Config)
  PROVE  2 * Cardinality({p \in Process : Holds(p, prop)' \/ Dropped(p, prop)'}) > Len(Config)
<1> DEFINE A == {p \in Process : Holds(p, prop) \/ Dropped(p, prop)}
           B == {p \in Process : Holds(p, prop)' \/ Dropped(p, prop)'}
<1>1. \A p \in Process : Keeps(p, n) <=> Holds(p, prop) \/ Dropped(p, prop)
  BY DEF Keeps, Holds, Dropped
<1>2. begun'[n] = begun[n]
  BY DEF Grown
<1>3. \A p \in Process : Keeps(p, n)' <=> Holds(p, prop)' \/ Dropped(p, prop)'
  BY <1>2 DEF Keeps, Holds, Dropped
<1>4. A \subseteq B
  BY <1>1, <1>3 DEF KeepsOn
<1>5. IsFiniteSet(B)
  <2>1. IsFiniteSet(Process)
    BY ProcessesFinite
  <2> QED
    BY <2>1, FS_Subset
<1> DEFINE a == Cardinality(A)
           b == Cardinality(B)
<1>6. a \in Nat /\ b \in Nat /\ a <= b
  BY <1>4, <1>5, FS_Subset, FS_CardinalityType
<1>7. 2 * a > Len(Config) /\ Len(Config) \in Nat
  BY ConfigIsSequence
<1> HIDE DEF a, b
<1>8. 2 * b > Len(Config)
  BY <1>6, <1>7
<1> QED
  BY <1>8 DEF b

\* What a step does to the queues of q: what is new in link[q] is of a later phase than
\* all there was, what is new in reply[q] answers something in link[q].
QueuesStep(q) ==
  /\ QueuesOk(link'[q], reply'[q])
  /\ \A i \in 1 .. Len(link'[q]) :
       \/ \E j \in 1 .. Len(link[q]) : link'[q][i] = link[q][j]
       \/ \E k : k = link'[q][i] /\ Asked(k)' /\ Stamp(k) > 2 * n_req
  /\ \A i \in 1 .. Len(reply'[q]) :
       \/ \E j \in 1 .. Len(reply[q]) : reply'[q][i] = reply[q][j]
       \/ \E k : /\ k = reply'[q][i] /\ Answered(q, k)'
                 /\ \E j \in 1 .. Len(link[q]) : Stamp(k) = Stamp(link[q][j])
QueuesNext == DOMAIN link' = Process /\ DOMAIN reply' = Process /\ \A q \in Process : QueuesStep(q)
NothingSent == \A q \in Process : From(link'[q], link[q])

\* Then everything in transit is as it should be.
LEMMA MessagesNext ==
  ASSUME Inv, Grown, KeepsOn, QueuesNext PROVE LinkInv' /\ ReplyInv'
<1>1. ASSUME NEW q \in Process, NEW i \in 1 .. Len(link'[q])
      PROVE  \E k : k = link'[q][i] /\ Asked(k)'
  <2>1. PICK k : k = link'[q][i]
    OBVIOUS
  <2>2. CASE \E j \in 1 .. Len(link[q]) : link'[q][i] = link[q][j]
    <3>1. PICK j \in 1 .. Len(link[q]) : link'[q][i] = link[q][j]
      BY <2>2
    <3>2. Asked(link[q][j])
      BY ConnectionOk
    <3>3. Asked(k)
      BY <2>1, <3>1, <3>2
    <3> QED
      BY <2>1, <3>3, AskedGrown
  <2> QED
    BY <2>2 DEF QueuesNext, QueuesStep
<1>2. ASSUME NEW q \in Process, NEW i \in 1 .. Len(reply'[q])
      PROVE  \E k : k = reply'[q][i] /\ Answered(q, k)'
  <2>1. PICK k : k = reply'[q][i]
    OBVIOUS
  <2>2. CASE \E j \in 1 .. Len(reply[q]) : reply'[q][i] = reply[q][j]
    <3>1. PICK j \in 1 .. Len(reply[q]) : reply'[q][i] = reply[q][j]
      BY <2>2
    <3>2. Answered(q, reply[q][j])
      BY ConnectionOk
    <3>3. Answered(q, k)
      BY <2>1, <3>1, <3>2
    <3> QED
      BY <2>1, <3>3, AnsweredGrown
  <2> QED
    BY <2>2 DEF QueuesNext, QueuesStep
<1>3. LinkInv'
  BY <1>1 DEF LinkInv, Asked, Genuine
<1>4. ReplyInv'
  <2>1. ASSUME NEW q \in Process, NEW i \in 1 .. Len(reply'[q]) PROVE Answered(q, reply[q][i])'
    <3>1. PICK k : k = reply'[q][i] /\ Answered(q, k)'
      BY <1>2
    <3>2. reply'[q][i] = k
      BY <3>1
    <3>3. Genuine(reply[q][i])'
      BY <3>1, <3>2 DEF Genuine, Answered
    <3>4. (k.t = ACCEPTED => \E n \in {Request(k)} : Len(begun[n]) = 1 /\ Keeps(q, n))'
      BY <3>1 DEF Answered
    <3>5. (reply[q][i].t = ACCEPTED =>
             \E n \in {Request(reply[q][i])} : Len(begun[n]) = 1 /\ Keeps(q, n))'
      BY <3>2, <3>4
    <3> QED
      BY <3>1, <3>2, <3>3, <3>5 DEF Answered
  <2> QED
    BY <2>1 DEF ReplyInv
<1> QED
  BY <1>3, <1>4

-----------------------------------------------------------------------------
\* A decided round stays at a majority.
LEMMA HeldStill ==
  ASSUME Inv, Grown, KeepsOn, NEW prop \in decided
  PROVE  /\ \E n \in 1 .. n_req' : prop.rids = begun'[n] /\ Len(begun'[n]) = 1
         /\ prop.nid = Me
         /\ 2 * Cardinality({p \in Process : Holds(p, prop)' \/ Dropped(p, prop)'}) > Len(Config)
<1>1. DecidedInv /\ DecidedRoundIsHeld
  BY DEF Inv, RequestsInv
<1>2. PICK n \in 1 .. n_req : prop.rids = begun[n] /\ Len(begun[n]) = 1
  BY <1>1 DEF DecidedInv
<1>3. prop.nid = Me
  BY <1>1 DEF DecidedInv
<1>4. 2 * Cardinality({p \in Process : Holds(p, prop) \/ Dropped(p, prop)}) > Len(Config)
  BY <1>1 DEF DecidedRoundIsHeld
<1>5. 2 * Cardinality({p \in Process : Holds(p, prop)' \/ Dropped(p, prop)'}) > Len(Config)
  BY <1>2, <1>3, <1>4, StillHeld
<1>6. n \in 1 .. n_req' /\ begun'[n] = begun[n]
  BY DEF Grown
<1> QED
  BY <1>2, <1>3, <1>5, <1>6

\* What a step without a decision leaves of DecidedInv.
LEMMA HeldNext ==
  ASSUME Inv, Grown, KeepsOn, decided' = decided
  PROVE  /\ DecidedRoundIsHeld' /\ IsFiniteSet(decided')
         /\ \A prop \in decided' : /\ \E n \in 1 .. n_req' : prop.rids = begun'[n] /\ Len(begun'[n]) = 1
                                   /\ prop.nid = Me
<1>1. DecidedRoundIsHeld'
  BY HeldStill DEF DecidedRoundIsHeld
<1>2. IsFiniteSet(decided)
  BY DEF Inv, RequestsInv, DecidedInv
<1> QED
  BY <1>1, <1>2, HeldStill

\* Among the messages there is none of a phase that all old ones are past or short of.
NoStamp(q, s) ==
  /\ \A i \in 1 .. Len(reply[q]) : Stamp(reply[q][i]) # s
  /\ \A j \in 1 .. Len(link[q]) : Stamp(link[q][j]) # s

\* It stays so, unless a later phase is sent.
LEMMA NoStampNext ==
  ASSUME QueuesNext, n_req \in Nat, NEW q \in Process, NEW s \in Nat, NoStamp(q, s),
         NothingSent \/ s <= 2 * n_req
  PROVE  NoStamp(q, s)'
<1>1. QueuesStep(q)
  BY DEF QueuesNext
<1>2. ASSUME NEW i \in 1 .. Len(link'[q]) PROVE Stamp(link'[q][i]) # s
  <2>1. CASE \E j \in 1 .. Len(link[q]) : link'[q][i] = link[q][j]
    BY <2>1 DEF NoStamp
  <2>2. CASE NothingSent
    BY <2>1, <2>2 DEF NothingSent, From
  <2>3. CASE s <= 2 * n_req
    <3> DEFINE st == Stamp(link'[q][i])
    <3>0. st \in Nat
      BY <1>1 DEF QueuesStep, QueuesOk
    <3>1. ASSUME st > 2 * n_req PROVE st # s
      <4> HIDE DEF st
      <4> QED
        BY <2>3, <3>0, <3>1
    <3> QED
      BY <1>1, <2>1, <3>1 DEF QueuesStep
  <2> QED
    BY <2>2, <2>3
<1>3. ASSUME NEW i \in 1 .. Len(reply'[q]) PROVE Stamp(reply'[q][i]) # s
  BY <1>1 DEF QueuesStep, NoStamp
<1> QED
  BY <1>2, <1>3 DEF NoStamp

-----------------------------------------------------------------------------
\* What an acceptor makes of its table on a message of request n.
TableStep(p, table, n) ==
  /\ acc' = [acc EXCEPT ![p] = table]
  /\ DOMAIN acc[p] \subseteq DOMAIN table
  /\ DOMAIN table \subseteq DOMAIN acc[p] \cup {Key(rid) : rid \in Range(begun[n])}
  /\ \A key \in DOMAIN acc[p] : key \notin {Key(rid) : rid \in Range(begun[n])} => table[key] = acc[p][key]
  /\ \A i \in 1 .. Len(begun[n]) :
       Key(begun[n][i]) \in DOMAIN table =>
         /\ table[Key(begun[n][i])] \in [bid_max : {Word64(0), begun[n][i].bid}, props : Seq(Proposal)]
         /\ Range(get_accp_info(p, begun[n][i]).props) \subseteq Range(table[Key(begun[n][i])].props)

\* A message k arrives at p and is answered, unless nobody is there for the answer.
Acts(p, k) ==
  /\ link[p] # <<>> /\ k = Head(link[p]) /\ link' = [link EXCEPT ![p] = Tail(@)]
  /\ \/ reply' = reply
     \/ \E a : /\ reply' = [reply EXCEPT ![p] = Append(@, a)]
               /\ Answered(p, a)' /\ Stamp(a) = Stamp(k)
  /\ \E table : TableStep(p, table, Request(k))
  /\ UNCHANGED <<startupVars, n_req, txn, newest, begun, coding, decided>>

\* What it knew of a round it still knows.
LEMMA TableKeeps ==
  ASSUME Inv, NEW p \in Process, NEW n \in 1 .. n_req, NEW table, TableStep(p, table, n),
         NEW q \in Process, NEW m \in 1 .. n_req, NEW rid \in Range(begun[m])
  PROVE  Range(get_accp_info(q, rid).props) \subseteq Range(get_accp_info(q, rid).props)'
<1>1. BegunInv /\ SlotUsedOnce /\ AcceptorInv
  BY DEF Inv, RequestsInv
<1>2. acc'[q] = IF q = p THEN table ELSE acc[q]
  BY <1>1 DEF TableStep, AcceptorInv
<1>3. CASE q # p
  BY <1>2, <1>3 DEF get_accp_info
<1>4. CASE q = p
  <2>1. acc'[p] = table
    BY <1>2, <1>4
  <2>2. PICK i \in 1 .. Len(begun[m]) : begun[m][i] = rid
    BY <1>1, RoundsOfRequest
  <2>3. CASE Key(rid) \in {Key(r) : r \in Range(begun[n])}
    <3>1. PICK j \in 1 .. Len(begun[n]) : Key(begun[n][j]) = Key(rid)
      <4>1. PICK r \in Range(begun[n]) : Key(r) = Key(rid)
        BY <2>3
      <4>2. \E j \in 1 .. Len(begun[n]) : begun[n][j] = r
        BY <1>1, RoundsOfRequest
      <4> QED
        BY <4>1, <4>2
    <3>2. m = n /\ i = j
      BY <1>1, <2>2, <3>1, KeysApart
    <3>3. CASE Key(rid) \in DOMAIN table
      <4>1. /\ Range(get_accp_info(p, begun[n][j]).props) \subseteq Range(table[Key(rid)].props)
        BY <3>1, <3>3 DEF TableStep
      <4>2. get_accp_info(p, rid)' = table[Key(rid)]
        BY <2>1, <3>3 DEF get_accp_info
      <4>3. begun[n][j] = rid
        BY <2>2, <3>2
      <4> QED
        BY <1>4, <4>1, <4>2, <4>3
    <3>4. CASE Key(rid) \notin DOMAIN table
      <4>1. Key(rid) \notin DOMAIN acc[p]
        BY <3>4 DEF TableStep
      <4> QED
        BY <1>4, <2>1, <3>4, <4>1 DEF get_accp_info
    <3> QED
      BY <3>3, <3>4
  <2>4. CASE Key(rid) \notin {Key(r) : r \in Range(begun[n])}
    <3>1. Key(rid) \in DOMAIN table <=> Key(rid) \in DOMAIN acc[p]
      BY <2>4 DEF TableStep
    <3>2. Key(rid) \in DOMAIN acc[p] => table[Key(rid)] = acc[p][Key(rid)]
      BY <2>4 DEF TableStep
    <3> QED
      BY <1>4, <2>1, <3>1, <3>2 DEF get_accp_info
  <2> QED
    BY <2>3, <2>4
<1> QED
  BY <1>3, <1>4

\* The queues are in order after that, ...
LEMMA ActsQueues ==
  ASSUME Inv, NEW p \in Process, NEW k, Acts(p, k)
  PROVE  /\ QueuesNext /\ NothingSent /\ OrderInv'
         /\ Asked(k) /\ Request(k) \in 1 .. n_req /\ Stamp(k) \in Nat /\ 2 * Request(k) <= Stamp(k)
         /\ \A j \in 1 .. Len(link'[p]) : Stamp(link'[p][j]) > Stamp(k)
<1>1. OrderInv /\ n_req \in Nat
  BY ConnectionOk DEF Inv, RequestsInv
<1>2. DOMAIN link = Process /\ DOMAIN reply = Process
  BY <1>1 DEF OrderInv
<1>3. QueuesOk(link[p], reply[p]) /\ link[p] # <<>> /\ k = Head(link[p])
  BY ConnectionOk DEF Acts
<1>4. /\ QueuesOk(Tail(link[p]), reply[p]) /\ From(Tail(link[p]), link[p])
      /\ \A i \in 1 .. Len(Tail(link[p])) : Stamp(Tail(link[p])[i]) > Stamp(k)
      /\ \A i \in 1 .. Len(reply[p]) : Stamp(reply[p][i]) < Stamp(k)
  BY <1>3, TakenInOrder
<1>5. k = link[p][1] /\ 1 \in 1 .. Len(link[p])
  <2>1. link[p] \in Seq(Range(link[p]))
    BY <1>3 DEF QueuesOk
  <2> QED
    BY <1>3, <2>1, TailQueue
<1>6. Asked(k) /\ Genuine(k)
  BY <1>5, ConnectionOk
<1>7. Request(k) \in 1 .. n_req /\ Stamp(k) \in Nat /\ 2 * Request(k) <= Stamp(k)
  BY <1>1, <1>6, StampOf
<1>8. DOMAIN link' = Process /\ \A q \in Process : link'[q] = IF q = p THEN Tail(link[p]) ELSE link[q]
  BY <1>2 DEF Acts
<1>9. NothingSent
  BY <1>4, <1>8 DEF NothingSent, From
<1>10. /\ DOMAIN reply' = Process /\ \A q \in Process : q # p => reply'[q] = reply[q]
       /\ QueuesOk(link'[p], reply'[p])
       /\ \A i \in 1 .. Len(reply'[p]) :
            \/ \E j \in 1 .. Len(reply[p]) : reply'[p][i] = reply[p][j]
            \/ \E a : a = reply'[p][i] /\ Answered(p, a)' /\ Stamp(a) = Stamp(k)
  <2>1. CASE reply' = reply
    BY <1>2, <1>4, <1>8, <2>1
  <2>2. CASE reply' # reply
    <3>1. PICK a : /\ reply' = [reply EXCEPT ![p] = Append(@, a)]
                   /\ Answered(p, a)' /\ Stamp(a) = Stamp(k)
      BY <2>2 DEF Acts
    <3>2. DOMAIN reply' = Process /\ reply'[p] = Append(reply[p], a) /\ \A q \in Process : q # p => reply'[q] = reply[q]
      BY <1>2, <3>1
    <3>3. QueuesOk(Tail(link[p]), Append(reply[p], a))
      <4>1. Stamp(a) \in Nat
        BY <1>7, <3>1
      <4>2. \A j \in 1 .. Len(Tail(link[p])) : Stamp(a) < Stamp(Tail(link[p])[j])
        <5>1. \A j \in 1 .. Len(Tail(link[p])) : Stamp(Tail(link[p])[j]) \in Nat
          BY <1>4 DEF QueuesOk
        <5> QED
          BY <1>4, <1>7, <3>1, <5>1
      <4>3. \A i \in 1 .. Len(reply[p]) : Stamp(reply[p][i]) < Stamp(a)
        BY <1>4, <3>1
      <4> QED
        BY <1>4, <4>1, <4>2, <4>3, AnsweredInOrder
    <3>4. reply[p] \in Seq(Range(reply[p]))
      BY <1>3 DEF QueuesOk
    <3>5. /\ Len(reply'[p]) = Len(reply[p]) + 1 /\ Len(reply[p]) \in Nat
          /\ \A i \in 1 .. Len(reply[p]) : reply'[p][i] = reply[p][i]
          /\ reply'[p][Len(reply[p]) + 1] = a
      BY <3>2, <3>4, AppendQueue
    <3>6. ASSUME NEW i \in 1 .. Len(reply'[p]), i \notin 1 .. Len(reply[p]) PROVE reply'[p][i] = a
      <4>1. i = Len(reply[p]) + 1
        BY <3>5, <3>6
      <4> QED
        BY <3>5, <4>1
    <3> QED
      BY <1>8, <3>1, <3>2, <3>3, <3>5, <3>6
  <2> QED
    BY <2>1, <2>2
<1>11. QueuesNext
  <2>1. ASSUME NEW q \in Process, q # p PROVE QueuesStep(q)
    <3>1. link'[q] = link[q] /\ reply'[q] = reply[q]
      BY <1>8, <1>10, <2>1
    <3>2. QueuesOk(link[q], reply[q])
      BY ConnectionOk
    <3> QED
      BY <3>1, <3>2 DEF QueuesStep
  <2>2. QueuesStep(p)
    BY <1>4, <1>5, <1>8, <1>10 DEF QueuesStep, From
  <2> QED
    BY <1>8, <1>10, <2>1, <2>2 DEF QueuesNext
<1>12. OrderInv'
  <2>1. ASSUME InPhase1', NEW q \in Process
        PROVE  /\ \A j \in 1 .. Len(link'[q]) : Stamp(link'[q][j]) <= 2 * n_req'
               /\ \A i \in 1 .. Len(reply'[q]) : Stamp(reply'[q][i]) <= 2 * n_req'
    <3>1. InPhase1 /\ n_req' = n_req
      BY <2>1 DEF Acts, InPhase1
    <3>2. /\ \A j \in 1 .. Len(link[q]) : Stamp(link[q][j]) <= 2 * n_req
          /\ \A i \in 1 .. Len(reply[q]) : Stamp(reply[q][i]) <= 2 * n_req
      BY <1>1, <3>1 DEF OrderInv
    <3>3. \A j \in 1 .. Len(link'[q]) : Stamp(link'[q][j]) <= 2 * n_req
      BY <1>9, <3>2 DEF NothingSent, From
    <3>4. QueuesStep(q)
      BY <1>11 DEF QueuesNext
    <3>5. \A i \in 1 .. Len(reply'[q]) : Stamp(reply'[q][i]) <= 2 * n_req
      BY <3>2, <3>4 DEF QueuesStep
    <3> QED
      BY <3>1, <3>3, <3>5
  <2>2. \A q \in Process : QueuesOk(link'[q], reply'[q])
    BY <1>11 DEF QueuesNext, QueuesStep
  <2> QED
    BY <1>8, <1>10, <2>1, <2>2 DEF OrderInv, QueuesOk, Ordered
<1>13. \A j \in 1 .. Len(link'[p]) : Stamp(link'[p][j]) > Stamp(k)
  BY <1>4, <1>8
<1> QED
  BY <1>6, <1>7, <1>9, <1>11, <1>12, <1>13

\* ... and so is what the acceptors know.
LEMMA ActsTables ==
  ASSUME Inv, NEW p \in Process, NEW k, Acts(p, k) PROVE AcceptorInv'
<1>1. AcceptorInv /\ BegunInv /\ SlotUsedOnce
  BY DEF Inv, RequestsInv
<1> DEFINE n == Request(k)
<1>2. PICK table : TableStep(p, table, n)
  BY DEF Acts
<1>3. n \in 1 .. n_req /\ n_req \in Nat /\ Stamp(k) \in Nat /\ 2 * n <= Stamp(k)
  BY ActsQueues, ConnectionOk
<1>4. /\ NothingSent /\ QueuesNext
      /\ \A j \in 1 .. Len(link'[p]) : Stamp(link'[p][j]) > Stamp(k)
  BY ActsQueues
<1>5. n_req' = n_req /\ begun' = begun
  BY DEF Acts
<1> HIDE DEF n
<1>6. /\ DOMAIN acc' = Process /\ acc'[p] = table
      /\ \A q \in Process : q # p => acc'[q] = acc[q]
  BY <1>1, <1>2 DEF TableStep, AcceptorInv
<1>7. ASSUME NEW q \in Process
      PROVE  DOMAIN acc'[q] \subseteq {Key(rid) : rid \in UNION {Range(begun[m]) : m \in 1 .. n_req}}
  <2>1. DOMAIN acc[q] \subseteq {Key(rid) : rid \in UNION {Range(begun[m]) : m \in 1 .. n_req}}
    BY <1>1 DEF AcceptorInv
  <2>2. CASE q = p
    BY <1>2, <1>3, <1>6, <2>1, <2>2 DEF TableStep
  <2> QED
    BY <1>6, <2>1, <2>2
<1>8. ASSUME NEW q \in Process, NEW m \in 1 .. n_req, NEW i \in 1 .. Len(begun[m]),
             Key(begun[m][i]) \in DOMAIN acc'[q]
      PROVE  /\ acc'[q][Key(begun[m][i])] \in
                  [bid_max : {Word64(0), begun[m][i].bid}, props : Seq(Proposal)]
             /\ \A j \in 1 .. Len(link'[q]) : Stamp(link'[q][j]) > 2 * m
  <2> DEFINE rid == begun[m][i]
             Known == acc[q][Key(rid)] \in [bid_max : {Word64(0), rid.bid}, props : Seq(Proposal)]
             Past == \A j \in 1 .. Len(link'[q]) : Stamp(link'[q][j]) > 2 * m
  <2>1. rid \in Range(begun[m])
    BY <1>1, RoundsOfRequest
  <2>2. Key(rid) \in DOMAIN acc[q] => Known /\ Past
    <3>1. Key(rid) \in DOMAIN acc[q] => Known /\ \A j \in 1 .. Len(link[q]) : Stamp(link[q][j]) > 2 * m
      BY <1>1 DEF AcceptorInv
    <3> QED
      BY <1>4, <3>1 DEF NothingSent, From
  <2>3. CASE q # p
    BY <1>6, <1>8, <2>2, <2>3
  <2>4. CASE q = p /\ m = n
    <3>1. table[Key(rid)] \in [bid_max : {Word64(0), rid.bid}, props : Seq(Proposal)]
      BY <1>2, <1>6, <1>8, <2>4 DEF TableStep
    <3>2. Past
      <4>1. \A j \in 1 .. Len(link'[p]) : Stamp(link'[p][j]) \in Nat
        BY <1>4 DEF QueuesNext, QueuesStep, QueuesOk
      <4> QED
        BY <1>3, <1>4, <2>4, <4>1
    <3> QED
      BY <1>6, <2>4, <3>1, <3>2
  <2>5. CASE q = p /\ m # n
    <3>1. Key(rid) \notin {Key(r) : r \in Range(begun[n])}
      <4>1. ASSUME NEW r \in Range(begun[n]), Key(r) = Key(rid) PROVE FALSE
        <5>1. PICK j \in 1 .. Len(begun[n]) : begun[n][j] = r
          BY <1>1, <1>3, RoundsOfRequest
        <5> QED
          BY <1>1, <1>3, <2>5, <4>1, <5>1, KeysApart
      <4> QED
        BY <4>1
    <3>2. Key(rid) \in DOMAIN acc[p] /\ table[Key(rid)] = acc[p][Key(rid)]
      BY <1>2, <1>6, <1>8, <2>5, <3>1 DEF TableStep
    <3> QED
      BY <1>6, <2>2, <2>5, <3>2
  <2> QED
    BY <2>3, <2>4, <2>5
<1> QED
  BY <1>5, <1>6, <1>7, <1>8 DEF AcceptorInv

\* So the handlers of an acceptor keep the invariant.
LEMMA ActsInv == ASSUME Inv, NEW p \in Process, NEW k, Acts(p, k) PROVE Inv'
<1>1. /\ StartupInv /\ ProcessesInv /\ NewestInv /\ BegunInv /\ SlotUsedOnce /\ TxnInv /\ CodingInv
      /\ CountedInv /\ DecidedInv /\ DecidedRoundIsHeld
  BY DEF Inv, RequestsInv
<1>2. UNCHANGED <<startupVars, n_req, txn, newest, begun, coding, decided>>
  BY DEF Acts
<1>3. Grown
  BY <1>2, ConnectionOk DEF Grown
<1>4. KeepsOn
  <2>1. PICK table : TableStep(p, table, Request(k))
    BY DEF Acts
  <2>2. Request(k) \in 1 .. n_req
    BY ActsQueues
  <2> QED
    BY <1>2, <1>3, <2>1, <2>2, TableKeeps, KeepsMore
<1>5. QueuesNext /\ NothingSent /\ OrderInv' /\ AcceptorInv'
  BY ActsQueues, ActsTables
<1>6. LinkInv' /\ ReplyInv'
  BY <1>3, <1>4, <1>5, MessagesNext
<1>7. StartupInv' /\ ProcessesInv'
  BY <1>1, <1>2 DEF startupVars, StartupInv, StartupTypeOK, Served, ProcessesInv
<1>8. NewestInv' /\ BegunInv' /\ SlotUsedOnce' /\ CodingInv'
  BY <1>1, <1>2 DEF NewestInv, BegunInv, RoundOf, SlotUsedOnce, CodingInv
<1>9. TxnInv'
  BY <1>1, <1>2 DEF TxnInv, Attached
<1>10. CountedInv'
  <2> SUFFICES ASSUME txn # NULL, NEW q \in Process, NEW g \in DOMAIN txn.ginfo
               PROVE  /\ NidOf(q) \in DOMAIN txn.ginfo[g].prom => NoStamp(q, 2 * n_req)'
                      /\ NidOf(q) \in DOMAIN txn.ginfo[g].accd =>
                           /\ NoStamp(q, 2 * n_req + 1)'
                           /\ Len(begun[n_req]) = 1 /\ Keeps(q, n_req)'
    BY <1>2 DEF CountedInv, Counted, NoStamp
  <2>1. n_req \in Nat /\ n_req \in 1 .. n_req
    BY <1>1, <1>3 DEF TxnInv, Attached, Grown
  <2>2. /\ NidOf(q) \in DOMAIN txn.ginfo[g].prom => NoStamp(q, 2 * n_req)
        /\ NidOf(q) \in DOMAIN txn.ginfo[g].accd =>
             /\ NoStamp(q, 2 * n_req + 1)
             /\ Len(begun[n_req]) = 1 /\ Keeps(q, n_req)
    BY <1>1 DEF CountedInv, Counted, NoStamp
  <2>3. 2 * n_req \in Nat /\ 2 * n_req + 1 \in Nat
    BY <2>1
  <2>4. \A s \in Nat : NoStamp(q, s) => NoStamp(q, s)'
    BY <1>5, <2>1, NoStampNext
  <2>5. /\ NoStamp(q, 2 * n_req) => NoStamp(q, 2 * n_req)'
        /\ NoStamp(q, 2 * n_req + 1) => NoStamp(q, 2 * n_req + 1)'
    BY <1>2, <2>3, <2>4 DEF NoStamp
  <2>6. Len(begun[n_req]) = 1 /\ Keeps(q, n_req) => Keeps(q, n_req)'
    BY <1>2, <1>4, <2>1 DEF KeepsOn, Keeps
  <2> QED
    BY <2>2, <2>5, <2>6
<1>11. DecidedRoundIsHeld' /\ DecidedInv'
  <2>1. /\ DecidedRoundIsHeld' /\ IsFiniteSet(decided')
        /\ \A prop \in decided' : /\ \E n \in 1 .. n_req' : prop.rids = begun'[n] /\ Len(begun'[n]) = 1
                                   /\ prop.nid = Me
    BY <1>2, <1>3, <1>4, HeldNext
  <2> QED
    BY <1>1, <1>2, <2>1 DEF DecidedInv
<1> QED
  BY <1>5, <1>6, <1>7, <1>8, <1>9, <1>10, <1>11 DEF Inv, RequestsInv

-----------------------------------------------------------------------------
\* What p answers to a message of request n, all yes, is an answer as ReplyInv has it.
YesTo(n, ress) ==
  /\ ress \in Seq(Bare) /\ Len(ress) = Len(begun[n])
  /\ \A j \in 1 .. Len(begun[n]) : ress[j].rid = begun[n][j] /\ ress[j].ack = SUCCESS
AnswerOf(p, desc, t, tid, ress) ==
  Packed(desc, Message(desc, [h |-> Header(t, local_nid[p], tid), ress |-> ress]))

\* The messages of a phase, and the answers.
LEMMA DescriptorsOf ==
  /\ DescriptorOf(PREPARE) = msg_prepare /\ DescriptorOf(PROMISE) = msg_promise
  /\ DescriptorOf(ACCEPT) = msg_accept /\ DescriptorOf(ACCEPTED) = msg_accepted
  /\ \A t \in {PREPARE, PROMISE, ACCEPT, ACCEPTED} : t \in PREPARE .. ACCEPTED
BY DEF DescriptorOf, PREPARE, PROMISE, ACCEPT, ACCEPTED

\* When a request has begun every process knows its id.
LEMMA KnownIds ==
  ASSUME Inv, n_req > 0, NEW p \in Process PROVE local_nid[p] = NidOf(p) /\ Self = Me
<1>1. ProcessesInv
  BY DEF Inv, RequestsInv
<1>2. \A q \in Process : stage[q] \in {"connecting", "started", "aborted"}
  BY <1>1 DEF ProcessesInv
<1>3. Committer \in Process
  BY RequestAssumption
<1> QED
  BY <1>1, <1>2, <1>3 DEF ProcessesInv, Self, Me

\* An answer of yes to each round, sent by p.
LEMMA YesAnswered ==
  ASSUME Inv, NEW p \in Process, NEW n \in 1 .. n_req, NEW ress, YesTo(n, ress),
         NEW desc, NEW t,
         (t = PROMISE /\ desc = msg_promise) \/ (t = ACCEPTED /\ desc = msg_accepted),
         NEW a, a = AnswerOf(p, desc, t, TidOf(n), ress),
         UNCHANGED <<n_req, begun>>,
         t = ACCEPTED => Len(begun[n]) = 1 /\ Keeps(p, n)'
  PROVE  Answered(p, a)' /\ Stamp(a) = 2 * n + (IF t = PROMISE THEN 0 ELSE 1)
<1> DEFINE h == Header(t, local_nid[p], TidOf(n))
           m == Message(desc, [h |-> h, ress |-> ress])
<1>1. n_req \in Nat /\ n \in 0 .. MaxRequest /\ n \in Nat
  <2>1. n_req \in 0 .. MaxRequest /\ MaxRequest \in Nat
    BY RequestAssumption DEF Inv, RequestsInv, BegunInv, UInt32
  <2> QED
    BY <2>1
<1>2. local_nid[p] = NidOf(p) /\ NidOf(p) \in UInt32
  BY <1>1, KnownIds, NodeIdsOfProcesses
<1>3. TidOf(n) \in UInt64
  BY <1>1, TidFits
<1>4. t \in PREPARE .. ACCEPTED
  BY DescriptorsOf
<1>5. h \in Header_t /\ h.t = t /\ h.nid = NidOf(p) /\ h.tid = TidOf(n)
  BY <1>2, <1>3, <1>4, HeaderMade
<1>6. ress \in Seq(Bare)
  BY DEF YesTo
<1>7. a = Packed(desc, m)
  BY DEF AnswerOf
<1> HIDE DEF h
<1>8. m \in Answer_t /\ m.h = h /\ m.ress = ress
  BY <1>5, <1>6, PromiseMade, AcceptedMade
<1> HIDE DEF m
<1>9. a.t = t /\ a.meant = m
  BY <1>5, <1>7, <1>8 DEF Packed
<1>10. Request(a) = n /\ desc = DescriptorOf(a.t)
  BY <1>5, <1>8, <1>9, DescriptorsOf DEF Request, TidOf, gen_txn_id
<1>11. Genuine(a)'
  BY <1>5, <1>7, <1>8, <1>9, <1>10 DEF Genuine
<1>12. Stamp(a) = 2 * n + (IF t = PROMISE THEN 0 ELSE 1)
  BY <1>9, <1>10 DEF Stamp, PREPARE, PROMISE, ACCEPTED
<1>13. (a.t = ACCEPTED => \E i \in {Request(a)} : Len(begun[i]) = 1 /\ Keeps(p, i))'
  <2>1. ASSUME t = ACCEPTED PROVE \E i \in {n} : Len(begun'[i]) = 1 /\ Keeps(p, i)'
    BY <2>1
  <2> QED
    BY <1>9, <1>10, <2>1
<1> QED
  BY <1>5, <1>8, <1>9, <1>10, <1>11, <1>12, <1>13 DEF Answered, YesTo

-----------------------------------------------------------------------------
\* An acceptor that gets a prepare knows nothing of its rounds, and promises.
LEMMA FreshRounds ==
  ASSUME Inv, NEW p \in Process, link[p] # <<>>, NEW k, k = Head(link[p]), k.t = PREPARE
  PROVE  /\ Asked(k) /\ Request(k) \in 1 .. n_req /\ Stamp(k) = 2 * Request(k)
         /\ \A i \in 1 .. Len(begun[Request(k)]) :
              /\ Key(begun[Request(k)][i]) \notin DOMAIN acc[p]
              /\ get_accp_info(p, begun[Request(k)][i]) = [bid_max |-> Word64(0), props |-> <<>>]
<1>1. AcceptorInv /\ BegunInv
  BY DEF Inv, RequestsInv
<1>2. k = link[p][1] /\ 1 \in 1 .. Len(link[p])
  <2>1. link[p] \in Seq(Range(link[p]))
    BY ConnectionOk DEF QueuesOk
  <2> QED
    BY <2>1, TailQueue
<1>3. Asked(k) /\ Genuine(k) /\ n_req \in Nat
  BY <1>2, ConnectionOk
<1>4. Request(k) \in 1 .. n_req /\ Stamp(k) = 2 * Request(k)
  BY <1>3, StampOf
<1> DEFINE n == Request(k)
<1>5. ASSUME NEW i \in 1 .. Len(begun[n]) PROVE Key(begun[n][i]) \notin DOMAIN acc[p]
  <2>1. Key(begun[n][i]) \in DOMAIN acc[p] => Stamp(link[p][1]) > 2 * n
    BY <1>1, <1>2, <1>4 DEF AcceptorInv
  <2> HIDE DEF n
  <2>2. n \in Nat
    BY <1>3, <1>4 DEF n
  <2>3. Stamp(link[p][1]) = 2 * n
    BY <1>2, <1>4 DEF n
  <2> QED
    BY <2>1, <2>2, <2>3
<1>6. \A i \in 1 .. Len(begun[n]) : get_accp_info(p, begun[n][i]) = [bid_max |-> Word64(0), props |-> <<>>]
  BY <1>5 DEF get_accp_info
<1> QED
  BY <1>3, <1>4, <1>5, <1>6

\* The ballots of the rounds are above 0.
LEMMA BidsAbove0 ==
  ASSUME BegunInv, NEW n \in 1 .. n_req, NEW i \in 1 .. Len(begun[n])
  PROVE  /\ begun[n][i].bid # Word64(0) /\ Less64(Word64(0), begun[n][i].bid)
         /\ \A bid \in {Word64(0), begun[n][i].bid} : ~ Less64(begun[n][i].bid, bid)
<1>1. begun[n][i].bid \in {Word64(1), Word64(2)}
  BY RoundsOfRequest DEF RoundOf
<1> QED
  BY <1>1 DEF Word64, Less64

\* The table of an acceptor that has promised the rounds of request n.
LEMMA PromisedTable ==
  ASSUME Inv, NEW p \in Process, NEW n \in 1 .. n_req,
         \A i \in 1 .. Len(begun[n]) : Key(begun[n][i]) \notin DOMAIN acc[p],
         NEW entries, DOMAIN entries = {Key(r) : r \in Range(begun[n])},
         \A i \in 1 .. Len(begun[n]) :
           entries[Key(begun[n][i])] = [bid_max |-> begun[n][i].bid, props |-> <<>>],
         acc' = [acc EXCEPT ![p] = Updated(@, entries)]
  PROVE  \E table : TableStep(p, table, n)
<1> DEFINE table == Updated(acc[p], entries)
           keys == {Key(r) : r \in Range(begun[n])}
<1>1. acc' = [acc EXCEPT ![p] = table]
  OBVIOUS
<1>2. /\ DOMAIN table = DOMAIN acc[p] \cup keys
      /\ \A key \in DOMAIN acc[p] : key \notin keys => table[key] = acc[p][key]
      /\ \A key \in keys : table[key] = entries[key]
  BY DEF Updated
<1>3. BegunInv
  BY DEF Inv, RequestsInv
<1> HIDE DEF table
<1>4. ASSUME NEW i \in 1 .. Len(begun[n])
      PROVE  /\ table[Key(begun[n][i])] \in [bid_max : {Word64(0), begun[n][i].bid}, props : Seq(Proposal)]
             /\ Range(get_accp_info(p, begun[n][i]).props) \subseteq Range(table[Key(begun[n][i])].props)
  <2> DEFINE rid == begun[n][i]
  <2>1. Key(rid) \in keys
    BY <1>3, RoundsOfRequest
  <2>2. table[Key(rid)] = [bid_max |-> rid.bid, props |-> <<>>]
    BY <1>2, <2>1
  <2>3. get_accp_info(p, rid).props = <<>>
    BY DEF get_accp_info
  <2>4. <<>> \in Seq(Proposal) /\ Range(<<>>) = {}
    BY DEF Range
  <2> HIDE DEF rid
  <2>5. table[Key(rid)] \in [bid_max : {Word64(0), rid.bid}, props : Seq(Proposal)]
    BY <2>2, <2>4
  <2>6. Range(get_accp_info(p, rid).props) \subseteq Range(table[Key(rid)].props)
    BY <2>3, <2>4
  <2> QED
    BY <2>5, <2>6 DEF rid
<1>5. TableStep(p, table, n)
  BY <1>1, <1>2, <1>4 DEF TableStep
<1> QED
  BY <1>5

\* The responses of such a promise.
LEMMA YesToRounds ==
  ASSUME NEW rids \in Seq(Roundid), NEW ress, ress = [i \in 1 .. Len(rids) |-> Response(rids[i], TRUE, <<>>)]
  PROVE  /\ ress \in Seq(Bare) /\ Len(ress) = Len(rids)
         /\ \A j \in 1 .. Len(rids) : ress[j].rid = rids[j] /\ ress[j].ack = SUCCESS
<1>1. Len(rids) \in Nat /\ \A j \in 1 .. Len(rids) : rids[j] \in Roundid
  OBVIOUS
<1>2. ASSUME NEW j \in 1 .. Len(rids)
      PROVE  ress[j] \in Bare /\ ress[j].rid = rids[j] /\ ress[j].ack = SUCCESS
  <2> DEFINE rid == rids[j]
             res == ress[j]
  <2>1. rid \in Roundid /\ res = Response(rid, TRUE, <<>>) /\ TRUE \in BOOLEAN
    BY <1>1
  <2> HIDE DEF rid, res
  <2>2. res \in Bare /\ res.rid = rid /\ res.ack = IF TRUE THEN SUCCESS ELSE ERR_BID
    BY <2>1, ResponseMade
  <2> QED
    BY <2>2 DEF rid, res
<1>3. ress \in Seq(Bare) /\ Len(ress) = Len(rids)
  <2> DEFINE n == Len(rids)
  <2>1. ress = [j \in 1 .. n |-> ress[j]] /\ n \in Nat /\ \A j \in 1 .. n : ress[j] \in Bare
    BY <1>1, <1>2
  <2> HIDE DEF n
  <2>2. ress \in [1 .. n -> Bare]
    BY <2>1
  <2>3. ress \in Seq(Bare) /\ Len(ress) = n
    BY <2>1, <2>2, FunctionIsSeq
  <2> QED
    BY <2>3 DEF n
<1> QED
  BY <1>2, <1>3

\* What HandlePrepare does for the rounds in the message.
PromisedFor(p, rids, tid) ==
  LET info(r) == get_accp_info(p, r)
      ok(r)   == Less64(info(r).bid_max, r.bid)
      promise(r) == [info(r) EXCEPT !.bid_max = IF ok(r) THEN r.bid ELSE @]
      rounds  == Range(rids)
      at(key) == CHOOSE r \in rounds : Key(r) = key
  IN  IF \E r \in rounds : r.bid = info(r).bid_max
      THEN Abort(p) /\ UNCHANGED <<acc, reply>>
      ELSE /\ acc' = [acc EXCEPT ![p] =
                        Updated(@, [key \in {Key(r) : r \in rounds} |-> promise(at(key))])]
           /\ Answer(p, msg_promise, PROMISE, tid,
                     [i \in DOMAIN rids |-> Response(rids[i], ok(rids[i]), info(rids[i]).props)])
           /\ UNCHANGED startupVars

\* handle_msg_prepare says yes to every round, and never aborts.
LEMMA PrepareHandled ==
  ASSUME Inv, NEW p \in Process, HandlePrepare(p)
  PROVE  \E k : Acts(p, k)
<1>1. PICK k : k = Head(link[p])
  OBVIOUS
<1>2. link[p] # <<>> /\ k.t = PREPARE /\ link' = [link EXCEPT ![p] = Tail(@)]
  BY <1>1 DEF HandlePrepare, TakeMessage
<1> DEFINE n == Request(k)
           msg == k.meant
           b == begun[n]
<1>3. /\ Asked(k) /\ n \in 1 .. n_req /\ Stamp(k) = 2 * n
      /\ \A i \in 1 .. Len(b) : /\ Key(b[i]) \notin DOMAIN acc[p]
                                /\ get_accp_info(p, b[i]) = [bid_max |-> Word64(0), props |-> <<>>]
  BY <1>1, <1>2, FreshRounds
<1>4. BegunInv /\ SlotUsedOnce
  BY DEF Inv, RequestsInv
<1>5. /\ msg \in Prepare_t /\ msg.rids = b /\ Genuine(k)
  BY <1>2, <1>3 DEF Asked, PREPARE, ACCEPT
<1>6. msg.h.t = PREPARE /\ k = Packed(msg_prepare, msg) /\ msg.h.tid = TidOf(n)
  BY <1>2, <1>5, DescriptorsOf DEF Genuine
<1>7. Unpacked(k) = msg
  BY <1>5, <1>6, PrepareIntact
<1>8. Received(link[p]) = {msg}
  BY <1>1, <1>7 DEF Received
<1> DEFINE info(r) == get_accp_info(p, r)
           ok(r)   == Less64(info(r).bid_max, r.bid)
           promise(r) == [info(r) EXCEPT !.bid_max = IF ok(r) THEN r.bid ELSE @]
           at(key) == CHOOSE r \in Range(b) : Key(r) = key
           entries == [key \in {Key(r) : r \in Range(b)} |-> promise(at(key))]
           ress == [i \in DOMAIN b |-> Response(b[i], ok(b[i]), info(b[i]).props)]
<1>9. /\ b \in Seq(Roundid) /\ Len(b) \in Nat \ {0} /\ DOMAIN b = 1 .. Len(b)
      /\ \A i \in 1 .. Len(b) : b[i] \in Range(b)
      /\ \A r \in Range(b) : \E i \in 1 .. Len(b) : b[i] = r
  BY <1>3, <1>4, RoundsOfRequest
<1>10. ASSUME NEW r \in Range(b)
       PROVE  info(r) = [bid_max |-> Word64(0), props |-> <<>>] /\ ok(r) /\ r.bid # info(r).bid_max
  <2>1. PICK i \in 1 .. Len(b) : b[i] = r
    BY <1>9
  <2>2. r.bid # Word64(0) /\ Less64(Word64(0), r.bid)
    BY <1>3, <1>4, <2>1, BidsAbove0
  <2>3. info(r) = [bid_max |-> Word64(0), props |-> <<>>]
    BY <1>3, <2>1
  <2> QED
    BY <2>2, <2>3
<1>11. /\ acc' = [acc EXCEPT ![p] = Updated(@, entries)]
       /\ Answer(p, msg_promise, PROMISE, msg.h.tid, ress)
       /\ UNCHANGED startupVars
       /\ UNCHANGED <<n_req, txn, newest, begun, coding, decided>>
  <2>1. \E m \in {msg} : PromisedFor(p, m.rids, m.h.tid)
    BY <1>8 DEF HandlePrepare, PromisedFor
  <2>2. PromisedFor(p, b, msg.h.tid)
    <3> HIDE DEF msg, b
    <3> QED
      BY <1>5, <2>1
  <2>3. ~ \E r \in Range(b) : r.bid = info(r).bid_max
    BY <1>10
  <2> QED
    BY <2>2, <2>3 DEF PromisedFor, HandlePrepare
<1>12. ASSUME NEW i \in 1 .. Len(b)
       PROVE  entries[Key(b[i])] = [bid_max |-> b[i].bid, props |-> <<>>]
  <2>1. b[i] \in Range(b)
    BY <1>9
  <2>2. at(Key(b[i])) = b[i]
    <3>1. ASSUME NEW r \in Range(b), Key(r) = Key(b[i]) PROVE r = b[i]
      <4>1. PICK j \in 1 .. Len(b) : b[j] = r
        BY <1>9
      <4>2. j = i
        BY <1>3, <1>4, <3>1, <4>1, KeysApart
      <4> QED
        BY <4>1, <4>2
    <3> QED
      BY <2>1, <3>1
  <2>3. promise(b[i]) = [bid_max |-> b[i].bid, props |-> <<>>]
    BY <1>10, <2>1
  <2> QED
    BY <2>1, <2>2, <2>3
<1>13. DOMAIN entries = {Key(r) : r \in Range(b)}
  OBVIOUS
<1>14. ress = [i \in 1 .. Len(b) |-> Response(b[i], TRUE, <<>>)]
  <2>1. \A i \in 1 .. Len(b) : ok(b[i]) = TRUE /\ info(b[i]).props = <<>>
    BY <1>9, <1>10
  <2> HIDE DEF ok, info
  <2> QED
    BY <1>9, <2>1
<1> HIDE DEF entries, ress
<1>15. \E table : TableStep(p, table, n)
  BY <1>3, <1>11, <1>12, <1>13, PromisedTable
<1>16. YesTo(n, ress)
  <2> HIDE DEF b, n
  <2>1. /\ ress \in Seq(Bare) /\ Len(ress) = Len(b)
        /\ \A j \in 1 .. Len(b) : ress[j].rid = b[j] /\ ress[j].ack = SUCCESS
    <3>1. b \in Seq(Roundid) /\ ress = [i \in 1 .. Len(b) |-> Response(b[i], TRUE, <<>>)]
      BY <1>9, <1>14
    <3> QED
      BY <3>1, YesToRounds
  <2> QED
    BY <2>1 DEF YesTo, b
<1>17. PICK a : a = AnswerOf(p, msg_promise, PROMISE, TidOf(n), ress)
  OBVIOUS
<1>18. Answered(p, a)' /\ Stamp(a) = Stamp(k)
  <2>1. UNCHANGED <<n_req, begun>> /\ PROMISE # ACCEPTED
    BY <1>11 DEF PROMISE, ACCEPTED
  <2>2. Answered(p, a)' /\ Stamp(a) = 2 * n + (IF PROMISE = PROMISE THEN 0 ELSE 1)
    BY <1>3, <1>16, <1>17, <2>1, YesAnswered
  <2>3. n \in Nat
    BY <1>3, <1>4, RoundsOfRequest
  <2> HIDE DEF n
  <2> QED
    BY <1>3, <2>2, <2>3
<1>19. reply' = reply \/ reply' = [reply EXCEPT ![p] = Append(@, a)]
  BY <1>6, <1>11, <1>17 DEF Answer, AnswerOf
<1>20. Acts(p, k)
  BY <1>1, <1>2, <1>11, <1>15, <1>18, <1>19 DEF Acts
<1> QED
  BY <1>20

-----------------------------------------------------------------------------
\* An acceptor accepts whatever it gets: what it knows of the round is of the ballot.
LEMMA InfoOfRound ==
  ASSUME Inv, NEW p \in Process, NEW n \in 1 .. n_req, NEW i \in 1 .. Len(begun[n])
  PROVE  get_accp_info(p, begun[n][i]) \in
           [bid_max : {Word64(0), begun[n][i].bid}, props : Seq(Proposal)]
<1>1. AcceptorInv
  BY DEF Inv, RequestsInv
<1>2. CASE Key(begun[n][i]) \in DOMAIN acc[p]
  BY <1>1, <1>2 DEF AcceptorInv, get_accp_info
<1>3. CASE Key(begun[n][i]) \notin DOMAIN acc[p]
  <2>1. get_accp_info(p, begun[n][i]) = [bid_max |-> Word64(0), props |-> <<>>]
    BY <1>3 DEF get_accp_info
  <2>2. <<>> \in Seq(Proposal)
    OBVIOUS
  <2> DEFINE bid == begun[n][i].bid
  <2> HIDE DEF bid
  <2>3. [bid_max |-> Word64(0), props |-> <<>>] \in [bid_max : {Word64(0), bid}, props : Seq(Proposal)]
    BY <2>2
  <2> QED
    BY <2>1, <2>3 DEF bid
<1> QED
  BY <1>2, <1>3

\* The copy of a proposal.
LEMMA CopyMade ==
  ASSUME NEW prop \in Proposal, NEW copy, copy = prop_copy(prop)
  PROVE  copy \in Proposal /\ copy.rids = prop.rids /\ copy.nid = prop.nid
<1> DEFINE rids == prop.rids
           nid == prop.nid
           value == prop.value
<1>1. rids \in Seq(Roundid) /\ nid \in UInt32 /\ value \in Seq(Octet)
  BY DEF Proposal
<1>2. copy = Message(proposal, [nid |-> nid, rids |-> rids, value |-> value])
  BY DEF prop_copy
<1>3. [nid |-> nid, rids |-> rids, value |-> value] = [rids |-> rids, nid |-> nid, value |-> value]
  OBVIOUS
<1> HIDE DEF rids, nid, value
<1>4. copy = Message(proposal, [rids |-> rids, nid |-> nid, value |-> value])
  BY <1>2, <1>3
<1>5. copy \in Proposal /\ copy.rids = rids /\ copy.nid = nid
  BY <1>1, <1>4, ProposalMade
<1> QED
  BY <1>5 DEF rids, nid

\* The table of an acceptor that has accepted the only round of request n.
LEMMA AcceptedTable ==
  ASSUME Inv, NEW p \in Process, NEW n \in 1 .. n_req, Len(begun[n]) = 1,
         NEW rid, rid = begun[n][1], NEW info, info = get_accp_info(p, rid), NEW copy \in Proposal,
         NEW accepted, accepted = [info EXCEPT !.props = Append(@, copy)],
         acc' = [acc EXCEPT ![p] = Updated(@, [key \in {Key(rid)} |-> accepted])],
         UNCHANGED <<begun, newest>>
  PROVE  /\ \E table : TableStep(p, table, n)
         /\ copy.rids = begun[n] /\ copy.nid = Me => Keeps(p, n)'
<1> DEFINE entries == [key \in {Key(rid)} |-> accepted]
           table == Updated(acc[p], entries)
<1>1. acc' = [acc EXCEPT ![p] = table]
  OBVIOUS
<1>2. /\ DOMAIN table = DOMAIN acc[p] \cup {Key(rid)}
      /\ \A key \in DOMAIN acc[p] : key # Key(rid) => table[key] = acc[p][key]
      /\ table[Key(rid)] = accepted
  BY DEF Updated
<1> HIDE DEF table
<1>3. BegunInv /\ AcceptorInv
  BY DEF Inv, RequestsInv
<1>4. /\ \A i \in 1 .. Len(begun[n]) : begun[n][i] = rid
      /\ \A r \in Range(begun[n]) : r = rid
      /\ rid \in Range(begun[n]) /\ 1 \in 1 .. Len(begun[n])
  <2>1. 1 .. Len(begun[n]) = {1}
    OBVIOUS
  <2>2. /\ \A i \in 1 .. Len(begun[n]) : begun[n][i] \in Range(begun[n])
        /\ \A r \in Range(begun[n]) : \E i \in 1 .. Len(begun[n]) : begun[n][i] = r
    BY <1>3, RoundsOfRequest
  <2> QED
    BY <2>1, <2>2
<1>5. {Key(r) : r \in Range(begun[n])} = {Key(rid)}
  BY <1>4
<1>6. info \in [bid_max : {Word64(0), rid.bid}, props : Seq(Proposal)]
  BY <1>4, InfoOfRound
<1> DEFINE props == info.props
<1>7. /\ accepted \in [bid_max : {Word64(0), rid.bid}, props : Seq(Proposal)]
      /\ accepted.props = Append(props, copy) /\ props \in Seq(Proposal)
  <2>1. props \in Seq(Proposal) /\ info.bid_max \in {Word64(0), rid.bid}
    BY <1>6
  <2>2. Append(props, copy) \in Seq(Proposal)
    BY <2>1
  <2>3. accepted = [info EXCEPT !.props = Append(props, copy)]
    OBVIOUS
  <2> DEFINE more == Append(props, copy)
             bids == {Word64(0), rid.bid}
  <2>4. info \in [bid_max : bids, props : Seq(Proposal)] /\ more \in Seq(Proposal)
    BY <1>6, <2>2
  <2>5. accepted = [info EXCEPT !.props = more]
    BY <2>3
  <2> HIDE DEF more, bids, props
  <2>6. accepted \in [bid_max : bids, props : Seq(Proposal)] /\ accepted.props = more
    BY <2>4, <2>5
  <2> QED
    BY <2>1, <2>6 DEF more, bids
<1> HIDE DEF props
<1>8. Range(props) \subseteq Range(Append(props, copy)) /\ copy \in Range(Append(props, copy))
  <2>1. /\ DOMAIN props = 1 .. Len(props) /\ Len(props) \in Nat
        /\ DOMAIN Append(props, copy) = 1 .. Len(props) + 1
        /\ \A i \in 1 .. Len(props) : Append(props, copy)[i] = props[i]
        /\ Append(props, copy)[Len(props) + 1] = copy
    BY <1>7
  <2> QED
    BY <2>1 DEF Range
<1>9. TableStep(p, table, n)
  <2>1. Range(get_accp_info(p, rid).props) \subseteq Range(table[Key(rid)].props)
    BY <1>2, <1>7, <1>8 DEF props
  <2>2. table[Key(rid)] \in [bid_max : {Word64(0), rid.bid}, props : Seq(Proposal)]
    BY <1>2, <1>7
  <2> QED
    BY <1>1, <1>2, <1>4, <1>5, <2>1, <2>2 DEF TableStep
<1>10. ASSUME copy.rids = begun[n], copy.nid = Me PROVE Keeps(p, n)'
  <2>1. acc'[p] = table
    BY <1>1, <1>3 DEF AcceptorInv
  <2>2. get_accp_info(p, rid)' = accepted
    BY <1>2, <2>1 DEF get_accp_info
  <2>3. \E held \in Range(get_accp_info(p, rid)'.props) : held.rids = begun[n] /\ held.nid = Me
    BY <1>7, <1>8, <1>10, <2>2
  <2>4. PICK prop : prop = [rids |-> begun[n], nid |-> Me]
    OBVIOUS
  <2>5. prop.rids = begun[n] /\ prop.nid = Me
    BY <2>4
  <2>6. ASSUME NEW r \in Range(prop.rids)
        PROVE  \E held \in Range(get_accp_info(p, r)'.props) : held.rids = prop.rids /\ held.nid = prop.nid
    <3>1. r = rid
      BY <1>4, <2>5
    <3> QED
      BY <2>3, <2>5, <3>1
  <2>7. Holds(p, prop)'
    BY <2>6 DEF Holds
  <2>8. prop = [rids |-> begun'[n], nid |-> Me]
    BY <2>4
  <2> QED
    BY <2>7, <2>8 DEF Keeps, Holds
<1> QED
  BY <1>9, <1>10

\* What HandleAccept does for the proposal in the message.
AcceptedFor(p, prop, tid) ==
  LET rid  == Head(prop.rids)
      info == get_accp_info(p, rid)
      ok   == Acceptable(rid, info)
      accepted == [info EXCEPT !.props = IF ok THEN Append(@, prop_copy(prop)) ELSE @]
  IN  /\ acc' = [acc EXCEPT ![p] = Updated(@, [key \in {Key(rid)} |-> accepted])]
      /\ Answer(p, msg_accepted, ACCEPTED, tid, <<Response(rid, ok, <<>>)>>)

\* handle_msg_accept accepts the proposal.
LEMMA AcceptHandled ==
  ASSUME Inv, NEW p \in Process, HandleAccept(p)
  PROVE  \E k : Acts(p, k)
<1>1. PICK k : k = Head(link[p])
  OBVIOUS
<1>2. link[p] # <<>> /\ k.t = ACCEPT /\ link' = [link EXCEPT ![p] = Tail(@)]
  BY <1>1 DEF HandleAccept, TakeMessage
<1> DEFINE n == Request(k)
           m == k.meant
           b == begun[n]
<1>3. k = link[p][1] /\ 1 \in 1 .. Len(link[p])
  <2>1. link[p] \in Seq(Range(link[p]))
    BY ConnectionOk DEF QueuesOk
  <2> QED
    BY <1>1, <1>2, <2>1, TailQueue
<1>4. Asked(k) /\ Genuine(k) /\ n_req \in Nat
  BY <1>3, ConnectionOk
<1>5. n \in 1 .. n_req /\ Stamp(k) = 2 * n + 1
  BY <1>2, <1>4, StampOf DEF PREPARE, PROMISE, ACCEPT
<1>6. m \in Accept_t /\ m.prop.rids = b /\ m.prop.nid = Me
  BY <1>2, <1>4 DEF Asked, PREPARE, ACCEPT
<1>7. m.h.t = ACCEPT /\ k = Packed(msg_accept, m) /\ m.h.tid = TidOf(n)
  BY <1>2, <1>4, DescriptorsOf DEF Genuine
<1>8. PICK msg : msg = Unpacked(k)
  OBVIOUS
<1>9. msg.h = m.h /\ msg.prop = WithoutValue(m.prop)
  BY <1>6, <1>7, <1>8, AcceptIntact
<1>10. m.prop \in Proposal /\ Len(m.prop.rids) = 1
  BY <1>6 DEF Accept_t
<1>11. PICK prop : prop = msg.prop
  OBVIOUS
<1>12. prop \in Proposal /\ prop.rids = b /\ prop.nid = Me /\ Len(b) = 1
  BY <1>6, <1>9, <1>10, <1>11, ProposalWithoutValue
<1>13. /\ AcceptedFor(p, prop, TidOf(n))
       /\ UNCHANGED <<startupVars, n_req, txn, newest, begun, coding, decided>>
  <2>1. \E x \in Received(link[p]) : AcceptedFor(p, x.prop, x.h.tid)
    BY DEF HandleAccept, AcceptedFor
  <2>2. Received(link[p]) = {msg}
    BY <1>1, <1>8 DEF Received
  <2>3. AcceptedFor(p, prop, TidOf(n))
    <3> HIDE DEF n, m
    <3> QED
      BY <1>7, <1>9, <1>11, <2>1, <2>2
  <2> QED
    BY <2>3 DEF HandleAccept
<1> DEFINE rid == b[1]
           info == get_accp_info(p, rid)
           copy == prop_copy(prop)
           accepted == [info EXCEPT !.props = Append(@, copy)]
           ress == <<Response(rid, TRUE, <<>>)>>
<1>14. BegunInv
  BY DEF Inv, RequestsInv
<1>15. b \in Seq(Roundid) /\ Head(prop.rids) = rid /\ 1 \in 1 .. Len(b) /\ rid \in Roundid
  BY <1>5, <1>12, <1>14, RoundsOfRequest
<1>16. Acceptable(rid, info) = TRUE
  <2>1. info.bid_max \in {Word64(0), rid.bid}
    BY <1>5, <1>15, InfoOfRound
  <2>2. \A bid \in {Word64(0), rid.bid} : ~ Less64(rid.bid, bid)
    BY <1>5, <1>14, <1>15, BidsAbove0
  <2> QED
    BY <2>1, <2>2 DEF Acceptable
<1>17. /\ acc' = [acc EXCEPT ![p] = Updated(@, [key \in {Key(rid)} |-> accepted])]
       /\ Answer(p, msg_accepted, ACCEPTED, TidOf(n), ress)
  BY <1>13, <1>15, <1>16 DEF AcceptedFor
<1>18. copy \in Proposal /\ copy.rids = b /\ copy.nid = Me
  BY <1>12, CopyMade
<1>19. (\E table : TableStep(p, table, n)) /\ Keeps(p, n)'
  <2> HIDE DEF copy
  <2>1. UNCHANGED <<begun, newest>>
    BY <1>13
  <2>2. /\ \E table : TableStep(p, table, n)
        /\ copy.rids = begun[n] /\ copy.nid = Me => Keeps(p, n)'
    BY <1>5, <1>12, <1>17, <1>18, <2>1, AcceptedTable
  <2> QED
    BY <1>18, <2>2
<1>20. YesTo(n, ress)
  <2>1. ress = [i \in 1 .. Len(b) |-> Response(b[i], TRUE, <<>>)]
    <3> DEFINE res == Response(rid, TRUE, <<>>)
    <3> HIDE DEF b, res
    <3>1. 1 .. Len(b) = {1} /\ 1 .. 1 = {1}
      BY <1>12
    <3>2. ress = <<res>>
      BY DEF res
    <3> HIDE DEF ress
    <3>3. ress = [i \in 1 .. 1 |-> res]
      BY <3>2
    <3> QED
      BY <3>1, <3>3 DEF res
  <2> HIDE DEF b, n, ress
  <2>2. /\ ress \in Seq(Bare) /\ Len(ress) = Len(b)
        /\ \A j \in 1 .. Len(b) : ress[j].rid = b[j] /\ ress[j].ack = SUCCESS
    BY <1>15, <2>1, YesToRounds
  <2> QED
    BY <2>2 DEF YesTo, b
<1> HIDE DEF ress
<1>21. PICK a : a = AnswerOf(p, msg_accepted, ACCEPTED, TidOf(n), ress)
  OBVIOUS
<1>22. Answered(p, a)' /\ Stamp(a) = Stamp(k)
  <2>1. UNCHANGED <<n_req, begun>> /\ PROMISE # ACCEPTED
    BY <1>13 DEF PROMISE, ACCEPTED
  <2>2. Answered(p, a)' /\ Stamp(a) = 2 * n + (IF ACCEPTED = PROMISE THEN 0 ELSE 1)
    BY <1>5, <1>12, <1>19, <1>20, <1>21, <2>1, YesAnswered
  <2> HIDE DEF n
  <2> QED
    BY <1>5, <2>1, <2>2
<1>23. reply' = reply \/ reply' = [reply EXCEPT ![p] = Append(@, a)]
  BY <1>17, <1>21 DEF Answer, AnswerOf
<1>24. Acts(p, k)
  BY <1>1, <1>2, <1>13, <1>19, <1>22, <1>23 DEF Acts
<1> QED
  BY <1>24

-----------------------------------------------------------------------------
\* Starting a process changes nothing of the requests; once there is one, no process
\* is before its connections.
LEMMA SameRequests ==
  ASSUME Inv, StartupInv', ProcessesInv', UNCHANGED txnVars PROVE Inv'
<1>1. /\ NewestInv /\ BegunInv /\ SlotUsedOnce /\ TxnInv /\ CodingInv /\ LinkInv
      /\ ReplyInv /\ OrderInv /\ AcceptorInv /\ CountedInv /\ DecidedInv /\ DecidedRoundIsHeld
  BY DEF Inv, RequestsInv
<1>2. UNCHANGED <<n_req, txn, newest, acc, link, reply, begun, coding, decided>>
  BY DEF txnVars
<1>3. NewestInv' /\ BegunInv' /\ SlotUsedOnce' /\ CodingInv' /\ OrderInv' /\ AcceptorInv'
  BY <1>1, <1>2 DEF NewestInv, BegunInv, RoundOf, SlotUsedOnce, CodingInv, OrderInv, Ordered, InPhase1,
     AcceptorInv
<1>4. TxnInv' /\ CountedInv'
  BY <1>1, <1>2 DEF TxnInv, Attached, CountedInv, Counted, Keeps, Holds, Dropped, get_accp_info
<1>5. LinkInv' /\ ReplyInv'
  BY <1>1, <1>2 DEF LinkInv, ReplyInv, Asked, Answered, Genuine, Keeps, Holds, Dropped, get_accp_info
<1>6. DecidedInv' /\ DecidedRoundIsHeld'
  BY <1>1, <1>2 DEF DecidedInv, DecidedRoundIsHeld, Holds, Dropped, get_accp_info
<1> QED
  BY <1>3, <1>4, <1>5, <1>6 DEF Inv, RequestsInv

\* A step of the start-up keeps the invariant.
LEMMA StartProcessInv == ASSUME Inv, StartProcess PROVE Inv'
<1>1. PICK p \in Process : Start(p)
  BY DEF StartProcess
<1>2. UNCHANGED txnVars
  BY DEF StartProcess
<1>3. StartupInv /\ ProcessesInv
  BY DEF Inv, RequestsInv
<1>4. StartupInv'
  BY <1>1, <1>3, LoadConfigInv, StartServerInv, ConnectSenderInv DEF Start
<1>5. stage \in [Process -> Stage] /\ local_nid \in [Process -> 0 .. Len(Config)] /\ Committer \in Process
  BY <1>3, RequestAssumption DEF StartupInv, StartupTypeOK
<1>6. n_req' = n_req
  BY <1>2 DEF txnVars
<1>7. ProcessesInv'
  <2>1. CASE LoadConfig(p)
    <3>1. stage[p] = "off"
      BY <2>1 DEF LoadConfig
    <3>2. ~ (n_req > 0)
      BY <1>3, <3>1 DEF ProcessesInv
    <3> QED
      BY <1>3, <1>5, <1>6, <2>1, <3>2 DEF ProcessesInv, LoadConfig
  <2>2. CASE StartServer(p)
    <3>1. stage[p] = "configured"
      BY <2>2 DEF StartServer
    <3>2. ~ (n_req > 0)
      BY <1>3, <3>1 DEF ProcessesInv
    <3> QED
      BY <1>3, <1>5, <1>6, <2>2, <3>1, <3>2 DEF ProcessesInv, StartServer
  <2>3. CASE ConnectSender(p)
    <3>1. /\ stage[p] = "connecting" /\ local_nid' = local_nid /\ arr_nodes' = arr_nodes
          /\ stage' = stage \/ stage' = [stage EXCEPT ![p] = "started"]
      BY <2>3 DEF ConnectSender
    <3> QED
      BY <1>3, <1>5, <1>6, <3>1 DEF ProcessesInv
  <2> QED
    BY <1>1, <2>1, <2>2, <2>3 DEF Start
<1> QED
  BY <1>2, <1>4, <1>7, SameRequests

-----------------------------------------------------------------------------
\* What the committer does to the queues: a message more to each, of a phase that none
\* was of before, or all that was sent is lost; an answer may have been taken.
SentOrLost(s) ==
  \A q \in Process :
    \/ link'[q] = link[q] \/ link'[q] = <<>>
    \/ \E k : link'[q] = Append(link[q], k) /\ Asked(k)' /\ Stamp(k) = s
MayTake == \A q \in Process : reply'[q] = reply[q] \/ (reply[q] # <<>> /\ reply'[q] = Tail(reply[q]))

\* Then the queues are in order again.
LEMMA CommitterQueues ==
  ASSUME Inv, DOMAIN link' = Process, DOMAIN reply' = Process, NEW s \in Nat, SentOrLost(s), MayTake,
         s > 2 * n_req,
         \A q \in Process :
           /\ \A j \in 1 .. Len(link[q]) : Stamp(link[q][j]) < s
           /\ \A i \in 1 .. Len(reply[q]) : Stamp(reply[q][i]) < s
  PROVE  QueuesNext
<1> SUFFICES ASSUME NEW q \in Process PROVE QueuesStep(q)
  BY DEF QueuesNext
<1>1. QueuesOk(link[q], reply[q])
  BY ConnectionOk
<1>2. QueuesOk(link[q], reply'[q]) /\ From(reply'[q], reply[q])
  <2>1. CASE reply'[q] = reply[q]
    BY <1>1, <2>1 DEF From
  <2>2. CASE reply[q] # <<>> /\ reply'[q] = Tail(reply[q])
    BY <1>1, <2>2, AnswerTakenInOrder
  <2> QED
    BY <2>1, <2>2 DEF MayTake
<1>3. CASE link'[q] = link[q]
  BY <1>2, <1>3 DEF QueuesStep, From
<1>4. CASE link'[q] = <<>>
  <2>1. QueuesOk(link'[q], reply'[q]) /\ From(link'[q], link[q])
    BY <1>2, <1>4, LostInOrder
  <2> QED
    BY <1>2, <2>1 DEF QueuesStep, From
<1>5. CASE \E k : link'[q] = Append(link[q], k) /\ Asked(k)' /\ Stamp(k) = s
  <2>1. PICK k : link'[q] = Append(link[q], k) /\ Asked(k)' /\ Stamp(k) = s
    BY <1>5
  <2>2. \A i \in 1 .. Len(reply'[q]) : Stamp(reply'[q][i]) < Stamp(k)
    BY <1>2, <2>1 DEF From
  <2>3. \A j \in 1 .. Len(link[q]) : Stamp(link[q][j]) < Stamp(k)
    BY <2>1
  <2>4. Stamp(k) \in Nat
    BY <2>1
  <2>5. /\ QueuesOk(link'[q], reply'[q])
        /\ \A i \in 1 .. Len(link'[q]) :
             link'[q][i] = k \/ \E j \in 1 .. Len(link[q]) : link'[q][i] = link[q][j]
    BY <1>2, <2>1, <2>2, <2>3, <2>4, SentInOrder
  <2> QED
    BY <1>2, <2>1, <2>5 DEF QueuesStep, From
<1> QED
  BY <1>3, <1>4, <1>5 DEF SentOrLost

\* The acceptors' tables are about the old requests.
LEMMA AcceptorSame ==
  ASSUME Inv, Grown, QueuesNext, acc' = acc, BegunInv', SlotUsedOnce' PROVE AcceptorInv'
<1>1. AcceptorInv /\ BegunInv
  BY DEF Inv, RequestsInv
<1>2. /\ n_req \in Nat /\ n_req' \in Nat /\ n_req <= n_req'
      /\ \A n \in 1 .. n_req : begun'[n] = begun[n] /\ n \in 1 .. n_req'
  BY DEF Grown
<1>3. ASSUME NEW p \in Process
      PROVE  DOMAIN acc[p] \subseteq {Key(rid) : rid \in UNION {Range(begun'[n]) : n \in 1 .. n_req'}}
  <2>1. DOMAIN acc[p] \subseteq {Key(rid) : rid \in UNION {Range(begun[n]) : n \in 1 .. n_req}}
    BY <1>1 DEF AcceptorInv
  <2>2. UNION {Range(begun[n]) : n \in 1 .. n_req} \subseteq UNION {Range(begun'[n]) : n \in 1 .. n_req'}
    BY <1>2
  <2> QED
    BY <2>1, <2>2
<1>4. ASSUME NEW p \in Process, NEW n \in 1 .. n_req', NEW i \in 1 .. Len(begun'[n]),
             Key(begun'[n][i]) \in DOMAIN acc[p]
      PROVE  /\ acc[p][Key(begun'[n][i])] \in
                  [bid_max : {Word64(0), begun'[n][i].bid}, props : Seq(Proposal)]
             /\ \A j \in 1 .. Len(link'[p]) : Stamp(link'[p][j]) > 2 * n
  <2>1. PICK rid \in UNION {Range(begun[m]) : m \in 1 .. n_req} : Key(rid) = Key(begun'[n][i])
    BY <1>1, <1>4 DEF AcceptorInv
  <2>2. PICK m \in 1 .. n_req : rid \in Range(begun[m])
    OBVIOUS
  <2>3. rid \in Range(begun'[m]) /\ m \in 1 .. n_req' /\ m \in DOMAIN begun' /\ n \in DOMAIN begun'
    BY <1>2, <2>2 DEF BegunInv
  <2>4. begun'[n][i] \in Range(begun'[n])
    <3>1. begun'[n] \in Seq(Roundid)
      BY <2>3 DEF BegunInv
    <3> QED
      BY <3>1 DEF Range
  <2>5. ~ (m < n) /\ ~ (n < m)
    BY <2>1, <2>3, <2>4 DEF SlotUsedOnce
  <2>6. n \in 1 .. n_req
    BY <1>2, <2>5
  <2>7. begun'[n] = begun[n]
    BY <1>2, <2>6
  <2>8. /\ acc[p][Key(begun[n][i])] \in
             [bid_max : {Word64(0), begun[n][i].bid}, props : Seq(Proposal)]
        /\ \A j \in 1 .. Len(link[p]) : Stamp(link[p][j]) > 2 * n
    BY <1>1, <1>4, <2>6, <2>7 DEF AcceptorInv
  <2>9. ASSUME NEW j \in 1 .. Len(link'[p]) PROVE Stamp(link'[p][j]) > 2 * n
    <3>1. QueuesStep(p)
      BY DEF QueuesNext
    <3> DEFINE st == Stamp(link'[p][j])
    <3>2. st > 2 * n_req \/ \E i2 \in 1 .. Len(link[p]) : link'[p][j] = link[p][i2]
      BY <3>1 DEF QueuesStep
    <3>3. CASE st > 2 * n_req
      <4>1. st \in Nat
        BY <3>1 DEF QueuesStep, QueuesOk
      <4> HIDE DEF st
      <4>2. st > 2 * n
        BY <1>2, <2>6, <3>3, <4>1
      <4> QED
        BY <4>2 DEF st
    <3> QED
      BY <2>8, <3>2, <3>3
  <2> QED
    BY <2>7, <2>8, <2>9
<1> QED
  BY <1>1, <1>3, <1>4 DEF AcceptorInv

\* Where nothing is decided, these conjuncts are left to look at.
LEMMA CommitterInv ==
  ASSUME Inv, Grown, QueuesNext, UNCHANGED <<newest, acc, decided>>,
         StartupInv', ProcessesInv', NewestInv', BegunInv', SlotUsedOnce', TxnInv', CodingInv', CountedInv',
         Cardinality(decided) + (IF txn' = NULL THEN 0 ELSE 1) <= n_req',
         InPhase1' => \A q \in Process :
           /\ \A j \in 1 .. Len(link'[q]) : Stamp(link'[q][j]) <= 2 * n_req'
           /\ \A i \in 1 .. Len(reply'[q]) : Stamp(reply'[q][i]) <= 2 * n_req'
  PROVE  Inv'
<1>1. KeepsOn
  BY KeepsSame
<1>2. LinkInv' /\ ReplyInv'
  BY <1>1, MessagesNext
<1>3. AcceptorInv'
  BY AcceptorSame
<1>4. OrderInv'
  <2>1. DOMAIN link' = Process /\ DOMAIN reply' = Process /\ \A q \in Process : QueuesOk(link'[q], reply'[q])
    BY DEF QueuesNext, QueuesStep
  <2> QED
    BY <2>1 DEF OrderInv, QueuesOk, Ordered
<1>5. DecidedInv' /\ DecidedRoundIsHeld'
  <2>1. /\ DecidedRoundIsHeld' /\ IsFiniteSet(decided')
        /\ \A prop \in decided' : /\ \E n \in 1 .. n_req' : prop.rids = begun'[n] /\ Len(begun'[n]) = 1
                                   /\ prop.nid = Me
    BY <1>1, HeldNext
  <2> QED
    BY <2>1 DEF DecidedInv
<1> QED
  BY <1>2, <1>3, <1>4, <1>5 DEF Inv, RequestsInv

-----------------------------------------------------------------------------
\* The prepares of the request that is attached, ...
LEMMA PreparesSent ==
  ASSUME NEW t, Attached(t)', n_req' \in 0 .. MaxRequest, Self = Me, DOMAIN link = Process,
         broadcast_msg_prepare(t)
  PROVE  DOMAIN link' = Process /\ SentOrLost(2 * n_req')
<1>1. /\ t.req \in Requests /\ t \in Txn(t.req) /\ n_req' > 0 /\ t.tid = TidOf(n_req')
      /\ t.rids = begun'[n_req']
  BY DEF Attached
<1>2. t.rids \in Seq(Roundid)
  BY <1>1 DEF Txn
<1>3. TidOf(n_req') \in UInt64 /\ Me \in UInt32 /\ Committer \in Process
  BY TidFits, NodeIdsOfProcesses, RequestAssumption DEF Me
<1> DEFINE h == Header(PREPARE, Self, t.tid)
           m == Message(msg_prepare, [h |-> h, rids |-> t.rids])
<1>4. h \in Header_t /\ h.t = PREPARE /\ h.nid = Me /\ h.tid = TidOf(n_req')
  BY <1>1, <1>3, HeaderMade, DescriptorsOf
<1>5. PICK k : k = Packed(msg_prepare, m)
  OBVIOUS
<1>6. link' = [p \in Process |-> Append(link[p], k)]
  BY <1>5 DEF broadcast_msg_prepare
<1> HIDE DEF h
<1>7. m \in Prepare_t /\ m.h = h /\ m.rids = t.rids
  BY <1>2, <1>4, PrepareMade
<1> HIDE DEF m
<1>8. k.t = PREPARE /\ k.meant = m
  BY <1>4, <1>5, <1>7 DEF Packed
<1>9. Request(k) = n_req'
  BY <1>4, <1>7, <1>8 DEF Request, TidOf, gen_txn_id
<1>10. n_req' \in 1 .. n_req'
  BY <1>1, RequestAssumption DEF UInt32
<1>11. Genuine(k)'
  BY <1>4, <1>5, <1>7, <1>8, <1>9, <1>10, DescriptorsOf DEF Genuine
<1>12. Asked(k)' /\ Stamp(k) = 2 * n_req'
  BY <1>1, <1>7, <1>8, <1>9, <1>10, <1>11 DEF Asked, Stamp
<1> QED
  BY <1>6, <1>12 DEF SentOrLost

\* ... and the accepts, each with its coded value.
LEMMA AcceptSent1 ==
  ASSUME NEW t, Attached(t)', n_req' \in 0 .. MaxRequest, Self = Me,
         NEW prop \in Proposal, prop.rids = t.rids, prop.nid = Me, Len(prop.rids) = 1,
         NEW cv \in CodedValue, NEW k,
         k = Packed(msg_accept, Message(msg_accept, [h |-> Header(ACCEPT, Self, t.tid),
                                                     prop |-> [prop EXCEPT !.coded_value = cv]]))
  PROVE  Asked(k)' /\ Stamp(k) = 2 * n_req' + 1
<1>1. /\ t.req \in Requests /\ t \in Txn(t.req) /\ n_req' > 0 /\ t.tid = TidOf(n_req')
      /\ t.rids = begun'[n_req']
  BY DEF Attached
<1>2. TidOf(n_req') \in UInt64 /\ Me \in UInt32 /\ Committer \in Process
  BY TidFits, NodeIdsOfProcesses, RequestAssumption DEF Me
<1> DEFINE h == Header(ACCEPT, Self, t.tid)
           coded == [prop EXCEPT !.coded_value = cv]
           m == Message(msg_accept, [h |-> h, prop |-> coded])
<1>3. h \in Header_t /\ h.t = ACCEPT /\ h.nid = Me /\ h.tid = TidOf(n_req')
  BY <1>1, <1>2, HeaderMade, DescriptorsOf
<1>4. coded \in Proposal /\ coded.rids = prop.rids /\ coded.nid = prop.nid
  BY ProposalCoded
<1>5. k = Packed(msg_accept, m)
  OBVIOUS
<1> HIDE DEF h, coded
<1>6. m \in Accept_t /\ m.h = h /\ m.prop = coded
  BY <1>3, <1>4, AcceptMade
<1> HIDE DEF m
<1>7. k.t = ACCEPT /\ k.meant = m
  BY <1>3, <1>5, <1>6 DEF Packed
<1>8. Request(k) = n_req'
  BY <1>3, <1>6, <1>7 DEF Request, TidOf, gen_txn_id
<1>9. n_req' \in 1 .. n_req'
  BY <1>1, RequestAssumption DEF UInt32
<1>10. Genuine(k)'
  BY <1>3, <1>5, <1>6, <1>7, <1>8, <1>9, DescriptorsOf DEF Genuine
<1>11. Asked(k)'
  BY <1>1, <1>4, <1>6, <1>7, <1>8, <1>10 DEF Asked
<1>12. Stamp(k) = 2 * n_req' + 1
  BY <1>7, <1>8 DEF Stamp, PREPARE, PROMISE, ACCEPT
<1> QED
  BY <1>11, <1>12

\* What becomes of the transaction in mpaxos_accept.
Accepting(t, u) ==
  /\ txn' = u /\ Attached(u)' /\ u.in_phase = 2 /\ u.ginfo = t.ginfo /\ u.req = t.req
  /\ CodingInv'
  /\ DOMAIN link' = Process /\ SentOrLost(2 * n_req' + 1)
  /\ \/ UNCHANGED startupVars
     \/ Abort(Committer) /\ Len(Groups(t.req)) > 1

\* mpaxos_accept is such a step.
LEMMA AcceptsSent ==
  ASSUME NEW t, Attached(t)', n_req' \in 0 .. MaxRequest, Self = Me, DOMAIN link = Process,
         mpaxos_accept(t)
  PROVE  \E u : Accepting(t, u)
<1> DEFINE prop == prop_self(t)
<1>0. PICK u : u = [t EXCEPT !.in_phase = 2, !.prop = prop]
  OBVIOUS
<1>1. /\ t.req \in Requests /\ t \in Txn(t.req) /\ n_req' > 0 /\ t.tid = TidOf(n_req')
      /\ t.rids = begun'[n_req'] /\ Len(t.rids) = Len(Groups(t.req)) /\ t.prop_max = NULL
  BY DEF Attached
<1>2. PICK c \in Codings[t.req] :
        /\ txn' = u /\ coding' = c
        /\ IF Len(prop.rids) = 1
           THEN broadcast_msg_accept_c(t, prop, c.cvs) /\ UNCHANGED startupVars
           ELSE AbortCommitter
  BY <1>0, <1>1 DEF mpaxos_accept
<1>3. t.rids \in Seq(Roundid) /\ t.req.data \in Seq(Octet) /\ Me \in UInt32 /\ Committer \in Process
  BY <1>1, RequestAssumption, NodeIdsOfProcesses DEF Txn, Me
<1>4. prop \in Proposal /\ prop.rids = t.rids /\ prop.nid = Me
  <2> DEFINE rids == t.rids
             value == t.req.data
  <2>1. prop = Message(proposal, [rids |-> rids, nid |-> Me, value |-> value])
    BY DEF prop_self
  <2>2. rids \in Seq(Roundid) /\ value \in Seq(Octet)
    BY <1>3
  <2> HIDE DEF prop, rids, value
  <2>3. prop \in Proposal /\ prop.rids = rids /\ prop.nid = Me
    BY <1>3, <2>1, <2>2, ProposalMade
  <2> QED
    BY <2>3 DEF rids
<1> HIDE DEF prop
<1>5. /\ u \in Txn(t.req) /\ u.in_phase = 2 /\ u.ginfo = t.ginfo /\ u.req = t.req /\ u.tid = t.tid
      /\ u.rids = t.rids /\ u.prop_max = t.prop_max /\ u.prop = prop
  BY <1>0, <1>1, <1>4 DEF Txn
<1>6. Attached(u)'
  BY <1>1, <1>4, <1>5 DEF Attached
<1>7. CodingInv'
  BY <1>1, <1>2 DEF CodingInv
<1>8. CASE Len(prop.rids) = 1
  <2>1. broadcast_msg_accept_c(t, prop, c.cvs) /\ UNCHANGED startupVars
    BY <1>2, <1>8
  <2> DEFINE message(i) == Message(msg_accept, [h |-> Header(ACCEPT, Self, t.tid),
                                                prop |-> [prop EXCEPT !.coded_value = c.cvs[i]]])
  <2>2. link' = [p \in Process |-> Append(link[p], Packed(msg_accept, message(NidOf(p) - 1)))]
    BY <2>1 DEF broadcast_msg_accept_c
  <2>3. ASSUME NEW p \in Process
        PROVE  \E k : link'[p] = Append(link[p], k) /\ Asked(k)' /\ Stamp(k) = 2 * n_req' + 1
    <3>1. PICK cv : cv = c.cvs[NidOf(p) - 1]
      OBVIOUS
    <3>2. cv \in CodedValue
      BY <1>1, <3>1, NodeIdsOfProcesses, CodedValueMade
    <3>3. PICK k : k = Packed(msg_accept, Message(msg_accept, [h |-> Header(ACCEPT, Self, t.tid),
                                                     prop |-> [prop EXCEPT !.coded_value = cv]]))
      OBVIOUS
    <3>4. link'[p] = Append(link[p], k)
      BY <2>2, <3>1, <3>3
    <3>5. Asked(k)' /\ Stamp(k) = 2 * n_req' + 1
      BY <1>4, <1>8, <3>2, <3>3, AcceptSent1
    <3> QED
      BY <3>4, <3>5
  <2>4. DOMAIN link' = Process /\ SentOrLost(2 * n_req' + 1)
    <3>1. DOMAIN link' = Process
      BY <2>2
    <3> QED
      BY <2>3, <3>1 DEF SentOrLost
  <2> QED
    BY <1>2, <1>5, <1>6, <1>7, <2>1, <2>4 DEF Accepting
<1>9. CASE Len(prop.rids) # 1
  <2>1. AbortCommitter
    BY <1>2, <1>9
  <2>2. Abort(Committer) /\ \E lost \in SUBSET Process :
           link' = [p \in Process |-> IF p \in lost THEN <<>> ELSE link[p]]
    BY <2>1 DEF AbortCommitter
  <2>3. DOMAIN link' = Process /\ SentOrLost(2 * n_req' + 1)
    BY <2>2 DEF SentOrLost
  <2>4. Len(Groups(t.req)) > 1
    <3> DEFINE len == Len(Groups(t.req))
    <3>1. len \in Nat \ {0} /\ len # 1
      BY <1>1, <1>4, <1>9, GroupsOfRequest
    <3> HIDE DEF len
    <3>2. len > 1
      BY <3>1
    <3> QED
      BY <3>2 DEF len
  <2> QED
    BY <1>2, <1>5, <1>6, <1>7, <2>2, <2>3, <2>4 DEF Accepting
<1> QED
  BY <1>8, <1>9

-----------------------------------------------------------------------------
\* The transaction a request begins with.
BeginsWith(req, t) ==
  /\ t \in Txn(req) /\ t.in_phase = 1 /\ t.tid = TidOf(n_req + 1) /\ t.prop_max = NULL
  /\ Len(t.rids) = Len(Groups(req))
  /\ \A i \in 1 .. Len(t.rids) :
       /\ t.rids[i] \in Roundid /\ t.rids[i].gid = Groups(req)[i]
       /\ t.rids[i].sid = newest[t.rids[i].gid].sid
       /\ t.rids[i].bid \in {Word64(1), Word64(2)}
       /\ t.ginfo[t.rids[i].gid].rid = t.rids[i]
  /\ \A g \in Range(Groups(req)) : DOMAIN t.ginfo[g].prom = {} /\ DOMAIN t.ginfo[g].accd = {}

\* What a transaction has for a group at first.
LEMMA FirstGinfo ==
  ASSUME NEW rid \in Roundid, NEW gi, gi = [rid |-> rid, prom |-> <<>>, accd |-> <<>>, max_prop |-> NULL]
  PROVE  gi \in Ginfo /\ gi.rid = rid /\ DOMAIN gi.prom = {} /\ DOMAIN gi.accd = {}
<1>1. <<>> \in [{} -> {SUCCESS, ERR_BID}] /\ DOMAIN <<>> = {}
  OBVIOUS
<1>2. <<>> \in Said
  BY <1>1 DEF Said
<1> QED
  BY <1>1, <1>2 DEF Ginfo

\* mpaxos_commit_req begins such a transaction, in phase 1 or at once in phase 2.
LEMMA RequestBegins ==
  ASSUME Inv, StartRequest
  PROVE  /\ stage[Committer] = "started" /\ txn = NULL /\ n_req < MaxRequest /\ n_req' = n_req + 1
         /\ UNCHANGED <<newest, acc, reply, decided>>
         /\ \E req \in Requests : \E t :
              /\ BeginsWith(req, t) /\ begun' = Append(begun, t.rids)
              /\ \/ mpaxos_accept(t)
                 \/ txn' = t /\ broadcast_msg_prepare(t) /\ UNCHANGED <<startupVars, coding>>
<1>1. /\ stage[Committer] = "started" /\ txn = NULL /\ n_req < MaxRequest /\ n_req' = n_req + 1
      /\ UNCHANGED <<newest, acc, reply, decided>>
  BY DEF StartRequest
<1>2. PICK req \in Requests :
       LET gids     == Groups(req)
           saveprep == \A g \in Range(gids) : newest[g].is_me
           rid(g)   == Message(roundid_t, [gid |-> g, sid |-> newest[g].sid,
                                           bid |-> Word64(IF saveprep THEN 1 ELSE 2)])
           ginfo(g) == [rid |-> rid(g), prom |-> <<>>, accd |-> <<>>, max_prop |-> NULL]
           t == [tid |-> gen_txn_id(Self, n_req + 1), req |-> req, in_phase |-> 1,
                 rids |-> [i \in DOMAIN gids |-> rid(gids[i])],
                 ginfo |-> [g \in Range(gids) |-> ginfo(g)],
                 prop_max |-> NULL, prop |-> NULL]
       IN  /\ begun' = Append(begun, t.rids)
           /\ IF saveprep THEN mpaxos_accept(t)
              ELSE txn' = t /\ broadcast_msg_prepare(t) /\ UNCHANGED <<startupVars, coding>>
  BY DEF StartRequest
<1> DEFINE gids     == Groups(req)
           saveprep == \A g \in Range(gids) : newest[g].is_me
           bid      == Word64(IF saveprep THEN 1 ELSE 2)
           rid(g)   == Message(roundid_t, [gid |-> g, sid |-> newest[g].sid, bid |-> bid])
           ginfo(g) == [rid |-> rid(g), prom |-> <<>>, accd |-> <<>>, max_prop |-> NULL]
           rids     == [i \in DOMAIN gids |-> rid(gids[i])]
           ginfos   == [g \in Range(gids) |-> ginfo(g)]
<1>3. PICK t : t = [tid |-> gen_txn_id(Self, n_req + 1), req |-> req, in_phase |-> 1,
                    rids |-> rids, ginfo |-> ginfos, prop_max |-> NULL, prop |-> NULL]
  OBVIOUS
<1>4. /\ begun' = Append(begun, t.rids)
      /\ \/ mpaxos_accept(t)
         \/ txn' = t /\ broadcast_msg_prepare(t) /\ UNCHANGED <<startupVars, coding>>
  BY <1>2, <1>3, Zenon
<1>5. NewestInv /\ ProcessesInv /\ BegunInv
  BY DEF Inv, RequestsInv
<1>6. Self = Me
  BY <1>1, <1>5, RequestAssumption DEF ProcessesInv, Self, Me
<1>7. /\ gids \in Seq(UInt32) /\ Len(gids) \in Nat \ {0} /\ DOMAIN gids = 1 .. Len(gids)
      /\ \A i \in 1 .. Len(gids) : gids[i] \in Range(gids)
      /\ Range(gids) \subseteq UInt32 /\ Range(gids) \subseteq DOMAIN newest
  BY <1>5, GroupsOfRequest DEF NewestInv
<1>8. bid \in UInt64 /\ bid \in {Word64(1), Word64(2)}
  BY SmallWords
<1>9. ASSUME NEW g \in Range(gids)
      PROVE  rid(g) \in Roundid /\ rid(g).gid = g /\ rid(g).sid = newest[g].sid /\ rid(g).bid = bid
  <2>1. g \in UInt32 /\ newest[g].sid \in UInt64
    BY <1>5, <1>7 DEF NewestInv
  <2> HIDE DEF bid
  <2> QED
    BY <1>8, <2>1, RoundidMade
<1>10. ASSUME NEW g \in Range(gids)
       PROVE  ginfos[g] \in Ginfo /\ ginfos[g].rid = rid(g) /\ DOMAIN ginfos[g].prom = {} /\ DOMAIN ginfos[g].accd = {}
  <2> DEFINE r == rid(g)
  <2>1. r \in Roundid /\ ginfos[g] = [rid |-> r, prom |-> <<>>, accd |-> <<>>, max_prop |-> NULL]
    BY <1>9
  <2> HIDE DEF r, ginfos
  <2>2. ginfos[g] \in Ginfo /\ ginfos[g].rid = r /\ DOMAIN ginfos[g].prom = {} /\ DOMAIN ginfos[g].accd = {}
    BY <2>1, FirstGinfo
  <2> QED
    BY <2>2 DEF r
<1>11. ginfos \in [Range(gids) -> Ginfo]
  BY <1>10
<1>12. ASSUME NEW i \in 1 .. Len(gids)
       PROVE  /\ rids[i] \in Roundid /\ rids[i].gid = gids[i] /\ rids[i].sid = newest[gids[i]].sid
              /\ rids[i].bid = bid /\ rids[i] = rid(gids[i])
  BY <1>7, <1>9
<1>13. rids \in [1 .. Len(gids) -> Roundid]
  BY <1>7, <1>12
<1>14. rids \in Seq(Roundid) /\ Len(rids) = Len(gids)
  <2> DEFINE n == Len(gids)
  <2>1. rids \in [1 .. n -> Roundid] /\ n \in Nat
    BY <1>7, <1>13
  <2> HIDE DEF rids, n
  <2>2. rids \in Seq(Roundid) /\ Len(rids) = n
    BY <2>1, FunctionIsSeq
  <2> QED
    BY <2>2 DEF n
<1>15. n_req + 1 \in 0 .. MaxRequest
  <2>1. n_req \in 0 .. MaxRequest /\ MaxRequest \in Nat
    BY <1>5, RequestAssumption DEF BegunInv, UInt32
  <2> QED
    BY <1>1, <2>1
<1>16. gen_txn_id(Self, n_req + 1) \in UInt64 /\ gen_txn_id(Self, n_req + 1) = TidOf(n_req + 1)
  BY <1>6, <1>15, TidFits DEF TidOf
<1>17. BeginsWith(req, t)
  <2> HIDE DEF rid, ginfo, rids, ginfos, bid
  <2>1. t \in Txn(req)
    BY <1>3, <1>11, <1>14, <1>16 DEF Txn
  <2>2. /\ t.in_phase = 1 /\ t.tid = TidOf(n_req + 1) /\ t.prop_max = NULL
        /\ t.rids = rids /\ t.ginfo = ginfos
    BY <1>3, <1>16
  <2>3. \A i \in 1 .. Len(t.rids) :
           /\ t.rids[i] \in Roundid /\ t.rids[i].gid = Groups(req)[i]
           /\ t.rids[i].sid = newest[t.rids[i].gid].sid
           /\ t.rids[i].bid \in {Word64(1), Word64(2)}
           /\ t.ginfo[t.rids[i].gid].rid = t.rids[i]
    BY <1>7, <1>8, <1>10, <1>12, <1>14, <2>2
  <2> QED
    BY <1>10, <1>14, <2>1, <2>2, <2>3 DEF BeginsWith
<1> QED
  BY <1>1, <1>4, <1>17

\* With it, the last request is that of the transaction, ...
LEMMA AttachedFirst ==
  ASSUME Inv, n_req' = n_req + 1, n_req < MaxRequest, newest' = newest,
         NEW req \in Requests, NEW t, BeginsWith(req, t), begun' = Append(begun, t.rids)
  PROVE  /\ Attached(t)' /\ Grown /\ n_req' \in 1 .. MaxRequest
         /\ t.req = req /\ t.rids \in Seq(Roundid) \ {<<>>}
         /\ begun' \in Seq(Seq(Roundid) \ {<<>>}) /\ Len(begun') = n_req'
         /\ begun'[n_req'] = t.rids
<1>1. BegunInv
  BY DEF Inv, RequestsInv
<1>2. n_req \in Nat /\ n_req' \in 1 .. MaxRequest /\ n_req \in 0 .. MaxRequest
  <2>1. n_req \in 0 .. MaxRequest /\ MaxRequest \in Nat
    BY <1>1, RequestAssumption DEF BegunInv, UInt32
  <2> QED
    BY <2>1
<1>3. t \in Txn(req)
  BY DEF BeginsWith
<1>4. t.req = req /\ t.rids \in Seq(Roundid)
  BY <1>3 DEF Txn
<1>5. t.rids \in Seq(Roundid) \ {<<>>}
  <2> DEFINE rids == t.rids
             len == Len(Groups(req))
  <2>1. rids \in Seq(Roundid) /\ Len(rids) = len /\ len \in Nat \ {0}
    BY <1>4, GroupsOfRequest DEF BeginsWith
  <2> HIDE DEF rids, len
  <2>2. rids # <<>>
    BY <2>1
  <2> QED
    BY <2>1, <2>2 DEF rids
<1>6. begun \in Seq(Seq(Roundid) \ {<<>>}) /\ Len(begun) = n_req
  BY <1>1 DEF BegunInv
<1>7. /\ begun' \in Seq(Seq(Roundid) \ {<<>>}) /\ Len(begun') = n_req'
      /\ begun'[n_req'] = t.rids /\ \A n \in 1 .. n_req : begun'[n] = begun[n]
  <2> DEFINE S == Seq(Roundid) \ {<<>>}
             rids == t.rids
  <2>1. begun \in Seq(S) /\ rids \in S /\ begun' = Append(begun, rids)
    BY <1>5, <1>6
  <2> HIDE DEF S, rids
  <2>2. /\ begun' \in Seq(S) /\ Len(begun') = n_req + 1
        /\ begun'[n_req + 1] = rids /\ \A n \in 1 .. n_req : begun'[n] = begun[n]
    BY <1>6, <2>1
  <2> QED
    BY <2>2 DEF S, rids
<1>8. Grown
  BY <1>2, <1>7 DEF Grown
<1>9. Attached(t)'
  <2>1. n_req' > 0 /\ t.tid = TidOf(n_req')
    BY <1>2 DEF BeginsWith
  <2>2. t.rids = begun'[n_req'] /\ Len(t.rids) = Len(Groups(t.req))
    BY <1>4, <1>7 DEF BeginsWith
  <2>3. \A i \in 1 .. Len(t.rids) :
           /\ t.rids[i].gid = Groups(t.req)[i] /\ t.rids[i].sid = newest'[t.rids[i].gid].sid
           /\ t.ginfo[t.rids[i].gid].rid = t.rids[i]
    BY <1>4 DEF BeginsWith
  <2>4. DOMAIN t.ginfo = Range(Groups(req))
    BY <1>3 DEF Txn
  <2>5. /\ t.prop_max = NULL /\ t.in_phase = 1
        /\ \A g \in DOMAIN t.ginfo : DOMAIN t.ginfo[g].accd = {}
    BY <2>4 DEF BeginsWith
  <2>6. t.req \in Requests /\ t \in Txn(t.req)
    BY <1>3, <1>4
  <2>7. t.in_phase # 2
    BY <2>5
  <2> QED
    BY <2>1, <2>2, <2>3, <2>5, <2>6, <2>7 DEF Attached
<1> QED
  BY <1>2, <1>4, <1>5, <1>7, <1>8, <1>9

\* ... whose slots nobody went for before.
NextRound(rid, n) ==
  /\ rid.gid \in DOMAIN newest'
  /\ rid.sid.hi = newest'[rid.gid].sid.hi /\ rid.sid.lo <= newest'[rid.gid].sid.lo
  /\ rid.sid.lo = newest'[rid.gid].sid.lo => n = n_req' /\ txn' # NULL
  /\ rid.bid \in {Word64(1), Word64(2)}

\* Its rounds are in slots that no request had before.
LEMMA BegunNext ==
  ASSUME Inv, n_req' = n_req + 1, n_req < MaxRequest, newest' = newest, txn = NULL, txn' # NULL,
         NEW req \in Requests, NEW t, BeginsWith(req, t), begun' = Append(begun, t.rids)
  PROVE  NewestInv' /\ BegunInv' /\ SlotUsedOnce'
<1>1. NewestInv /\ BegunInv /\ SlotUsedOnce
  BY DEF Inv, RequestsInv
<1>2. /\ Attached(t)' /\ Grown /\ n_req' \in 1 .. MaxRequest
      /\ t.req = req /\ t.rids \in Seq(Roundid) \ {<<>>}
      /\ begun' \in Seq(Seq(Roundid) \ {<<>>}) /\ Len(begun') = n_req'
      /\ begun'[n_req'] = t.rids
  BY AttachedFirst
<1>3. /\ n_req \in Nat /\ MaxRequest \in Nat /\ n_req \in 0 .. MaxRequest
      /\ \A n \in 1 .. n_req : begun'[n] = begun[n]
      /\ \A n \in 1 .. n_req' : n \in 1 .. n_req \/ n = n_req'
  <2>1. n_req \in Nat /\ MaxRequest \in Nat /\ n_req \in 0 .. MaxRequest
    BY <1>1, RequestAssumption DEF BegunInv, UInt32
  <2> QED
    BY <1>2, <2>1 DEF Grown
<1>4. NewestInv'
  <2>1. ASSUME NEW gid \in DOMAIN newest
        PROVE  /\ newest[gid] \in [sid : UInt64, is_me : BOOLEAN]
               /\ newest[gid].sid.lo + (MaxRequest - n_req') + 1 \in UInt32
    <3> DEFINE lo == newest[gid].sid.lo
    <3>1. newest[gid] \in [sid : UInt64, is_me : BOOLEAN] /\ lo + (MaxRequest - n_req) + 0 \in UInt32
      BY <1>1 DEF NewestInv
    <3>2. lo \in Nat
      BY <3>1 DEF UInt64, UInt32
    <3> HIDE DEF lo
    <3>3. lo + (MaxRequest - n_req') + 1 = lo + (MaxRequest - n_req) + 0
      BY <1>3, <3>2
    <3> QED
      BY <3>1, <3>3 DEF lo
  <2> QED
    BY <1>1, <2>1 DEF NewestInv
<1>5. ASSUME NEW n \in 1 .. n_req, NEW i \in 1 .. Len(begun[n])
      PROVE  /\ NextRound(begun[n][i], n)
             /\ begun[n][i].sid # newest[begun[n][i].gid].sid
             /\ \A j \in 1 .. Len(begun[n]) : begun[n][j].gid = begun[n][i].gid => i = j
  <2> DEFINE r == begun[n][i]
  <2>1. RoundOf(r, n) /\ \A j \in 1 .. Len(begun[n]) : begun[n][j].gid = r.gid => i = j
    BY <1>1 DEF BegunInv
  <2>2. r.sid.lo # newest[r.gid].sid.lo
    BY <2>1 DEF RoundOf
  <2>3. NextRound(r, n)
    BY <2>1, <2>2 DEF RoundOf, NextRound
  <2> QED
    BY <2>1, <2>2, <2>3
<1>6. ASSUME NEW i \in 1 .. Len(t.rids)
      PROVE  /\ t.rids[i].sid = newest[t.rids[i].gid].sid
             /\ NextRound(t.rids[i], n_req')
             /\ \A j \in 1 .. Len(t.rids) : t.rids[j].gid = t.rids[i].gid => i = j
  <2> DEFINE r == t.rids[i]
  <2>1. /\ r \in Roundid /\ r.gid = Groups(req)[i] /\ r.sid = newest[r.gid].sid
        /\ r.bid \in {Word64(1), Word64(2)} /\ Len(t.rids) = Len(Groups(req))
        /\ \A j \in 1 .. Len(t.rids) : t.rids[j].gid = Groups(req)[j]
    BY DEF BeginsWith
  <2>2. r.gid \in DOMAIN newest
    BY <1>1, <2>1, GroupsOfRequest DEF NewestInv
  <2>3. r.sid.lo <= newest[r.gid].sid.lo
    <3>1. newest[r.gid].sid.lo \in Nat
      BY <1>1, <2>2 DEF NewestInv, UInt64, UInt32
    <3> QED
      BY <2>1, <3>1
  <2>4. NextRound(r, n_req')
    BY <2>1, <2>2, <2>3 DEF NextRound
  <2>5. \A j \in 1 .. Len(t.rids) : t.rids[j].gid = r.gid => i = j
    BY <2>1, GroupsOfRequest
  <2> QED
    BY <2>1, <2>4, <2>5
<1>7. BegunInv'
  <2>1. ASSUME NEW n \in 1 .. n_req', NEW i \in 1 .. Len(begun'[n])
        PROVE  /\ RoundOf(begun[n][i], n)'
               /\ \A j \in 1 .. Len(begun'[n]) : begun'[n][j].gid = begun'[n][i].gid => i = j
    <3>1. CASE n \in 1 .. n_req
      <4>1. begun'[n] = begun[n]
        BY <1>3, <3>1
      <4> QED
        BY <1>5, <3>1, <4>1 DEF RoundOf, NextRound
    <3>2. CASE n = n_req'
      <4>1. begun'[n] = t.rids
        BY <1>2, <3>2
      <4> QED
        BY <1>6, <3>2, <4>1 DEF RoundOf, NextRound
    <3> QED
      BY <1>3, <3>1, <3>2
  <2>2. n_req' \in 0 .. MaxRequest
    BY <1>2
  <2> QED
    BY <1>2, <2>1, <2>2 DEF BegunInv
<1>8. SlotUsedOnce'
  <2> SUFFICES ASSUME NEW m \in 1 .. n_req', NEW n \in 1 .. n_req', m < n,
                      NEW r \in Range(begun'[m]), NEW s \in Range(begun'[n])
               PROVE  Key(r) # Key(s)
    BY <1>2 DEF SlotUsedOnce
  <2>1. m \in 1 .. n_req /\ begun'[m] = begun[m]
    <3>1. m \in 1 .. n_req
      <4> DEFINE all == n_req'
      <4>1. all = n_req + 1 /\ m \in 1 .. all /\ n \in 1 .. all
        OBVIOUS
      <4> HIDE DEF all
      <4> QED
        BY <1>3, <4>1
    <3> QED
      BY <1>3, <3>1
  <2>2. CASE n \in 1 .. n_req
    <3>1. begun'[n] = begun[n] /\ DOMAIN begun = 1 .. n_req
      BY <1>1, <1>3, <2>2 DEF BegunInv
    <3> QED
      BY <1>1, <2>1, <2>2, <3>1 DEF SlotUsedOnce
  <2>3. CASE n = n_req'
    <3>1. PICK i \in 1 .. Len(begun[m]) : begun[m][i] = r
      BY <1>1, <2>1, RoundsOfRequest
    <3>2. r.sid # newest[r.gid].sid
      BY <1>5, <2>1, <3>1
    <3>3. s \in Range(t.rids)
      BY <1>2, <2>3
    <3>4. PICK j \in 1 .. Len(t.rids) : t.rids[j] = s
      BY <1>2, <3>3 DEF Range
    <3>5. s.sid = newest[s.gid].sid
      BY <1>6, <3>4
    <3> QED
      BY <3>2, <3>5 DEF Key
  <2> QED
    BY <1>3, <2>2, <2>3
<1> QED
  BY <1>4, <1>7, <1>8

\* The committer aborts, or no process changes its stage, when it knows its id.
LEMMA ProcessesNext ==
  ASSUME Inv, n_req > 0 \/ stage[Committer] = "started", n_req' \in Nat,
         UNCHANGED startupVars \/ Abort(Committer)
  PROVE  StartupInv' /\ ProcessesInv'
<1>1. StartupInv /\ ProcessesInv /\ Committer \in Process
  BY RequestAssumption DEF Inv, RequestsInv
<1>2. stage \in [Process -> Stage]
  BY <1>1 DEF StartupInv, StartupTypeOK
<1>3. StartupInv'
  <2>1. CASE UNCHANGED startupVars
    BY <1>1, <2>1 DEF startupVars, StartupInv, StartupTypeOK, Served
  <2> QED
    BY <1>1, <2>1, AbortInv
<1>4. /\ stage[Committer] \in {"started", "aborted"} /\ arr_nodes[Committer] = NodeIds
      /\ \A p \in Process : stage[p] \in {"connecting", "started", "aborted"}
  <2>1. CASE n_req > 0
    BY <1>1, <2>1 DEF ProcessesInv
  <2>2. CASE stage[Committer] = "started"
    <3>1. arr_nodes[Committer] = NodeIds
      BY <1>1, <2>2 DEF StartupInv
    <3>2. \A p \in Process : stage[p] \in {"connecting", "started", "aborted"}
      BY <1>1, <2>2, StartupSafe DEF StartedReachesAll
    <3> QED
      BY <2>2, <3>1, <3>2
  <2> QED
    BY <2>1, <2>2
<1>5. /\ local_nid' = local_nid /\ arr_nodes' = arr_nodes
      /\ stage' = stage \/ stage' = [stage EXCEPT ![Committer] = "aborted"]
  BY DEF startupVars, Abort
<1>6. ProcessesInv'
  BY <1>1, <1>2, <1>4, <1>5 DEF ProcessesInv
<1> QED
  BY <1>3, <1>6

\* A request begins.
LEMMA StartRequestInv == ASSUME Inv, StartRequest PROVE Inv'
<1>1. /\ stage[Committer] = "started" /\ txn = NULL /\ n_req < MaxRequest /\ n_req' = n_req + 1
      /\ UNCHANGED <<newest, acc, reply, decided>>
  BY RequestBegins
<1>2. PICK req \in Requests : \E t :
        /\ BeginsWith(req, t) /\ begun' = Append(begun, t.rids)
        /\ \/ mpaxos_accept(t)
           \/ txn' = t /\ broadcast_msg_prepare(t) /\ UNCHANGED <<startupVars, coding>>
  BY RequestBegins
<1>3. PICK t : /\ BeginsWith(req, t) /\ begun' = Append(begun, t.rids)
               /\ \/ mpaxos_accept(t)
                  \/ txn' = t /\ broadcast_msg_prepare(t) /\ UNCHANGED <<startupVars, coding>>
  BY <1>2
<1>4. /\ Attached(t)' /\ Grown /\ n_req' \in 1 .. MaxRequest /\ n_req' \in 0 .. MaxRequest
      /\ t.req = req /\ n_req \in Nat /\ n_req' \in Nat
  <2>1. Attached(t)' /\ Grown /\ n_req' \in 1 .. MaxRequest /\ t.req = req
    BY <1>1, <1>3, AttachedFirst
  <2>2. n_req' \in 0 .. MaxRequest
    BY <2>1
  <2> QED
    BY <2>1, <2>2 DEF Grown
<1>5. ProcessesInv /\ OrderInv /\ CodingInv /\ DecidedInv /\ Committer \in Process
  BY RequestAssumption DEF Inv, RequestsInv
<1>6. Self = Me /\ DOMAIN link = Process /\ DOMAIN reply = Process
  BY <1>1, <1>5 DEF ProcessesInv, Self, Me, OrderInv
<1>7. \A g \in DOMAIN t.ginfo : DOMAIN t.ginfo[g].prom = {} /\ DOMAIN t.ginfo[g].accd = {}
  <2>1. DOMAIN t.ginfo = Range(Groups(req))
    BY <1>3 DEF BeginsWith, Txn
  <2> QED
    BY <1>3, <2>1 DEF BeginsWith
<1>8. PICK u : /\ txn' = u /\ Attached(u)' /\ u.ginfo = t.ginfo /\ CodingInv'
               /\ DOMAIN link' = Process
               /\ SentOrLost(2 * n_req') \/ SentOrLost(2 * n_req' + 1)
               /\ UNCHANGED startupVars \/ Abort(Committer)
               /\ u.in_phase = 1 => SentOrLost(2 * n_req')
  <2>1. CASE mpaxos_accept(t)
    <3>1. PICK u : Accepting(t, u)
      BY <1>4, <1>6, <2>1, AcceptsSent
    <3> QED
      BY <3>1 DEF Accepting
  <2>2. CASE txn' = t /\ broadcast_msg_prepare(t) /\ UNCHANGED <<startupVars, coding>>
    <3>1. DOMAIN link' = Process /\ SentOrLost(2 * n_req')
      BY <1>4, <1>6, <2>2, PreparesSent
    <3>2. CodingInv'
      BY <1>5, <2>2 DEF CodingInv
    <3> QED
      BY <1>4, <2>2, <3>1, <3>2
  <2> QED
    BY <1>3, <2>1, <2>2
<1>9. txn' # NULL
  <2>1. u.req \in Requests /\ u \in Txn(u.req)
    BY <1>8 DEF Attached
  <2> QED
    BY <1>8, <2>1, TxnAssumption
<1>10. NewestInv' /\ BegunInv' /\ SlotUsedOnce'
  BY <1>1, <1>3, <1>9, BegunNext
<1>11. QueuesNext
  <2>1. MayTake /\ DOMAIN reply' = Process
    BY <1>1, <1>6 DEF MayTake
  <2>2. \A q \in Process :
          /\ \A j \in 1 .. Len(link[q]) : Stamp(link[q][j]) < 2 * n_req'
          /\ \A i \in 1 .. Len(reply[q]) : Stamp(reply[q][i]) < 2 * n_req'
    <3>1. ASSUME NEW s \in Nat, s <= 2 * n_req + 1 PROVE s < 2 * n_req'
      BY <1>1, <1>4, <3>1
    <3> QED
      BY <3>1, ConnectionOk
  <2>3. \A q \in Process :
          /\ \A j \in 1 .. Len(link[q]) : Stamp(link[q][j]) < 2 * n_req' + 1
          /\ \A i \in 1 .. Len(reply[q]) : Stamp(reply[q][i]) < 2 * n_req' + 1
    <3>1. ASSUME NEW s \in Nat, s < 2 * n_req' PROVE s < 2 * n_req' + 1
      <4>1. \A n \in Nat : \A i \in Nat : i < 2 * n => i < 2 * n + 1
        OBVIOUS
      <4> QED
        BY <1>4, <3>1, <4>1
    <3> QED
      BY <2>2, <3>1, ConnectionOk
  <2>4. 2 * n_req' > 2 * n_req /\ 2 * n_req' + 1 > 2 * n_req /\ 2 * n_req' \in Nat /\ 2 * n_req' + 1 \in Nat
    BY <1>1, <1>4
  <2>5. CASE SentOrLost(2 * n_req')
    BY <1>8, <2>1, <2>2, <2>4, <2>5, CommitterQueues
  <2>6. CASE SentOrLost(2 * n_req' + 1)
    BY <1>8, <2>1, <2>3, <2>4, <2>6, CommitterQueues
  <2> QED
    BY <1>8, <2>5, <2>6
<1>12. TxnInv' /\ CountedInv'
  <2>1. TxnInv'
    BY <1>8 DEF TxnInv, Attached
  <2>2. \A g \in DOMAIN txn'.ginfo : DOMAIN txn'.ginfo[g].prom = {} /\ DOMAIN txn'.ginfo[g].accd = {}
    BY <1>7, <1>8
  <2>3. CountedInv'
    BY <2>2 DEF CountedInv, Counted
  <2> QED
    BY <2>1, <2>3
<1>13. StartupInv' /\ ProcessesInv'
  BY <1>1, <1>4, <1>8, ProcessesNext
<1>14. Cardinality(decided) + (IF txn' = NULL THEN 0 ELSE 1) <= n_req'
  <2> DEFINE c == Cardinality(decided)
  <2>1. c \in Nat /\ c + 0 <= n_req
    BY <1>1, <1>5, FS_CardinalityType DEF DecidedInv
  <2> HIDE DEF c
  <2>2. c + 1 <= n_req'
    BY <1>1, <1>4, <2>1
  <2> QED
    BY <1>9, <2>2 DEF c
<1>15. ASSUME InPhase1', NEW q \in Process
       PROVE  /\ \A j \in 1 .. Len(link'[q]) : Stamp(link'[q][j]) <= 2 * n_req'
              /\ \A i \in 1 .. Len(reply'[q]) : Stamp(reply'[q][i]) <= 2 * n_req'
  <2>1. SentOrLost(2 * n_req')
    BY <1>8, <1>15 DEF InPhase1
  <2>2. ASSUME NEW s \in Nat, s <= 2 * n_req + 1 PROVE s <= 2 * n_req'
    BY <1>1, <1>4, <2>2
  <2>3. /\ \A j \in 1 .. Len(link[q]) : Stamp(link[q][j]) <= 2 * n_req'
        /\ \A i \in 1 .. Len(reply[q]) : Stamp(reply[q][i]) <= 2 * n_req'
    BY <2>2, ConnectionOk
  <2>4. \A j \in 1 .. Len(link'[q]) : Stamp(link'[q][j]) <= 2 * n_req'
    <3>1. CASE link'[q] = link[q]
      BY <2>3, <3>1
    <3>2. CASE link'[q] = <<>>
      BY <3>2
    <3>3. CASE \E k : link'[q] = Append(link[q], k) /\ Asked(k)' /\ Stamp(k) = 2 * n_req'
      <4>1. PICK k : link'[q] = Append(link[q], k) /\ Stamp(k) = 2 * n_req'
        BY <3>3
      <4>2. link[q] \in Seq(Range(link[q]))
        BY ConnectionOk DEF QueuesOk
      <4>3. /\ Len(link[q]) \in Nat /\ Len(link'[q]) = Len(link[q]) + 1
            /\ \A i \in 1 .. Len(link[q]) : link'[q][i] = link[q][i]
            /\ link'[q][Len(link[q]) + 1] = k
        BY <4>1, <4>2, AppendQueue
      <4>4. \A j \in 1 .. Len(link'[q]) : j \in 1 .. Len(link[q]) \/ j = Len(link[q]) + 1
        BY <4>3
      <4>5. 2 * n_req' <= 2 * n_req'
        <5>1. \A n \in Nat : 2 * n <= 2 * n
          OBVIOUS
        <5> QED
          BY <1>4, <5>1
      <4> QED
        BY <2>3, <4>1, <4>3, <4>4, <4>5
    <3> QED
      BY <2>1, <3>1, <3>2, <3>3 DEF SentOrLost
  <2> QED
    BY <1>1, <2>3, <2>4
<1> QED
  BY <1>1, <1>4, <1>8, <1>10, <1>11, <1>12, <1>13, <1>14, <1>15, CommitterInv

-----------------------------------------------------------------------------
\* The proposer takes the answer k of p.
Takes(p, k) ==
  /\ reply[p] # <<>> /\ k = Head(reply[p]) /\ reply' = [reply EXCEPT ![p] = Tail(@)]

\* The answer is genuine, and earlier than all that is left.
LEMMA AnswerTaken ==
  ASSUME Inv, NEW p \in Process, NEW k, Takes(p, k)
  PROVE  /\ Answered(p, k) /\ k.meant \in Answer_t /\ Received(reply[p]) = {k.meant}
         /\ Request(k) \in 1 .. n_req /\ Stamp(k) \in Nat /\ k.meant.h.tid = TidOf(Request(k))
         /\ k.t = PROMISE => Stamp(k) = 2 * Request(k)
         /\ k.t = ACCEPTED => Stamp(k) = 2 * Request(k) + 1
         /\ k = reply[p][1] /\ 1 \in 1 .. Len(reply[p])
         /\ DOMAIN reply' = Process /\ MayTake
         /\ \A i \in 1 .. Len(reply'[p]) : Stamp(reply'[p][i]) > Stamp(k)
         /\ \A j \in 1 .. Len(link[p]) : Stamp(link[p][j]) > Stamp(k)
<1>1. QueuesOk(link[p], reply[p]) /\ n_req \in Nat /\ reply[p] # <<>> /\ k = Head(reply[p])
  BY ConnectionOk DEF Takes
<1>2. OrderInv
  BY DEF Inv, RequestsInv
<1>3. k = reply[p][1] /\ 1 \in 1 .. Len(reply[p])
  <2>1. reply[p] \in Seq(Range(reply[p]))
    BY <1>1 DEF QueuesOk
  <2> QED
    BY <1>1, <2>1, TailQueue
<1>4. Answered(p, k) /\ Genuine(k)
  BY <1>3, ConnectionOk
<1>5. Request(k) \in 1 .. n_req /\ Stamp(k) \in Nat
  BY <1>1, <1>4, StampOf
<1>6. /\ k.t = PROMISE => Stamp(k) = 2 * Request(k)
      /\ k.t = ACCEPTED => Stamp(k) = 2 * Request(k) + 1
  BY <1>1, <1>4, StampOf DEF PREPARE, PROMISE, ACCEPTED
<1>7. Unpacked(k) = k.meant
  <2>1. k.t \in {PROMISE, ACCEPTED} /\ k.meant \in Answer_t
    BY <1>4 DEF Answered
  <2>2. k = Packed(DescriptorOf(k.t), k.meant) /\ k.meant.h.t = k.t
    BY <1>4 DEF Genuine
  <2>3. CASE k.t = PROMISE
    BY <2>1, <2>2, <2>3, DescriptorsOf, AnswerIntact
  <2>4. CASE k.t = ACCEPTED
    BY <2>1, <2>2, <2>4, DescriptorsOf, AnswerIntact
  <2> QED
    BY <2>1, <2>3, <2>4
<1>8. Received(reply[p]) = {k.meant}
  BY <1>1, <1>7 DEF Received
<1>9. /\ DOMAIN reply' = Process /\ reply'[p] = Tail(reply[p])
      /\ \A q \in Process : q # p => reply'[q] = reply[q]
  BY <1>2 DEF Takes, OrderInv
<1>10. /\ \A i \in 1 .. Len(Tail(reply[p])) : Stamp(Tail(reply[p])[i]) > Stamp(k)
       /\ \A j \in 1 .. Len(link[p]) : Stamp(link[p][j]) > Stamp(k)
  BY <1>1, AnswerTakenInOrder
<1>11. MayTake
  BY <1>1, <1>9 DEF MayTake
<1>12. k.meant \in Answer_t /\ k.meant.h.tid = TidOf(Request(k))
  BY <1>4 DEF Answered, Genuine
<1> QED
  BY <1>3, <1>4, <1>5, <1>6, <1>8, <1>9, <1>10, <1>11, <1>12

\* While nothing is sent, the queues stay in order.
LEMMA TakenQueues ==
  ASSUME Inv, NEW p \in Process, NEW k, Takes(p, k), link' = link
  PROVE  QueuesNext /\ NothingSent
<1>1. DOMAIN reply' = Process /\ MayTake
  BY AnswerTaken
<1>2. DOMAIN link' = Process
  BY DEF Inv, RequestsInv, OrderInv
<1>3. n_req \in Nat
  BY ConnectionOk
<1>4. SentOrLost(2 * n_req + 2)
  BY DEF SentOrLost
<1>5. \A q \in Process :
        /\ \A j \in 1 .. Len(link[q]) : Stamp(link[q][j]) < 2 * n_req + 2
        /\ \A i \in 1 .. Len(reply[q]) : Stamp(reply[q][i]) < 2 * n_req + 2
  <2>1. ASSUME NEW s \in Nat, s <= 2 * n_req + 1 PROVE s < 2 * n_req + 2
    BY <1>3, <2>1
  <2> QED
    BY <2>1, ConnectionOk
<1>6. 2 * n_req + 2 \in Nat /\ 2 * n_req + 2 > 2 * n_req
  BY <1>3
<1>7. QueuesNext
  BY <1>1, <1>2, <1>4, <1>5, <1>6, CommitterQueues
<1> QED
  BY <1>7 DEF NothingSent, From

\* In phase 1 the queues have no stamp above it, and none is added.
LEMMA StampsStill ==
  ASSUME Inv, NEW p \in Process, NEW k, Takes(p, k), InPhase1, NEW q \in Process
  PROVE  /\ \A j \in 1 .. Len(link[q]) : Stamp(link[q][j]) <= 2 * n_req
         /\ \A i \in 1 .. Len(reply'[q]) : Stamp(reply'[q][i]) <= 2 * n_req
<1>1. /\ \A j \in 1 .. Len(link[q]) : Stamp(link[q][j]) <= 2 * n_req
      /\ \A i \in 1 .. Len(reply[q]) : Stamp(reply[q][i]) <= 2 * n_req
  BY DEF Inv, RequestsInv, OrderInv
<1>2. From(reply'[q], reply[q])
  <2>1. CASE reply'[q] = reply[q]
    BY <2>1 DEF From
  <2>2. CASE reply[q] # <<>> /\ reply'[q] = Tail(reply[q])
    <3>1. QueuesOk(link[q], reply[q])
      BY ConnectionOk
    <3> QED
      BY <2>2, <3>1, AnswerTakenInOrder
  <2>3. MayTake
    BY AnswerTaken
  <2> QED
    BY <2>1, <2>2, <2>3 DEF MayTake
<1> QED
  BY <1>1, <1>2 DEF From

\* Who was counted before is so after the step, as far as it loses no round.
LEMMA CountedStill ==
  ASSUME Inv, QueuesNext, UNCHANGED <<n_req, begun>>, KeepsOn, txn # NULL,
         NEW q \in Process, NEW g \in DOMAIN txn.ginfo
  PROVE  /\ NidOf(q) \in DOMAIN txn.ginfo[g].prom => NoStamp(q, 2 * n_req)'
         /\ NothingSent /\ NidOf(q) \in DOMAIN txn.ginfo[g].accd =>
              /\ NoStamp(q, 2 * n_req + 1)'
              /\ Len(begun'[n_req']) = 1 /\ Keeps(q, n_req)'
<1>1. CountedInv /\ TxnInv /\ n_req \in Nat
  BY ConnectionOk DEF Inv, RequestsInv
<1>2. n_req \in 1 .. n_req
  BY <1>1 DEF TxnInv, Attached
<1>3. /\ NidOf(q) \in DOMAIN txn.ginfo[g].prom => NoStamp(q, 2 * n_req)
      /\ NidOf(q) \in DOMAIN txn.ginfo[g].accd =>
           /\ NoStamp(q, 2 * n_req + 1)
           /\ Len(begun[n_req]) = 1 /\ Keeps(q, n_req)
  BY <1>1 DEF CountedInv, Counted, NoStamp
<1>4. 2 * n_req \in Nat /\ 2 * n_req + 1 \in Nat /\ 2 * n_req <= 2 * n_req
  BY <1>1
<1>5. \A s \in Nat : NoStamp(q, s) /\ (NothingSent \/ s <= 2 * n_req) => NoStamp(q, s)'
  BY <1>1, NoStampNext
<1>6. /\ NoStamp(q, 2 * n_req) => NoStamp(q, 2 * n_req)'
      /\ NothingSent /\ NoStamp(q, 2 * n_req + 1) => NoStamp(q, 2 * n_req + 1)'
  BY <1>4, <1>5 DEF NoStamp
<1>7. Len(begun[n_req]) = 1 /\ Keeps(q, n_req) => Keeps(q, n_req)'
  BY <1>2 DEF KeepsOn, Keeps
<1> QED
  BY <1>3, <1>6, <1>7

\* An answer to a transaction that is gone is dropped.
LEMMA OnlyTaken ==
  ASSUME Inv, NEW p \in Process, NEW k, Takes(p, k),
         UNCHANGED <<startupVars, n_req, txn, newest, acc, link, begun, coding, decided>>
  PROVE  Inv'
<1>1. QueuesNext /\ NothingSent
  BY TakenQueues
<1>2. /\ StartupInv /\ ProcessesInv /\ NewestInv /\ BegunInv /\ SlotUsedOnce /\ TxnInv /\ CodingInv
      /\ DecidedInv /\ OrderInv
  BY DEF Inv, RequestsInv
<1>3. Grown
  BY ConnectionOk DEF Grown
<1>4. KeepsOn
  BY <1>3, KeepsSame
<1>5. StartupInv' /\ ProcessesInv'
  BY <1>2 DEF startupVars, StartupInv, StartupTypeOK, Served, ProcessesInv
<1>6. NewestInv' /\ BegunInv' /\ SlotUsedOnce' /\ CodingInv'
  BY <1>2 DEF NewestInv, BegunInv, RoundOf, SlotUsedOnce, CodingInv
<1>7. TxnInv'
  BY <1>2 DEF TxnInv, Attached
<1>8. CountedInv'
  BY <1>1, <1>4, CountedStill DEF CountedInv, Counted, NoStamp
<1>9. Cardinality(decided) + (IF txn' = NULL THEN 0 ELSE 1) <= n_req'
  BY <1>2 DEF DecidedInv
<1>10. ASSUME InPhase1', NEW q \in Process
       PROVE  /\ \A j \in 1 .. Len(link'[q]) : Stamp(link'[q][j]) <= 2 * n_req'
              /\ \A i \in 1 .. Len(reply'[q]) : Stamp(reply'[q][i]) <= 2 * n_req'
  <2>1. InPhase1
    BY <1>10 DEF InPhase1
  <2> QED
    BY <2>1, StampsStill
<1> QED
  BY <1>1, <1>3, <1>5, <1>6, <1>7, <1>8, <1>9, <1>10, CommitterInv

-----------------------------------------------------------------------------
\* An answer to the transaction that is attached is of the last request, ...
LEMMA CurrentIsLast ==
  ASSUME Inv, NEW k, k.meant.h.tid = TidOf(Request(k)), NEW phase, Current(k.meant, phase)
  PROVE  Request(k) = n_req /\ txn # NULL /\ txn.in_phase = phase /\ Attached(txn) /\ n_req \in 1 .. n_req
<1>1. TxnInv /\ n_req \in Nat
  <2>1. TxnInv /\ BegunInv
    BY DEF Inv, RequestsInv
  <2> QED
    BY <2>1, RequestAssumption DEF BegunInv, UInt32
<1>2. txn # NULL /\ txn.tid = k.meant.h.tid /\ txn.in_phase = phase
  BY DEF Current
<1>3. Attached(txn)
  BY <1>1, <1>2 DEF TxnInv
<1>4. TidOf(n_req) = TidOf(Request(k)) /\ n_req \in 1 .. n_req
  BY <1>1, <1>2, <1>3 DEF Attached
<1> QED
  BY <1>2, <1>3, <1>4 DEF TidOf, gen_txn_id

\* ... its responses are for the rounds of the transaction, ...
LEMMA ResponsesOfTxn ==
  ASSUME Inv, NEW p \in Process, NEW k, Answered(p, k), Request(k) = n_req, Attached(txn)
  PROVE  /\ k.meant.ress \in Seq(Bare) /\ k.meant.h.nid = NidOf(p) /\ NidOf(p) \in Range(NodeIds)
         /\ DOMAIN txn.ginfo = Range(Groups(txn.req))
         /\ \A i \in 1 .. Len(k.meant.ress) : k.meant.ress[i].rid.gid \in Range(Groups(txn.req))
         /\ \A res \in Range(k.meant.ress) : res.rid.gid \in DOMAIN txn.ginfo
<1>1. /\ txn.rids = begun[n_req] /\ txn.req \in Requests /\ txn \in Txn(txn.req)
      /\ Len(txn.rids) = Len(Groups(txn.req))
      /\ \A i \in 1 .. Len(txn.rids) : txn.rids[i].gid = Groups(txn.req)[i]
  BY DEF Attached
<1>2. k.meant \in Answer_t /\ k.meant.h.nid = NidOf(p)
  BY DEF Answered
<1>3. /\ Len(k.meant.ress) = Len(begun[n_req])
      /\ \A j \in 1 .. Len(begun[n_req]) : k.meant.ress[j].rid = begun[n_req][j]
  BY DEF Answered
<1>4. k.meant.ress \in Seq(Bare)
  BY <1>2 DEF Answer_t
<1>5. \A i \in 1 .. Len(k.meant.ress) : k.meant.ress[i].rid.gid \in Range(Groups(txn.req))
  BY <1>1, <1>3, GroupsOfRequest
<1>6. DOMAIN txn.ginfo = Range(Groups(txn.req))
  BY <1>1 DEF Txn
<1>7. \A res \in Range(k.meant.ress) : \E i \in 1 .. Len(k.meant.ress) : res = k.meant.ress[i]
  BY <1>4 DEF Range
<1>8. NidOf(p) \in Range(NodeIds)
  BY NodeIdsOfProcesses
<1> QED
  BY <1>2, <1>4, <1>5, <1>6, <1>7, <1>8

\* ... and it was not counted before.
LEMMA NeverRepeated ==
  ASSUME Inv, NEW p \in Process, NEW k, Takes(p, k), Request(k) = n_req, txn # NULL, Attached(txn),
         NEW table,
         (k.t = PROMISE /\ table = "prom") \/ (k.t = ACCEPTED /\ table = "accd")
  PROVE  ~ Repeated(k.meant, table)
<1> SUFFICES ASSUME NEW res \in Range(k.meant.ress),
                    k.meant.h.nid \in DOMAIN txn.ginfo[res.rid.gid][table]
             PROVE  FALSE
  BY DEF Repeated
<1>1. /\ Answered(p, k) /\ k = reply[p][1] /\ 1 \in 1 .. Len(reply[p])
      /\ k.t = PROMISE => Stamp(k) = 2 * n_req
      /\ k.t = ACCEPTED => Stamp(k) = 2 * n_req + 1
  BY AnswerTaken
<1>2. k.meant.h.nid = NidOf(p) /\ res.rid.gid \in DOMAIN txn.ginfo
  BY <1>1, ResponsesOfTxn
<1>3. Counted(txn)
  BY DEF Inv, RequestsInv, CountedInv
<1>4. CASE k.t = PROMISE /\ table = "prom"
  <2>1. NidOf(p) \in DOMAIN txn.ginfo[res.rid.gid].prom
    BY <1>2, <1>4
  <2>2. Stamp(reply[p][1]) # 2 * n_req
    BY <1>1, <1>2, <1>3, <2>1 DEF Counted
  <2> QED
    BY <1>1, <1>4, <2>2
<1>5. CASE k.t = ACCEPTED /\ table = "accd"
  <2>1. NidOf(p) \in DOMAIN txn.ginfo[res.rid.gid].accd
    BY <1>2, <1>5
  <2>2. Stamp(reply[p][1]) # 2 * n_req + 1
    BY <1>1, <1>2, <1>3, <2>1 DEF Counted
  <2> QED
    BY <1>1, <1>5, <2>2
<1> QED
  BY <1>4, <1>5

\* The transaction with the answer counted is attached as well, ...
LEMMA CountedAttached ==
  ASSUME Inv, NEW p \in Process, NEW k, Answered(p, k), Request(k) = n_req, Attached(txn),
         NEW table \in {"prom", "accd"}, txn.in_phase = IF table = "prom" THEN 1 ELSE 2,
         NEW t, t = Count(txn, k.meant.h.nid, table, k.meant.ress)
  PROVE  /\ CountedAs(txn, t, NidOf(p), table) /\ Attached(t) /\ t.in_phase = txn.in_phase
         /\ t.req = txn.req /\ DOMAIN t.ginfo = DOMAIN txn.ginfo
<1> DEFINE req == txn.req
           ress == k.meant.ress
<1>1. /\ ress \in Seq(Bare) /\ k.meant.h.nid = NidOf(p) /\ NidOf(p) \in Range(NodeIds)
      /\ DOMAIN txn.ginfo = Range(Groups(req))
      /\ \A i \in 1 .. Len(ress) : ress[i].rid.gid \in Range(Groups(req))
  BY ResponsesOfTxn
<1>2. req \in Requests /\ txn \in Txn(req)
  BY DEF Attached
<1> HIDE DEF ress, req
<1>3. CountedAs(txn, t, NidOf(p), table)
  <2>1. t = Count(txn, NidOf(p), table, ress)
    BY <1>1 DEF ress
  <2> QED
    BY <1>1, <1>2, <2>1, CountKeeps
<1>4. /\ t \in Txn(req) /\ t.tid = txn.tid /\ t.in_phase = txn.in_phase /\ t.rids = txn.rids
      /\ t.prop_max = txn.prop_max /\ t.prop = txn.prop
      /\ \A g \in Range(Groups(req)) :
           /\ t.ginfo[g].rid = txn.ginfo[g].rid
           /\ table = "prom" => DOMAIN t.ginfo[g].accd \subseteq DOMAIN txn.ginfo[g].accd
  BY <1>3 DEF CountedAs, req
<1>5. t.req = req /\ DOMAIN t.ginfo = Range(Groups(req))
  BY <1>4 DEF Txn
<1>6. \A i \in 1 .. Len(t.rids) :
        /\ t.rids[i].gid = Groups(t.req)[i] /\ t.rids[i].sid = newest[t.rids[i].gid].sid
        /\ t.ginfo[t.rids[i].gid].rid = t.rids[i]
  <2>1. /\ Len(txn.rids) = Len(Groups(req))
        /\ \A i \in 1 .. Len(txn.rids) :
             /\ txn.rids[i].gid = Groups(req)[i] /\ txn.rids[i].sid = newest[txn.rids[i].gid].sid
             /\ txn.ginfo[txn.rids[i].gid].rid = txn.rids[i]
    BY DEF Attached, req
  <2>2. \A i \in 1 .. Len(Groups(req)) : Groups(req)[i] \in Range(Groups(req))
    BY <1>2, GroupsOfRequest
  <2> QED
    BY <1>4, <1>5, <2>1, <2>2
<1>7. t.in_phase = 1 => \A g \in DOMAIN t.ginfo : DOMAIN t.ginfo[g].accd = {}
  <2> SUFFICES ASSUME t.in_phase = 1, NEW g \in DOMAIN t.ginfo PROVE DOMAIN t.ginfo[g].accd = {}
    OBVIOUS
  <2>1. table = "prom" /\ txn.in_phase = 1 /\ g \in Range(Groups(req)) /\ g \in DOMAIN txn.ginfo
    BY <1>1, <1>4, <1>5
  <2>2. DOMAIN txn.ginfo[g].accd = {}
    BY <2>1 DEF Attached
  <2> QED
    BY <1>4, <2>1, <2>2
<1>8. Attached(t)
  <2>1. n_req > 0 /\ txn.tid = TidOf(n_req) /\ txn.rids = begun[n_req] /\ Len(txn.rids) = Len(Groups(req))
    BY DEF Attached, req
  <2>2. txn.prop_max = NULL
    BY DEF Attached
  <2>3. txn.in_phase = 2 => txn.prop.rids = txn.rids /\ txn.prop.nid = Me /\ txn.prop \in Proposal
    BY DEF Attached
  <2>4. t.in_phase = 2 => t.prop.rids = t.rids /\ t.prop.nid = Me /\ t.prop \in Proposal
    BY <1>4, <2>3
  <2> QED
    BY <1>2, <1>4, <1>5, <1>6, <1>7, <2>1, <2>2, <2>4 DEF Attached
<1> QED
  BY <1>1, <1>3, <1>4, <1>5, <1>8 DEF req

\* ... and whoever is counted will not answer again, and keeps the round if it accepted.
LEMMA CountedNext ==
  ASSUME Inv, NEW p \in Process, NEW k, Takes(p, k), Request(k) = n_req, Attached(txn), txn # NULL,
         NEW table, (k.t = PROMISE /\ table = "prom") \/ (k.t = ACCEPTED /\ table = "accd"),
         NEW t, CountedAs(txn, t, NidOf(p), table), DOMAIN t.ginfo = DOMAIN txn.ginfo,
         QueuesNext, KeepsOn, UNCHANGED <<n_req, begun>>,
         NothingSent \/ (txn.in_phase = 1 /\ table = "prom"),
         NEW u, u.ginfo = t.ginfo
  PROVE  Counted(u)'
<1>1. /\ Answered(p, k) /\ Stamp(k) \in Nat
      /\ k.t = PROMISE => Stamp(k) = 2 * n_req
      /\ k.t = ACCEPTED => Stamp(k) = 2 * n_req + 1
      /\ \A i \in 1 .. Len(reply'[p]) : Stamp(reply'[p][i]) > Stamp(k)
      /\ \A j \in 1 .. Len(link[p]) : Stamp(link[p][j]) > Stamp(k)
  BY AnswerTaken
<1>2. n_req \in Nat /\ n_req \in 1 .. n_req /\ txn \in Txn(txn.req)
  BY ConnectionOk DEF Attached
<1>3. DOMAIN txn.ginfo = Range(Groups(txn.req))
  BY <1>2 DEF Txn
<1>4. NothingSent \/ k.t = PROMISE => NoStamp(p, Stamp(k))'
  <2>1. ASSUME NEW s \in Nat, s > Stamp(k) PROVE s # Stamp(k)
    BY <1>1, <2>1
  <2>2. \A i \in 1 .. Len(reply'[p]) : Stamp(reply'[p][i]) \in Nat
    BY DEF QueuesNext, QueuesStep, QueuesOk
  <2>3. \A i \in 1 .. Len(reply'[p]) : Stamp(reply'[p][i]) # Stamp(k)
    BY <1>1, <2>1, <2>2
  <2>4. \A j \in 1 .. Len(link[p]) : Stamp(link[p][j]) # Stamp(k)
    BY <1>1, <2>1, ConnectionOk
  <2>5. ASSUME NEW j \in 1 .. Len(link'[p]), NothingSent \/ k.t = PROMISE
        PROVE  Stamp(link'[p][j]) # Stamp(k)
    <3>1. CASE \E i \in 1 .. Len(link[p]) : link'[p][j] = link[p][i]
      BY <2>4, <3>1
    <3>2. CASE NothingSent
      BY <2>4, <3>2 DEF NothingSent, From
    <3>3. CASE k.t = PROMISE /\ Stamp(link'[p][j]) > 2 * n_req
      <4>1. Stamp(link'[p][j]) \in Nat
        BY DEF QueuesNext, QueuesStep, QueuesOk
      <4>2. Stamp(link'[p][j]) > Stamp(k)
        BY <1>1, <3>3
      <4> QED
        BY <2>1, <4>1, <4>2
    <3> QED
      BY <2>5, <3>1, <3>2, <3>3 DEF QueuesNext, QueuesStep
  <2> QED
    BY <2>3, <2>5 DEF NoStamp
<1>5. ASSUME NEW q \in Process, NEW g \in DOMAIN txn.ginfo, NidOf(q) \in DOMAIN t.ginfo[g].prom
      PROVE  NoStamp(q, 2 * n_req)'
  <2>1. CASE NidOf(q) \in DOMAIN txn.ginfo[g].prom
    BY <2>1, CountedStill
  <2>2. CASE NidOf(q) \notin DOMAIN txn.ginfo[g].prom
    <3>1. table = "prom" /\ NidOf(q) = NidOf(p)
      BY <1>3, <1>5, <2>2 DEF CountedAs
    <3>2. q = p /\ k.t = PROMISE
      BY <3>1, NodeIdsOfProcesses
    <3> QED
      BY <1>1, <1>4, <3>2 DEF NoStamp
  <2> QED
    BY <2>1, <2>2
<1>6. ASSUME NEW q \in Process, NEW g \in DOMAIN txn.ginfo, NidOf(q) \in DOMAIN t.ginfo[g].accd
      PROVE  /\ NoStamp(q, 2 * n_req + 1)'
             /\ Len(begun'[n_req']) = 1 /\ Keeps(q, n_req)'
  <2>1. CASE NidOf(q) \in DOMAIN txn.ginfo[g].accd
    <3>1. NothingSent
      <4>1. CASE txn.in_phase = 1
        BY <2>1, <4>1 DEF Attached
      <4> QED
        BY <4>1
    <3> QED
      BY <2>1, <3>1, CountedStill
  <2>2. CASE NidOf(q) \notin DOMAIN txn.ginfo[g].accd
    <3>1. table = "accd" /\ NidOf(q) = NidOf(p)
      BY <1>3, <1>6, <2>2 DEF CountedAs
    <3>2. q = p /\ k.t = ACCEPTED /\ NothingSent
      BY <3>1, NodeIdsOfProcesses
    <3>3. Len(begun[n_req]) = 1 /\ Keeps(p, n_req)
      BY <1>1, <3>2 DEF Answered
    <3>4. Keeps(p, n_req)'
      <4>1. \E n \in {n_req} : Keeps(p, n)'
        BY <1>2, <3>3 DEF KeepsOn
      <4> QED
        BY <4>1 DEF Keeps
    <3> QED
      BY <1>1, <1>4, <3>2, <3>3, <3>4 DEF NoStamp
  <2> QED
    BY <2>1, <2>2
<1> QED
  BY <1>5, <1>6 DEF Counted, NoStamp

-----------------------------------------------------------------------------
\* A transaction given up, or left in its phase, is attached as well.
WithPhase(t, phase) == [t EXCEPT !.in_phase = phase]

\* It has the tables it had.
LEMMA PhaseSet ==
  ASSUME NEW t, Attached(t), t.in_phase \in {1, 2}, NEW phase \in {-1, t.in_phase},
         NEW u, u = WithPhase(t, phase)
  PROVE  Attached(u) /\ u.ginfo = t.ginfo /\ u.in_phase = phase
<1>1. t.req \in Requests /\ t \in Txn(t.req)
  BY DEF Attached
<1>2. phase \in {-1, 1, 2}
  OBVIOUS
<1>3. u \in Txn(t.req) /\ u.in_phase = phase
  BY <1>1, <1>2 DEF Txn, WithPhase
<1>4. /\ u.tid = t.tid /\ u.req = t.req /\ u.rids = t.rids /\ u.ginfo = t.ginfo
      /\ u.prop_max = t.prop_max /\ u.prop = t.prop
  BY <1>1 DEF Txn, WithPhase
<1>5. u.in_phase = 1 => t.in_phase = 1
  BY <1>3
<1>6. u.in_phase = 2 => t.in_phase = 2
  BY <1>3
<1> QED
  BY <1>3, <1>4, <1>5, <1>6 DEF Attached

\* An answer that is counted, and no majority yet.
LEMMA OnlyCounted ==
  ASSUME Inv, NEW p \in Process, NEW k, Takes(p, k), Request(k) = n_req, Attached(txn), txn # NULL,
         NEW table, (k.t = PROMISE /\ table = "prom") \/ (k.t = ACCEPTED /\ table = "accd"),
         NEW t, CountedAs(txn, t, NidOf(p), table), DOMAIN t.ginfo = DOMAIN txn.ginfo,
         Attached(t), t.in_phase = txn.in_phase, txn.in_phase \in {1, 2},
         NEW phase \in {-1, txn.in_phase}, NEW u, u = WithPhase(t, phase), txn' = u,
         UNCHANGED <<startupVars, n_req, newest, acc, link, begun, coding, decided>>
  PROVE  Inv'
<1>1. QueuesNext /\ NothingSent
  BY TakenQueues
<1>2. /\ StartupInv /\ ProcessesInv /\ NewestInv /\ BegunInv /\ SlotUsedOnce /\ TxnInv /\ CodingInv
      /\ DecidedInv /\ OrderInv
  BY DEF Inv, RequestsInv
<1>3. Grown
  BY ConnectionOk DEF Grown
<1>4. KeepsOn
  BY <1>3, KeepsSame
<1>5. StartupInv' /\ ProcessesInv'
  BY <1>2 DEF startupVars, StartupInv, StartupTypeOK, Served, ProcessesInv
<1>6. Attached(u) /\ u.ginfo = t.ginfo /\ u.in_phase = phase
  BY PhaseSet
<1>7. txn' # NULL
  <2>1. u.req \in Requests /\ u \in Txn(u.req)
    BY <1>6 DEF Attached
  <2> QED
    BY <2>1, TxnAssumption
<1>8. NewestInv' /\ BegunInv' /\ SlotUsedOnce' /\ CodingInv'
  BY <1>2, <1>7 DEF NewestInv, BegunInv, RoundOf, SlotUsedOnce, CodingInv
<1>9. TxnInv'
  BY <1>6 DEF TxnInv, Attached
<1>10. CountedInv'
  <2>1. Counted(u)'
    BY <1>1, <1>4, <1>6, CountedNext
  <2> QED
    BY <2>1 DEF CountedInv, Counted
<1>11. Cardinality(decided) + (IF txn' = NULL THEN 0 ELSE 1) <= n_req'
  BY <1>2, <1>7 DEF DecidedInv
<1>12. ASSUME InPhase1', NEW q \in Process
       PROVE  /\ \A j \in 1 .. Len(link'[q]) : Stamp(link'[q][j]) <= 2 * n_req'
              /\ \A i \in 1 .. Len(reply'[q]) : Stamp(reply'[q][i]) <= 2 * n_req'
  <2>1. InPhase1
    BY <1>6, <1>12 DEF InPhase1
  <2> QED
    BY <2>1, StampsStill
<1> QED
  BY <1>1, <1>3, <1>5, <1>8, <1>9, <1>10, <1>11, <1>12, CommitterInv

\* A majority of promises: phase 2.
LEMMA PromisesComplete ==
  ASSUME Inv, NEW p \in Process, NEW k, Takes(p, k), Request(k) = n_req, Attached(txn), txn # NULL,
         k.t = PROMISE, NEW t, CountedAs(txn, t, NidOf(p), "prom"), DOMAIN t.ginfo = DOMAIN txn.ginfo,
         Attached(t), txn.in_phase = 1, mpaxos_accept(t),
         UNCHANGED <<n_req, newest, acc, begun, decided>>
  PROVE  Inv'
<1>1. /\ ProcessesInv /\ OrderInv /\ NewestInv /\ BegunInv /\ SlotUsedOnce /\ DecidedInv
  BY DEF Inv, RequestsInv
<1>2. n_req \in Nat /\ n_req > 0 /\ n_req \in 0 .. MaxRequest
  BY <1>1, ConnectionOk DEF Attached, BegunInv
<1>3. Self = Me /\ DOMAIN link = Process
  BY <1>1, <1>2, KnownIds DEF OrderInv
<1>4. Attached(t)'
  BY DEF Attached
<1>5. PICK u : Accepting(t, u)
  BY <1>2, <1>3, <1>4, AcceptsSent
<1>6. /\ txn' = u /\ Attached(u)' /\ u.in_phase = 2 /\ u.ginfo = t.ginfo /\ CodingInv'
      /\ DOMAIN link' = Process /\ SentOrLost(2 * n_req + 1)
      /\ UNCHANGED startupVars \/ Abort(Committer)
  BY <1>5 DEF Accepting
<1>7. Grown
  BY <1>2 DEF Grown
<1>8. KeepsOn
  BY <1>7, KeepsSame
<1>9. QueuesNext
  <2>1. MayTake /\ DOMAIN reply' = Process
    BY AnswerTaken
  <2>2. \A q \in Process :
          /\ \A j \in 1 .. Len(link[q]) : Stamp(link[q][j]) < 2 * n_req + 1
          /\ \A i \in 1 .. Len(reply[q]) : Stamp(reply[q][i]) < 2 * n_req + 1
    <3>1. ASSUME NEW s \in Nat, s <= 2 * n_req PROVE s < 2 * n_req + 1
      BY <1>2, <3>1
    <3>2. \A q \in Process :
            /\ \A j \in 1 .. Len(link[q]) : Stamp(link[q][j]) <= 2 * n_req
            /\ \A i \in 1 .. Len(reply[q]) : Stamp(reply[q][i]) <= 2 * n_req
      BY <1>1 DEF OrderInv, InPhase1
    <3> QED
      BY <3>1, <3>2, ConnectionOk
  <2>3. 2 * n_req + 1 \in Nat /\ 2 * n_req + 1 > 2 * n_req
    BY <1>2
  <2> QED
    BY <1>6, <2>1, <2>2, <2>3, CommitterQueues
<1>10. txn' # NULL
  <2>1. u.req \in Requests /\ u \in Txn(u.req)
    BY <1>6 DEF Attached
  <2> QED
    BY <1>6, <2>1, TxnAssumption
<1>11. NewestInv' /\ BegunInv' /\ SlotUsedOnce'
  BY <1>1, <1>10 DEF NewestInv, BegunInv, RoundOf, SlotUsedOnce
<1>12. TxnInv'
  BY <1>6 DEF TxnInv, Attached
<1>13. CountedInv'
  <2>1. Counted(u)'
    BY <1>6, <1>8, <1>9, CountedNext
  <2> QED
    BY <1>6, <2>1 DEF CountedInv, Counted
<1>14. StartupInv' /\ ProcessesInv'
  BY <1>2, <1>6, ProcessesNext
<1>15. Cardinality(decided) + (IF txn' = NULL THEN 0 ELSE 1) <= n_req'
  BY <1>1, <1>10 DEF DecidedInv
<1>16. ~ InPhase1'
  BY <1>6 DEF InPhase1
<1> QED
  BY <1>6, <1>7, <1>9, <1>11, <1>12, <1>13, <1>14, <1>15, <1>16, CommitterInv

\* handle_msg_promise: the answer is dropped, or counted, and then perhaps phase 2
\* begins; no answer comes twice.
PromiseCounted(p, k) ==
  /\ Request(k) = n_req /\ txn # NULL /\ txn.in_phase = 1 /\ Attached(txn)
  /\ \E t : /\ CountedAs(txn, t, NidOf(p), "prom") /\ Attached(t) /\ t.in_phase = 1
            /\ DOMAIN t.ginfo = DOMAIN txn.ginfo
            /\ \/ mpaxos_accept(t)
               \/ \E phase \in {-1, 1} : /\ txn' = WithPhase(t, phase)
                                         /\ UNCHANGED <<startupVars, link, coding>>

\* These are the cases of handle_msg_promise.
LEMMA PromiseHandled ==
  ASSUME Inv, NEW p \in Process, HandlePromise(p)
  PROVE  /\ UNCHANGED <<n_req, newest, acc, begun, decided>>
         /\ \E k : /\ Takes(p, k) /\ k.t = PROMISE
                   /\ UNCHANGED <<startupVars, txn, link, coding>> \/ PromiseCounted(p, k)
<1>1. PICK k : Takes(p, k) /\ k.t = PROMISE
  BY DEF HandlePromise, TakeReply, Takes
<1>2. /\ Answered(p, k) /\ Received(reply[p]) = {k.meant} /\ k.meant.h.tid = TidOf(Request(k))
      /\ UNCHANGED <<n_req, newest, acc, begun, decided>>
  BY <1>1, AnswerTaken DEF HandlePromise
<1>3. IF ~ Current(k.meant, 1) THEN UNCHANGED <<startupVars, txn, link, coding>>
      ELSE IF Repeated(k.meant, "prom") THEN AbortCommitter /\ UNCHANGED <<txn, coding>>
      ELSE \E t \in {Count(txn, k.meant.h.nid, "prom", k.meant.ress)} :
             \E verdict \in check_majority(t, "prom") :
               IF verdict = "YES" THEN mpaxos_accept(t)
               ELSE /\ txn' = [t EXCEPT !.in_phase = IF verdict = "NO" THEN -1 ELSE 1]
                    /\ UNCHANGED <<startupVars, link, coding>>
  BY <1>2 DEF HandlePromise
<1>4. CASE ~ Current(k.meant, 1)
  BY <1>1, <1>2, <1>3, <1>4
<1>5. CASE Current(k.meant, 1)
  <2>1. Request(k) = n_req /\ txn # NULL /\ txn.in_phase = 1 /\ Attached(txn)
    BY <1>2, <1>5, CurrentIsLast
  <2>2. ~ Repeated(k.meant, "prom")
    BY <1>1, <2>1, NeverRepeated
  <2>3. PICK t \in {Count(txn, k.meant.h.nid, "prom", k.meant.ress)} :
          \E verdict \in check_majority(t, "prom") :
            IF verdict = "YES" THEN mpaxos_accept(t)
            ELSE /\ txn' = [t EXCEPT !.in_phase = IF verdict = "NO" THEN -1 ELSE 1]
                 /\ UNCHANGED <<startupVars, link, coding>>
    BY <1>3, <1>5, <2>2
  <2>4. /\ CountedAs(txn, t, NidOf(p), "prom") /\ Attached(t) /\ t.in_phase = 1
        /\ DOMAIN t.ginfo = DOMAIN txn.ginfo
    BY <1>2, <2>1, <2>3, CountedAttached
  <2>5. \/ mpaxos_accept(t)
        \/ \E phase \in {-1, 1} : /\ txn' = WithPhase(t, phase)
                                  /\ UNCHANGED <<startupVars, link, coding>>
    BY <2>3 DEF WithPhase
  <2>6. PromiseCounted(p, k)
    BY <2>1, <2>4, <2>5 DEF PromiseCounted
  <2> QED
    BY <1>1, <1>2, <2>6
<1> QED
  BY <1>4, <1>5

\* It keeps the invariant.
LEMMA HandlePromiseInv == ASSUME Inv, NEW p \in Process, HandlePromise(p) PROVE Inv'
<1>1. PICK k : /\ Takes(p, k) /\ k.t = PROMISE
               /\ UNCHANGED <<startupVars, txn, link, coding>> \/ PromiseCounted(p, k)
  BY PromiseHandled
<1>2. UNCHANGED <<n_req, newest, acc, begun, decided>>
  BY PromiseHandled
<1>3. CASE UNCHANGED <<startupVars, txn, link, coding>>
  BY <1>1, <1>2, <1>3, OnlyTaken
<1>4. CASE PromiseCounted(p, k)
  <2>1. Request(k) = n_req /\ txn # NULL /\ txn.in_phase = 1 /\ Attached(txn)
    BY <1>4 DEF PromiseCounted
  <2>2. PICK t : /\ CountedAs(txn, t, NidOf(p), "prom") /\ Attached(t) /\ t.in_phase = 1
                 /\ DOMAIN t.ginfo = DOMAIN txn.ginfo
                 /\ \/ mpaxos_accept(t)
                    \/ \E phase \in {-1, 1} : /\ txn' = WithPhase(t, phase)
                                              /\ UNCHANGED <<startupVars, link, coding>>
    BY <1>4 DEF PromiseCounted
  <2>3. CASE mpaxos_accept(t)
    BY <1>1, <1>2, <2>1, <2>2, <2>3, PromisesComplete
  <2>4. CASE \E phase \in {-1, 1} : /\ txn' = WithPhase(t, phase)
                                    /\ UNCHANGED <<startupVars, link, coding>>
    <3>1. PICK phase \in {-1, 1} : txn' = WithPhase(t, phase)
      BY <2>4
    <3>2. PICK u : u = WithPhase(t, phase)
      OBVIOUS
    <3>3. txn' = u /\ phase \in {-1, txn.in_phase} /\ txn.in_phase \in {1, 2} /\ t.in_phase = txn.in_phase
      BY <2>1, <2>2, <3>1, <3>2
    <3> QED
      BY <1>1, <1>2, <2>1, <2>2, <2>4, <3>2, <3>3, OnlyCounted
  <2> QED
    BY <2>2, <2>3, <2>4
<1> QED
  BY <1>1, <1>3, <1>4

-----------------------------------------------------------------------------
\* The newest slot after a decision in the slot of rid, which was the newest.
Recorded(rid) ==
  /\ rid.gid \in DOMAIN newest /\ rid.sid = newest[rid.gid].sid
  /\ DOMAIN newest' = DOMAIN newest
  /\ newest'[rid.gid].is_me \in BOOLEAN
  /\ newest'[rid.gid].sid = Later(rid.sid, 1)
  /\ newest'[rid.gid] = [sid |-> Later(rid.sid, 1), is_me |-> newest'[rid.gid].is_me]
  /\ \A g \in DOMAIN newest : g # rid.gid => newest'[g] = newest[g]

\* The words of a slot are numbers.
LEMMA WordsAreNumbers == \A sid \in UInt64 : sid.hi \in Nat /\ sid.lo \in Nat
BY DEF UInt64, UInt32

\* A sequence of one element has it at the only place.
LEMMA OneRound ==
  ASSUME NEW q, NEW r, q = <<r>>, NEW i \in 1 .. Len(q) PROVE i = 1 /\ q[i] = r /\ Range(q) = {r}
<1>1. Len(q) = 1 /\ q[1] = r /\ DOMAIN q = {1}
  OBVIOUS
<1>2. i = 1
  BY <1>1
<1> QED
  BY <1>1, <1>2 DEF Range

\* No slot is below itself.
LEMMA NotLess ==
  ASSUME NEW sid \in UInt64 PROVE ~ Less64(sid, sid)
BY DEF UInt64, UInt32, Less64

\* record_decided renews the newest slot so.
LEMMA RecordedNewest ==
  ASSUME NEW prop, NEW rid, Range(prop.rids) = {rid}, rid.gid \in DOMAIN newest,
         rid.sid = newest[rid.gid].sid, rid.sid \in UInt64, record_decided(prop)
  PROVE  Recorded(rid) /\ decided' = decided \cup {prop}
<1> DEFINE slots(g) == {r.sid : r \in {r \in Range(prop.rids) : r.gid = g}}
           after(g) == {[sid |-> Next64(sid), is_me |-> prop.nid = Self] :
                          sid \in {s \in slots(g) : ~ Less64(s, newest[g].sid)}}
           one == [sid |-> Later(rid.sid, 1), is_me |-> prop.nid = Self]
<1>1. /\ newest' = [g \in DOMAIN newest |->
                      IF after(g) = {} THEN newest[g] ELSE CHOOSE n \in after(g) : TRUE]
      /\ decided' = decided \cup {prop}
  BY Zenon DEF record_decided
<1>2. slots(rid.gid) = {rid.sid}
  OBVIOUS
<1>3. after(rid.gid) = {one}
  <2>1. ~ Less64(rid.sid, newest[rid.gid].sid)
    BY NotLess
  <2>2. {s \in slots(rid.gid) : ~ Less64(s, newest[rid.gid].sid)} = {rid.sid}
    BY <1>2, <2>1
  <2> QED
    BY <2>2 DEF Next64
<1>4. \A g : g # rid.gid => slots(g) = {}
  OBVIOUS
<1>5. \A g : g # rid.gid => after(g) = {}
  BY <1>4
<1>6. (CHOOSE n \in after(rid.gid) : TRUE) = one
  BY <1>3
<1>7. newest'[rid.gid] = one
  BY <1>1, <1>3, <1>6
<1>8. \A g \in DOMAIN newest : g # rid.gid => newest'[g] = newest[g]
  BY <1>1, <1>5
<1>9. DOMAIN newest' = DOMAIN newest
  BY <1>1
<1>10. \E b \in BOOLEAN : one = [sid |-> Later(rid.sid, 1), is_me |-> b]
  BY Zenon
<1> HIDE DEF one
<1>11. PICK b \in BOOLEAN : newest'[rid.gid] = [sid |-> Later(rid.sid, 1), is_me |-> b]
  BY <1>7, <1>10
<1>12. /\ newest'[rid.gid].is_me \in BOOLEAN
       /\ newest'[rid.gid].sid = Later(rid.sid, 1)
       /\ newest'[rid.gid] = [sid |-> Later(rid.sid, 1), is_me |-> newest'[rid.gid].is_me]
  BY <1>11
<1> QED
  BY <1>1, <1>8, <1>9, <1>12 DEF Recorded

\* The slots after a decision of the last request, which had one round.
LEMMA RoundsDecided ==
  ASSUME Inv, txn # NULL, txn' = NULL, UNCHANGED <<n_req, begun>>, n_req \in 1 .. n_req,
         NEW rid, Recorded(rid), begun[n_req] = <<rid>>
  PROVE  NewestInv' /\ BegunInv' /\ SlotUsedOnce'
<1>1. NewestInv /\ BegunInv /\ SlotUsedOnce
  BY DEF Inv, RequestsInv
<1>2. /\ n_req \in 0 .. MaxRequest /\ MaxRequest \in Nat /\ n_req \in Nat
      /\ begun \in Seq(Seq(Roundid) \ {<<>>}) /\ Len(begun) = n_req
  BY <1>1, RequestAssumption DEF BegunInv, UInt32
<1>3. /\ rid.gid \in DOMAIN newest /\ rid.sid = newest[rid.gid].sid /\ DOMAIN newest' = DOMAIN newest
      /\ newest'[rid.gid] = [sid |-> Later(rid.sid, 1), is_me |-> newest'[rid.gid].is_me]
      /\ newest'[rid.gid].is_me \in BOOLEAN
      /\ \A g \in DOMAIN newest : g # rid.gid => newest'[g] = newest[g]
  BY DEF Recorded
<1>4. \A g \in DOMAIN newest : /\ newest[g] \in [sid : UInt64, is_me : BOOLEAN]
                               /\ newest[g].sid.lo + (MaxRequest - n_req) + 1 \in UInt32
  BY <1>1 DEF NewestInv
<1>5. rid.sid \in UInt64 /\ rid.sid.lo \in Nat /\ rid.sid.lo + (MaxRequest - n_req) + 1 \in UInt32
  BY <1>3, <1>4, WordsAreNumbers
<1>6. /\ newest'[rid.gid].sid \in UInt64 /\ newest'[rid.gid].sid.hi = rid.sid.hi
      /\ newest'[rid.gid].sid.lo = rid.sid.lo + 1
  <2>1. rid.sid.lo + 1 \in UInt32
    <3> DEFINE big == rid.sid.lo + (MaxRequest - n_req) + 1
    <3>1. rid.sid.lo + 1 \in 0 .. big /\ big \in UInt32
      BY <1>2, <1>5
    <3> HIDE DEF big
    <3> QED
      BY <3>1, UpTo32
  <2>2. newest'[rid.gid].sid = Later(rid.sid, 1)
    BY <1>3
  <2> QED
    BY <1>5, <2>1, <2>2, LaterSlot
<1>7. ASSUME NEW g \in DOMAIN newest
      PROVE  /\ newest'[g] \in [sid : UInt64, is_me : BOOLEAN]
             /\ newest'[g].sid.lo + (MaxRequest - n_req) + 0 \in UInt32
  <2>1. CASE g = rid.gid
    <3>1. newest'[g] \in [sid : UInt64, is_me : BOOLEAN]
      <4>1. newest'[g].sid \in UInt64 /\ newest'[g].is_me \in BOOLEAN
        BY <1>3, <1>6, <2>1
      <4>2. \E s, b : newest'[g] = [sid |-> s, is_me |-> b]
        BY <1>3, <2>1
      <4> QED
        BY <4>1, <4>2
    <3>2. newest'[g].sid.lo + (MaxRequest - n_req) + 0 = rid.sid.lo + (MaxRequest - n_req) + 1
      <4>1. \A lo, m \in Int : (lo + 1) + m + 0 = lo + m + 1
        OBVIOUS
      <4>2. newest'[g].sid.lo = rid.sid.lo + 1 /\ rid.sid.lo \in Int /\ MaxRequest - n_req \in Int
        BY <1>2, <1>5, <1>6, <2>1
      <4> QED
        BY <4>1, <4>2
    <3> QED
      BY <1>5, <3>1, <3>2
  <2>2. CASE g # rid.gid
    <3>1. newest'[g] = newest[g] /\ newest[g].sid.lo \in Nat
      BY <1>3, <1>4, <2>2, WordsAreNumbers
    <3> DEFINE big == newest[g].sid.lo + (MaxRequest - n_req) + 1
    <3>2. big \in UInt32
      BY <1>4
    <3>3. newest[g].sid.lo + (MaxRequest - n_req) + 0 \in 0 .. big
      BY <1>2, <3>1
    <3> HIDE DEF big
    <3> QED
      BY <1>4, <3>1, <3>2, <3>3, UpTo32
  <2> QED
    BY <2>1, <2>2
<1>8. NewestInv'
  BY <1>1, <1>3, <1>7 DEF NewestInv
<1>9. ASSUME NEW n \in 1 .. n_req, NEW i \in 1 .. Len(begun[n])
      PROVE  NextRound(begun[n][i], n)
  <2> DEFINE r == begun[n][i]
  <2>1. RoundOf(r, n) /\ r \in Roundid
    BY <1>1, RoundsOfRequest
  <2>2. r.sid \in UInt64 /\ r.sid.lo \in Nat
    <3>1. r.sid \in UInt64
      BY <2>1 DEF Roundid
    <3> QED
      BY <3>1, WordsAreNumbers
  <2>3. CASE r.gid = rid.gid
    <3>1. r.sid.hi = rid.sid.hi /\ r.sid.lo <= rid.sid.lo
      BY <1>3, <2>1, <2>3 DEF RoundOf
    <3>2. r.sid.lo < rid.sid.lo + 1
      BY <1>5, <2>2, <3>1
    <3>3. r.sid.hi = newest'[r.gid].sid.hi /\ r.sid.lo <= newest'[r.gid].sid.lo
          /\ r.sid.lo # newest'[r.gid].sid.lo
      BY <1>5, <1>6, <2>2, <2>3, <3>1, <3>2
    <3> QED
      BY <1>3, <2>1, <3>3 DEF NextRound, RoundOf
  <2>4. CASE r.gid # rid.gid
    <3>1. r.gid \in DOMAIN newest /\ newest'[r.gid] = newest[r.gid]
      BY <1>3, <2>1, <2>4 DEF RoundOf
    <3>2. n # n_req
      <4> SUFFICES ASSUME n = n_req PROVE FALSE
        OBVIOUS
      <4>1. begun[n] = <<rid>>
        OBVIOUS
      <4>2. begun[n][i] = rid
        BY <4>1, OneRound
      <4> QED
        BY <2>4, <4>2
    <3>3. r.sid.lo # newest[r.gid].sid.lo
      BY <2>1, <3>2 DEF RoundOf
    <3> QED
      BY <1>3, <2>1, <3>1, <3>3 DEF NextRound, RoundOf
  <2> QED
    BY <2>3, <2>4
<1>10. BegunInv'
  BY <1>1, <1>9 DEF BegunInv, RoundOf, NextRound
<1>11. SlotUsedOnce'
  BY <1>1 DEF SlotUsedOnce
<1> QED
  BY <1>8, <1>10, <1>11

\* What the committer forgets after a decision of rid.
Forgets(rid) ==
  acc' = [acc EXCEPT ![Committer] =
    Restrict(@, {key \in DOMAIN @ : ~ (key[1] = rid.gid /\ Later(key[2], ForgetLag) = rid.sid)})]

\* The table has no new entries and no others, and lacks those alone.
LEMMA TablesForgotten ==
  ASSUME DOMAIN acc = Process, NEW rid, Forgets(rid), NEW p \in Process
  PROVE  /\ DOMAIN acc' = Process /\ DOMAIN acc'[p] \subseteq DOMAIN acc[p]
         /\ \A key \in DOMAIN acc'[p] : acc'[p][key] = acc[p][key]
         /\ \A key \in DOMAIN acc[p] : key \notin DOMAIN acc'[p] =>
              p = Committer /\ key[1] = rid.gid /\ Later(key[2], ForgetLag) = rid.sid
<1>1. CASE p = Committer
  BY <1>1, RequestAssumption DEF Forgets, Restrict
<1>2. CASE p # Committer
  BY <1>2, RequestAssumption DEF Forgets
<1>3. DOMAIN acc' = Process
  BY DEF Forgets
<1> QED
  BY <1>1, <1>2, <1>3

\* A slot dropped stays dropped, and the one forgotten is dropped.
LEMMA LaterWords ==
  ASSUME NEW sid \in UInt64, NEW n \in Nat
  PROVE  Later(sid, n).hi = sid.hi /\ Later(sid, n).lo = sid.lo + n
BY DEF Later, UInt64

\* What is below the newest slot stays so.
LEMMA LessStill ==
  ASSUME NEW rid, Recorded(rid), rid.sid \in UInt64, NEW sid, NEW gid \in DOMAIN newest,
         newest[gid].sid \in UInt64, sid.hi \in Nat, sid.lo \in Nat,
         Less64(sid, newest[gid].sid) \/ (gid = rid.gid /\ sid = rid.sid)
  PROVE  Less64(sid, newest'[gid].sid)
<1>1. CASE gid # rid.gid
  BY <1>1 DEF Recorded
<1>2. CASE gid = rid.gid
  <2>1. /\ newest'[gid].sid.hi = rid.sid.hi /\ newest'[gid].sid.lo = rid.sid.lo + 1
        /\ newest[gid].sid = rid.sid /\ rid.sid.lo \in Nat /\ rid.sid.hi \in Nat
    BY <1>2, LaterWords, WordsAreNumbers DEF Recorded
  <2>2. sid.hi < rid.sid.hi \/ (sid.hi = rid.sid.hi /\ sid.lo <= rid.sid.lo)
    BY <2>1 DEF Less64
  <2>3. sid.hi < newest'[gid].sid.hi
        \/ (sid.hi = newest'[gid].sid.hi /\ sid.lo < newest'[gid].sid.lo)
    BY <2>1, <2>2
  <2> QED
    BY <2>3 DEF Less64
<1> QED
  BY <1>1, <1>2

\* So no round is lost by a decision but those dropped.
LEMMA KeepsDecided ==
  ASSUME Inv, UNCHANGED <<n_req, begun>>, NEW rid, Recorded(rid), rid.sid \in UInt64, Forgets(rid)
  PROVE  KeepsOn
<1>1. BegunInv /\ NewestInv /\ DOMAIN acc = Process
  BY DEF Inv, RequestsInv, AcceptorInv
<1> SUFFICES ASSUME NEW p \in Process, NEW n \in 1 .. n_req, Len(begun[n]) = 1, Keeps(p, n)
             PROVE  Keeps(p, n)'
  BY DEF KeepsOn
<1>2. PICK r : r = begun[n][1]
  OBVIOUS
<1>3. /\ r \in Roundid /\ RoundOf(r, n) /\ Range(begun[n]) = {r}
  <2>1. 1 \in 1 .. Len(begun[n]) /\ begun[n] \in Seq(Roundid)
    BY <1>1, RoundsOfRequest
  <2>2. DOMAIN begun[n] = 1 .. 1
    BY <2>1
  <2>3. Range(begun[n]) = {r}
    BY <1>2, <2>2 DEF Range
  <2> QED
    BY <1>1, <1>2, <2>1, <2>3, RoundsOfRequest
<1>4. r.gid \in DOMAIN newest /\ newest[r.gid].sid \in UInt64 /\ r.sid \in UInt64
  BY <1>1, <1>3 DEF RoundOf, NewestInv, Roundid
<1>5. /\ Later(r.sid, ForgetLag).hi \in Nat /\ Later(r.sid, ForgetLag).lo \in Nat
  BY <1>4, LaterWords, WordsAreNumbers DEF ForgetLag
<1>6. CASE Dropped(p, [rids |-> begun[n], nid |-> Me])
  <2>1. p = Committer /\ Less64(Later(r.sid, ForgetLag), newest[r.gid].sid)
    BY <1>3, <1>6 DEF Dropped
  <2>2. \E sid : sid = Later(r.sid, ForgetLag) /\ Less64(sid, newest'[r.gid].sid)
    BY <1>4, <1>5, <2>1, LessStill
  <2> QED
    BY <1>3, <2>1, <2>2 DEF Keeps, Dropped
<1>7. CASE Holds(p, [rids |-> begun[n], nid |-> Me])
  <2>1. PICK held \in Range(get_accp_info(p, r).props) : held.rids = begun[n] /\ held.nid = Me
    BY <1>3, <1>7 DEF Holds
  <2>2. Key(r) \in DOMAIN acc[p]
    BY <2>1 DEF get_accp_info, Range
  <2>3. CASE Key(r) \in DOMAIN acc'[p]
    <3>1. acc'[p][Key(r)] = acc[p][Key(r)]
      BY <1>1, <2>3, TablesForgotten
    <3>2. held \in Range(acc'[p][Key(r)].props)
      BY <2>1, <2>2, <3>1 DEF get_accp_info
    <3> QED
      BY <1>3, <2>1, <2>3, <3>2 DEF Keeps, Holds, get_accp_info
  <2>4. CASE Key(r) \notin DOMAIN acc'[p]
    <3>1. p = Committer /\ Key(r)[1] = rid.gid /\ Later(Key(r)[2], ForgetLag) = rid.sid
      BY <1>1, <2>2, <2>4, TablesForgotten
    <3>2. r.gid = rid.gid /\ Later(r.sid, ForgetLag) = rid.sid
      BY <3>1 DEF Key
    <3>3. \E sid : sid = Later(r.sid, ForgetLag) /\ Less64(sid, newest'[r.gid].sid)
      BY <1>4, <1>5, <3>2, LessStill
    <3> QED
      BY <1>3, <3>1, <3>3 DEF Keeps, Dropped
  <2> QED
    BY <2>3, <2>4
<1> QED
  BY <1>6, <1>7 DEF Keeps

\* What an acceptor knows it knew before.
LEMMA AcceptorDecided ==
  ASSUME Inv, UNCHANGED <<n_req, begun>>, NEW rid, Forgets(rid), NothingSent PROVE AcceptorInv'
<1>1. AcceptorInv /\ DOMAIN acc = Process
  BY DEF Inv, RequestsInv, AcceptorInv
<1>2. DOMAIN acc' = Process
  BY <1>1, RequestAssumption, TablesForgotten
<1>3. ASSUME NEW p \in Process
      PROVE  /\ DOMAIN acc'[p] \subseteq {Key(r) : r \in UNION {Range(begun[n]) : n \in 1 .. n_req}}
             /\ \A n \in 1 .. n_req : \A i \in 1 .. Len(begun[n]) :
                  Key(begun[n][i]) \in DOMAIN acc'[p] =>
                    /\ acc'[p][Key(begun[n][i])] \in
                         [bid_max : {Word64(0), begun[n][i].bid}, props : Seq(Proposal)]
                    /\ \A j \in 1 .. Len(link'[p]) : Stamp(link'[p][j]) > 2 * n
  <2>1. /\ DOMAIN acc'[p] \subseteq DOMAIN acc[p]
        /\ \A key \in DOMAIN acc'[p] : acc'[p][key] = acc[p][key]
    BY <1>1, TablesForgotten
  <2>2. DOMAIN acc[p] \subseteq {Key(r) : r \in UNION {Range(begun[n]) : n \in 1 .. n_req}}
    BY <1>1 DEF AcceptorInv
  <2>3. ASSUME NEW n \in 1 .. n_req, NEW i \in 1 .. Len(begun[n]), Key(begun[n][i]) \in DOMAIN acc'[p]
        PROVE  /\ acc'[p][Key(begun[n][i])] \in
                    [bid_max : {Word64(0), begun[n][i].bid}, props : Seq(Proposal)]
               /\ \A j \in 1 .. Len(link'[p]) : Stamp(link'[p][j]) > 2 * n
    <3>1. /\ acc[p][Key(begun[n][i])] \in
               [bid_max : {Word64(0), begun[n][i].bid}, props : Seq(Proposal)]
          /\ \A j \in 1 .. Len(link[p]) : Stamp(link[p][j]) > 2 * n
      BY <1>1, <2>1, <2>3 DEF AcceptorInv
    <3>2. From(link'[p], link[p])
      BY DEF NothingSent
    <3> QED
      BY <2>1, <2>3, <3>1, <3>2 DEF From
  <2> QED
    BY <2>1, <2>2, <2>3
<1> QED
  BY <1>2, <1>3 DEF AcceptorInv

\* Nodes that are a majority are as many processes.
LEMMA MajorityOfProcesses ==
  ASSUME NEW Y, Y \subseteq Range(NodeIds), ~ (Cardinality(Y) < Len(Config) \div 2 + 1),
         NEW S \in SUBSET Process, \A p \in Process : NidOf(p) \in Y => p \in S
  PROVE  2 * Cardinality(S) > Len(Config)
<1> DEFINE T == {p \in Process : NidOf(p) \in Y}
           f == [p \in T |-> NidOf(p)]
           y == Cardinality(Y)
           s == Cardinality(S)
           n == Len(Config)
<1>1. f \in Surjection(T, Y)
  <2>1. \A nid \in Y : \E p \in T : f[p] = nid
    BY NodeIdsOfProcesses
  <2>2. f \in [T -> Y]
    OBVIOUS
  <2> QED
    BY <2>1, <2>2 DEF Surjection
<1>2. T \in SUBSET S /\ IsFiniteSet(S)
  <2>1. IsFiniteSet(S)
    BY ProcessesFinite, FS_Subset
  <2> QED
    BY <2>1
<1>3. IsFiniteSet(T) /\ Cardinality(T) <= s
  BY <1>2, FS_Subset
<1> HIDE DEF f, T
<1>4. IsFiniteSet(Y) /\ y <= Cardinality(T)
  BY <1>1, <1>3, FS_Surjection
<1>5. y \in Nat /\ s \in Nat /\ Cardinality(T) \in Nat
  BY <1>2, <1>3, <1>4, FS_CardinalityType
<1>6. n \in Nat
  BY NodeIdsOfProcesses
<1> HIDE DEF y, s, n
<1>7. y <= s
  BY <1>3, <1>4, <1>5
<1>8. ~ (y < n \div 2 + 1)
  BY DEF y, n
<1>9. 2 * s > n
  BY <1>5, <1>6, <1>7, <1>8
<1> QED
  BY <1>9 DEF s, n

\* The majority that has accepted keeps the round.
LEMMA DecidedIsHeld ==
  ASSUME Inv, NEW t, Attached(t), "YES" \in check_majority(t, "accd"), Counted(t)',
         UNCHANGED <<n_req, begun>>, NEW prop, prop.rids = begun[n_req], prop.nid = Me
  PROVE  2 * Cardinality({p \in Process : Holds(p, prop)' \/ Dropped(p, prop)'}) > Len(Config)
<1> DEFINE S == {p \in Process : Holds(p, prop)' \/ Dropped(p, prop)'}
<1>1. t.req \in Requests /\ t \in Txn(t.req) /\ n_req > 0
  BY DEF Attached
<1>2. DOMAIN t.ginfo = Range(Groups(t.req)) /\ \A g \in DOMAIN t.ginfo : t.ginfo[g].accd \in Said
  BY <1>1 DEF Txn, Ginfo
<1>3. PICK g : g \in DOMAIN t.ginfo
  BY <1>1, <1>2, GroupsOfRequest
<1> DEFINE Y == {nid \in DOMAIN t.ginfo[g].accd : t.ginfo[g].accd[nid] = SUCCESS}
<1>4. ~ (Cardinality(Y) < Len(Config) \div 2 + 1)
  <2>1. get_view(Committer) = NodeIds
    BY <1>1 DEF Inv, RequestsInv, ProcessesInv, get_view
  <2> QED
    BY <1>3, <2>1, MajorityOfYes
<1>5. Y \subseteq Range(NodeIds)
  BY <1>2, <1>3 DEF Said
<1>6. ASSUME NEW p \in Process, NidOf(p) \in Y PROVE p \in S
  <2>1. Keeps(p, n_req)'
    BY <1>3, <1>6 DEF Counted
  <2>2. Holds(p, prop)' \/ Dropped(p, prop)'
    BY <2>1 DEF Keeps, Holds, Dropped
  <2> QED
    BY <2>2
<1> HIDE DEF Y
<1>7. S \in SUBSET Process
  OBVIOUS
<1> HIDE DEF S
<1>8. 2 * Cardinality(S) > Len(Config)
  BY <1>4, <1>5, <1>6, <1>7, MajorityOfProcesses
<1> QED
  BY <1>8 DEF S

\* A majority has accepted: the decision.
LEMMA DecisionInv ==
  ASSUME Inv, NEW p \in Process, NEW k, Takes(p, k), Request(k) = n_req, Attached(txn), txn # NULL,
         k.t = ACCEPTED, NEW t, CountedAs(txn, t, NidOf(p), "accd"), DOMAIN t.ginfo = DOMAIN txn.ginfo,
         Attached(t), t.in_phase = 2, "YES" \in check_majority(t, "accd"), phase_2_async_after(t.prop),
         UNCHANGED <<startupVars, link, n_req, begun, coding>>
  PROVE  Inv'
<1>1. /\ StartupInv /\ ProcessesInv /\ NewestInv /\ BegunInv /\ SlotUsedOnce /\ CodingInv /\ DecidedInv
      /\ OrderInv
  BY DEF Inv, RequestsInv
<1>2. n_req \in Nat /\ n_req \in 1 .. n_req
  BY ConnectionOk DEF Attached
<1>3. Len(begun[n_req]) = 1
  BY AnswerTaken DEF Answered
<1>4. PICK rid : begun[n_req] = <<rid>> /\ rid = begun[n_req][1]
  <2>1. begun[n_req] \in Seq(Roundid)
    BY <1>1, <1>2, RoundsOfRequest
  <2> QED
    BY <1>3, <2>1
<1>5. /\ t.prop.rids = begun[n_req] /\ t.prop.nid = Me /\ Range(t.prop.rids) = {rid}
      /\ rid \in Roundid /\ rid.gid \in DOMAIN newest /\ rid.sid = newest[rid.gid].sid /\ rid.sid \in UInt64
  <2>1. t.prop.rids = begun[n_req] /\ t.prop.nid = Me /\ t.rids = begun[n_req]
    BY DEF Attached
  <2>2. 1 \in 1 .. Len(begun[n_req])
    BY <1>3
  <2>3. Range(t.prop.rids) = {rid}
    BY <1>4, <2>1, <2>2, OneRound
  <2>4. rid \in Roundid /\ RoundOf(rid, n_req)
    BY <1>1, <1>2, <1>4, <2>2, RoundsOfRequest
  <2>5. rid.sid = newest[rid.gid].sid
    BY <1>4, <2>1, <2>2 DEF Attached
  <2> QED
    BY <2>1, <2>3, <2>4, <2>5 DEF RoundOf, Roundid
<1>6. Recorded(rid) /\ decided' = decided \cup {t.prop}
  BY <1>5, RecordedNewest DEF phase_2_async_after
<1>7. Forgets(rid) /\ txn' = NULL
  <2>1. \A key : (\A r \in Range(t.prop.rids) : ~ (key[1] = r.gid /\ Later(key[2], ForgetLag) = r.sid))
                 <=> ~ (key[1] = rid.gid /\ Later(key[2], ForgetLag) = rid.sid)
    BY <1>5
  <2> QED
    BY <2>1 DEF phase_2_async_after, Forgets
<1>8. Grown
  BY <1>2 DEF Grown
<1>9. KeepsOn
  BY <1>5, <1>6, <1>7, KeepsDecided
<1>10. QueuesNext /\ NothingSent
  BY TakenQueues
<1>11. NewestInv' /\ BegunInv' /\ SlotUsedOnce'
  BY <1>2, <1>4, <1>6, <1>7, RoundsDecided
<1>12. StartupInv' /\ ProcessesInv'
  BY <1>1 DEF startupVars, StartupInv, StartupTypeOK, Served, ProcessesInv
<1>13. TxnInv' /\ CountedInv' /\ CodingInv' /\ ~ InPhase1'
  BY <1>1, <1>7 DEF TxnInv, CountedInv, CodingInv, InPhase1
<1>14. LinkInv' /\ ReplyInv'
  BY <1>8, <1>9, <1>10, MessagesNext
<1>15. OrderInv'
  <2>1. DOMAIN link' = Process /\ DOMAIN reply' = Process /\ \A q \in Process : QueuesOk(link'[q], reply'[q])
    BY <1>10 DEF QueuesNext, QueuesStep
  <2> QED
    BY <1>13, <2>1 DEF OrderInv, QueuesOk, Ordered
<1>16. AcceptorInv'
  BY <1>7, <1>10, AcceptorDecided
<1>17. Counted(t)'
  BY <1>9, <1>10, CountedNext
<1>18. \A prop \in decided' : 2 * Cardinality({q \in Process : Holds(q, prop)' \/ Dropped(q, prop)'}) > Len(Config)
  <2>1. \A prop \in decided : 2 * Cardinality({q \in Process : Holds(q, prop)' \/ Dropped(q, prop)'}) > Len(Config)
    BY <1>8, <1>9, HeldStill
  <2>2. 2 * Cardinality({q \in Process : Holds(q, t.prop)' \/ Dropped(q, t.prop)'}) > Len(Config)
    BY <1>5, <1>17, DecidedIsHeld
  <2> QED
    BY <1>6, <2>1, <2>2
<1>19. DecidedRoundIsHeld'
  BY <1>18 DEF DecidedRoundIsHeld
<1>20. \A prop \in decided' : /\ \E n \in 1 .. n_req' : prop.rids = begun'[n] /\ Len(begun'[n]) = 1
                              /\ prop.nid = Me
  <2>1. \A prop \in decided : /\ \E n \in 1 .. n_req' : prop.rids = begun'[n] /\ Len(begun'[n]) = 1
                              /\ prop.nid = Me
    BY <1>8, <1>9, HeldStill
  <2> QED
    BY <1>2, <1>3, <1>5, <1>6, <2>1
<1>21. IsFiniteSet(decided') /\ Cardinality(decided') <= n_req
  <2> DEFINE c == Cardinality(decided)
  <2>1. IsFiniteSet(decided) /\ c \in Nat /\ c + 1 <= n_req
    BY <1>1, FS_CardinalityType DEF DecidedInv
  <2>2. /\ IsFiniteSet(decided')
        /\ Cardinality(decided') = IF t.prop \in decided THEN c ELSE c + 1
    BY <1>6, <2>1, FS_AddElement
  <2> HIDE DEF c
  <2>3. c <= n_req /\ c + 1 <= n_req
    BY <1>2, <2>1
  <2> QED
    BY <2>2, <2>3
<1>22. DecidedInv'
  <2>1. Cardinality(decided') \in Nat
    BY <1>21, FS_CardinalityType
  <2>2. Cardinality(decided') + 0 <= n_req
    BY <1>2, <1>21, <2>1
  <2> QED
    BY <1>7, <1>20, <1>21, <2>2 DEF DecidedInv
<1> QED
  BY <1>11, <1>12, <1>13, <1>14, <1>15, <1>16, <1>19, <1>22, <1>17 DEF Inv, RequestsInv

-----------------------------------------------------------------------------
\* handle_msg_accepted: the answer is dropped, or counted, and then perhaps the
\* request is decided.
LEMMA AcceptedHandled ==
  ASSUME Inv, NEW p \in Process, HandleAccepted(p)
  PROVE  /\ UNCHANGED <<startupVars, n_req, link, begun, coding>>
         /\ \E k : /\ Takes(p, k) /\ k.t = ACCEPTED
                   /\ \/ UNCHANGED <<txn, newest, acc, decided>>
                      \/ /\ Request(k) = n_req /\ txn # NULL /\ txn.in_phase = 2 /\ Attached(txn)
                         /\ \E t : /\ CountedAs(txn, t, NidOf(p), "accd") /\ Attached(t) /\ t.in_phase = 2
                                   /\ DOMAIN t.ginfo = DOMAIN txn.ginfo
                                   /\ \/ /\ "YES" \in check_majority(t, "accd")
                                         /\ phase_2_async_after(t.prop)
                                      \/ \E phase \in {-1, 2} : /\ txn' = WithPhase(t, phase)
                                                                /\ UNCHANGED <<newest, acc, decided>>
<1>1. PICK k : Takes(p, k) /\ k.t = ACCEPTED
  BY DEF HandleAccepted, TakeReply, Takes
<1>2. /\ Answered(p, k) /\ Received(reply[p]) = {k.meant} /\ k.meant.h.tid = TidOf(Request(k))
      /\ UNCHANGED <<n_req, begun, coding>>
  BY <1>1, AnswerTaken DEF HandleAccepted
<1>3. IF ~ Current(k.meant, 2) THEN UNCHANGED <<startupVars, txn, link, <<newest, acc, decided>>>>
      ELSE IF Repeated(k.meant, "accd") THEN AbortCommitter /\ UNCHANGED <<txn, <<newest, acc, decided>>>>
      ELSE \E t \in {Count(txn, k.meant.h.nid, "accd", k.meant.ress)} :
           \E verdict \in check_majority(t, "accd") :
             /\ UNCHANGED <<startupVars, link>>
             /\ IF verdict = "YES" THEN phase_2_async_after(t.prop)
                ELSE /\ txn' = [t EXCEPT !.in_phase = IF verdict = "NO" THEN -1 ELSE 2]
                     /\ UNCHANGED <<newest, acc, decided>>
  BY <1>2 DEF HandleAccepted
<1>4. CASE ~ Current(k.meant, 2)
  BY <1>1, <1>2, <1>3, <1>4
<1>5. CASE Current(k.meant, 2)
  <2>1. Request(k) = n_req /\ txn # NULL /\ txn.in_phase = 2 /\ Attached(txn)
    BY <1>2, <1>5, CurrentIsLast
  <2>2. ~ Repeated(k.meant, "accd")
    BY <1>1, <2>1, NeverRepeated
  <2>3. PICK t \in {Count(txn, k.meant.h.nid, "accd", k.meant.ress)} :
          \E verdict \in check_majority(t, "accd") :
            /\ UNCHANGED <<startupVars, link>>
            /\ IF verdict = "YES" THEN phase_2_async_after(t.prop)
               ELSE /\ txn' = [t EXCEPT !.in_phase = IF verdict = "NO" THEN -1 ELSE 2]
                    /\ UNCHANGED <<newest, acc, decided>>
    BY <1>3, <1>5, <2>2
  <2>4. /\ CountedAs(txn, t, NidOf(p), "accd") /\ Attached(t) /\ t.in_phase = 2
        /\ DOMAIN t.ginfo = DOMAIN txn.ginfo
    BY <1>2, <2>1, <2>3, CountedAttached
  <2>5. /\ UNCHANGED <<startupVars, link>>
        /\ \/ "YES" \in check_majority(t, "accd") /\ phase_2_async_after(t.prop)
           \/ \E phase \in {-1, 2} : /\ txn' = WithPhase(t, phase)
                                     /\ UNCHANGED <<newest, acc, decided>>
    BY <2>3 DEF WithPhase
  <2> QED
    BY <1>1, <1>2, <2>1, <2>4, <2>5
<1> QED
  BY <1>4, <1>5

\* It keeps the invariant.
LEMMA HandleAcceptedInv == ASSUME Inv, NEW p \in Process, HandleAccepted(p) PROVE Inv'
<1>1. UNCHANGED <<startupVars, n_req, link, begun, coding>>
  BY AcceptedHandled
<1>2. PICK k : /\ Takes(p, k) /\ k.t = ACCEPTED
               /\ \/ UNCHANGED <<txn, newest, acc, decided>>
                  \/ /\ Request(k) = n_req /\ txn # NULL /\ txn.in_phase = 2 /\ Attached(txn)
                     /\ \E t : /\ CountedAs(txn, t, NidOf(p), "accd") /\ Attached(t) /\ t.in_phase = 2
                               /\ DOMAIN t.ginfo = DOMAIN txn.ginfo
                               /\ \/ /\ "YES" \in check_majority(t, "accd")
                                     /\ phase_2_async_after(t.prop)
                                  \/ \E phase \in {-1, 2} : /\ txn' = WithPhase(t, phase)
                                                            /\ UNCHANGED <<newest, acc, decided>>
  BY AcceptedHandled
<1>3. CASE UNCHANGED <<txn, newest, acc, decided>>
  BY <1>1, <1>2, <1>3, OnlyTaken
<1>4. CASE Request(k) = n_req /\ txn # NULL /\ txn.in_phase = 2 /\ Attached(txn)
           /\ ~ UNCHANGED <<txn, newest, acc, decided>>
  <2>1. PICK t : /\ CountedAs(txn, t, NidOf(p), "accd") /\ Attached(t) /\ t.in_phase = 2
                 /\ DOMAIN t.ginfo = DOMAIN txn.ginfo
                 /\ \/ "YES" \in check_majority(t, "accd") /\ phase_2_async_after(t.prop)
                    \/ \E phase \in {-1, 2} : /\ txn' = WithPhase(t, phase)
                                              /\ UNCHANGED <<newest, acc, decided>>
    BY <1>2, <1>4
  <2>2. CASE "YES" \in check_majority(t, "accd") /\ phase_2_async_after(t.prop)
    BY <1>1, <1>2, <1>4, <2>1, <2>2, DecisionInv
  <2>3. CASE \E phase \in {-1, 2} : txn' = WithPhase(t, phase) /\ UNCHANGED <<newest, acc, decided>>
    <3>1. PICK phase \in {-1, 2} : txn' = WithPhase(t, phase)
      BY <2>3
    <3>2. PICK u : u = WithPhase(t, phase)
      OBVIOUS
    <3>3. txn' = u /\ phase \in {-1, txn.in_phase} /\ txn.in_phase \in {1, 2} /\ t.in_phase = txn.in_phase
      BY <1>4, <2>1, <3>1, <3>2
    <3> QED
      BY <1>1, <1>2, <1>4, <2>1, <2>3, <3>2, <3>3, OnlyCounted
  <2> QED
    BY <2>1, <2>2, <2>3
<1> QED
  BY <1>2, <1>3, <1>4

-----------------------------------------------------------------------------
\* Initially nothing is known, sent or begun.
LEMMA InitInv == ASSUME Init PROVE Inv
<1>1. /\ StartupInit /\ n_req = 0 /\ txn = NULL /\ newest \in NextSlots
      /\ acc = [p \in Process |-> <<>>] /\ link = [p \in Process |-> <<>>]
      /\ reply = [p \in Process |-> <<>>] /\ begun = <<>> /\ coding = NULL /\ decided = {}
  BY DEF Init
<1>2. StartupInv
  BY <1>1, StartupInvInit
<1>3. ProcessesInv
  BY <1>1 DEF StartupInit, ProcessesInv
<1>4. NewestInv
  <2>1. MaxRequest \in Nat
    BY RequestAssumption DEF UInt32
  <2>2. /\ \A r \in Requests : Range(Groups(r)) \subseteq DOMAIN newest
        /\ \A gid \in DOMAIN newest : /\ newest[gid] \in [sid : UInt64, is_me : BOOLEAN]
                                      /\ newest[gid].sid.lo + MaxRequest \in UInt32
    BY <1>1, SlotAssumption
  <2>3. ASSUME NEW gid \in DOMAIN newest
        PROVE  newest[gid].sid.lo + (MaxRequest - n_req) + (IF txn = NULL THEN 0 ELSE 1) \in UInt32
    <3>1. newest[gid].sid.lo \in Nat
      <4>1. newest[gid].sid \in UInt64
        BY <2>2
      <4> QED
        BY <4>1, WordsAreNumbers
    <3>2. \A lo, m \in Nat : lo + (m - 0) + 0 = lo + m
      OBVIOUS
    <3> QED
      BY <1>1, <2>1, <2>2, <3>1, <3>2
  <2> QED
    BY <2>2, <2>3 DEF NewestInv
<1>5. BegunInv /\ SlotUsedOnce
  <2>1. n_req \in 0 .. MaxRequest
    BY <1>1, RequestAssumption DEF UInt32
  <2>2. begun \in Seq(Seq(Roundid) \ {<<>>}) /\ Len(begun) = 0 /\ DOMAIN begun = {}
    BY <1>1
  <2>3. 1 .. n_req = {}
    BY <1>1
  <2> QED
    BY <1>1, <2>1, <2>2, <2>3 DEF BegunInv, SlotUsedOnce
<1>6. TxnInv /\ CodingInv /\ CountedInv
  BY <1>1 DEF TxnInv, CodingInv, CountedInv
<1>7. LinkInv /\ ReplyInv
  BY <1>1 DEF LinkInv, ReplyInv
<1>8. OrderInv
  <2>1. <<>> \in Seq(Range(<<>>)) /\ Len(<<>>) = 0
    OBVIOUS
  <2>2. \A p \in Process : link[p] = <<>> /\ reply[p] = <<>>
    BY <1>1
  <2> QED
    BY <1>1, <2>1, <2>2 DEF OrderInv, Ordered, InPhase1
<1>9. AcceptorInv
  <2>1. \A p \in Process : DOMAIN acc[p] = {}
    BY <1>1
  <2> QED
    BY <1>1, <2>1 DEF AcceptorInv
<1>10. DecidedInv /\ DecidedRoundIsHeld
  BY <1>1, FS_EmptySet DEF DecidedInv, DecidedRoundIsHeld
<1> QED
  BY <1>2, <1>3, <1>4, <1>5, <1>6, <1>7, <1>8, <1>9, <1>10 DEF Inv, RequestsInv

\* Every step keeps the invariant.
LEMMA NextInv == ASSUME Inv, [Next]_vars PROVE Inv'
<1>1. CASE StartProcess
  BY <1>1, StartProcessInv
<1>2. CASE StartRequest
  BY <1>2, StartRequestInv
<1>3. CASE \E p \in Process : Handle(p)
  <2> PICK p \in Process : Handle(p)
    BY <1>3
  <2>1. CASE HandlePrepare(p) \/ HandleAccept(p)
    BY <2>1, PrepareHandled, AcceptHandled, ActsInv
  <2>2. CASE HandlePromise(p)
    BY <2>2, HandlePromiseInv
  <2>3. CASE HandleAccepted(p)
    BY <2>3, HandleAcceptedInv
  <2> QED
    BY <2>1, <2>2, <2>3 DEF Handle
<1>4. CASE UNCHANGED vars
  <2>1. UNCHANGED startupVars /\ UNCHANGED txnVars
    BY <1>4 DEF vars
  <2>2. StartupInv /\ ProcessesInv
    BY DEF Inv, RequestsInv
  <2>3. StartupInv' /\ ProcessesInv'
    BY <2>1, <2>2 DEF startupVars, txnVars, StartupInv, StartupTypeOK, Served, ProcessesInv
  <2> QED
    BY <2>1, <2>3, SameRequests
<1> QED
  BY <1>1, <1>2, <1>3, <1>4 DEF Next

\* The invariant holds always.
LEMMA AlwaysInv == Spec => []Inv
<1>1. Init => Inv
  BY InitInv
<1>2. Inv /\ [Next]_vars => Inv'
  BY NextInv
<1> QED
  BY <1>1, <1>2, PTL DEF Spec

-----------------------------------------------------------------------------
\* The types of the transaction follow.
LEMMA InvTypes == ASSUME Inv PROVE TypeOK
<1>1. /\ StartupInv /\ NewestInv /\ BegunInv /\ TxnInv /\ CodingInv /\ DecidedInv
  BY DEF Inv, RequestsInv
<1>2. StartupTypeOK /\ n_req \in 0 .. MaxRequest /\ n_req \in Nat
  BY <1>1 DEF StartupInv, BegunInv
<1>3. ASSUME txn # NULL
      PROVE  /\ txn.req \in Requests /\ txn \in Txn(txn.req)
             /\ txn.tid = gen_txn_id(Self, n_req)
             /\ \A i \in DOMAIN txn.rids :
                  /\ txn.rids[i].gid = Groups(txn.req)[i]
                  /\ txn.rids[i].sid = newest[txn.rids[i].gid].sid
  <2>1. Attached(txn)
    BY <1>1, <1>3 DEF TxnInv
  <2>2. txn.req \in Requests /\ txn \in Txn(txn.req) /\ txn.tid = TidOf(n_req) /\ n_req > 0
    BY <2>1 DEF Attached
  <2>3. Self = Me
    BY <2>2, RequestAssumption, KnownIds
  <2>4. DOMAIN txn.rids = 1 .. Len(txn.rids)
    <3>1. txn.rids \in Seq(Roundid)
      BY <2>2 DEF Txn
    <3> QED
      BY <3>1
  <2>5. \A i \in DOMAIN txn.rids : /\ txn.rids[i].gid = Groups(txn.req)[i]
                                   /\ txn.rids[i].sid = newest[txn.rids[i].gid].sid
    BY <2>1, <2>4 DEF Attached
  <2> QED
    BY <2>2, <2>3, <2>5 DEF TidOf
<1>4. Cardinality(decided) <= n_req
  <2> DEFINE c == Cardinality(decided)
  <2>1. c \in Nat
    BY <1>1, FS_CardinalityType DEF DecidedInv
  <2>2. c + (IF txn = NULL THEN 0 ELSE 1) <= n_req
    BY <1>1 DEF DecidedInv
  <2> HIDE DEF c
  <2>3. c <= n_req
    BY <1>2, <2>1, <2>2
  <2> QED
    BY <2>3 DEF c
<1> QED
  BY <1>1, <1>2, <1>3, <1>4 DEF TypeOK, CodingInv

\* Every message in transit is packed in the room it was said to take, and unpacks to
\* what was meant.
AllIntact ==
  \A p \in Process :
    /\ link[p] \in Seq(Range(link[p])) /\ \A i \in 1 .. Len(link[p]) : Intact(link[p][i])
    /\ reply[p] \in Seq(Range(reply[p])) /\ \A i \in 1 .. Len(reply[p]) : Intact(reply[p][i])

\* It follows from the invariant: what is in transit is typed and as it was packed.
LEMMA InvIntact == ASSUME Inv PROVE AllIntact
<1> SUFFICES ASSUME NEW p \in Process
             PROVE  /\ link[p] \in Seq(Range(link[p]))
                    /\ \A i \in 1 .. Len(link[p]) : Intact(link[p][i])
                    /\ reply[p] \in Seq(Range(reply[p]))
                    /\ \A i \in 1 .. Len(reply[p]) : Intact(reply[p][i])
  BY DEF AllIntact
<1>1. link[p] \in Seq(Range(link[p])) /\ reply[p] \in Seq(Range(reply[p]))
  BY ConnectionOk DEF QueuesOk
<1>2. ASSUME NEW k, Asked(k) PROVE Intact(k)
  <2>1. k = Packed(DescriptorOf(k.t), k.meant) /\ k.meant.h.t = k.t
    BY <1>2 DEF Asked, Genuine
  <2>2. CASE k.t = PREPARE /\ k.meant \in Prepare_t
    BY <2>1, <2>2, DescriptorsOf, PrepareIntact
  <2>3. CASE k.t = ACCEPT /\ k.meant \in Accept_t
    BY <2>1, <2>3, DescriptorsOf, AcceptIntact
  <2> QED
    BY <1>2, <2>2, <2>3 DEF Asked
<1>3. ASSUME NEW k, Answered(p, k) PROVE Intact(k)
  <2>1. /\ k = Packed(DescriptorOf(k.t), k.meant) /\ k.meant.h.t = k.t
        /\ k.t \in {PROMISE, ACCEPTED} /\ k.meant \in Answer_t
    BY <1>3 DEF Answered, Genuine
  <2>2. CASE k.t = PROMISE
    BY <2>1, <2>2, DescriptorsOf, AnswerIntact
  <2>3. CASE k.t = ACCEPTED
    BY <2>1, <2>3, DescriptorsOf, AnswerIntact
  <2> QED
    BY <2>1, <2>2, <2>3
<1> QED
  BY <1>1, <1>2, <1>3, ConnectionOk

\* What a queue got last is in it.
LEMMA LastIntact ==
  ASSUME NEW old, old \in Seq(Range(old)), NEW q, q \in Seq(Range(q)),
         \A i \in 1 .. Len(q) : Intact(q[i]), Len(q) > Len(old)
  PROVE  Intact(Last(q))
<1>1. Len(q) \in Nat /\ Len(old) \in Nat
  OBVIOUS
<1>2. Len(q) \in 1 .. Len(q)
  BY <1>1
<1> QED
  BY <1>2 DEF Last

\* So whatever a step sends is intact.
LEMMA SentIntact ==
  ASSUME AllIntact, AllIntact'
  PROVE  \A p \in Process :
           /\ Len(link'[p]) > Len(link[p])   => Intact(Last(link'[p]))
           /\ Len(reply'[p]) > Len(reply[p]) => Intact(Last(reply'[p]))
<1> SUFFICES ASSUME NEW p \in Process
             PROVE  /\ Len(link'[p]) > Len(link[p])   => Intact(Last(link'[p]))
                    /\ Len(reply'[p]) > Len(reply[p]) => Intact(Last(reply'[p]))
  OBVIOUS
<1>1. /\ link[p] \in Seq(Range(link[p])) /\ reply[p] \in Seq(Range(reply[p]))
      /\ link'[p] \in Seq(Range(link'[p])) /\ \A i \in 1 .. Len(link'[p]) : Intact(link'[p][i])
      /\ reply'[p] \in Seq(Range(reply'[p])) /\ \A i \in 1 .. Len(reply'[p]) : Intact(reply'[p][i])
  BY DEF AllIntact, Intact
<1>2. PICK l, r : l = link'[p] /\ r = reply'[p]
  OBVIOUS
<1> QED
  BY <1>1, <1>2, LastIntact

-----------------------------------------------------------------------------
\* Who aborts in which step.
LEMMA AbortsWhere ==
  ASSUME Inv, Next, NEW p \in Process, stage[p] # "aborted", stage'[p] = "aborted"
  PROVE  p = Committer /\ Len(Groups(txn'.req)) > 1
<1>1. DOMAIN stage = Process /\ Committer \in Process
  BY RequestAssumption DEF Inv, StartupInv, StartupTypeOK
<1>2. ASSUME NEW t, Attached(t)', n_req' \in 0 .. MaxRequest, Self = Me, mpaxos_accept(t)
      PROVE  p = Committer /\ Len(Groups(txn'.req)) > 1
  <2>1. DOMAIN link = Process
    BY DEF Inv, RequestsInv, OrderInv
  <2>2. PICK u : Accepting(t, u)
    BY <1>2, <2>1, AcceptsSent
  <2>3. /\ txn' = u /\ u.req = t.req
        /\ UNCHANGED startupVars \/ (Abort(Committer) /\ Len(Groups(t.req)) > 1)
    BY <2>2 DEF Accepting
  <2>4. CASE UNCHANGED startupVars
    BY <2>4 DEF startupVars
  <2>5. CASE Abort(Committer) /\ Len(Groups(t.req)) > 1
    BY <1>1, <2>3, <2>5 DEF Abort
  <2> QED
    BY <2>3, <2>4, <2>5
<1>3. CASE StartProcess
  <2>1. PICK q \in Process : LoadConfig(q) \/ StartServer(q) \/ ConnectSender(q)
    BY <1>3 DEF StartProcess, Start
  <2> QED
    BY <1>1, <2>1 DEF LoadConfig, StartServer, ConnectSender
<1>4. CASE StartRequest
  <2>1. PICK t : \E req \in Requests : /\ BeginsWith(req, t) /\ begun' = Append(begun, t.rids)
                                       /\ mpaxos_accept(t) \/ UNCHANGED startupVars
    BY <1>4, RequestBegins
  <2>2. stage[Committer] = "started" /\ n_req' = n_req + 1 /\ n_req < MaxRequest /\ newest' = newest
    BY <1>4, RequestBegins
  <2>3. Attached(t)' /\ n_req' \in 1 .. MaxRequest
    BY <2>1, <2>2, AttachedFirst
  <2>4. Self = Me
    BY <1>1, <2>2 DEF Inv, RequestsInv, ProcessesInv, Self, Me
  <2>5. n_req' \in 0 .. MaxRequest
    BY <2>3
  <2>6. ~ UNCHANGED startupVars
    BY DEF startupVars
  <2> QED
    BY <1>2, <2>1, <2>3, <2>4, <2>5, <2>6
<1>5. ASSUME NEW q \in Process, HandlePrepare(q) \/ HandleAccept(q) PROVE FALSE
  <2>1. UNCHANGED startupVars
    BY <1>5, PrepareHandled, AcceptHandled DEF Acts
  <2> QED
    BY <2>1 DEF startupVars
<1>6. ASSUME NEW q \in Process, HandlePromise(q) PROVE p = Committer /\ Len(Groups(txn'.req)) > 1
  <2>1. PICK k : UNCHANGED startupVars \/ PromiseCounted(q, k)
    BY <1>6, PromiseHandled
  <2>2. UNCHANGED <<n_req, newest, begun>>
    BY <1>6, PromiseHandled
  <2>3. ~ UNCHANGED startupVars
    BY DEF startupVars
  <2>4. PICK t : Attached(t) /\ mpaxos_accept(t)
    BY <2>1, <2>3 DEF PromiseCounted
  <2>5. n_req > 0 /\ n_req' \in 0 .. MaxRequest
    BY <2>2, <2>4 DEF Attached, Inv, RequestsInv, BegunInv
  <2>6. Attached(t)'
    BY <2>2, <2>4 DEF Attached
  <2> QED
    BY <1>1, <1>2, <2>4, <2>5, <2>6, KnownIds
<1>7. ASSUME NEW q \in Process, HandleAccepted(q) PROVE FALSE
  <2>1. UNCHANGED startupVars
    BY <1>7, AcceptedHandled
  <2> QED
    BY <2>1 DEF startupVars
<1> QED
  BY <1>3, <1>4, <1>5, <1>6, <1>7 DEF Next, Handle

-----------------------------------------------------------------------------
\* The theorems.

\* The types, and the ties of the transaction to its request and slots (TypeOK).
THEOREM TransactionTypeOK == Spec => []TypeOK
<1>1. Inv => TypeOK
  BY InvTypes
<1> QED
  BY <1>1, AlwaysInv, PTL

\* The inductive invariant of the requests holds (RequestsInv).
THEOREM RequestsGoThrough == Spec => []RequestsInv
<1>1. Inv => RequestsInv
  BY DEF Inv
<1> QED
  BY <1>1, AlwaysInv, PTL

\* No two requests go for the same slot of a group: record_decided renews the newest
\* slot before the transaction is detached.
THEOREM SlotsUsedOnce == Spec => []SlotUsedOnce
<1>1. Inv => SlotUsedOnce
  BY DEF Inv, RequestsInv
<1> QED
  BY <1>1, AlwaysInv, PTL

\* What was decided is at a majority of the acceptors, but for the committer's own
\* copy when it is ForgetLag slots old.
THEOREM DecidedIsHeldByMajority == Spec => []DecidedRoundIsHeld
<1>1. Inv => DecidedRoundIsHeld
  BY DEF Inv, RequestsInv
<1> QED
  BY <1>1, AlwaysInv, PTL

\* Whatever is sent, whichever requests, slots and ids are in it, takes the room
\* get_packed_size said, and unpacks to what was meant.
THEOREM MessagesAreIntact == Spec => WireRoundTrip
<1>1. Inv => AllIntact
  BY InvIntact
<1>2. AllIntact /\ AllIntact' => [\A p \in Process :
        /\ Len(link'[p]) > Len(link[p])   => Intact(Last(link'[p]))
        /\ Len(reply'[p]) > Len(reply[p]) => Intact(Last(reply'[p]))]_vars
  BY SentIntact
<1> QED
  BY <1>1, <1>2, AlwaysInv, PTL DEF WireRoundTrip

\* No acceptor ever aborts over an undefined bid, no proposer over a second answer:
\* only over a request for several groups.
THEOREM OnlySeveralGroups == Spec => OnlySeveralGroupsAbort
<1>1. Inv /\ [Next]_vars => [\A p \in Process : stage[p] # "aborted" /\ stage'[p] = "aborted" =>
        p = Committer /\ Len(Groups(txn'.req)) > 1]_vars
  BY AbortsWhere
<1> QED
  BY <1>1, AlwaysInv, PTL DEF OnlySeveralGroupsAbort, Spec
=============================================================================
