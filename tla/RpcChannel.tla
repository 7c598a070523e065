----------------------------- MODULE RpcChannel -----------------------------
(***************************************************************************)
(* One connection of the rpc layer (client.c, server.c, polling.c): the    *)
(* client end in one process, the sconn end in another, each with its      *)
(* buffers, its job in the pollset and its poll thread, and a pool thread  *)
(* of the client that calls client_call (mpaxos_start_request).  The mutex *)
(* comm->mx guards the send buffer and update_job, the pollset itself is   *)
(* thread-safe, and the read handlers take no lock.  The buffers are       *)
(* sequences of bytes here; module Buf is about their memory.              *)
(***************************************************************************)
EXTENDS Integers, SequencesExt

CONSTANTS SzSzmsg,  \* SZ_SZMSG, the bytes of the size in front of a message: 4
          SzMsgid,  \* SZ_MSGID, the bytes of its type: 2
          MaxSize,  \* bound: bytes of a message after that
          MaxCall,  \* bound: messages the client sends
          NetCap,   \* bound: bytes the network holds per direction
          Faulty    \* the ends whose process may die

End == {"cli", "srv"}

ASSUME SizeAssumption == SzSzmsg \in Nat \ {0} /\ SzMsgid \in Nat \ {0}
                         /\ MaxSize \in Nat \ {0}
ASSUME BoundAssumption == MaxCall \in Nat /\ NetCap \in Nat \ {0} /\ Faulty \subseteq End

Peer(e) == IF e = "cli" THEN "srv" ELSE "cli"

VARIABLES
  proc,     \* proc[e]: the process is up, dead, or which assertion ended it
  sent,     \* sent[e]: history, the messages given to write_trigger_poll at e
  got,      \* got[e]: history, the messages handed to the handlers at e
  obuf,     \* obuf[e]: buf_send
  ibuf,     \* ibuf[e]: buf_recv
  net,      \* net[e]: bytes e sent that the other end has not received
  wantout,  \* wantout[e]: pfd.reqevents has APR_POLLOUT next to APR_POLLIN
  inset,    \* inset[e]: the pollset holds the descriptor
  ps,       \* ps[e]: job->ps is not NULL
  round,    \* round[e]: what poll returned for the job and is not handled yet
  caller    \* where the pool thread is in update_job; it then holds comm->mx

jobVars == <<wantout, inset, ps>>
vars == <<proc, sent, got, obuf, ibuf, net, jobVars, round, caller>>

Up(e) == proc[e] = "up"

Message == [by : End, no : Nat \ {0}, sz : 1 .. MaxSize]
Byte    == [of : Message, at : Nat]

\* What write_trigger_poll puts in the buffer for a message: size, type, data.
FrameSize(m) == SzSzmsg + SzMsgid + m.sz
Bytes(m)     == [i \in 1 .. FrameSize(m) |-> [of |-> m, at |-> i]]
AllBytes(ms) == FlattenSeq([i \in DOMAIN ms |-> Bytes(ms[i])])

\* The next messages of end e, of any size.
NewMessages(e, n) ==
  {[i \in 1 .. n |-> [by |-> e, no |-> Len(sent[e]) + i, sz |-> f[i]]] :
     f \in [1 .. n -> 1 .. MaxSize]}

\* Mutant of Complete: the type is not counted.
CompleteButForType(b) == Len(b) > SzSzmsg /\ Len(b) >= SzSzmsg + b[1].of.sz

\* Mutant of Complete: one byte more than the message has.
CompleteAndMore(b) == Len(b) > SzSzmsg /\ Len(b) > FrameSize(b[1].of)

\* The loop condition of the read handlers and the test in it: the size can be
\* peeked, and all of the message is there.
Complete(b) == Len(b) > SzSzmsg /\ Len(b) >= FrameSize(b[1].of)

\* The messages the read handler takes from b one after the other, as the bytes
\* it takes them to be.
Frames(b) ==
  LET cut[c \in Seq(Byte)] ==
        LET k == Min({FrameSize(c[1].of), Len(c)})
        IN  IF Complete(c)
            THEN <<SubSeq(c, 1, k)>> \o cut[SubSeq(c, k + 1, Len(c))] ELSE <<>>
  IN  cut[b]

\* Mutant of Rest: the beginning of the next message is thrown away.
RestDropped(b) == <<>>

\* What is left of b.
Rest(b) == SubSeq(b, Len(FlattenSeq(Frames(b))) + 1, Len(b))

\* The message a frame is; anything else than all its bytes is number 0.
Parsed(frame) ==
  LET m == frame[1].of
  IN  IF frame = Bytes(m) THEN m ELSE [m EXCEPT !.no = 0]

-----------------------------------------------------------------------------
Init ==
  /\ proc    = [e \in End |-> "up"]
  /\ sent    = [e \in End |-> <<>>]
  /\ got     = [e \in End |-> <<>>]
  /\ obuf    = [e \in End |-> <<>>]
  /\ ibuf    = [e \in End |-> <<>>]
  /\ net     = [e \in End |-> <<>>]
  /\ wantout = [e \in End |-> FALSE]
  /\ inset   = [e \in End |-> TRUE]
  /\ ps      = [e \in End |-> TRUE]
  /\ round   = [e \in End |-> {}]
  /\ caller  = "idle"

\* write_trigger_poll, but for the change of the poll type.
Put(e, ms) ==
  /\ sent' = [sent EXCEPT ![e] = @ \o ms]
  /\ obuf' = [obuf EXCEPT ![e] = @ \o AllBytes(ms)]

\* The process of e is gone, and some of what it sent last with it.
Gone(e, why) ==
  /\ proc' = [proc EXCEPT ![e] = why]
  /\ \E k \in 0 .. Len(net[e]) :
       net' = [net EXCEPT ![e] = SubSeq(@, 1, k), ![Peer(e)] = <<>>]

\* The pool thread calls client_call: under comm->mx it writes the message to
\* the buffer and enters update_job, which returns when the mode is set
\* already or the job was removed.
Call ==
  /\ Up("cli") /\ caller = "idle" /\ Len(sent["cli"]) < MaxCall
  /\ \E ms \in NewMessages("cli", 1) : Put("cli", ms)
  /\ caller' = IF ~ wantout["cli"] /\ ps["cli"] THEN "checked" ELSE "idle"
  /\ UNCHANGED <<proc, got, ibuf, net, jobVars, round>>

\* update_job takes the descriptor out of the pollset; SAFE_ASSERT(0) if it is
\* not there ...
CallRemove ==
  /\ Up("cli") /\ caller = "checked"
  /\ IF inset["cli"]
     THEN /\ inset' = [inset EXCEPT !["cli"] = FALSE]
          /\ caller' = "removed"
          /\ UNCHANGED <<proc, net>>
     ELSE Gone("cli", "pollset") /\ UNCHANGED <<inset, caller>>
  /\ UNCHANGED <<sent, got, obuf, ibuf, wantout, ps, round>>

\* ... and puts it back with the new mode.
CallAdd ==
  /\ Up("cli") /\ caller = "removed"
  /\ inset' = [inset EXCEPT !["cli"] = TRUE]
  /\ wantout' = [wantout EXCEPT !["cli"] = TRUE]
  /\ caller' = "idle"
  /\ UNCHANGED <<proc, sent, got, obuf, ibuf, net, ps, round>>

-----------------------------------------------------------------------------
\* What apr_pollset_poll reports for e's descriptor.
Events(e) ==
  {v \in {"IN", "OUT"} :
     \/ v = "IN" /\ (net[Peer(e)] # <<>> \/ ~ Up(Peer(e)))
     \/ v = "OUT" /\ wantout[e] /\ (Len(net[e]) < NetCap \/ ~ Up(Peer(e)))}

\* poll_worker_run polls.
Poll(e) ==
  /\ Up(e) /\ round[e] = {} /\ inset[e] /\ Events(e) # {}
  /\ round' = [round EXCEPT ![e] = Events(e)]
  /\ UNCHANGED <<proc, sent, got, obuf, ibuf, net, jobVars, caller>>

\* What the handlers called for n messages send on the same connection: the
\* server's one reply each, the client's maybe another request.
Sends(e, n) ==
  IF e = "srv" THEN NewMessages(e, n)
  ELSE {<<>>} \cup
       IF n > 0 /\ caller = "idle" /\ Len(sent[e]) < MaxCall
       THEN NewMessages(e, 1) ELSE {}

\* Mutant of AtEnd: APR_EOF is not looked at.
NeverAtEnd(e) == FALSE

\* The status of buf_from_sock is APR_EOF or APR_ECONNRESET, and remove_job finds
\* a job to remove.
AtEnd(e) == ~ Up(Peer(e)) /\ ps[e]

\* handle_client_read and handle_sconn_read: all bytes that arrived go to the
\* buffer, all complete messages from there to their handlers, in the poll
\* thread; at the end of the stream remove_job, without comm->mx.
Read(e) ==
  /\ Up(e) /\ "IN" \in round[e]
  /\ LET b  == ibuf[e] \o net[Peer(e)]
         fs == Frames(b)
     IN  /\ got' = [got EXCEPT ![e] = @ \o [i \in DOMAIN fs |-> Parsed(fs[i])]]
         /\ ibuf' = [ibuf EXCEPT ![e] = Rest(b)]
         /\ \E ms \in Sends(e, Len(fs)) :
              /\ Put(e, ms)
              /\ wantout' = [wantout EXCEPT ![e] = @ \/ (ms # <<>> /\ ps[e])]
         /\ IF AtEnd(e) /\ ~ inset[e]
            THEN Gone(e, "pollset") /\ UNCHANGED <<inset, ps>>
            ELSE /\ inset' = [inset EXCEPT ![e] = @ /\ ~ AtEnd(e)]
                 /\ ps' = [ps EXCEPT ![e] = @ /\ ~ AtEnd(e)]
                 /\ net' = [net EXCEPT ![Peer(e)] = <<>>]
                 /\ UNCHANGED proc
  /\ round' = [round EXCEPT ![e] = @ \ {"IN"}]
  /\ UNCHANGED caller

\* The write handler of e is called: the read handler was before it, and the
\* client's takes comm->mx.
Writing(e) ==
  /\ Up(e) /\ round[e] = {"OUT"}
  /\ e = "cli" => caller = "idle"
  /\ round' = [round EXCEPT ![e] = {}]
  /\ UNCHANGED <<sent, got, ibuf, caller>>

\* Mutant of ModeAfterWrite: the output is taken for written in any case.
ModeAlwaysIn(e, rest) == ~ ps[e] /\ wantout[e]

\* The write handlers ask for APR_POLLOUT as long as bytes are left.
ModeAfterWrite(e, rest) == IF ps[e] THEN rest # <<>> ELSE wantout[e]

\* handle_client_write and handle_sconn_write: the socket takes k bytes.  Those
\* for a dead process go nowhere.
Write(e) ==
  /\ Writing(e)
  /\ \E k \in 0 .. Len(obuf[e]) :
       LET rest == SubSeq(obuf[e], k + 1, Len(obuf[e]))
       IN  /\ obuf[e] # <<>> => k > 0
           /\ Up(Peer(e)) => Len(net[e]) + k <= NetCap
           /\ obuf' = [obuf EXCEPT ![e] = rest]
           /\ net' = IF Up(Peer(e))
                     THEN [net EXCEPT ![e] = @ \o SubSeq(obuf[e], 1, k)] ELSE net
           /\ wantout' = [wantout EXCEPT ![e] = ModeAfterWrite(e, rest)]
  /\ UNCHANGED <<proc, inset, ps>>

\* apr_socket_send fails as the other process is gone (EPIPE, ECONNRESET): the
\* server removes the job, the client's SAFE_ASSERT on the status aborts.
WriteFails(e) ==
  /\ Writing(e) /\ obuf[e] # <<>> /\ ~ Up(Peer(e))
  /\ IF e = "cli"
     THEN Gone(e, "write") /\ UNCHANGED <<inset, ps>>
     ELSE /\ inset' = [inset EXCEPT ![e] = FALSE]
          /\ ps' = [ps EXCEPT ![e] = FALSE]
          /\ UNCHANGED <<proc, net>>
  /\ UNCHANGED <<obuf, wantout>>

Die(e) ==
  /\ e \in Faulty /\ Up(e)
  /\ Gone(e, "dead")
  /\ UNCHANGED <<sent, got, obuf, ibuf, jobVars, round, caller>>

CallStep == CallRemove \/ CallAdd

Next ==
  \/ Call \/ CallStep
  \/ \E e \in End : Poll(e) \/ Read(e) \/ Write(e) \/ WriteFails(e) \/ Die(e)

Spec == Init /\ [][Next]_vars

\* The threads run, the network delivers.
Fairness ==
  /\ WF_vars(CallStep)
  /\ \A e \in End : /\ WF_vars(Poll(e)) /\ WF_vars(Read(e))
                    /\ WF_vars(Write(e) \/ WriteFails(e))

FairSpec == Spec /\ Fairness
-----------------------------------------------------------------------------
\* Type correctness; the network holds no more than its bound.
TypeOK ==
  /\ proc \in [End -> {"up", "dead", "write", "pollset"}]
  /\ sent \in [End -> Seq(Message)] /\ got \in [End -> Seq(Message)]
  /\ obuf \in [End -> Seq(Byte)] /\ ibuf \in [End -> Seq(Byte)]
  /\ net \in [End -> Seq(Byte)] /\ \A e \in End : Len(net[e]) <= NetCap
  /\ wantout \in [End -> BOOLEAN] /\ inset \in [End -> BOOLEAN] /\ ps \in [End -> BOOLEAN]
  /\ round \in [End -> SUBSET {"IN", "OUT"}]
  /\ caller \in {"idle", "checked", "removed"}

\* The handlers get the messages whole, in order and once, wherever reads and
\* writes cut the stream (the sz_c tests of the read handlers, buf_to_sock's
\* partial writes); and while both processes live every byte is accounted for.
\* It is what MPaxos takes for granted of link and reply.
DeliversInOrder ==
  \A e \in End :
    /\ IsPrefix(got[Peer(e)], sent[e])
    /\ Up("cli") /\ Up("srv") =>
         AllBytes(got[Peer(e)]) \o ibuf[Peer(e)] \o net[e] \o obuf[e]
           = AllBytes(sent[e])

\* Output never waits without being polled for: whenever update_job is not at
\* work, a job in the pollset that has something to send asks for APR_POLLOUT,
\* although write handler and callers switch the mode by turns.
OutputIsPolled ==
  \A e \in End :
    Up(e) /\ obuf[e] # <<>> /\ ps[e] /\ (e = "cli" => caller = "idle")
      => wantout[e] /\ inset[e]

\* Every request is answered, unless one of the processes dies: no byte stays
\* in a buffer for ever (handle_client_write, handle_sconn_write).
EventuallyAnswered ==
  \A k \in 1 .. MaxCall :
    Len(sent["cli"]) >= k ~> (Len(got["cli"]) >= k \/ ~ Up("cli") \/ ~ Up("srv"))

\* A process notices that the other one died and stops polling for it, whatever
\* it was doing: the poll thread does not spin on the end of the stream.
DeathNoticed ==
  \A e \in End : ~ Up(e) ~> (~ inset[Peer(e)] \/ ~ Up(Peer(e)))

\* rpc_comm.h:34 calls mx the "lock for write buffer, and write poll event":
\* with it, the descriptor that update_job or remove_job takes out of the
\* pollset is there, and their SAFE_ASSERTs hold.
NoPollsetAbort == \A e \in End : proc[e] # "pollset"
=============================================================================
