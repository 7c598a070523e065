-------------------------------- MODULE Buf --------------------------------
(***************************************************************************)
(* rpc/buf.c: the byte buffer behind every connection.  The content lies   *)
(* between two indexes of a block of memory; when the tail is too short    *)
(* for what comes, the content is moved to the front of a new block, of    *)
(* the same size if half of the old one was already read, of twice the     *)
(* size otherwise.                                                         *)
(***************************************************************************)
EXTENDS Integers, SequencesExt

CONSTANTS Byte,       \* the values of a byte
          Junk,       \* what malloc leaves in a block
          SzBuf,      \* SZ_BUF, the first size: 1 MB
          MaxData,    \* bound: bytes in one call
          MaxContent  \* bound: bytes in the buffer

\* A block of one byte could not be compacted (its half is 0).
ASSUME SizeAssumption == SzBuf \in Nat /\ SzBuf >= 2 /\ Junk \notin Byte
ASSUME DataAssumption == MaxData \in Nat \ {0} /\ MaxContent \in Nat

VARIABLES buf,  \* the buf_t
          ret   \* the bytes the last call handed out

vars == <<buf, ret>>

Content(b) == SubSeq(b.raw, b.idx_read + 1, b.idx_write)
Room(b)    == b.sz - b.idx_write

\* A buf_t: raw[i + 1] is raw[i] of the code.  The indexes are in the block and
\* in order, and between them is no byte that malloc left there.
Buffer ==
  {b \in [raw : Seq(Byte \cup {Junk}), sz : Nat, idx_read : Nat, idx_write : Nat] :
     /\ b.sz >= 2 /\ DOMAIN b.raw = 1 .. b.sz
     /\ b.idx_read <= b.idx_write /\ b.idx_write <= b.sz
     /\ Content(b) \in Seq(Byte)}

\* Mutant of Store: the data one byte too far.
StoreBehind(b, data) ==
  [b EXCEPT !.raw = [i \in 1 .. b.sz |->
                       IF i - 1 \in b.idx_write + 1 .. b.idx_write + Len(data)
                       THEN data[i - 1 - b.idx_write] ELSE b.raw[i]],
            !.idx_write = @ + Len(data)]

\* memcpy of data to the tail, and idx_write moved behind it.
Store(b, data) ==
  [b EXCEPT !.raw = [i \in 1 .. b.sz |->
                       IF i \in b.idx_write + 1 .. b.idx_write + Len(data)
                       THEN data[i - b.idx_write] ELSE b.raw[i]],
            !.idx_write = @ + Len(data)]

Malloc(n) == [raw |-> [i \in 1 .. n |-> Junk], sz |-> n,
              idx_read |-> 0, idx_write |-> 0]

\* Mutant of Realloc: the copy starts where the block starts.
ReallocFromStart(b, n) == Store(Malloc(n), SubSeq(b.raw, 1, Len(Content(b))))

\* buf_realloc.
Realloc(b, n) == Store(Malloc(n), Content(b))

\* Mutant of Resized: the block is doubled although most of it was read.
AlwaysDoubled(b) == Realloc(b, b.sz * 2)

\* One round of the loop in buf_readjust.
Resized(b) ==
  IF b.idx_read < b.sz \div 2 THEN Realloc(b, b.sz * 2) ELSE Realloc(b, b.sz)

\* buf_readjust: room for n more bytes.
Readjust(b, n) ==
  LET adjust[c \in Buffer] == IF Room(c) < n THEN adjust[Resized(c)] ELSE c
  IN  adjust[b]

\* The loop of buf_from_sock over the bytes that wait in the socket: as many as
\* the tail takes are received at a time.  At the end there is room for one
\* more, for the call of apr_socket_recv that finds nothing.
FromSock(b, bytes) ==
  LET recv[p \in Buffer \X Seq(Byte)] ==
        LET c == Readjust(p[1], 1)
            k == Min({Room(c), Len(p[2])})
        IN  IF p[2] = <<>> THEN c
            ELSE recv[<<Store(c, SubSeq(p[2], 1, k)),
                        SubSeq(p[2], k + 1, Len(p[2]))>>]
  IN  recv[<<b, bytes>>]

-----------------------------------------------------------------------------
Init == buf = Malloc(SzBuf) /\ ret = <<>>

\* Room within the bound for the data of one call.
Fits(data) == Len(Content(buf)) + Len(data) <= MaxContent

\* buf_write.
Write ==
  \E data \in BoundedSeq(Byte, MaxData) \ {<<>>} :
    /\ Fits(data)
    /\ buf' = Store(Readjust(buf, Len(data)), data)
    /\ ret' = <<>>

\* buf_from_sock, with the bytes that arrived.
Receive ==
  \E bytes \in BoundedSeq(Byte, MaxData) :
    /\ Fits(bytes)
    /\ buf' = FromSock(buf, bytes)
    /\ ret' = <<>>

\* The first n bytes of the content, or all of it; buf_peek returns the same
\* and leaves the buffer alone.
Peeked(b, n) == SubSeq(Content(b), 1, Min({n, Len(Content(b))}))

\* buf_read.
Read ==
  \E n \in 1 .. MaxData :
    /\ ret' = Peeked(buf, n)
    /\ buf' = [buf EXCEPT !.idx_read = @ + Len(ret')]

\* buf_to_sock: the socket takes k bytes and then no more, or all there are.
ToSock ==
  \E k \in 0 .. Len(Content(buf)) :
    /\ ret' = Peeked(buf, k)
    /\ buf' = [buf EXCEPT !.idx_read = @ + k]

Next == Write \/ Receive \/ Read \/ ToSock

Spec == Init /\ [][Next]_vars
-----------------------------------------------------------------------------
\* Type correctness; the indexes stay in the block and no malloc'ed byte that
\* was never written is between them.
TypeOK == buf \in Buffer /\ ret \in Seq(Byte)

\* Through reads, compactions and enlargements in any order the buffer is a
\* queue of bytes (all of buf.c).
Queue == INSTANCE ByteQueue WITH q <- Content(buf), out <- ret
IsByteQueue == Queue!Spec

\* Memory is enlarged only for what is in the buffer: a new block is not larger
\* than four times the content (and one byte), however long the connection
\* lives and however much of the block was read before (buf_readjust).
GrowsWithContent ==
  [][buf'.sz > buf.sz => buf'.sz <= 4 * (Len(Content(buf')) + 1)]_vars
=============================================================================
