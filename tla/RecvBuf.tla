------------------------------- MODULE RecvBuf -------------------------------
(***************************************************************************)
(* The receiving side of a stream of the mTCP stack: the stack's thread    *)
(* puts the payload of segments into the ring buffer, where fragments that *)
(* came out of order wait (tcp_ring_buffer.c, tcp_in.c), and acknowledges; *)
(* the application's thread takes bytes out (mtcp_recv).  The network      *)
(* loses, repeats and reorders segments and loses acknowledgements, and    *)
(* the peer may cut its stream anew whenever it sends again, or reset it.  *)
(* The timestamps of the segments are taken to be in order (no PAWS).      *)
(*                                                                         *)
(* The k-th byte of the stream is k.  Sequence numbers have Word values.   *)
(* The two threads share the buffer under read_lock, but the stack checks  *)
(* a segment against the window, and reads the window that it advertises,  *)
(* without it.                                                             *)
(***************************************************************************)
EXTENDS Integers, Sequences

CONSTANTS
    Word,       \* sequence numbers are taken modulo Word
    Size,       \* bytes of a receive buffer
    Irs,        \* the peer's initial sequence number
    InitWnd,    \* TCP_INITIAL_WINDOW
    Scale,      \* 2 ^ wscale_mine
    MaxField,   \* TCP_MAX_WINDOW, the largest value of the window field
    Mss,        \* the longest payload
    Length      \* bound: bytes that the peer sends before its FIN

\* The largest window there is.
MaxWnd == IF InitWnd < Size THEN Size ELSE InitWnd

\* Every two positions of the stream are less than half the sequence space apart.
ASSUME RecvBounds ==
    /\ {Word, Size, InitWnd, Scale, MaxField, Mss, Length} \subseteq Nat \ {0}
    /\ 2 * (Length + MaxWnd) < Word /\ Irs \in 0 .. Word - 1

None == <<>>

VARIABLES
    rcvbuf,         \* the struct tcp_ring_buffer
    state,          \* "established" or "close_wait"
    reset,          \* close_reason = TCP_RESET
    rcv_nxt, rcv_wnd,
    segment,        \* of which the stack has checked the sequence number, or None
    ack,            \* the stream is on the ACK list, or on ackq
    window,         \* what the stack has read to advertise, or None
    need_wnd_adv,
    una, edge,      \* positions: the peer's snd_una, and the end of the window it knows
    output, ended   \* what mtcp_recv gave the application

vars == <<rcvbuf, state, reset, rcv_nxt, rcv_wnd, segment, ack, window, need_wnd_adv, una, edge,
          output, ended>>

Add(a, n) == (a + n) % Word
Minus(a, b) == (a - b) % Word

\* The sequence number of position p (from 0) of the stream.
SeqOf(p) == Add(Irs, 1 + p)

\* TCP_SEQ_LEQ, TCP_SEQ_BETWEEN: the sign of a difference of Word values.
Leq(a, b) == Minus(b, a) < Word \div 2
Between(a, b, c) == Leq(b, a) /\ Leq(a, c)

Greater(a, b) == IF a > b THEN a ELSE b
Lesser(a, b) == IF a < b THEN a ELSE b

(***************************************************************************)
(* The ring buffer.                                                        *)
(***************************************************************************)

RBInit(seq) ==
    [data |-> [i \in 0 .. Size - 1 |-> 0], head_offset |-> 0, tail_offset |-> 0,
     last_len |-> 0, merged_len |-> 0, head_seq |-> seq, fctx |-> <<>>]

Near(a, b) == Greater(a, b) - Lesser(a, b) <= (Word - 1) \div 2

GetMinSeq(a, b) == IF Near(a, b) THEN Lesser(a, b) ELSE Greater(a, b)

GetMaxSeq(a, b) == IF Near(a, b) THEN Greater(a, b) ELSE Lesser(a, b)

\* (mutant) neighbours stay apart
CanMergeOverlapping(a, b) ==
    LET a_end == Add(a.seq, a.len)
        b_end == Add(b.seq, b.len)
    IN  GetMinSeq(a_end, b.seq) # a_end /\ GetMinSeq(b_end, a.seq) # b_end

CanMerge(a, b) ==
    LET a_end == Add(a.seq, a.len + 1)
        b_end == Add(b.seq, b.len + 1)
    IN  GetMinSeq(a_end, b.seq) # a_end /\ GetMinSeq(b_end, a.seq) # b_end

\* (mutant) ends where the new fragment does
MergeShort(a, b) ==
    LET min_seq == GetMinSeq(a.seq, b.seq)
    IN  [seq |-> min_seq, len |-> Minus(Add(a.seq, a.len), min_seq)]

MergeFragments(a, b) ==
    LET min_seq == GetMinSeq(a.seq, b.seq)
        max_seq == GetMaxSeq(Add(a.seq, a.len), Add(b.seq, b.len))
    IN  [seq |-> min_seq, len |-> Minus(max_seq, min_seq)]

\* The loop of RBPut over the fragments f: the first l.before of them stay before
\* l.ctx, those from l.next on come after it, and it has merged with the ones between.
Loop == [ctx : [seq : Nat, len : Nat], before : Nat, next : Nat]

\* A turn of the loop, at fragment k.  One that moves nothing is a break.
Turn(f, k) == [l \in Loop |->
    LET last == l.next > l.before + 1 \/ GetMaxSeq(Add(l.ctx.seq, l.ctx.len), f[k].seq) = f[k].seq
    IN  IF l.next # k THEN l
        ELSE IF CanMerge(l.ctx, f[k])
        THEN [l EXCEPT !.ctx = MergeFragments(@, f[k]), !.next = k + 1]
        ELSE IF last THEN l ELSE [l EXCEPT !.before = k, !.next = k + 1]]

\* What becomes of the fragments f when new is merged with or put between them.
Walk(new, f) ==
    LET loop[k \in 0 .. Len(f)] ==
            IF k = 0 THEN [ctx |-> new, before |-> 0, next |-> 1] ELSE Turn(f, k)[loop[k - 1]]
        l == loop[Len(f)]
    IN  SubSeq(f, 1, l.before) \o <<l.ctx>> \o SubSeq(f, l.next, Len(f))

\* (mutant) moves only what is in order
MoveMerged(b, end_off) ==
    IF Size <= b.head_offset + end_off
    THEN [b EXCEPT !.data = [i \in 0 .. Size - 1 |->
                                IF i < b.merged_len THEN @[b.head_offset + i] ELSE @[i]],
                   !.tail_offset = @ - b.head_offset,
                   !.head_offset = 0]
    ELSE b

\* (mutant) never moves
NoMove(b, end_off) == b

\* "If buffer is at tail, move the data to the first of head."
Move(b, end_off) ==
    IF Size <= b.head_offset + end_off
    THEN [b EXCEPT !.data = [i \in 0 .. Size - 1 |->
                                IF i < b.last_len THEN @[b.head_offset + i] ELSE @[i]],
                   !.tail_offset = @ - b.head_offset,
                   !.head_offset = 0]
    ELSE b

RBPut(b, seq, bytes) ==
    LET len == Len(bytes)
        putx == Minus(seq, b.head_seq)
        end_off == putx + len
        m == Move(b, end_off)
        tail == Greater(m.tail_offset, m.head_offset + end_off)
        fctx == Walk([seq |-> seq, len |-> len], b.fctx)
    IN  IF len = 0 \/ GetMinSeq(b.head_seq, seq) # b.head_seq \/ Size < end_off THEN b
        ELSE [m EXCEPT !.data = [i \in 0 .. Size - 1 |->
                                    LET k == i - m.head_offset - putx + 1
                                    IN  IF k \in 1 .. len THEN bytes[k] ELSE @[i]],
                       !.tail_offset = tail,
                       !.last_len = tail - m.head_offset,
                       !.fctx = fctx,
                       !.merged_len = IF fctx[1].seq = b.head_seq THEN fctx[1].len ELSE @]

RBRemove(b, len) ==
    [b EXCEPT !.head_offset = @ + len,
              !.head_seq = Add(@, len),
              !.merged_len = @ - len,
              !.last_len = @ - len,
              !.fctx = IF @[1].len = len THEN Tail(@)
                       ELSE <<[seq |-> Add(@[1].seq, len), len |-> @[1].len - len]>> \o Tail(@)]

(***************************************************************************)

Init ==
    /\ rcvbuf = RBInit(SeqOf(0))
    /\ state = "established" /\ reset = FALSE
    /\ rcv_nxt = SeqOf(0) /\ rcv_wnd = InitWnd
    /\ segment = None /\ ack = FALSE /\ window = None /\ need_wnd_adv = FALSE
    /\ una = 0 /\ edge = InitWnd
    /\ output = <<>> /\ ended = FALSE

(***************************************************************************)
(* The stack's thread.                                                     *)
(***************************************************************************)

Idle == segment = None /\ window = None

\* A segment with bytes p + 1 .. p + n, and the FIN or not: ValidateSequence, which
\* answers what is outside the window, and the same checks in ProcessTCPPayload.
Arrives(p, n, fin) ==
    /\ Idle /\ state = "established"
    /\ IF Between(SeqOf(p + n), rcv_nxt, Add(rcv_nxt, rcv_wnd))
       THEN segment' = <<p, n, fin>> /\ UNCHANGED ack
       ELSE ack' = TRUE /\ UNCHANGED segment
    /\ UNCHANGED <<rcvbuf, state, reset, rcv_nxt, rcv_wnd, window, need_wnd_adv, una, edge, output, ended>>

\* (mutant) a FIN is taken whatever is missing before it
FinAnywhere(seq_end, nxt) == TRUE

\* "Process the FIN only if the sequence is valid."
FinInOrder(seq_end, nxt) == seq_end = nxt

\* (mutant) the bytes that wait to be read are not taken off the window
FreeAll(b) == Size

Free(b) == Size - b.merged_len

\* (mutant) nothing new, nothing to acknowledge
AnswersNews(nxt) == nxt # rcv_nxt

Answers(nxt) == TRUE

\* ProcessTCPPayload from read_lock on, and the rest of Handle_TCP_ST_ESTABLISHED.
Put ==
    /\ segment # None
    /\ LET p == segment[1]
           n == segment[2]
           b == RBPut(rcvbuf, SeqOf(p), [k \in 1 .. n |-> p + k])
           nxt == IF n = 0 THEN rcv_nxt ELSE Add(b.head_seq, b.merged_len)
           closes == segment[3] /\ FinInOrder(SeqOf(p + n), nxt)
       IN  /\ rcvbuf' = b
           /\ rcv_wnd' = IF n = 0 THEN rcv_wnd ELSE Free(b)
           /\ rcv_nxt' = IF closes THEN Add(nxt, 1) ELSE nxt
           /\ state' = IF closes THEN "close_wait" ELSE state
           /\ ack' = (ack \/ Answers(nxt))
    /\ segment' = None
    /\ UNCHANGED <<reset, window, need_wnd_adv, una, edge, output, ended>>

\* A RST with sequence number SeqOf(p): ValidateSequence ignores one outside the window,
\* ProcessRST takes the others.
Reset(p) ==
    /\ Idle /\ Between(SeqOf(p), rcv_nxt, Add(rcv_nxt, rcv_wnd))
    /\ state' = "close_wait" /\ reset' = TRUE
    /\ UNCHANGED <<rcvbuf, rcv_nxt, rcv_wnd, segment, ack, window, need_wnd_adv, una, edge, output, ended>>

\* WriteTCPACKList drops the ACK: there is no rcvbuf before the first payload, or it reads
\* head_seq and merged_len while RBRemove changes them.  The model allows it at any time.
DropAck ==
    /\ Idle /\ ack
    /\ ack' = FALSE
    /\ UNCHANGED <<rcvbuf, state, reset, rcv_nxt, rcv_wnd, segment, window, need_wnd_adv, una, edge, output, ended>>

\* SendTCPPacket reads rcv_wnd for an ACK ...
ReadWindow ==
    /\ Idle /\ ack
    /\ window' = <<Lesser(rcv_wnd \div Scale, MaxField)>>
    /\ ack' = FALSE
    /\ UNCHANGED <<rcvbuf, state, reset, rcv_nxt, rcv_wnd, segment, need_wnd_adv, una, edge, output, ended>>

\* ... and notes that it told the peer to stop.
Sends ==
    /\ window # None
    /\ need_wnd_adv' = (need_wnd_adv \/ window = <<0>>)
    /\ window' = None
    /\ UNCHANGED <<rcvbuf, state, reset, rcv_nxt, rcv_wnd, segment, ack, output, ended>>

SendAck ==
    /\ Sends
    /\ una' = una + Minus(rcv_nxt, SeqOf(una))
    /\ edge' = una' + window[1] * Scale

\* The network loses it.
LoseAck == Sends /\ UNCHANGED <<una, edge>>

(***************************************************************************)
(* The application's thread.                                               *)
(***************************************************************************)

\* CopyToUser, for a user's buffer that holds n bytes or more.
Recv(n) ==
    /\ n \in 1 .. rcvbuf.merged_len
    /\ output' = output \o [k \in 1 .. n |-> rcvbuf.data[rcvbuf.head_offset + k - 1]]
    /\ rcvbuf' = RBRemove(rcvbuf, n)
    /\ rcv_wnd' = Free(rcvbuf')
    /\ IF need_wnd_adv /\ rcv_wnd' > Mss
       THEN ack' = TRUE /\ need_wnd_adv' = FALSE
       ELSE UNCHANGED <<ack, need_wnd_adv>>
    /\ UNCHANGED <<state, reset, rcv_nxt, segment, window, una, edge, ended>>

\* mtcp_recv returns 0.
RecvEnd ==
    /\ state = "close_wait" /\ rcvbuf.merged_len = 0 /\ ~ended
    /\ ended' = TRUE
    /\ UNCHANGED <<rcvbuf, state, reset, rcv_nxt, rcv_wnd, segment, ack, window, need_wnd_adv, una, edge,
                   output>>

(***************************************************************************)
(* The peer and the network.                                               *)
(***************************************************************************)

\* Anything of the stream arrives, at any time and in any cut.
Any ==
    \E p \in 0 .. Length, n \in 0 .. Mss, fin \in BOOLEAN :
        /\ p + n <= Length /\ (fin => p + n = Length) /\ (n > 0 \/ fin)
        /\ Arrives(p, n, fin)

\* The peer sends again from snd_una what the window that it knows allows, or
\* probes a window that is closed.
Retransmit ==
    /\ una <= Length
    /\ LET n == Lesser(Mss, Lesser(edge, Length) - una)
       IN  IF una < Length /\ n <= 0 THEN Arrives(una - 1, 0, FALSE)
           ELSE Arrives(una, n, una + n = Length)

(***************************************************************************)

Receive == \E n \in 1 .. Size : Recv(n)

Next ==
    \/ Any \/ Retransmit \/ Put \/ DropAck \/ ReadWindow \/ SendAck \/ LoseAck
    \/ Receive \/ RecvEnd \/ \E p \in 0 .. Length + 1 : Reset(p)

Spec == Init /\ [][Next]_vars

\* Both threads run; the peer does not give up, and neither the network nor
\* WriteTCPACKList loses everything for ever.
FairSpec ==
    /\ Spec /\ WF_vars(Put \/ SendAck \/ LoseAck) /\ WF_vars(Receive \/ RecvEnd)
    /\ SF_vars(ReadWindow) /\ SF_vars(SendAck) /\ SF_vars(Retransmit)

(***************************************************************************)

Fragment == [seq : 0 .. Word - 1, len : 1 .. Size]

\* The types, and what the offsets of the ring buffer mean to each other: nothing is
\* ever written past its end.
TypeOK ==
    /\ rcvbuf.data \in [0 .. Size - 1 -> 0 .. Length]
    /\ 0 <= rcvbuf.head_offset /\ rcvbuf.head_offset <= rcvbuf.tail_offset
    /\ rcvbuf.tail_offset <= Size
    /\ rcvbuf.last_len = rcvbuf.tail_offset - rcvbuf.head_offset
    /\ rcvbuf.fctx \in Seq(Fragment) /\ rcvbuf.merged_len \in 0 .. rcvbuf.last_len
    /\ {rcvbuf.head_seq, rcv_nxt} \subseteq 0 .. Word - 1 /\ rcv_wnd \in 0 .. MaxWnd
    /\ {ack, need_wnd_adv, ended, reset} \subseteq BOOLEAN
    /\ una \in 0 .. Length + 1 /\ edge \in Nat

\* Where fragment f starts in the stream, the head being what is to be read next.
Start(f) == Len(output) + Minus(f.seq, rcvbuf.head_seq)
Positions(f) == Start(f) + 1 .. Start(f) + f.len

\* The bytes that are in the buffer, in order or not.
Held == UNION {Positions(rcvbuf.fctx[i]) : i \in DOMAIN rcvbuf.fctx}

\* Wherever fragments overlap, touch or arrive in reverse, and however the data was
\* moved to the front, each byte that the buffer claims to hold is the peer's.
HoldsStream ==
    \A k \in Held : rcvbuf.data[rcvbuf.head_offset + (k - Len(output)) - 1] = k

\* The fragments are ascending with a gap before each, so that the first alone can be
\* in order, and merged_len is exactly what can be read.
FragmentsApart ==
    /\ \A i \in 2 .. Len(rcvbuf.fctx) :
           Start(rcvbuf.fctx[i - 1]) + rcvbuf.fctx[i - 1].len < Start(rcvbuf.fctx[i])
    /\ rcvbuf.merged_len = IF Len(output) + 1 \in Held THEN rcvbuf.fctx[1].len ELSE 0

\* No byte that was accepted is lost before the application has it: the peer may
\* have been told that it need not send it again.
NothingForgotten == [][Held \subseteq Held' \cup 1 .. Len(output')]_vars

\* Once the first payload has set the window, a segment that passed the check against
\* it fits the buffer when it is put there, although the application reads in between:
\* "full rcvbuf" can be met only under the initial window.
InWindowFits ==
    segment # None /\ rcv_wnd <= Size
        => segment[1] + segment[2] <= Len(output) + Size

\* mtcp_recv gives the application the peer's bytes in order and once, and the end
\* only after the last, unless the peer reset the connection.
Reliable == INSTANCE ByteStream
DeliversStream == Reliable!Spec

\* All of the stream arrives, with its end (a reset may end it earlier), although RBPut
\* drops a segment that starts before the head whatever it holds beyond, although the
\* window may be advertised as closed and the advertisement that it is open never sent:
\* every segment is answered.
AllArrives == <>ended

================================================================================
