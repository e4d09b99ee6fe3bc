------------------------------ MODULE RingBuf ------------------------------
(***************************************************************************)
(* The byte ring of board/ports/audio/pwm_audio.c (rb_create .. rb_flush): *)
(* one writer, the thread in pwm_audio_write, which owns head; one reader, *)
(* the timer interrupt cb_timer2, which owns tail.  No lock: one slot is   *)
(* kept free "to judge the ringbuffer direction".                          *)
(*                                                                         *)
(* The interrupt may hit between any two statements of the writer, so      *)
(* rb_write_byte is two steps (store the byte, publish head); a read in    *)
(* the interrupt is one step.  The n-th accepted byte has the value n - 1, *)
(* so that the order of reads can be stated.                               *)
(***************************************************************************)
EXTENDS Integers

CONSTANTS Size,      \* rb->size
          MaxBytes   \* bound on the bytes accepted in a behaviour

ASSUME RingAssumption == Size \in Nat /\ Size > 1 /\ MaxBytes \in Nat

VARIABLES head, tail, buf,
          wstep,     \* the writer's next step: "store" a byte, or "publish" head
          accepted,  \* history: bytes accepted by rb_write_byte
          taken,     \* history: number of the next byte to be read
          out        \* history: the byte read last, or -1

ringVars == <<head, tail, buf, wstep, accepted, taken, out>>

Slots == 0..(Size - 1)

\* tail++ / next_head++ with the wrap to 0, once and k times.
NextIdx(i) == IF i + 1 = Size THEN 0 ELSE i + 1
Adv(i, k) == IF i + k >= Size THEN i + k - Size ELSE i + k

\* rb_get_count and rb_get_free.
Count(h, t) == IF h >= t THEN h - t ELSE Size - (t - h)
Free(h, t) == Size - Count(h, t) - 1

RingInit ==
    /\ head = 0 /\ tail = 0 /\ buf = [i \in Slots |-> 0]
    /\ wstep = "store" /\ accepted = 0 /\ taken = 0 /\ out = -1

\* Mutant of RbStore: head is advanced before the byte is stored.
RbStoreNext ==
    /\ wstep = "store"
    /\ NextIdx(head) # tail
    /\ buf' = [buf EXCEPT ![NextIdx(head)] = accepted]
    /\ wstep' = "publish"
    /\ UNCHANGED <<head, tail, accepted, taken, out>>

\* rb_write_byte, first half: the slot is free, the byte goes in.
RbStore ==
    /\ wstep = "store"
    /\ NextIdx(head) # tail
    /\ buf' = [buf EXCEPT ![head] = accepted]
    /\ wstep' = "publish"
    /\ UNCHANGED <<head, tail, accepted, taken, out>>

\* rb_write_byte, second half: rb->head = next_head.
RbPublish ==
    /\ wstep = "publish"
    /\ head' = NextIdx(head)
    /\ accepted' = accepted + 1
    /\ wstep' = "store"
    /\ UNCHANGED <<tail, buf, taken, out>>

\* k successful calls of rb_read_byte inside one interrupt.
RbRead(k) ==
    /\ k \in 1..Count(head, tail)
    /\ out' = buf[Adv(tail, k - 1)]
    /\ tail' = Adv(tail, k)
    /\ taken' = taken + k
    /\ UNCHANGED <<head, buf, wstep, accepted>>

\* rb_flush: called with the timer stopped, by the thread that writes.
RbFlush ==
    /\ wstep = "store"
    /\ head' = 0 /\ tail' = 0
    /\ taken' = accepted
    /\ UNCHANGED <<buf, wstep, accepted, out>>

-----------------------------------------------------------------------------
\* Every variable has its type.
RingTypeOK ==
    /\ head \in Slots /\ tail \in Slots /\ buf \in [Slots -> Nat]
    /\ wstep \in {"store", "publish"} /\ accepted \in Nat /\ taken \in Nat
    /\ out \in Nat \cup {-1}

\* The part of the ring between tail and head holds exactly the bytes that
\* were accepted and not yet read, oldest first, whatever the interrupt
\* interleaves with a half-finished rb_write_byte: nothing unread is
\* overwritten and the wrap at rb->size loses nothing.
RingHoldsUnread ==
    /\ accepted - taken = Count(head, tail)
    /\ wstep = "publish" => NextIdx(head) # tail /\ buf[head] = accepted
    /\ \A k \in 0..(Size - 1) :
          k < Count(head, tail) => buf[Adv(tail, k)] = taken + k

\* Bytes leave the ring in the order they entered: what is read is always the
\* newest of the bytes counted as taken.
ReadsInOrder == [][out' # out => out' = taken' - 1 /\ out < out']_ringVars

\* The two-index ring without a lock implements a bounded queue.
Fifo == INSTANCE ByteFifo WITH
    Capacity <- Size - 1,
    queue <- [i \in 1..Count(head, tail) |-> buf[Adv(tail, i - 1)]],
    next <- accepted,
    last <- out
FifoSpec == Fifo!FSpec
=============================================================================
