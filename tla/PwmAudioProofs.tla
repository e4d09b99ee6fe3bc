--------------------------- MODULE PwmAudioProofs ---------------------------
(***************************************************************************)
(* Proofs about RingBuf and PwmAudio for every ring size, threshold,       *)
(* sample format and chunk length.  RingInv is the inductive invariant of  *)
(* the ring and PwmInv that of the driver; each action has one lemma, and  *)
(* the ring part of every lemma is the lemma about the ring operation the  *)
(* action performs.                                                        *)
(***************************************************************************)
EXTENDS PwmAudio, SequenceTheorems, TLAPS

-----------------------------------------------------------------------------
(***************************************************************************)
(* The ring: each operation preserves RingInv and is a step or a stutter   *)
(* of the queue of module ByteFifo.                                        *)
(***************************************************************************)
\* The inductive invariant: types, the contents of the ring, and that the
\* byte read last is older than every byte still in the ring.
RingInv == RingTypeOK /\ RingHoldsUnread /\ out < taken

\* rb_get_count stays below the size, and advancing tail by k bytes that are
\* there lowers it by k: the arithmetic of the wrap.
LEMMA CountAdvance ==
    ASSUME NEW h \in Slots, NEW t \in Slots, NEW k \in 0..Count(h, t)
    PROVE  /\ Count(h, t) \in 0..(Size - 1)
           /\ Adv(t, k) \in Slots
           /\ Count(h, Adv(t, k)) = Count(h, t) - k
  BY RingAssumption DEF Slots, Count, Adv

\* Advancing twice is advancing by the sum.
LEMMA AdvTwice ==
    ASSUME NEW t \in Slots, NEW k \in Nat, NEW j \in Nat, j + k < Size
    PROVE  Adv(Adv(t, k), j) = Adv(t, j + k)
  BY RingAssumption DEF Slots, Adv

\* Moving head by one raises rb_get_count by one unless the ring is full.
LEMMA CountPublish ==
    ASSUME NEW h \in Slots, NEW t \in Slots, NextIdx(h) # t
    PROVE  /\ NextIdx(h) \in Slots
           /\ Count(NextIdx(h), t) = Count(h, t) + 1
           /\ Adv(t, Count(h, t)) = h
  BY RingAssumption DEF Slots, Count, NextIdx, Adv

\* The ring starts empty.
LEMMA RingInvInit == RingInit => RingInv
  BY RingAssumption
  DEF RingInit, RingInv, RingTypeOK, RingHoldsUnread, Slots, Count, NextIdx, Adv

\* Storing a byte touches only the free slot at head.
LEMMA StorePreserves == RingInv /\ RbStore => RingInv'
  <1> SUFFICES ASSUME RingInv, RbStore PROVE RingInv'
    OBVIOUS
  <1> USE DEF RingInv, RingTypeOK, RingHoldsUnread, RbStore
  <1>1. RingTypeOK' /\ (out < taken)' /\ (accepted - taken = Count(head, tail))'
    OBVIOUS
  <1>2. (wstep = "publish" => NextIdx(head) # tail /\ buf[head] = accepted)'
    OBVIOUS
  <1>3. ASSUME NEW k \in 0..(Size - 1), k < Count(head, tail)
        PROVE  buf'[Adv(tail, k)] = taken + k
    <2>1. Adv(tail, k) # head /\ Adv(tail, k) \in Slots
      BY <1>3, RingAssumption DEF Slots, Count, Adv
    <2> QED BY <1>3, <2>1
  <1> QED BY <1>1, <1>2, <1>3

\* Publishing head makes the stored byte the newest unread one.
LEMMA PublishPreserves == RingInv /\ RbPublish => RingInv'
  <1> SUFFICES ASSUME RingInv, RbPublish PROVE RingInv'
    OBVIOUS
  <1> USE DEF RingInv, RingTypeOK, RingHoldsUnread, RbPublish
  <1>1. /\ NextIdx(head) \in Slots
        /\ Count(NextIdx(head), tail) = Count(head, tail) + 1
        /\ Adv(tail, Count(head, tail)) = head
    BY CountPublish
  <1>2. Count(head, tail) \in 0..(Size - 1)
    BY RingAssumption DEF Slots, Count
  <1>3. RingTypeOK' /\ (out < taken)' /\ (accepted - taken = Count(head, tail))'
    BY <1>1, <1>2
  <1>4. ASSUME NEW k \in 0..(Size - 1), k < Count(head', tail)
        PROVE  buf[Adv(tail, k)] = taken + k
    <2>1. CASE k < Count(head, tail)
      BY <2>1
    <2>2. CASE k = Count(head, tail)
      BY <1>1, <2>2
    <2> QED BY <1>1, <1>2, <1>4, <2>1, <2>2
  <1> QED BY <1>3, <1>4

\* Reading k bytes leaves the rest, oldest first, and returns the k-th.
LEMMA ReadPreserves ==
    ASSUME RingInv, NEW k, RbRead(k)
    PROVE  RingInv' /\ out' = taken' - 1 /\ out < out'
  <1> USE DEF RingInv, RingTypeOK, RingHoldsUnread, RbRead
  <1>1. /\ Count(head, tail) \in 0..(Size - 1) /\ k \in 1..Count(head, tail)
        /\ Adv(tail, k) \in Slots
        /\ Count(head, Adv(tail, k)) = Count(head, tail) - k
    BY CountAdvance
  <1>2. out' = taken' - 1
    <2>1. k - 1 \in 0..(Size - 1) /\ k - 1 < Count(head, tail)
      BY <1>1, RingAssumption
    <2>2. buf[Adv(tail, k - 1)] = taken + (k - 1)
      BY <2>1
    <2> QED BY <1>1, <2>2
  <1>3. RingTypeOK' /\ (out < taken)' /\ (accepted - taken = Count(head, tail))'
    BY <1>1, <1>2
  <1>4. (wstep = "publish" => NextIdx(head) # tail /\ buf[head] = accepted)'
    BY <1>1, RingAssumption DEF NextIdx, Slots, Count, Adv
  <1>5. ASSUME NEW j \in 0..(Size - 1), j < Count(head, tail')
        PROVE  buf[Adv(tail', j)] = taken' + j
    <2>1. j + k \in 0..(Size - 1) /\ j + k < Count(head, tail)
      BY <1>1, <1>5, RingAssumption
    <2>2. Adv(Adv(tail, k), j) = Adv(tail, j + k)
      BY <1>1, <2>1, RingAssumption, AdvTwice
    <2>3. buf[Adv(tail, j + k)] = taken + (j + k)
      BY <2>1
    <2> QED BY <1>1, <1>5, <2>2, <2>3
  <1> QED BY <1>1, <1>2, <1>3, <1>4, <1>5

\* A flush leaves an empty ring.
LEMMA FlushPreserves == RingInv /\ RbFlush => RingInv'
  <1> SUFFICES ASSUME RingInv, RbFlush PROVE RingInv'
    OBVIOUS
  <1>1. Count(head, tail) \in Nat
    BY RingAssumption DEF RingInv, RingTypeOK, Slots, Count
  <1> QED
    BY <1>1, RingAssumption
    DEF RingInv, RingTypeOK, RingHoldsUnread, RbFlush, Slots, Count

-----------------------------------------------------------------------------
(* The ring implements the queue of module ByteFifo.                       *)

\* n consecutive byte numbers from t on: what a ring that has lost, repeated
\* and swapped nothing contains.
Run(t, n) == [i \in 1..n |-> t + i - 1]

\* Such a run is a sequence of that length.
LEMMA RunIsSeq ==
    ASSUME NEW t \in Nat, NEW n \in Nat
    PROVE  Run(t, n) \in Seq(Nat) /\ Len(Run(t, n)) = n
  <1>1. Run(t, n) \in [1..n -> Nat]
    BY DEF Run
  <1>2. Run(t, n) \in Seq(Nat)
    BY <1>1, SeqDef
  <1>3. DOMAIN Run(t, n) = 1..n
    BY DEF Run
  <1>4. Len(Run(t, n)) \in Nat /\ DOMAIN Run(t, n) = 1..Len(Run(t, n))
    BY <1>2, LenProperties
  <1>5. Len(Run(t, n)) = n
    BY <1>3, <1>4
  <1> QED BY <1>2, <1>5

\* Appending the next number makes the run longer.
LEMMA RunAppend ==
    ASSUME NEW t \in Nat, NEW n \in Nat
    PROVE  Append(Run(t, n), t + n) = Run(t, n + 1)
  <1>1. /\ Append(Run(t, n), t + n) \in Seq(Nat)
        /\ Len(Append(Run(t, n), t + n)) = n + 1
        /\ \A i \in 1..n : Append(Run(t, n), t + n)[i] = Run(t, n)[i]
        /\ Append(Run(t, n), t + n)[n + 1] = t + n
    <2>1. t + n \in Nat
      OBVIOUS
    <2>2. Run(t, n) \in Seq(Nat) /\ Len(Run(t, n)) = n
      BY RunIsSeq
    <2>3. \A s \in Seq(Nat), e \in Nat :
             /\ Append(s, e) \in Seq(Nat) /\ Len(Append(s, e)) = Len(s) + 1
             /\ \A i \in 1..Len(s) : Append(s, e)[i] = s[i]
             /\ Append(s, e)[Len(s) + 1] = e
      BY AppendProperties
    <2> HIDE DEF Run
    <2> QED BY <2>1, <2>2, <2>3
  <1>2. Run(t, n + 1) \in Seq(Nat) /\ Len(Run(t, n + 1)) = n + 1
    BY RunIsSeq
  <1>3. \A i \in 1..(n + 1) : Append(Run(t, n), t + n)[i] = Run(t, n + 1)[i]
    BY <1>1 DEF Run
  <1> QED BY <1>1, <1>2, <1>3, SeqEqual

\* Dropping its first k numbers leaves the run from the k-th on.
LEMMA RunDrop ==
    ASSUME NEW t \in Nat, NEW n \in Nat, NEW k \in 0..n
    PROVE  SubSeq(Run(t, n), k + 1, n) = Run(t + k, n - k)
  <1>1. /\ SubSeq(Run(t, n), k + 1, n) \in Seq(Nat)
        /\ Len(SubSeq(Run(t, n), k + 1, n)) = n - k
        /\ \A i \in 1..(n - k) : SubSeq(Run(t, n), k + 1, n)[i] = Run(t, n)[k + i]
    <2>1. \A i \in (k + 1)..n : Run(t, n)[i] \in Nat
      BY DEF Run
    <2>2. k + 1 \in Int /\ n \in Int /\ n - (k + 1) + 1 = n - k
      OBVIOUS
    <2>3. /\ SubSeq(Run(t, n), k + 1, n) \in Seq(Nat)
          /\ Len(SubSeq(Run(t, n), k + 1, n)) = IF k + 1 <= n THEN n - (k + 1) + 1 ELSE 0
          /\ \A i \in 1..(n - (k + 1) + 1) :
                SubSeq(Run(t, n), k + 1, n)[i] = Run(t, n)[k + 1 + i - 1]
      BY <2>1, <2>2, SubSeqProperties
    <2>4. \A i \in Int : k + 1 + i - 1 = k + i
      OBVIOUS
    <2> QED BY <2>2, <2>3, <2>4
  <1>2. t + k \in Nat /\ n - k \in Nat
    OBVIOUS
  <1>3. Run(t + k, n - k) \in Seq(Nat) /\ Len(Run(t + k, n - k)) = n - k
    BY <1>2, RunIsSeq
  <1>4. \A i \in 1..(n - k) : Run(t, n)[k + i] = Run(t + k, n - k)[i]
    BY <1>2 DEF Run
  <1> QED BY <1>1, <1>3, <1>4, SeqEqual

\* The contents of the ring, as the refinement mapping reads them, and what
\* the invariant says of them: they are the run of the unread bytes.
Contents == [i \in 1..Count(head, tail) |-> buf[Adv(tail, i - 1)]]
ContentsAreRun ==
    /\ Contents = Run(taken, Count(head, tail))
    /\ Count(head, tail) \in 0..(Size - 1)
    /\ taken \in Nat /\ accepted = taken + Count(head, tail)

\* Before a step.
LEMMA RunNow == RingInv => ContentsAreRun
  <1> SUFFICES ASSUME RingInv PROVE ContentsAreRun
    OBVIOUS
  <1>1. Count(head, tail) \in 0..(Size - 1)
    BY RingAssumption DEF RingInv, RingTypeOK, Slots, Count
  <1>2. taken \in Nat /\ accepted \in Nat /\ accepted = taken + Count(head, tail)
    BY <1>1 DEF RingInv, RingTypeOK, RingHoldsUnread
  <1>3. ASSUME NEW i \in 1..Count(head, tail)
        PROVE  buf[Adv(tail, i - 1)] = taken + i - 1
    <2>1. i - 1 \in 0..(Size - 1) /\ i - 1 < Count(head, tail)
      BY <1>1, RingAssumption
    <2>2. buf[Adv(tail, i - 1)] = taken + (i - 1)
      BY <2>1 DEF RingInv, RingHoldsUnread
    <2> QED BY <1>2, <2>2
  <1> QED BY <1>1, <1>2, <1>3 DEF Run, Contents, ContentsAreRun

\* After it.
LEMMA RunThen == RingInv' => ContentsAreRun'
  BY RunNow, PTL

\* Storing a byte without publishing head changes nothing the reader sees.
LEMMA StoreStutters ==
    ASSUME RingInv, RbStore
    PROVE  UNCHANGED <<Contents, accepted, out>>
  <1>1. RingInv'
    BY StorePreserves
  <1>2. Contents = Run(taken, Count(head, tail))
    BY RunNow DEF ContentsAreRun
  <1>3. Contents' = Run(taken', Count(head', tail'))
    BY <1>1, RunThen DEF ContentsAreRun
  <1> QED BY <1>2, <1>3 DEF RbStore

\* Publishing head puts the byte into the queue, which had room.
LEMMA PublishPuts ==
    ASSUME RingInv, RbPublish
    PROVE  Fifo!Put
  <1>1. RingInv'
    BY PublishPreserves
  <1>2. /\ Contents = Run(taken, Count(head, tail))
        /\ Count(head, tail) \in Nat /\ taken \in Nat /\ accepted = taken + Count(head, tail)
    BY RunNow DEF ContentsAreRun
  <1>3. /\ Contents' = Run(taken', Count(head', tail'))
        /\ Count(head', tail') \in 0..(Size - 1)
    BY <1>1, RunThen DEF ContentsAreRun
  <1>4. Count(head', tail') = Count(head, tail) + 1
    BY CountPublish DEF RbPublish, RingInv, RingTypeOK, RingHoldsUnread
  <1>5. Len(Contents) < Size - 1
    BY <1>2, <1>3, <1>4, RunIsSeq, RingAssumption
  <1>6. Contents' = Append(Contents, accepted)
    BY <1>2, <1>3, <1>4, RunAppend DEF RbPublish
  <1> QED BY <1>5, <1>6 DEF Fifo!Put, Contents, RbPublish

\* The reads of one interrupt take that many bytes off the queue's front.
LEMMA ReadGets ==
    ASSUME RingInv, NEW k, RbRead(k)
    PROVE  Fifo!Get
  <1>1. RingInv' /\ out' = taken' - 1
    BY ReadPreserves
  <1>2. /\ Contents = Run(taken, Count(head, tail))
        /\ Count(head, tail) \in Nat /\ taken \in Nat
        /\ k \in 1..Count(head, tail)
    BY RunNow DEF ContentsAreRun, RbRead
  <1>3. Contents' = Run(taken', Count(head', tail'))
    BY <1>1, RunThen DEF ContentsAreRun
  <1>4. Count(head', tail') = Count(head, tail) - k /\ taken' = taken + k
    BY <1>2, CountAdvance DEF RbRead, RingInv, RingTypeOK
  <1>5. Len(Contents) = Count(head, tail)
    BY <1>2, RunIsSeq
  <1>6. Contents' = SubSeq(Contents, k + 1, Len(Contents))
    <2>1. k \in 0..Count(head, tail)
      BY <1>2
    <2>2. SubSeq(Run(taken, Count(head, tail)), k + 1, Count(head, tail))
            = Run(taken + k, Count(head, tail) - k)
      BY <1>2, <2>1, RunDrop
    <2> QED BY <1>2, <1>3, <1>4, <1>5, <2>2
  <1>7. out' = Contents[k]
    BY <1>1, <1>2, <1>4 DEF Run
  <1> QED BY <1>2, <1>5, <1>6, <1>7 DEF Fifo!Get, Contents, RbRead

\* A flush empties the queue.
LEMMA FlushClears ==
    ASSUME RingInv, RbFlush
    PROVE  Fifo!Clear
  <1>1. Count(head', tail') = 0
    BY RingAssumption DEF RbFlush, Count
  <1>2. Contents' = << >>
    BY <1>1 DEF Contents
  <1> QED BY <1>2 DEF Fifo!Clear, Contents, RbFlush

-----------------------------------------------------------------------------
(***************************************************************************)
(* The driver: pwm_audio_write, the timer interrupt and the device calls   *)
(***************************************************************************)
\* While a chunk is converted, what is left of it fits the ring, and it was
\* cut from the input; a byte is half-written only inside a chunk.
ChunkFits ==
    /\ wpc = "bytes" => todo <= Free(head, tail) /\ chunk <= remain
    /\ wstep = "publish" => wpc = "bytes" /\ todo > 0

\* With two ring bytes per sample the stream is cut at sample boundaries: the
\* writer at the end of a chunk, the interrupt always unless it discards.
SamplesWhole ==
    /\ Wide => /\ wpc = "bytes" => (accepted + todo) % 2 = 0
               /\ wpc # "bytes" => accepted % 2 = 0
               /\ ch # 2 => taken % 2 = 0 /\ left % 2 = 0
    /\ bits = 0 => ch = 0 /\ timer = "off"
    /\ status = "uninit" => timer = "off"

PwmInv == /\ PwmTypeOK /\ RingInv
          /\ NoByteLost /\ WakeupArmed /\ ChunkFits /\ SamplesWhole

\* The invariant holds before pwm_audio_init.
LEMMA PwmInvInit == PInit => PwmInv
  <1> SUFFICES ASSUME PInit PROVE PwmInv
    OBVIOUS
  <1>1. RingInv
    BY RingInvInit DEF PInit
  <1> QED
    BY <1>1, PwmAssumption
    DEF PInit, RingInit, PwmInv, PwmTypeOK, NoByteLost, WakeupArmed, ChunkFits,
        SamplesWhole, RingInv

\* The device calls (init, set_param, start, stop, deinit, wait_complete and
\* the entry of pwm_audio_write) preserve it.
LEMMA CallsPreserve == PwmInv /\ Calls => PwmInv'
  <1> SUFFICES ASSUME PwmInv, Calls PROVE PwmInv'
    OBVIOUS
  <1> USE PwmAssumption
      DEF PwmInv, PwmTypeOK, NoByteLost, WakeupArmed, ChunkFits, SamplesWhole,
          callVars, semVars, devVars, histVars
  <1>1. CASE PwmInit
    <2>1. RingInv' /\ accepted' = accepted /\ taken' = accepted /\ wstep' = wstep
      BY <1>1, FlushPreserves DEF PwmInit, RbFlush
    <2> QED BY <1>1, <2>1 DEF PwmInit, RingInv
  <1>2. ASSUME NEW b \in BitWidths, NEW c \in Channels, SetParam(b, c)
        PROVE  PwmInv'
    <2>1. RingInv'
      BY <1>2 DEF SetParam, ringVars, RingInv, RingTypeOK, RingHoldsUnread
    <2> QED BY <1>2, <2>1 DEF SetParam, ringVars, RingInv
  <1>3. CASE Stop
    <2>1. RingInv' /\ accepted' = accepted /\ taken' = accepted /\ wstep' = wstep
      BY <1>3, FlushPreserves DEF Stop, RbFlush
    <2> QED BY <1>3, <2>1 DEF Stop, RingInv
  <1>4. CASE Start
    <2>1. RingInv'
      BY <1>4 DEF Start, ringVars, RingInv, RingTypeOK, RingHoldsUnread
    <2> QED BY <1>4, <2>1 DEF Start, ringVars, RingInv
  <1>5. CASE Deinit
    <2>1. RingInv'
      BY <1>5 DEF Deinit, ringVars, RingInv, RingTypeOK, RingHoldsUnread
    <2> QED BY <1>5, <2>1 DEF Deinit, ringVars, RingInv
  <1>6. CASE WaitComplete
    <2>1. RingInv'
      BY <1>6 DEF WaitComplete, ringVars, RingInv, RingTypeOK, RingHoldsUnread
    <2> QED BY <1>6, <2>1 DEF WaitComplete, ringVars, RingInv
  <1>7. ASSUME NEW n \in InSizes, WriteCall(n)
        PROVE  PwmInv'
    <2>1. RingInv'
      BY <1>7 DEF WriteCall, ringVars, RingInv, RingTypeOK, RingHoldsUnread
    <2> QED BY <1>7, <2>1 DEF WriteCall, ringVars, RingInv
  <1> QED BY <1>1, <1>2, <1>3, <1>4, <1>5, <1>6, <1>7 DEF Calls
\* The conversion loops never need more ring bytes than the room they were
\* given, nor more input, and always whole samples: for each sample format.
LEMMA ChunkSizes ==
    ASSUME NEW room \in Nat, bits \in {0, 8, 16, 32}
    PROVE  LET n == Aligned(room)
           IN  /\ n \in Nat /\ n <= room
               /\ InputBytes(n) \in Nat /\ InputBytes(n) <= n
               /\ Samples(n) * RingPerSample \in Nat
               /\ Samples(n) * RingPerSample <= n
               /\ Wide => (Samples(n) * RingPerSample) % 2 = 0
  BY PwmAssumption DEF Aligned, InputBytes, Samples, RingPerSample

\* Every step inside pwm_audio_write, its timeout included, preserves it.
LEMMA WritingPreserves == PwmInv /\ (Writing \/ WriteTimeout) => PwmInv'
  <1> SUFFICES ASSUME PwmInv, Writing \/ WriteTimeout PROVE PwmInv'
    OBVIOUS
  <1> USE PwmAssumption
      DEF PwmInv, PwmTypeOK, NoByteLost, WakeupArmed, ChunkFits, SamplesWhole,
          callVars, semVars, devVars, histVars
  <1>1. ASSUME UNCHANGED ringVars PROVE RingInv' /\ Free(head, tail)' = Free(head, tail)
    BY <1>1 DEF ringVars, RingInv, RingTypeOK, RingHoldsUnread
  <1>2. CASE WriteArm
    BY <1>1, <1>2 DEF WriteArm, ringVars, RingInv
  <1>3. CASE WriteTake
    BY <1>1, <1>3 DEF WriteTake, ringVars, RingInv
  <1>4. CASE WriteTimeout
    BY <1>1, <1>4 DEF WriteTimeout, ringVars, RingInv
  <1>5. CASE WriteDiscard
    BY <1>1, <1>5 DEF WriteDiscard, ringVars, RingInv
  <1>6. CASE WriteChunk
    <2> DEFINE room == Min2(remain, Free(head, tail))
               n == Aligned(room)
    <2>1. Free(head, tail) \in Nat /\ room \in Nat
      BY RingAssumption DEF RingTypeOK, Slots, Count, Free, Min2
    <2>2. room <= remain /\ room <= Free(head, tail)
      BY <2>1 DEF Min2
    <2>3. /\ n \in Nat /\ n <= room
          /\ InputBytes(n) \in Nat /\ InputBytes(n) <= n
          /\ Samples(n) * RingPerSample \in Nat
          /\ Samples(n) * RingPerSample <= n
          /\ Wide => (Samples(n) * RingPerSample) % 2 = 0
      BY <2>1, ChunkSizes
    <2>4. /\ chunk' = InputBytes(n) /\ todo' = Samples(n) * RingPerSample
          /\ wpc = "room" /\ wpc' = "bytes"
          /\ UNCHANGED <<remain, ringVars, semVars, devVars, histVars>>
      BY <1>6 DEF WriteChunk
    <2> HIDE DEF room, n
    <2>5. chunk' \in Nat /\ chunk' <= remain /\ todo' \in Nat
          /\ todo' <= Free(head, tail)
      BY <2>1, <2>2, <2>3, <2>4
    <2>6. Wide => (accepted + todo') % 2 = 0
      BY <2>3, <2>4 DEF RingTypeOK
    <2> QED BY <1>1, <2>4, <2>5, <2>6 DEF ringVars, RingInv
  <1>7. CASE WriteByte
    <2>1. NextIdx(head) # tail
      BY <1>7, RingAssumption DEF WriteByte, RingTypeOK, Slots, Free, Count, NextIdx
    <2>2. RbStore /\ UNCHANGED <<lost, todo>>
      BY <1>7, <2>1 DEF WriteByte
    <2>3. RingInv' /\ Free(head, tail)' = Free(head, tail) /\ accepted' = accepted
          /\ taken' = taken
      BY <2>2, StorePreserves DEF RbStore
    <2> QED BY <1>7, <2>2, <2>3 DEF WriteByte, RingInv
  <1>8. CASE WritePublish
    <2>1. RingInv' /\ accepted' = accepted + 1 /\ taken' = taken /\ wstep' = "store"
          /\ todo > 0
      BY <1>8, PublishPreserves DEF WritePublish, RbPublish
    <2>2. Free(head, tail)' = Free(head, tail) - 1
      <3>1. head \in Slots /\ tail \in Slots /\ NextIdx(head) # tail
        BY <1>8 DEF WritePublish, RbPublish, RingInv, RingTypeOK, RingHoldsUnread
      <3>2. Count(NextIdx(head), tail) = Count(head, tail) + 1
        BY <3>1, CountPublish
      <3>3. Count(head, tail) \in Nat
        BY <3>1, RingAssumption DEF Slots, Count
      <3> QED BY <1>8, <3>2, <3>3, RingAssumption DEF WritePublish, RbPublish, Free
    <2>3. Free(head, tail) \in Nat
      BY RingAssumption DEF RingTypeOK, Slots, Count, Free
    <2>4. accepted' + todo' = accepted + todo /\ todo' \in Nat
      BY <1>8, <2>1 DEF WritePublish, RingTypeOK
    <2> QED BY <1>8, <2>1, <2>2, <2>3, <2>4 DEF WritePublish, RingInv
  <1>9. CASE WriteLoop
    <2>1. remain' \in Nat /\ wpc' \in {"arm", "out"} /\ accepted + todo = accepted
      BY <1>9 DEF WriteLoop, RingTypeOK
    <2> QED BY <1>1, <1>9, <2>1 DEF WriteLoop, ringVars, RingInv
  <1> QED BY <1>2, <1>3, <1>4, <1>5, <1>6, <1>7, <1>8, <1>9 DEF Writing

\* What one interrupt takes is there, and is whole samples except when it
\* discards the right channel of stereo data.
LEMMA TakenSizes ==
    ASSUME NEW c \in Nat, ch \in {0, 1, 2}
    PROVE  /\ Taken(c) \in 0..c
           /\ Wide /\ ch # 2 => Taken(c) % 2 = 0
  BY PwmAssumption DEF Taken, LeftTake, RightTake, SampleTake, Min2

\* The timer interrupt preserves it, at whatever step it finds the writer.
LEMMA IsrPreserves == PwmInv /\ Isr => PwmInv'
  <1> SUFFICES ASSUME PwmInv, Isr PROVE PwmInv'
    OBVIOUS
  <1> DEFINE c == Count(head, tail)
             n == Taken(c)
  <1> USE PwmAssumption DEF PwmInv
  <1>1. c \in Nat /\ c < Size
    BY RingAssumption DEF PwmTypeOK, RingTypeOK, Slots, Count
  <1>2. n \in 0..c /\ (Wide /\ ch # 2 => n % 2 = 0)
    BY <1>1, TakenSizes DEF PwmTypeOK
  <1>3. IF n > 0 THEN RbRead(n) ELSE UNCHANGED ringVars
    BY DEF Isr
  <1>4. /\ left' = taken \/ left' = left
        /\ UNCHANGED <<callVars, devVars, lost>> /\ timer = "on"
        /\ Give(c - n)
    BY DEF Isr
  <1>5. /\ RingInv' /\ taken' = taken + n
        /\ UNCHANGED <<head, wstep, accepted>>
        /\ Count(head, tail') = c - n
    <2>1. CASE n > 0
      BY <1>1, <1>2, <1>3, <2>1, ReadPreserves, CountAdvance
      DEF RbRead, RingInv, RingTypeOK
    <2>2. CASE n = 0
      BY <1>1, <1>2, <1>3, <2>2
      DEF ringVars, RingInv, RingTypeOK, RingHoldsUnread, PwmTypeOK
    <2> QED BY <1>2, <2>1, <2>2
  <1> HIDE DEF n
  <1>6. /\ is_give' \in {0, 1} /\ semrb' \in 0..MaxSem /\ semdone' \in 0..MaxSem
        /\ is_give' = 0 \/ semrb' > 0 \/ (is_give' = is_give /\ semrb' = semrb)
    BY <1>1, <1>2, <1>4 DEF Give, Released, Min2, semVars, PwmTypeOK
  <1>7. Free(head, tail)' >= Free(head, tail)
    BY <1>1, <1>2, <1>5, RingAssumption DEF Free
  <1>8. Free(head, tail)' \in Nat /\ Free(head, tail) \in Nat
    BY <1>1, <1>2, <1>5, RingAssumption DEF Free
  <1>9. PwmTypeOK'
    BY <1>4, <1>5, <1>6 DEF PwmTypeOK, RingInv, RingTypeOK, callVars, devVars
  <1>10. NoByteLost' /\ WakeupArmed'
    BY <1>4, <1>6 DEF NoByteLost, WakeupArmed, callVars
  <1>11. ChunkFits'
    BY <1>4, <1>5, <1>7, <1>8 DEF ChunkFits, callVars, PwmTypeOK
  <1>12. SamplesWhole'
    <2>1. taken \in Nat /\ n \in Nat
      BY <1>1, <1>2 DEF PwmTypeOK, RingTypeOK
    <2>2. taken % 2 = 0 /\ n % 2 = 0 => (taken + n) % 2 = 0
      BY <2>1
    <2> QED BY <1>2, <1>4, <1>5, <2>2 DEF SamplesWhole, callVars, devVars
  <1> QED BY <1>5, <1>9, <1>10, <1>11, <1>12

\* PwmInv is inductive.
LEMMA PwmInvNext == PwmInv /\ [PNext]_vars => PwmInv'
  <1> SUFFICES ASSUME PwmInv, [PNext]_vars PROVE PwmInv'
    OBVIOUS
  <1>1. CASE UNCHANGED vars
    BY <1>1
    DEF vars, ringVars, callVars, semVars, devVars, histVars, PwmInv, PwmTypeOK,
        RingInv, RingTypeOK, RingHoldsUnread, NoByteLost, WakeupArmed, ChunkFits,
        SamplesWhole
  <1> QED BY <1>1, CallsPreserve, WritingPreserves, IsrPreserves DEF PNext

\* For every configuration, the driver's variables keep their types.
THEOREM PwmTypeCorrect == PSpec => []PwmTypeOK
  <1>1. PwmInv => PwmTypeOK
    BY DEF PwmInv
  <1> QED BY <1>1, PwmInvInit, PwmInvNext, PTL DEF PSpec

\* For every ring size, sample format and chunk length, pwm_audio_write never
\* meets a full ring in its conversion loops, so no byte is dropped there.
THEOREM PwmNoByteLost == PSpec => []NoByteLost
  <1>1. PwmInv => NoByteLost
    BY DEF PwmInv
  <1> QED BY <1>1, PwmInvInit, PwmInvNext, PTL DEF PSpec

\* For every configuration, a writer asleep on the semaphore can be woken.
THEOREM PwmWakeupArmed == PSpec => []WakeupArmed
  <1>1. PwmInv => WakeupArmed
    BY DEF PwmInv
  <1> QED BY <1>1, PwmInvInit, PwmInvNext, PTL DEF PSpec

\* For every configuration, mono output is made of whole samples.
THEOREM PwmMonoSamplesWhole == PSpec => []MonoSamplesWhole
  <1>1. PwmInv => MonoSamplesWhole
    BY DEF PwmInv, SamplesWhole, MonoSamplesWhole
  <1> QED BY <1>1, PwmInvInit, PwmInvNext, PTL DEF PSpec

\* For every configuration the driver uses its ring correctly: whatever the
\* interrupt takes of it and whenever it is flushed, the ring holds exactly
\* the unread bytes, oldest first.
THEOREM PwmRingHoldsUnread == PSpec => []RingHoldsUnread
  <1>1. PwmInv => RingHoldsUnread
    BY DEF PwmInv, RingInv
  <1> QED BY <1>1, PwmInvInit, PwmInvNext, PTL DEF PSpec

\* For every configuration the interrupt plays bytes in the order
\* pwm_audio_write stored them.
THEOREM PwmReadsInOrder == PSpec => ReadsInOrder
  <1>1. PwmInv /\ [PNext]_vars
        => [out' # out => out' = taken' - 1 /\ out < out']_ringVars
    <2> SUFFICES ASSUME PwmInv, [PNext]_vars, out' # out
                 PROVE  out' = taken' - 1 /\ out < out'
      OBVIOUS
    <2>1. CASE Isr
      <3>1. RbRead(Taken(Count(head, tail)))
        BY <2>1 DEF Isr, ringVars
      <3> QED BY <3>1, ReadPreserves DEF PwmInv
    <2>2. CASE Calls
      BY <2>2 DEF Calls, PwmInit, SetParam, Stop, Start, Deinit, WaitComplete,
                  WriteCall, RbFlush, ringVars
    <2>3. CASE Writing \/ WriteTimeout
      BY <2>3 DEF Writing, WriteArm, WriteTake, WriteChunk, WriteDiscard, WriteByte,
                  WritePublish, WriteLoop, WriteTimeout, RbStore, RbPublish, ringVars
    <2>4. CASE UNCHANGED vars
      BY <2>4 DEF vars, ringVars
    <2> QED BY <2>1, <2>2, <2>3, <2>4 DEF PNext
  <1> QED BY <1>1, PwmInvInit, PwmInvNext, PTL DEF PSpec, ReadsInOrder

\* For every configuration the driver's lock-free ring, written byte by byte
\* and interrupted anywhere, implements a bounded queue of bytes: the
\* refinement of ByteFifo.
THEOREM PwmImplementsFifo == PSpec => FifoSpec
  <1>1. PInit => Fifo!FInit
    <2> SUFFICES ASSUME PInit PROVE Fifo!FInit
      OBVIOUS
    <2>1. Count(head, tail) = 0
      BY DEF PInit, RingInit, Count
    <2> QED BY <2>1 DEF Fifo!FInit, PInit, RingInit
  <1>2. PwmInv /\ [PNext]_vars => [Fifo!FNext]_(Fifo!fvars)
    <2> SUFFICES ASSUME PwmInv, [PNext]_vars
                 PROVE  Fifo!FNext \/ UNCHANGED Fifo!fvars
      OBVIOUS
    <2> USE DEF PwmInv
    <2>0. UNCHANGED ringVars => UNCHANGED Fifo!fvars
      BY DEF ringVars, Fifo!fvars
    <2>1. CASE Isr
      <3>1. UNCHANGED ringVars \/ RbRead(Taken(Count(head, tail)))
        BY <2>1 DEF Isr
      <3> QED BY <2>0, <3>1, ReadGets DEF Fifo!FNext
    <2>2. CASE Calls
      <3>1. UNCHANGED ringVars \/ RbFlush
        BY <2>2 DEF Calls, PwmInit, SetParam, Stop, Start, Deinit, WaitComplete, WriteCall
      <3> QED BY <2>0, <3>1, FlushClears DEF Fifo!FNext
    <2>3. CASE Writing \/ WriteTimeout
      <3>1. UNCHANGED ringVars \/ RbStore \/ RbPublish
        BY <2>3 DEF Writing, WriteArm, WriteTake, WriteChunk, WriteDiscard, WriteByte,
                    WritePublish, WriteLoop, WriteTimeout
      <3>2. RbStore => UNCHANGED Fifo!fvars
        BY StoreStutters DEF Contents, Fifo!fvars
      <3> QED BY <2>0, <3>1, <3>2, PublishPuts DEF Fifo!FNext
    <2>4. CASE UNCHANGED vars
      BY <2>0, <2>4 DEF vars
    <2> QED BY <2>1, <2>2, <2>3, <2>4 DEF PNext
  <1> QED BY <1>1, <1>2, PwmInvInit, PwmInvNext, PTL DEF PSpec, FifoSpec, Fifo!FSpec
=============================================================================
