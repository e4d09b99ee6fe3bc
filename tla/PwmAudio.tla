------------------------------ MODULE PwmAudio ------------------------------
(***************************************************************************)
(* The PWM audio driver, board/ports/audio/pwm_audio.c: pwm_audio_write in *)
(* the player thread fills the ring of module RingBuf, the timer interrupt *)
(* cb_timer2 empties it, and the pair is_give / semaphore_rb lets the      *)
(* writer sleep until there is room.                                       *)
(*                                                                         *)
(* The calls come from one thread in the order player.c makes them: init,  *)
(* set_param (which already starts the timer), writes, stop and start      *)
(* around a pause, deinit.  The interrupt may fire between any two of the  *)
(* writer's steps.  A sample is the position of its bytes in the stream of *)
(* accepted bytes; volume and the 8/16/32 bit arithmetic are left out, the *)
(* number of bytes each format takes and gives is kept.                    *)
(***************************************************************************)
EXTENDS RingBuf

CONSTANTS
    MinFree,    \* BUFFER_MIN_SIZE
    Wide,       \* config.duty_resolution > 8: two ring bytes per sample
    Left,       \* config.gpio_num_left >= 0
    Right,      \* config.gpio_num_right >= 0
    BitWidths,  \* sample widths the files use
    Channels,   \* channel counts the files use
    InSizes,    \* lengths of the audio chunks written
    MaxSem      \* RT_SEM_VALUE_MAX

ASSUME PwmAssumption ==
    /\ MinFree \in Nat /\ Size >= 4 * MinFree          \* rb_create
    /\ Wide \in BOOLEAN /\ Left \in BOOLEAN /\ Right \in BOOLEAN
    /\ Left \/ Right                                   \* RT_ASSERT in init
    /\ BitWidths \subseteq {8, 16, 32} /\ Channels \subseteq {1, 2}
    /\ InSizes \subseteq Nat \ {0} /\ MaxSem \in Nat \ {0}

VARIABLES
    status,     \* handle->status
    timer,      \* "on" while gen_timer raises cb_timer2, else "off"
    bits, ch,   \* bits_per_sample, channel_set_num (0 before set_param)
    is_give,    \* rb->is_give
    semrb,      \* value of semaphore_rb
    semdone,    \* value of sem_complete
    wpc,        \* where the thread is inside pwm_audio_write; "out" outside
    remain,     \* inbuf_len
    chunk,      \* bytes_can_write: input bytes of the chunk being converted
    todo,       \* ring bytes of that chunk not yet passed to rb_write_byte
    lost,       \* history: calls of rb_write_byte that found the ring full
    left        \* history: stream position of the sample last on the left pin

callVars == <<wpc, remain, chunk, todo>>
semVars  == <<is_give, semrb, semdone>>
devVars  == <<status, timer, bits, ch>>
histVars == <<lost, left>>
vars == <<ringVars, callVars, semVars, devVars, histVars>>

Min2(a, b) == IF a < b THEN a ELSE b

\* rt_sem_release: saturates at the largest value.
Released(s) == Min2(s + 1, MaxSem)

RingPerSample == IF Wide THEN 2 ELSE 1
\* Mutant of Samples: the widening of 8-bit samples is forgotten.
SamplesNarrow(n) == IF bits = 8 THEN n ELSE IF bits = 16 THEN n \div 2 ELSE n \div 4

\* len of the conversion loop, and bytes_can_write after it: an 8-bit sample
\* widened to two ring bytes takes only half of the room as input.
Samples(n) == IF bits = 8 THEN (IF Wide THEN n \div 2 ELSE n)
              ELSE IF bits = 16 THEN n \div 2 ELSE n \div 4
InputBytes(n) == IF bits = 8 /\ Wide THEN n \div 2 ELSE n
\* bytes_can_write &= 0xfffffffc
Aligned(n) == 4 * (n \div 4)

PInit ==
    /\ RingInit
    /\ status = "uninit" /\ timer = "off" /\ bits = 0 /\ ch = 0
    /\ is_give = 0 /\ semrb = 0 /\ semdone = 0
    /\ wpc = "out" /\ remain = 0 /\ chunk = 0 /\ todo = 0
    /\ lost = 0 /\ left = 0

-----------------------------------------------------------------------------
(* Device calls of the player thread, outside pwm_audio_write.             *)

\* pwm_audio_init with rb_create: a fresh handle, ring and semaphores.
PwmInit ==
    /\ wpc = "out" /\ status = "uninit"
    /\ status' = "idle" /\ bits' = 0 /\ ch' = 0
    /\ is_give' = 0 /\ semrb' = 0 /\ semdone' = 0
    /\ RbFlush
    /\ left' = 0
    /\ UNCHANGED <<timer, callVars, lost>>

\* pwm_audio_set_param: the timer runs from here on, before any start.
SetParam(b, c) ==
    /\ wpc = "out" /\ status = "idle" /\ bits = 0
    /\ bits' = b /\ ch' = c /\ timer' = "on"
    /\ UNCHANGED <<status, ringVars, callVars, semVars, histVars>>

\* pwm_audio_stop: the semaphore and is_give survive the flush.
Stop ==
    /\ wpc = "out" /\ timer = "on"
    /\ timer' = "off" /\ status' = "idle"
    /\ RbFlush
    /\ UNCHANGED <<bits, ch, callVars, semVars, histVars>>

\* pwm_audio_start, asserted to find the device idle.
Start ==
    /\ wpc = "out" /\ timer = "off" /\ bits # 0 /\ status = "idle"
    /\ status' = "busy" /\ timer' = "on"
    /\ UNCHANGED <<bits, ch, ringVars, callVars, semVars, histVars>>

\* pwm_audio_deinit: timers closed, semaphores and ring freed.
Deinit ==
    /\ wpc = "out" /\ status # "uninit"
    /\ status' = "uninit" /\ timer' = "off"
    /\ UNCHANGED <<bits, ch, ringVars, callVars, semVars, histVars>>

\* pwm_audio_wait_complete, when the semaphore has a token.
WaitComplete ==
    /\ wpc = "out" /\ status # "uninit" /\ semdone > 0
    /\ semdone' = semdone - 1
    /\ UNCHANGED <<is_give, semrb, devVars, ringVars, callVars, histVars>>

-----------------------------------------------------------------------------
(* pwm_audio_write.                                                        *)

WriteCall(n) ==
    /\ wpc = "out" /\ timer = "on" /\ accepted < MaxBytes
    /\ remain' = n /\ chunk' = 0 /\ todo' = 0
    /\ wpc' = "arm"
    /\ UNCHANGED <<ringVars, semVars, devVars, histVars>>

\* Mutant of WriteArm: giving again is not allowed before the wait.
WriteArmForgets ==
    /\ wpc = "arm"
    /\ wpc' = "wait"
    /\ UNCHANGED <<semVars, remain, chunk, todo, ringVars, devVars, histVars>>

\* rb_wait_semaphore: "it's allowed to give semaphore again".
WriteArm ==
    /\ wpc = "arm"
    /\ is_give' = 0
    /\ wpc' = "wait"
    /\ UNCHANGED <<semrb, semdone, remain, chunk, todo, ringVars, devVars, histVars>>

WriteTake ==
    /\ wpc = "wait" /\ semrb > 0
    /\ semrb' = semrb - 1
    /\ wpc' = "room"
    /\ UNCHANGED <<is_give, semdone, remain, chunk, todo, ringVars, devVars, histVars>>

\* rt_sem_take times out; then the whole of ticks_to_wait has passed.
WriteTimeout ==
    /\ wpc = "wait" /\ semrb = 0
    /\ wpc' = "out" /\ remain' = 0
    /\ UNCHANGED <<semVars, chunk, todo, ringVars, devVars, histVars>>

\* Room for at least four bytes: start a chunk.
WriteChunk ==
    LET n == Aligned(Min2(remain, Free(head, tail)))
    IN  /\ wpc = "room" /\ n > 0
        /\ chunk' = InputBytes(n)
        /\ todo' = Samples(n) * RingPerSample
        /\ wpc' = "bytes"
        /\ UNCHANGED <<remain, ringVars, semVars, devVars, histVars>>

\* bytes_can_write is 0: everything that is left counts as written.
WriteDiscard ==
    /\ wpc = "room" /\ Aligned(Min2(remain, Free(head, tail))) = 0
    /\ wpc' = "out" /\ remain' = 0
    /\ UNCHANGED <<chunk, todo, ringVars, semVars, devVars, histVars>>

\* rb_write_byte, whose result nobody looks at: a full ring loses the byte.
WriteByte ==
    /\ wpc = "bytes" /\ todo > 0 /\ wstep = "store"
    /\ IF NextIdx(head) = tail
       THEN /\ lost' = lost + 1 /\ todo' = todo - 1
            /\ UNCHANGED ringVars
       ELSE RbStore /\ UNCHANGED <<lost, todo>>
    /\ UNCHANGED <<wpc, remain, chunk, semVars, devVars, left>>

WritePublish ==
    /\ wpc = "bytes"
    /\ RbPublish
    /\ todo' = todo - 1
    /\ UNCHANGED <<wpc, remain, chunk, semVars, devVars, histVars>>

\* End of an iteration: all written, out of time, or once more.
WriteLoop ==
    /\ wpc = "bytes" /\ todo = 0
    /\ remain' = remain - chunk
    /\ wpc' \in IF remain = chunk THEN {"out"} ELSE {"arm", "out"}
    /\ UNCHANGED <<chunk, todo, ringVars, semVars, devVars, histVars>>

-----------------------------------------------------------------------------
(* cb_timer2.                                                              *)

\* Mutant of SampleTake: half a sample is played when one byte is there.
SampleTakeHalf(c) == Min2(c, IF Wide THEN 2 ELSE 1)

\* Bytes one output consumes: a whole sample or nothing.
SampleTake(c) == IF Wide THEN (IF c > 1 THEN 2 ELSE 0) ELSE Min2(c, 1)
LeftTake(c) == IF Left THEN SampleTake(c) ELSE 0
\* The right output, or the discard when there is no right pin: the samples'
\* bytes and then one more rb_read_byte.
RightTake(c) ==
    IF Right THEN (IF ch = 1 THEN 0 ELSE SampleTake(c))
    ELSE IF ch = 2 THEN Min2(SampleTake(c) + 1, c) ELSE 0
Taken(c) == LeftTake(c) + RightTake(c - LeftTake(c))

\* The tail of the interrupt: wake the writer once there is room.
Give(c) ==
    IF is_give = 0 /\ Size - c - 1 > MinFree
    THEN /\ is_give' = 1
         /\ semrb' = Released(semrb)
         /\ semdone' = IF c <= 1 THEN Released(semdone) ELSE semdone
    ELSE UNCHANGED semVars

Isr ==
    LET c == Count(head, tail)
        n == Taken(c)
    IN  /\ timer = "on"
        /\ IF n > 0 THEN RbRead(n) ELSE UNCHANGED ringVars
        /\ left' = IF LeftTake(c) > 0 THEN taken ELSE left
        /\ Give(c - n)
        /\ UNCHANGED <<callVars, devVars, lost>>

-----------------------------------------------------------------------------
Calls == PwmInit \/ (\E b \in BitWidths, c \in Channels : SetParam(b, c))
         \/ Stop \/ Start \/ Deinit \/ WaitComplete \/ (\E n \in InSizes : WriteCall(n))
Writing == WriteArm \/ WriteTake \/ WriteChunk \/ WriteDiscard \/ WriteByte
           \/ WritePublish \/ WriteLoop

PNext == Calls \/ Writing \/ WriteTimeout \/ Isr
PSpec == PInit /\ [][PNext]_vars

\* The timer keeps interrupting and the player thread is scheduled; nothing
\* is assumed of timeouts or of what the player calls next.
PFairSpec == PSpec /\ WF_vars(Isr) /\ WF_vars(Writing)

-----------------------------------------------------------------------------
(* Properties.                                                             *)

\* Every variable has its type.
PwmTypeOK ==
    /\ RingTypeOK
    /\ status \in {"uninit", "idle", "busy"} /\ timer \in {"on", "off"}
    /\ bits \in {0, 8, 16, 32} /\ ch \in {0, 1, 2}
    /\ is_give \in {0, 1} /\ semrb \in 0..MaxSem /\ semdone \in 0..MaxSem
    /\ wpc \in {"out", "arm", "wait", "room", "bytes"}
    /\ remain \in Nat /\ chunk \in Nat /\ todo \in Nat
    /\ lost \in Nat /\ left \in Nat

\* The room measured before the conversion loop lasts to its end in every
\* format, so the ignored result of rb_write_byte never hides a lost byte.
NoByteLost == lost = 0

\* A writer asleep on the semaphore can always be woken: either a token is
\* there or the interrupt is still allowed to give one (no lost wake-up).
WakeupArmed == wpc = "wait" => is_give = 0 \/ semrb > 0

\* With one channel, every PWM value is built from the two bytes of one
\* sample, although the interrupt sees half-written chunks and the ring may
\* run empty at any byte.
MonoSamplesWhole == Wide /\ ch = 1 => left % 2 = 0

\* A blocked writer goes on, by the interrupt alone, without its timeout.
WriterWakes == wpc = "wait" ~> wpc # "wait"

\* Comment in the interrupt: with stereo data and no right pin, "discard the
\* right channel data": the left pin plays left samples, which start every
\* four bytes.
LeftPlaysLeft == Wide /\ ch = 2 /\ ~Right => left % 4 = 0
=============================================================================
