-------------------------------- MODULE Jpeg --------------------------------
(***************************************************************************)
(* Decoding one video frame: JPEG_Draw_frame of ports/drv_jpeg.c, run by   *)
(* the player thread, against the codec's interrupts (r_jpeg.c).  Each     *)
(* interrupt calls decode_callback, which overwrites g_jpeg_status and     *)
(* releases a semaphore; the thread waits for that at most JPEG_TIMEOUT    *)
(* and gives up the frame otherwise.  The semaphore is never reset, so     *)
(* what a frame leaves in it meets the next one.  The codec writes bands   *)
(* of 16 lines into one buffer and pauses until the thread has drawn it.   *)
(***************************************************************************)
EXTENDS Naturals

CONSTANTS Bands,      \* bands of a frame
          MaxChunks,  \* a frame has up to this many blocks of DCODE_BUFFER_SIZE bytes
          MaxSem      \* the semaphore's largest value (RT_SEM_VALUE_MAX)

ASSUME JpegAssumption == Bands \in Nat \ {0} /\ MaxChunks \in Nat \ {0} /\ MaxSem \in Nat \ {0}

Flags == {"idle", "run", "header", "in", "out", "size", "err", "done"}   \* jpeg_status_t

VARIABLES pc,       \* where JPEG_Draw_frame is
          err,      \* Error; the result of the last frame in "ready"
          gst,      \* g_jpeg_status
          sem,      \* _SemaphoreJPEG
          y,        \* bands drawn
          cst,      \* p_ctrl->status
          open,     \* 1 while the codec's interrupts are enabled
          out,      \* 1 while the codec writes into the buffer
          inp,      \* 1 while it reads a block of input
          chunks,   \* blocks of input after the one it reads
          word,     \* the status a driver call has worked out and not yet stored
          lines,    \* total_lines_decoded, in bands
          extra,    \* 1 if the end of the transfer had an interrupt of its own
          left,     \* history: the semaphore's value at the start of the frame
          whole     \* history: 1 if the frame has one block of input

thread == <<pc, err, y, word, left, whole>>
codec  == <<cst, open, out, inp, chunks, lines, extra>>
jvars  == <<thread, gst, sem, codec>>

JpegInit ==
  /\ pc = "ready" /\ err = 0 /\ gst = {} /\ sem = 0 /\ y = 0
  /\ cst = {} /\ open = 0 /\ out = 0 /\ inp = 0 /\ chunks = 0 /\ lines = 0
  /\ left = 0 /\ whole = 1 /\ word = {} /\ extra = 0

-----------------------------------------------------------------------------
(***************************************************************************)
(* The codec: each interrupt sets the status and calls decode_callback     *)
(***************************************************************************)
\* Mutant: a semaphore without a largest value.
ReleaseUncapped == sem' = sem + 1
Release  == sem' = IF sem < MaxSem THEN sem + 1 ELSE sem
Callback(s) == cst' = s /\ gst' = s /\ Release

\* jpeg_jedi_isr: the header is read; the codec stops there.  Dimensions that
\* do not fit its blocks are an error.
SizeReady ==
  /\ open = 1 /\ "header" \in cst /\ inp = 1
  /\ \E bad \in {{}, {"err"}} : Callback((cst \ {"header", "run"}) \cup {"size"} \cup bad)
  /\ inp' = 0
  /\ UNCHANGED <<thread, open, out, chunks, lines, extra>>

\* jpeg_jedi_isr: data that cannot be decoded.
BadData ==
  /\ open = 1 /\ "err" \notin cst /\ (out = 1 \/ ("header" \in cst /\ inp = 1))
  /\ Callback({"err"}) /\ out' = 0 /\ inp' = 0
  /\ UNCHANGED <<thread, open, chunks, lines, extra>>

\* jpeg_jdti_isr: a block of input is used up.
InputPause ==
  /\ open = 1 /\ "err" \notin cst /\ inp = 1 /\ chunks > 0
  /\ Callback((cst \ {"run"}) \cup {"in"}) /\ inp' = 0 /\ chunks' = chunks - 1
  /\ UNCHANGED <<thread, open, out, lines, extra>>

\* jpeg_jdti_isr: a band is written, and perhaps a block of input used up, in
\* one interrupt; the last band ends the operation.
BandWritten ==
  /\ open = 1 /\ "err" \notin cst /\ out = 1
  /\ lines' = lines + 1 /\ out' = 0
  /\ \E used \in {0} \cup {n \in {1} : inp = 1 /\ chunks > 0} :
       /\ inp' = (IF used = 1 THEN 0 ELSE inp) /\ chunks' = chunks - used
       /\ Callback(IF lines' >= Bands THEN {"idle", "done"}
                   ELSE (cst \ {"run"}) \cup {"out"} \cup {f \in {"in"} : used = 1})
  /\ UNCHANGED <<thread, open, extra>>

\* jpeg_jdti_isr: the codec may signal the end of the transfer (DBTF) together
\* with its last band or after it.
TransferEnd ==
  /\ open = 1 /\ "err" \notin cst /\ lines = Bands /\ extra = 0
  /\ Callback({"idle", "done"}) /\ extra' = 1
  /\ UNCHANGED <<thread, open, out, inp, chunks, lines>>

Codec == SizeReady \/ BadData \/ InputPause \/ BandWritten \/ TransferEnd

-----------------------------------------------------------------------------
(***************************************************************************)
(* JPEG_Draw_frame, cut where it meets what an interrupt changes.  A call  *)
(* of the codec driver tests p_ctrl->status at one moment and stores it at *)
(* another: what an interrupt puts there in between is lost.               *)
(***************************************************************************)
At(p, q)   == pc = p /\ pc' = q
Fails(p, n) == pc = p /\ pc' = "close" /\ err' = n

\* The status is reset and the codec opened (R_JPEG_Open).
Open ==
  /\ At("ready", "head1") /\ err' = 0 /\ y' = 0 /\ gst' = {}
  /\ cst' = {"idle"} /\ open' = 1 /\ out' = 0 /\ inp' = 0 /\ lines' = 0
  /\ \E n \in 1..MaxChunks : chunks' = n - 1 /\ whole' = (IF n = 1 THEN 1 ELSE 0)
  /\ left' = sem /\ extra' = 0 /\ UNCHANGED <<sem, word>>

\* A test of g_jpeg_status: on to q if it holds, to r if not.
Branch(p, flags, q, r) ==
  /\ pc = p /\ pc' = IF gst \cap flags # {} THEN q ELSE r
  /\ UNCHANGED <<err, y, word, left, whole, gst, sem, codec>>

Head1 == Branch("head1", {"err"}, "geometry", "in1")
Size  == Branch("size", {"size"}, "geometry", "head1")
Head2 == Branch("head2", {"err"}, "close", "wait2")
Test  == Branch("test", {"out", "done"}, "draw", "intest")
Last  == Branch("last", {"done"}, "intest", "out2")
InTest == Branch("intest", {"in"}, "in2", "done")
\* Mutant: a pause for output is taken for the end.
DoneAtPause == Branch("done", {"out", "done"}, "close", "head2")
Done  == Branch("done", {"done"}, "close", "head2")

\* R_JPEG_InputBufferSet: start an idle codec, resume one that waits for input.
InputBuffer(p, w, q, n) ==
  /\ \/ "err" \in cst /\ Fails(p, n) /\ UNCHANGED word
     \/ /\ "err" \notin cst /\ cst \cap {"idle", "in"} # {} /\ At(p, w) /\ UNCHANGED err
        /\ word' = IF "idle" \in cst THEN {"header"} ELSE (cst \ {"in"}) \cup {"run"}
     \/ cst \cap {"err", "idle", "in"} = {} /\ At(p, q) /\ UNCHANGED <<err, word>>
  /\ UNCHANGED <<y, left, whole, gst, sem, codec>>

\* Its end: the status is stored and the codec reads the block.
InputGo(w, q) ==
  /\ At(w, q) /\ cst' = word /\ inp' = 1
  /\ UNCHANGED <<err, y, word, left, whole, gst, sem, open, out, chunks, lines, extra>>

In1 == InputBuffer("in1", "in1set", "wait1", 2) \/ InputGo("in1set", "wait1")
In2 == InputBuffer("in2", "in2set", "done", 9) \/ InputGo("in2set", "done")

\* Mutant: the result of rt_sem_take is ignored.
WaitUnchecked(p, q, n) ==
  /\ sem' = (IF sem > 0 THEN sem - 1 ELSE 0) /\ At(p, q)
  /\ UNCHANGED <<err, y, word, left, whole, gst, codec>>

\* Mutant: the wait has no timeout.
WaitForever(p, q, n) ==
  \/ /\ sem > 0 /\ sem' = sem - 1 /\ At(p, q)
     /\ UNCHANGED <<err, y, word, left, whole, gst, codec>>
  \/ pc = p /\ sem = 0 /\ UNCHANGED jvars

\* _WaitForCallbackTimed: take a token, or give up when there was none.
Wait(p, q, n) ==
  /\ \/ sem > 0 /\ sem' = sem - 1 /\ At(p, q) /\ UNCHANGED err
     \/ sem = 0 /\ UNCHANGED sem /\ Fails(p, n)
  /\ UNCHANGED <<y, word, left, whole, gst, codec>>

\* Mutant: the header loop tests for a token without taking it.
Wait1Polls ==
  /\ sem > 0 /\ At("wait1", "size")
  /\ UNCHANGED <<err, y, word, left, whole, gst, sem, codec>>
Wait1 == Wait("wait1", "size", 3)
Wait2 == Wait("wait2", "test", 8)

\* The image's size; R_JPEG_DecodeImageSizeGet never fails, as the parameter
\* checks are compiled out.
Geometry ==
  /\ \/ "err" \in gst /\ Fails("geometry", 5)
     \/ "err" \notin gst /\ At("geometry", "stride") /\ UNCHANGED err
  /\ UNCHANGED <<y, word, left, whole, gst, sem, codec>>

\* R_JPEG_DecodeHorizontalStrideSet looks at the driver's own status.
Stride ==
  /\ pc = "stride" /\ pc' = IF "err" \in cst THEN "close" ELSE "out1"
  /\ err' = IF "err" \in cst THEN 6 ELSE err
  /\ UNCHANGED <<y, word, left, whole, gst, sem, codec>>

\* R_JPEG_OutputBufferSet: start the decoding, or resume it after a band.  An
\* image of no lines cannot be started (r_jpeg_decode_line_number_get).
OutputBuffer(p, w, q, n) ==
  /\ \/ ("err" \in cst \/ (cst = {"size"} /\ lines = 0)) /\ Fails(p, n) /\ UNCHANGED word
     \/ /\ "err" \notin cst /\ (cst = {"size"} \/ {"size", "out"} \subseteq cst)
        /\ At(p, w) /\ word' = (cst \ {"out"}) \cup {"run"} /\ UNCHANGED err
     \/ /\ "err" \notin cst /\ cst # {"size"} /\ ~({"size", "out"} \subseteq cst)
        /\ At(p, q) /\ UNCHANGED <<err, word>>
  /\ UNCHANGED <<y, left, whole, gst, sem, codec>>

\* Its end: the status is stored and the codec writes; at the start of the
\* decoding it also reads on, from where the header made it stop.
OutputGo(w, q) ==
  /\ At(w, q) /\ cst' = word /\ out' = 1 /\ inp' = IF lines = 0 THEN 1 ELSE inp
  /\ UNCHANGED <<err, y, word, left, whole, gst, sem, open, chunks, lines, extra>>

Out1 == OutputBuffer("out1", "out1set", "head2", 7) \/ OutputGo("out1set", "head2")
Out2 == OutputBuffer("out2", "out2set", "intest", 10) \/ OutputGo("out2set", "intest")

\* The band is copied to the screen's buffer (decode_read).
Draw ==
  /\ At("draw", "last") /\ y' = y + 1
  /\ UNCHANGED <<err, word, left, whole, gst, sem, codec>>

\* R_JPEG_Close: interrupts off; the semaphore keeps what is in it.
Close ==
  /\ At("close", "ready")
  /\ err' = IF "err" \in gst /\ err = 0 THEN 1 ELSE err
  /\ open' = 0 /\ out' = 0 /\ inp' = 0
  /\ UNCHANGED <<y, word, left, whole, gst, sem, cst, chunks, lines, extra>>

Frame == \/ Head1 \/ In1 \/ Wait1 \/ Size \/ Geometry \/ Stride \/ Out1 \/ Head2 \/ Wait2
         \/ Test \/ Draw \/ Last \/ Out2 \/ InTest \/ In2 \/ Done \/ Close

JpegNext == Open \/ Frame \/ Codec

\* The player thread runs and its waits time out; the codec may fall silent.
JpegSpec     == JpegInit /\ [][JpegNext]_jvars
JpegFairSpec == JpegSpec /\ WF_jvars(Frame)

-----------------------------------------------------------------------------
\* Type invariant.
JpegTypeOK ==
  /\ gst \subseteq Flags /\ cst \subseteq Flags /\ word \subseteq Flags
  /\ sem \in 0..MaxSem /\ left \in 0..MaxSem /\ err \in 0..10
  /\ y \in Nat /\ lines \in 0..Bands /\ chunks \in 0..MaxChunks - 1
  /\ open \in {0,1} /\ out \in {0,1} /\ inp \in {0,1} /\ whole \in {0,1} /\ extra \in {0,1}
  /\ pc \in {"ready", "head1", "in1", "in1set", "wait1", "size", "geometry", "stride", "out1",
             "out1set", "head2", "wait2", "test", "draw", "last", "out2", "out2set", "intest",
             "in2", "in2set", "done", "close"}

\* While a band is copied to the screen the codec does not write into the
\* same buffer, for a frame of one block that found the semaphore empty.
BufferHandedOver == left = 0 /\ whole = 1 /\ pc = "draw" => out = 0

\* A frame of one block draws a band twice only for a token an earlier frame
\* left behind (a callback between the end of its loop and R_JPEG_Close), and
\* one that ends well has drawn every band but the last: the codec's last
\* callback may come between the resumption of the codec and the test for
\* completion, which then ends the loop before that band is drawn.
DrawnOnce ==
  whole = 1 => /\ y <= lines + left
               /\ pc = "ready" /\ err = 0 /\ lines > 0 => lines = Bands /\ y + 1 >= Bands

\* A frame of one block that found the semaphore empty and ends well leaves
\* one token for each band it has not drawn, and at most one more for an
\* interrupt of the transfer's end: none is lost, none is invented.
TokensSettle ==
  left = 0 /\ whole = 1 /\ pc = "ready" /\ err = 0 /\ lines > 0 =>
    sem + y \in lines .. lines + extra

\* Every call of JPEG_Draw_frame returns, although the codec may fall silent
\* at any point: both waits time out, and the loops cannot run on stale tokens
\* for ever.
FrameEnds == (pc # "ready") ~> (pc = "ready")
=============================================================================
