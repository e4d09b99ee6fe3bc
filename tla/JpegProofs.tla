----------------------------- MODULE JpegProofs -----------------------------
(***************************************************************************)
(* Proofs about Jpeg, for any number of bands and of input blocks and any  *)
(* largest value of the semaphore, over any sequence of frames.            *)
(***************************************************************************)
EXTENDS Jpeg, TLAPS

Header == {"head1", "in1", "wait1", "size"}
Loop   == {"head2", "wait2", "test", "draw", "last", "out2", "intest", "done"}
Pre    == Header \cup {"geometry", "stride", "out1"}

\* Where a driver call is about to store the status it worked out.
InSet  == {"in1set", "in2set"}
OutSet == {"out1set", "out2set"}

-----------------------------------------------------------------------------
(***************************************************************************)
(* No band is written after the last.  A codec that is done is started     *)
(* anew by a late block of input (In2), which R_JPEG_InputBufferSet takes  *)
(* for the first, or its "done" is overwritten by the status that call had *)
(* read before; but then the loop ends, or g_jpeg_status has lost its      *)
(* "done", nothing is drawn any more and the output is never resumed.      *)
(***************************************************************************)
Ends      == {"idle", "out", "done"}
Complete  == {"idle", "done"} \subseteq cst /\ "header" \notin cst /\ "done" \in gst
Restarted == cst \cap Ends = {} /\ "done" \in gst /\ pc \in {"done", "close", "ready"}
Idling    == cst \cap Ends = {} /\ gst \cap {"out", "done"} = {}
             /\ pc \notin {"draw", "last", "out2"}

\* The flags that say the codec does not write are right, in the status and in
\* the word that is about to replace it.
StatusInv ==
  /\ cst \cap {"header", "idle", "out"} # {} \/ cst = {"size"} => out = 0
  /\ "header" \in cst => "size" \notin cst
  /\ "done" \in cst => "idle" \in cst
  /\ "idle" \in cst => cst \cap {"header", "size", "out"} = {}

WordInv ==
  /\ pc \in InSet => /\ word \cap {"header", "out"} # {} => out = 0
                     /\ "header" \in word => "size" \notin word
                     /\ word \cap {"idle", "done"} = {} /\ word # {"size"}
                     /\ "out" \in word => lines < Bands
  /\ pc \in OutSet => /\ out = 0 /\ lines < Bands
                      /\ "run" \in word /\ word \cap (Ends \cup {"header"}) = {}

LinesInv ==
  /\ pc \in Pre \cup {"in1set", "out1set"} => lines = 0 /\ out = 0
  /\ out = 1 \/ "out" \in cst => lines < Bands
  /\ lines = Bands => Complete \/ Restarted \/ Idling
  /\ pc = "ready" => open = 0
  /\ StatusInv /\ WordInv

-----------------------------------------------------------------------------
(***************************************************************************)
(* The stages of a frame of one block: what the two status words are, what *)
(* the codec does, where the thread may be, and the books of the           *)
(* semaphore.  A hand is 1 while the thread holds a token it has taken for *)
(* something it has not done yet.                                          *)
(***************************************************************************)
Headed == IF pc = "size" THEN 1 ELSE 0                         \* taken for the header
InHand == IF pc \in {"test", "draw"} THEN 1 ELSE 0             \* taken for a band
Drawn  == IF pc \in {"last", "out2", "out2set"} THEN 1 ELSE 0  \* a band drawn, the codec not resumed since

\* From the header on, the tokens, the one in hand and the bands drawn are no
\* more than the bands written and what the frame found, and no less, but for
\* the token of an interrupt of the transfer's end.
Settled == /\ sem + y + InHand <= lines + left + extra
           /\ left = 0 => sem + y + InHand >= lines

\* A frame is left early only with an error.
Early == pc = "close" => err # 0

Fresh    == /\ gst = {} /\ cst \in {{"idle"}, {"header"}} /\ lines = 0 /\ out = 0 /\ extra = 0
            /\ pc \in Header \cup {"in1set", "close"} /\ Early
            /\ (pc = "in1set" => cst = {"idle"} /\ word = {"header"})
            /\ y = 0 /\ sem + Headed <= left
Sized    == /\ gst = {"size"} /\ cst = {"size"} /\ lines = 0 /\ out = 0 /\ extra = 0
            /\ pc \in Pre \cup {"out1set", "close"} /\ Early
            /\ (pc = "out1set" => word = {"size", "run"})
            /\ y = 0 /\ sem + Headed <= left + 1
            /\ (pc \in {"geometry", "stride", "out1", "out1set"} => sem <= left)
Running  == /\ cst = {"size", "run"} /\ gst = (IF lines = 0 THEN {"size"} ELSE {"size", "out"})
            /\ lines < Bands /\ out = 1 /\ extra = 0 /\ pc \in Loop \cup {"close"} /\ Early
            /\ Settled /\ y >= lines + Drawn
Paused   == /\ cst = {"size", "out"} /\ gst = {"size", "out"} /\ lines > 0 /\ lines < Bands
            /\ out = 0 /\ extra = 0 /\ pc \in Loop \cup {"out2set", "close"} /\ Early
            /\ (pc = "out2set" => word = {"size", "run"})
            /\ Settled /\ y + 1 >= lines + Drawn
Finished == /\ cst = {"idle", "done"} /\ gst = {"idle", "done"} /\ lines = Bands
            /\ out = 0 /\ pc \in Loop \cup {"close"}
            /\ Settled /\ y + 1 >= lines
            /\ y <= lines + left /\ (pc \in {"head2", "wait2", "test", "draw"} => y < lines + left)
Failed   == /\ gst \in {{"err"}, {"size", "err"}} /\ cst = gst /\ out = 0
            /\ pc \notin {"ready", "stride", "out1"} \cup InSet \cup OutSet
            /\ y <= lines + left /\ (pc = "draw" => y < lines + left)

Staged == Fresh \/ Sized \/ Running \/ Paused \/ Finished \/ Failed

\* What a frame of one block leaves behind.
Closed == /\ y <= lines + left
          /\ err = 0 /\ lines > 0 => /\ lines = Bands /\ y + 1 >= lines
                                     /\ left = 0 => sem + y \in lines .. lines + extra

WholeInv == whole = 1 => /\ chunks = 0
                         /\ pc # "ready" => Staged
                         /\ pc = "ready" => Closed

JpegInv == JpegTypeOK /\ LinesInv /\ WholeInv

-----------------------------------------------------------------------------
\* It holds before the first frame.
LEMMA JpegInvInit == JpegInit => JpegInv
  BY JpegAssumption DEF JpegInit, JpegInv, JpegTypeOK, LinesInv, WholeInv, Closed, Pre, Header, Flags, Complete, Restarted, Idling, Ends, StatusInv, WordInv, InSet, OutSet

-----------------------------------------------------------------------------
(***************************************************************************)
(* Types                                                                   *)
(***************************************************************************)
\* The status words hold flags and nothing else.
FlagsOK == gst \subseteq Flags /\ cst \subseteq Flags /\ word \subseteq Flags

\* A band: what it makes of the status, with a block of input used up or not.
LEMMA BandStatus ==
  ASSUME JpegTypeOK, BandWritten
  PROVE  /\ gst' = cst' /\ lines' = lines + 1 /\ out' = 0 /\ UNCHANGED <<thread, open, extra>>
         /\ \/ lines + 1 >= Bands /\ cst' = {"idle", "done"}
            \/ lines + 1 < Bands /\ cst' = (cst \ {"run"}) \cup {"out"}
            \/ lines + 1 < Bands /\ chunks > 0 /\ cst' = (cst \ {"run"}) \cup {"out", "in"}
         /\ \/ inp' = inp /\ chunks' = chunks
            \/ inp' = 0 /\ chunks > 0 /\ chunks' = chunks - 1
  <1>1. PICK used \in {0} \cup {n \in {1} : inp = 1 /\ chunks > 0} :
          /\ inp' = (IF used = 1 THEN 0 ELSE inp) /\ chunks' = chunks - used
          /\ Callback(IF lines' >= Bands THEN {"idle", "done"}
                      ELSE (cst \ {"run"}) \cup {"out"} \cup {f \in {"in"} : used = 1})
    BY DEF BandWritten
  <1>2. lines' = lines + 1 /\ out' = 0 /\ UNCHANGED <<thread, open, extra>>
    BY DEF BandWritten
  <1>3. gst' = cst'
        /\ cst' = IF lines' >= Bands THEN {"idle", "done"}
                  ELSE (cst \ {"run"}) \cup {"out"} \cup {f \in {"in"} : used = 1}
    BY <1>1 DEF Callback
  <1>4. lines \in Nat /\ Bands \in Nat /\ chunks \in Nat
    BY JpegAssumption DEF JpegTypeOK
  <1>5. CASE used = 0
    <2>1. {f \in {"in"} : used = 1} = {}
      BY <1>5
    <2> QED
      BY <1>1, <1>2, <1>3, <1>4, <1>5, <2>1
  <1>6. CASE used = 1 /\ chunks > 0
    <2>1. {"out"} \cup {f \in {"in"} : used = 1} = {"out", "in"}
      BY <1>6
    <2> QED
      BY <1>1, <1>2, <1>3, <1>4, <1>6, <2>1
  <1> QED
    BY <1>1, <1>5, <1>6

LEMMA CodecTypes == JpegTypeOK /\ LinesInv /\ Codec => JpegTypeOK'
  <1> SUFFICES ASSUME JpegTypeOK, LinesInv, Codec PROVE JpegTypeOK'
    OBVIOUS
  <1>1. FlagsOK'
    <2>1. cst' \subseteq cst \cup Flags /\ gst' = cst' /\ word' = word
      <3>1. CASE SizeReady
        <4>1. PICK bad \in {{}, {"err"}} : Callback((cst \ {"header", "run"}) \cup {"size"} \cup bad)
          BY <3>1 DEF SizeReady
        <4>2. bad \subseteq Flags /\ "size" \in Flags /\ word' = word
          BY <3>1, <4>1 DEF Flags, SizeReady, thread
        <4> QED
          BY <4>1, <4>2 DEF Callback
      <3>2. CASE BadData
        BY <3>2 DEF BadData, Callback, Flags, thread
      <3>3. CASE InputPause
        BY <3>3 DEF InputPause, Callback, Flags, thread
      <3>4. CASE BandWritten
        BY <3>4, BandStatus DEF Flags, thread
      <3>5. CASE TransferEnd
        BY <3>5 DEF TransferEnd, Callback, Flags, thread
      <3> QED
        BY <3>1, <3>2, <3>3, <3>4, <3>5 DEF Codec
    <2> QED
      BY <2>1 DEF JpegTypeOK, FlagsOK
  <1>2. sem' \in 0..MaxSem /\ UNCHANGED <<pc, err, y, left, whole, open>>
    BY JpegAssumption DEF JpegTypeOK, Codec, SizeReady, BadData, InputPause, BandWritten, TransferEnd, Callback, Release, thread
  <1>3. lines' \in 0..Bands /\ chunks' \in 0..MaxChunks - 1 /\ out' \in {0,1} /\ inp' \in {0,1} /\ extra' \in {0,1}
    BY JpegAssumption, BandStatus DEF JpegTypeOK, LinesInv, Codec, SizeReady, BadData, InputPause, BandWritten, TransferEnd
  <1> QED
    BY <1>1, <1>2, <1>3 DEF JpegTypeOK, FlagsOK

LEMMA FrameTypes == JpegTypeOK /\ (Open \/ Frame) => JpegTypeOK'
  <1> SUFFICES ASSUME JpegTypeOK, Open \/ Frame PROVE JpegTypeOK'
    OBVIOUS
  <1> USE DEF codec, At, Fails
  <1>1. CASE Open
    BY <1>1, JpegAssumption DEF Open, JpegTypeOK, Flags
  <1>2. CASE Head1 \/ Size \/ Head2 \/ Test \/ Last \/ InTest \/ Done
    BY <1>2 DEF Head1, Size, Head2, Test, Last, InTest, Done, Branch, JpegTypeOK
  <1>3. CASE In1 \/ In2
    <2>1. FlagsOK'
      BY <1>3 DEF In1, In2, InputBuffer, InputGo, JpegTypeOK, FlagsOK, Flags
    <2>2. pc' \in {"in1set", "in2set", "wait1", "done", "close"} /\ err' \in 0..10 /\ inp' \in {0,1}
          /\ UNCHANGED <<y, left, whole, sem, open, out, chunks, lines, extra>>
      BY <1>3 DEF In1, In2, InputBuffer, InputGo, JpegTypeOK
    <2> QED
      BY <2>1, <2>2 DEF JpegTypeOK, FlagsOK
  <1>4. CASE Wait1 \/ Wait2
    <2>1. pc' \in {"size", "test", "close"} /\ err' \in 0..10 /\ sem' \in 0..MaxSem
          /\ UNCHANGED <<y, word, left, whole, gst, codec>>
      BY <1>4, JpegAssumption DEF Wait1, Wait2, Wait, JpegTypeOK
    <2> QED
      BY <2>1 DEF JpegTypeOK
  <1>5. CASE Out1 \/ Out2
    <2>1. FlagsOK'
      BY <1>5 DEF Out1, Out2, OutputBuffer, OutputGo, JpegTypeOK, FlagsOK, Flags
    <2>2. pc' \in {"out1set", "out2set", "head2", "intest", "close"} /\ err' \in 0..10
          /\ out' \in {0,1} /\ inp' \in {0,1}
          /\ UNCHANGED <<y, left, whole, sem, open, chunks, lines, extra>>
      BY <1>5 DEF Out1, Out2, OutputBuffer, OutputGo, JpegTypeOK
    <2> QED
      BY <2>1, <2>2 DEF JpegTypeOK, FlagsOK
  <1>6. CASE Geometry \/ Stride \/ Draw \/ Close
    BY <1>6 DEF Geometry, Stride, Draw, Close, JpegTypeOK
  <1> QED
    BY <1>1, <1>2, <1>3, <1>4, <1>5, <1>6 DEF Frame

-----------------------------------------------------------------------------
(***************************************************************************)
(* The bands written                                                       *)
(***************************************************************************)
LEMMA CodecLines == JpegTypeOK /\ LinesInv /\ Codec => LinesInv'
  <1> SUFFICES ASSUME JpegTypeOK, LinesInv, Codec PROVE LinesInv'
    OBVIOUS
  <1>0. /\ Bands \in Nat \ {0} /\ lines \in 0..Bands /\ out \in {0,1} /\ open \in {0,1}
        /\ UNCHANGED <<pc, word, open>>
    BY JpegAssumption DEF JpegTypeOK, Codec, SizeReady, BadData, InputPause, BandWritten, TransferEnd, thread
  <1> USE <1>0 DEF LinesInv, Complete, Restarted, Idling, Ends, StatusInv, WordInv, Callback
  <1>1. CASE SizeReady
    <2>1. PICK bad \in {{}, {"err"}} : Callback((cst \ {"header", "run"}) \cup {"size"} \cup bad)
      BY <1>1 DEF SizeReady
    <2>2. (\A f \in Ends : f \in cst' <=> f \in cst) /\ "idle" \notin cst
      BY <1>1, <2>1 DEF SizeReady
    <2>3. gst' = cst' /\ UNCHANGED <<out, lines>> /\ out = 0 /\ "header" \notin cst'
      BY <1>1, <2>1 DEF SizeReady
    <2>4. Idling \/ Restarted => Idling'
      BY <2>2, <2>3
    <2>5. ~Complete
      BY <1>1 DEF SizeReady
    <2>6. "out" \in cst' => lines' < Bands
      BY <2>2, <2>3
    <2>7. StatusInv' /\ WordInv'
      BY <2>2, <2>3
    <2> HIDE DEF Complete, Restarted, Idling, Callback, StatusInv, WordInv
    <2> QED
      BY <2>3, <2>4, <2>5, <2>6, <2>7
  <1>2. CASE BadData
    BY <1>2 DEF BadData
  <1>3. CASE InputPause
    BY <1>3 DEF InputPause
  <1>4. CASE BandWritten
    <2>1. out = 1 /\ lines < Bands /\ gst' = cst' /\ lines' = lines + 1 /\ out' = 0
          /\ cst \cap {"header", "idle", "out"} = {}
      BY <1>4, BandStatus DEF BandWritten
    <2>2. \/ lines + 1 = Bands /\ cst' = {"idle", "done"}
          \/ lines + 1 < Bands /\ cst' \subseteq cst \cup {"out", "in"} /\ "out" \in cst'
      BY <1>4, <2>1, BandStatus
    <2>3. StatusInv' /\ WordInv'
      BY <2>1, <2>2 DEF OutSet, InSet
    <2>4. lines' = Bands => Complete'
      BY <2>1, <2>2
    <2>5. "out" \in cst' => lines' < Bands
      BY <2>1, <2>2
    <2> HIDE DEF Complete, Restarted, Idling, Callback, StatusInv, WordInv
    <2> QED
      BY <2>1, <2>3, <2>4, <2>5
  <1>5. CASE TransferEnd
    BY <1>5 DEF TransferEnd, InSet, OutSet
  <1> QED
    BY <1>1, <1>2, <1>3, <1>4, <1>5 DEF Codec

LEMMA FrameLines == JpegTypeOK /\ LinesInv /\ (Open \/ Frame) => LinesInv'
  <1> SUFFICES ASSUME JpegTypeOK, LinesInv, Open \/ Frame PROVE LinesInv'
    OBVIOUS
  <1>0. Bands \in Nat \ {0} /\ lines \in 0..Bands /\ out \in {0,1} /\ open \in {0,1}
    BY JpegAssumption DEF JpegTypeOK
  <1> USE <1>0 DEF LinesInv, Complete, Restarted, Idling, Ends, StatusInv, WordInv, InSet, OutSet, Pre, Header, codec, At, Fails
  <1>1. CASE Open
    BY <1>1 DEF Open
  <1>2. CASE Head1 \/ Size \/ Head2
    BY <1>2 DEF Head1, Size, Head2, Branch
  <1>3. CASE Test \/ Last \/ InTest \/ Done
    BY <1>3 DEF Test, Last, InTest, Done, Branch
  <1>4. CASE In1
    BY <1>4 DEF In1, InputBuffer, InputGo
  <1>5. CASE In2
    BY <1>5 DEF In2, InputBuffer, InputGo
  <1>6. CASE Wait1 \/ Wait2
    BY <1>6 DEF Wait1, Wait2, Wait
  <1>7. CASE Out1
    <2>1. CASE OutputBuffer("out1", "out1set", "head2", 7)
      <3>1. UNCHANGED <<gst, cst, open, out, lines>> /\ pc = "out1"
        BY <2>1 DEF OutputBuffer
      <3>2. CASE pc' \in {"close", "head2"}
        BY <3>1, <3>2
      <3>3. CASE pc' = "out1set"
        <4>1. (cst = {"size"} \/ {"size", "out"} \subseteq cst) /\ word' = (cst \ {"out"}) \cup {"run"}
          BY <2>1, <3>3 DEF OutputBuffer
        <4>2. out = 0 /\ lines < Bands /\ "header" \notin cst /\ cst \cap {"idle", "done"} = {}
          BY <3>1, <4>1
        <4>3. "run" \in word' /\ word' \cap (Ends \cup {"header"}) = {}
          BY <4>1, <4>2
        <4> QED
          BY <3>1, <3>3, <4>2, <4>3
      <3> QED
        BY <2>1, <3>2, <3>3 DEF OutputBuffer
    <2>2. CASE OutputGo("out1set", "head2")
      BY <2>2 DEF OutputGo
    <2> QED
      BY <1>7, <2>1, <2>2 DEF Out1
  <1>8. CASE Out2
    <2>1. CASE OutputBuffer("out2", "out2set", "intest", 10)
      <3>1. UNCHANGED <<gst, cst, open, out, lines>> /\ pc = "out2"
        BY <2>1 DEF OutputBuffer
      <3>2. CASE pc' \in {"close", "intest"}
        BY <3>1, <3>2
      <3>3. CASE pc' = "out2set"
        <4>1. (cst = {"size"} \/ {"size", "out"} \subseteq cst) /\ word' = (cst \ {"out"}) \cup {"run"}
          BY <2>1, <3>3 DEF OutputBuffer
        <4>2. out = 0 /\ lines < Bands /\ "header" \notin cst /\ cst \cap {"idle", "done"} = {}
          BY <3>1, <4>1
        <4>3. "run" \in word' /\ word' \cap (Ends \cup {"header"}) = {}
          BY <4>1, <4>2
        <4> QED
          BY <3>1, <3>3, <4>2, <4>3
      <3> QED
        BY <2>1, <3>2, <3>3 DEF OutputBuffer
    <2>2. CASE OutputGo("out2set", "intest")
      BY <2>2 DEF OutputGo
    <2> QED
      BY <1>8, <2>1, <2>2 DEF Out2
  <1>9. CASE Geometry \/ Stride \/ Draw \/ Close
    BY <1>9 DEF Geometry, Stride, Draw, Close
  <1> QED
    BY <1>1, <1>2, <1>3, <1>4, <1>5, <1>6, <1>7, <1>8, <1>9 DEF Frame

-----------------------------------------------------------------------------
(***************************************************************************)
(* A frame of one block                                                    *)
(***************************************************************************)
\* Each hand is empty or holds one token, and depends on nothing but the place.
LEMMA Hands == /\ InHand \in {0, 1} /\ Headed \in {0, 1} /\ Drawn \in {0, 1}
               /\ pc' = pc => InHand' = InHand /\ Headed' = Headed /\ Drawn' = Drawn
  BY DEF InHand, Headed, Drawn

LEMMA CodecWhole == JpegInv /\ Codec => WholeInv'
  <1> SUFFICES ASSUME JpegInv, Codec, whole' = 1 PROVE WholeInv'
    BY DEF WholeInv
  <1>1. pc # "ready" /\ UNCHANGED <<pc, err, y, word, left, whole, open>>
    BY DEF JpegInv, LinesInv, Codec, SizeReady, BadData, InputPause, BandWritten, TransferEnd, thread
  <1>2. Staged /\ chunks = 0 /\ JpegTypeOK
    BY <1>1 DEF JpegInv, WholeInv
  <1>3. sem \in Nat /\ (sem' = sem \/ sem' = sem + 1) /\ (sem = 0 => sem' = 1)
        /\ y \in Nat /\ left \in Nat /\ lines \in Nat /\ extra \in {0,1}
    BY <1>2, JpegAssumption DEF JpegTypeOK, Codec, SizeReady, BadData, InputPause, BandWritten, TransferEnd, Callback, Release
  <1>4. SUFFICES Staged' /\ chunks' = chunks
    BY <1>1, <1>2 DEF WholeInv
  <1>5. CASE SizeReady
    <2>1. Fresh /\ cst = {"header"} /\ pc \in Pre \cup {"close"} /\ pc # "in1set"
      BY <1>2, <1>5 DEF SizeReady, Pre, Header, Staged, Fresh, Sized, Running, Paused, Finished, Failed
    <2>2. UNCHANGED <<out, chunks, lines, extra>> /\ gst' = cst' /\ cst' \in {{"size"}, {"size", "err"}}
      BY <1>5, <2>1 DEF SizeReady, Callback
    <2>3. CASE cst' = {"size"}
      <3>1. sem' + Headed' <= left' + 1 /\ y' = 0 /\ lines' = 0 /\ out' = 0 /\ extra' = 0
            /\ pc' \in Header \cup {"close"} /\ Early'
        BY <1>1, <1>3, <2>1, <2>2, Hands DEF Fresh, Early
      <3> QED
        BY <2>2, <2>3, <3>1 DEF Staged, Sized, Pre, Header
    <2>4. CASE cst' = {"size", "err"}
      BY <1>1, <1>3, <2>1, <2>2, <2>4, Hands DEF Staged, Fresh, Failed, Header, InSet, OutSet
    <2> QED
      BY <2>2, <2>3, <2>4
  <1>6. CASE BadData
    <2>1. Running \/ Fresh
      BY <1>2, <1>6 DEF BadData, Staged, Fresh, Sized, Running, Paused, Finished, Failed
    <2>2. UNCHANGED <<chunks, lines>> /\ gst' = {"err"} /\ cst' = {"err"} /\ out' = 0
      BY <1>6 DEF BadData, Callback
    <2>3. /\ pc \notin {"ready", "stride", "out1"} \cup InSet \cup OutSet
          /\ y <= lines + left /\ (pc = "draw" => y < lines + left)
      BY <1>3, <1>6, <2>1, Hands DEF BadData, Running, Fresh, Settled, Loop, Header, InHand, InSet, OutSet
    <2> QED
      BY <1>1, <2>2, <2>3 DEF Staged, Failed
  <1>7. CASE InputPause
    BY <1>2, <1>7 DEF InputPause
  <1>8. CASE BandWritten
    <2>1. Running
      BY <1>2, <1>8 DEF BandWritten, Staged, Fresh, Sized, Running, Paused, Finished, Failed
    <2>2. chunks' = chunks /\ lines' = lines + 1 /\ out' = 0 /\ gst' = cst' /\ extra' = extra
      BY <1>2, <1>8, BandStatus
    <2>3. cst' = IF lines + 1 >= Bands THEN {"idle", "done"} ELSE {"size", "out"}
      <3>1. cst = {"size", "run"}
        BY <2>1 DEF Running
      <3> QED
        BY <1>2, <1>3, <1>8, <3>1, BandStatus, JpegAssumption
    <2>4. sem + y + InHand <= lines + left /\ y >= lines + Drawn /\ lines < Bands /\ extra = 0
      BY <1>3, <2>1, Hands DEF Running, Settled
    <2>5. Settled'
      BY <1>1, <1>3, <2>2, <2>4, Hands DEF Settled
    <2>6. /\ y' + 1 >= lines' + Drawn' /\ y' + 1 >= lines' /\ y' < lines' + left'
          /\ pc' \in Loop \cup {"close"} /\ Early' /\ pc' # "out2set"
      BY <1>1, <1>3, <2>1, <2>2, <2>4, Hands DEF Running, Early, Loop
    <2> QED
      BY <1>1, <1>3, <2>2, <2>3, <2>4, <2>5, <2>6, JpegAssumption DEF Staged, Paused, Finished
  <1>9. CASE TransferEnd
    <2>1. Finished
      BY <1>2, <1>9, JpegAssumption DEF TransferEnd, Staged, Fresh, Sized, Running, Paused, Finished, Failed
    <2>2. UNCHANGED <<out, chunks, lines>> /\ gst' = {"idle", "done"} /\ cst' = {"idle", "done"}
          /\ extra = 0 /\ extra' = 1
      BY <1>9 DEF TransferEnd, Callback
    <2>3. Settled'
      BY <1>1, <1>3, <2>1, <2>2, Hands DEF Finished, Settled
    <2> QED
      BY <1>1, <2>1, <2>2, <2>3 DEF Staged, Finished
  <1> QED
    BY <1>5, <1>6, <1>7, <1>8, <1>9 DEF Codec

\* A step of the thread in the middle of a frame: what it leaves alone, and
\* the facts its cases below use.
Within ==
  /\ whole = 1 /\ JpegTypeOK /\ Staged
  /\ y \in Nat /\ sem \in Nat /\ left \in Nat /\ lines \in Nat /\ extra \in Nat

LEMMA BranchWhole ==
  ASSUME Within, Head1 \/ Size \/ Head2 \/ Test \/ Last \/ InTest \/ Done PROVE Staged'
  <1>1. UNCHANGED <<err, y, word, left, whole, gst, sem, cst, open, out, inp, chunks, lines, extra>>
    BY DEF Head1, Size, Head2, Test, Last, InTest, Done, Branch, codec
  <1>2. /\ pc \in {"head1", "size", "head2", "test", "last", "intest", "done"}
        /\ pc = "head1" => pc' = IF "err" \in gst THEN "geometry" ELSE "in1"
        /\ pc = "size" => pc' = IF "size" \in gst THEN "geometry" ELSE "head1"
        /\ pc = "head2" => pc' = IF "err" \in gst THEN "close" ELSE "wait2"
        /\ pc = "test" => pc' = IF "out" \in gst \/ "done" \in gst THEN "draw" ELSE "intest"
        /\ pc = "last" => pc' = IF "done" \in gst THEN "intest" ELSE "out2"
        /\ pc = "intest" => pc' = IF "in" \in gst THEN "in2" ELSE "done"
        /\ pc = "done" => pc' = IF "done" \in gst THEN "close" ELSE "head2"
    BY DEF Head1, Size, Head2, Test, Last, InTest, Done, Branch
  <1> USE DEF Within
  <1>3. CASE Fresh
    <2>1. (pc = "head1" /\ pc' = "in1") \/ (pc = "size" /\ pc' = "head1")
      BY <1>2, <1>3 DEF Fresh, Header
    <2>2. Headed' = 0 /\ Headed \in {0, 1}
      BY <2>1 DEF Headed
    <2> QED
      BY <1>1, <1>3, <2>1, <2>2 DEF Staged, Fresh, Header, Early
  <1>4. CASE Sized
    <2>1. (pc = "head1" /\ pc' = "in1") \/ (pc = "size" /\ pc' = "geometry")
      BY <1>2, <1>4 DEF Sized, Pre, Header
    <2>2. Headed' = 0 /\ Headed \in {0, 1} /\ (pc = "size" => Headed = 1)
      BY <2>1 DEF Headed
    <2>3. sem + Headed <= left + 1
      BY <1>4 DEF Sized
    <2>4. sem' + Headed' <= left' + 1 /\ (pc = "size" => sem' <= left')
      BY <1>1, <2>2, <2>3
    <2> QED
      BY <1>1, <1>4, <2>1, <2>4 DEF Staged, Sized, Pre, Header, Early
  <1>5. CASE Running \/ Paused \/ Finished
    <2>1. /\ Settled /\ pc \in Loop
          /\ gst = {"size"} \/ gst = {"size", "out"} \/ gst = {"idle", "done"}
          /\ gst = {"size"} => lines = 0
      BY <1>2, <1>5 DEF Running, Paused, Finished
    <2>2. /\ pc' \in (Loop \ {"close"}) \cup (IF gst = {"idle", "done"} THEN {"close"} ELSE {})
          /\ InHand' = InHand \/ (gst = {"size"} /\ InHand' = 0)
          /\ Drawn' = Drawn \/ (gst = {"idle", "done"} /\ Drawn' = 0)
          /\ gst = {"idle", "done"} /\ pc' \in {"head2", "wait2", "test", "draw"}
               => pc \in {"head2", "wait2", "test", "draw"}
          /\ pc' # "out2set"
      BY <1>2, <2>1 DEF InHand, Drawn, Loop
    <2>3. Settled'
      BY <1>1, <2>1, <2>2, Hands DEF Settled
    <2>4. CASE Finished
      BY <1>1, <2>2, <2>3, <2>4 DEF Staged, Finished
    <2>5. CASE Running \/ Paused
      <3>1. gst # {"idle", "done"}
        BY <2>5 DEF Running, Paused
      <3>2. pc' \in Loop \cup {"close"} /\ Early' /\ Drawn' = Drawn
        BY <2>2, <3>1 DEF Early, Loop
      <3> QED
        BY <1>1, <2>2, <2>3, <2>5, <3>2 DEF Staged, Running, Paused
    <2> QED
      BY <1>5, <2>4, <2>5
  <1>6. CASE Failed
    <2>1. pc' \notin {"ready", "stride", "out1", "draw"} \cup InSet \cup OutSet
      BY <1>2, <1>6 DEF Failed, InSet, OutSet
    <2> QED
      BY <1>1, <1>6, <2>1 DEF Staged, Failed
  <1> QED
    BY <1>3, <1>4, <1>5, <1>6 DEF Staged

LEMMA WaitWhole == ASSUME Within, Wait1 \/ Wait2 PROVE Staged'
  <1>1. UNCHANGED <<y, word, left, whole, gst, cst, open, out, inp, chunks, lines, extra>>
    BY DEF Wait1, Wait2, Wait, codec
  <1>2. \/ sem > 0 /\ sem' = sem - 1 /\ err' = err
           /\ ((pc = "wait1" /\ pc' = "size") \/ (pc = "wait2" /\ pc' = "test"))
        \/ sem = 0 /\ sem' = sem /\ pc \in {"wait1", "wait2"} /\ pc' = "close" /\ err' # 0
    BY DEF Wait1, Wait2, Wait, At, Fails
  <1>3. /\ Headed = 0 /\ InHand = 0 /\ Drawn = 0 /\ Drawn' = 0
        /\ pc' = "size" => Headed' = 1 /\ InHand' = 0
        /\ pc' = "test" => Headed' = 0 /\ InHand' = 1
        /\ pc' = "close" => Headed' = 0 /\ InHand' = 0
    BY <1>2 DEF Headed, InHand, Drawn
  <1> USE DEF Within
  <1>4. CASE Fresh
    BY <1>1, <1>2, <1>3, <1>4 DEF Staged, Fresh, Header, Early
  <1>5. CASE Sized
    BY <1>1, <1>2, <1>3, <1>5 DEF Staged, Sized, Pre, Header, Early
  <1>6. CASE Running \/ Paused \/ Finished
    <2>1. pc' \in Loop \cup {"close"} /\ Early'
      BY <1>2, <1>6 DEF Running, Paused, Finished, Loop, Early
    <2>2. Settled'
      <3>1. Settled /\ pc = "wait2"
        BY <1>2, <1>6 DEF Running, Paused, Finished, Loop
      <3> QED
        BY <1>1, <1>2, <1>3, <3>1 DEF Settled
    <2>3. pc = "wait2" /\ pc' \in {"test", "close"}
      BY <1>2, <1>6 DEF Running, Paused, Finished, Loop
    <2> QED
      BY <1>1, <1>3, <1>6, <2>1, <2>2, <2>3 DEF Staged, Running, Paused, Finished
  <1>7. CASE Failed
    BY <1>1, <1>2, <1>7 DEF Staged, Failed, InSet, OutSet
  <1> QED
    BY <1>4, <1>5, <1>6, <1>7 DEF Staged

LEMMA GeometryWhole == ASSUME Within, Geometry \/ Stride PROVE Staged'
  <1>1. UNCHANGED <<y, word, left, whole, gst, sem, cst, open, out, inp, chunks, lines, extra>>
    BY DEF Geometry, Stride, codec
  <1>2. \/ /\ pc = "geometry"
           /\ IF "err" \in gst THEN pc' = "close" /\ err' # 0 ELSE pc' = "stride" /\ err' = err
        \/ /\ pc = "stride"
           /\ IF "err" \in cst THEN pc' = "close" /\ err' # 0 ELSE pc' = "out1" /\ err' = err
    BY DEF Geometry, Stride, At, Fails
  <1>3. Sized \/ (Failed /\ pc = "geometry")
    BY <1>2 DEF Within, Staged, Fresh, Running, Paused, Finished, Failed, Header, Loop
  <1>4. CASE Sized
    <2>1. Headed = 0 /\ Headed' = 0 /\ pc' \in {"stride", "out1"}
      BY <1>2, <1>4 DEF Headed, Sized
    <2> QED
      BY <1>1, <1>2, <1>4, <2>1 DEF Within, Staged, Sized, Pre, Header, Early
  <1>5. CASE Failed /\ pc = "geometry"
    BY <1>1, <1>2, <1>5 DEF Within, Staged, Failed, InSet, OutSet
  <1> QED
    BY <1>3, <1>4, <1>5

LEMMA InputWhole == ASSUME Within, In1 \/ In2 PROVE Staged'
  <1>1. /\ UNCHANGED <<y, left, whole, gst, sem, open, out, chunks, lines, extra>>
        /\ pc \in {"in1", "in2"} \cup InSet
    BY DEF In1, In2, InputBuffer, InputGo, InSet, At, Fails, codec
  <1>2. Headed = 0 /\ Headed' = 0
    BY DEF In1, In2, InputBuffer, InputGo, At, Fails, Headed
  <1>3. CASE pc = "in1"
    <2>1. /\ cst' = cst
          /\ IF "err" \in cst THEN pc' = "close" /\ err' # 0
             ELSE /\ err' = err
                  /\ IF "idle" \in cst THEN pc' = "in1set" /\ word' = {"header"}
                     ELSE "in" \in cst \/ pc' = "wait1"
      BY <1>3 DEF In1, In2, InputBuffer, InputGo, At, Fails, codec
    <2>2. Fresh \/ Sized \/ Failed
      BY <1>3 DEF Within, Staged, Running, Paused, Finished, Loop
    <2>3. CASE Fresh
      <3>1. \/ cst = {"idle"} /\ pc' = "in1set" /\ word' = {"header"}
            \/ cst = {"header"} /\ pc' = "wait1"
        BY <2>1, <2>3 DEF Fresh
      <3> QED
        BY <1>1, <1>2, <2>1, <2>3, <3>1 DEF Staged, Fresh, Header, Early
    <2>4. CASE Sized
      <3>1. pc' = "wait1"
        BY <2>1, <2>4 DEF Sized
      <3> QED
        BY <1>1, <1>2, <2>1, <2>4, <3>1 DEF Staged, Sized, Pre, Header, Early
    <2>5. CASE Failed
      <3>1. pc' = "close"
        BY <2>1, <2>5 DEF Failed
      <3> QED
        BY <1>1, <2>1, <2>5, <3>1 DEF Staged, Failed, InSet, OutSet
    <2> QED
      BY <2>2, <2>3, <2>4, <2>5
  <1>4. CASE pc = "in1set"
    <2>1. Fresh
      BY <1>4 DEF Within, Staged, Sized, Running, Paused, Finished, Failed, Pre, Header, Loop, InSet
    <2>2. pc' = "wait1" /\ cst' = {"header"} /\ err' = err
      BY <1>4, <2>1 DEF In1, In2, InputBuffer, InputGo, At, Fails, Fresh
    <2> QED
      BY <1>1, <1>2, <2>1, <2>2 DEF Staged, Fresh, Header, Early
  <1>5. CASE pc = "in2set"
    BY <1>5 DEF Within, Staged, Fresh, Sized, Running, Paused, Finished, Failed, Pre, Header, Loop, InSet
  <1>6. CASE pc = "in2"
    <2>1. Failed
      BY <1>6 DEF Within, Staged, Fresh, Sized, Running, Paused, Finished, Pre, Header, Loop
    <2>2. pc' = "close" /\ cst' = cst
      BY <1>6, <2>1 DEF In1, In2, InputBuffer, InputGo, At, Fails, Failed, codec
    <2> QED
      BY <1>1, <2>1, <2>2 DEF Staged, Failed, InSet, OutSet
  <1> QED
    BY <1>1, <1>3, <1>4, <1>5, <1>6 DEF InSet

LEMMA OutputWhole == ASSUME Within, Out1 \/ Out2 PROVE Staged'
  <1>1. /\ UNCHANGED <<y, left, whole, gst, sem, open, chunks, lines, extra>>
        /\ pc \in {"out1", "out2"} \cup OutSet
    BY DEF Out1, Out2, OutputBuffer, OutputGo, OutSet, At, Fails, codec
  <1>2. /\ InHand = 0 /\ InHand' = 0 /\ Headed' = 0 /\ (pc \in {"out2", "out2set"} => Drawn = 1)
        /\ Drawn' = IF pc' = "out2set" THEN 1 ELSE 0
        /\ pc' \in {"head2", "intest"} => pc' \in Loop /\ Early'
    BY DEF Out1, Out2, OutputBuffer, OutputGo, OutSet, At, Fails, InHand, Headed, Drawn, Loop, Early
  <1> USE DEF Within
  <1>3. CASE pc = "out1"
    <2>1. Sized /\ cst = {"size"}
      BY <1>3 DEF Staged, Fresh, Sized, Running, Paused, Finished, Failed, Header, Loop
    <2>2. /\ UNCHANGED <<cst, out>>
          /\ \/ pc' = "close" /\ err' # 0
             \/ pc' = "out1set" /\ err' = err /\ word' = {"size", "run"}
      BY <1>3, <2>1 DEF Out1, Out2, OutputBuffer, OutputGo, At, Fails, codec
    <2> QED
      BY <1>1, <1>2, <1>3, <2>1, <2>2 DEF Staged, Sized, Pre, Header, Early
  <1>4. CASE pc = "out1set"
    <2>1. Sized
      BY <1>4 DEF Staged, Fresh, Running, Paused, Finished, Failed, Header, Loop, OutSet
    <2>2. cst' = {"size", "run"} /\ out' = 1 /\ pc' = "head2" /\ err' = err
      BY <1>4, <2>1 DEF Out1, Out2, OutputBuffer, OutputGo, At, Fails, Sized
    <2>3. Settled' /\ y' >= lines' + Drawn'
      BY <1>1, <1>2, <1>4, <2>1, <2>2 DEF Settled, Sized
    <2>4. gst' = {"size"} /\ lines' = 0 /\ lines' < Bands /\ extra' = 0
      BY <1>1, <2>1, JpegAssumption DEF Sized
    <2> QED
      BY <1>2, <2>2, <2>3, <2>4 DEF Staged, Running
  <1>5. CASE pc = "out2"
    <2>1. /\ UNCHANGED <<cst, out>>
          /\ IF "err" \in cst THEN pc' = "close"
             ELSE /\ lines > 0 => err' = err
                  /\ IF {"size", "out"} \subseteq cst
                     THEN pc' = "out2set" /\ word' = (cst \ {"out"}) \cup {"run"}
                     ELSE cst # {"size"} => pc' = "intest"
      BY <1>5 DEF Out1, Out2, OutputBuffer, OutputGo, At, Fails, codec
    <2>2. Running \/ Paused \/ Finished \/ Failed
      BY <1>5 DEF Staged, Fresh, Sized, Pre, Header
    <2>3. CASE Running \/ Finished
      <3>1. pc' = "intest"
        BY <2>1, <2>3 DEF Running, Finished
      <3>2. Settled' /\ (Running => y' >= lines' + Drawn')
        BY <1>1, <1>2, <1>5, <2>3, <3>1 DEF Settled, Running, Finished
      <3> QED
        BY <1>1, <1>2, <2>1, <2>3, <3>1, <3>2 DEF Staged, Running, Finished
    <2>4. CASE Paused
      <3>1. pc' = "out2set" /\ word' = {"size", "run"} /\ Early'
        BY <2>1, <2>4 DEF Paused, Early
      <3>2. Settled' /\ y' + 1 >= lines' + Drawn'
        BY <1>1, <1>2, <1>5, <2>4, <3>1 DEF Settled, Paused
      <3> QED
        BY <1>1, <2>1, <2>4, <3>1, <3>2 DEF Staged, Paused
    <2>5. CASE Failed
      <3>1. pc' = "close"
        BY <2>1, <2>5 DEF Failed
      <3> QED
        BY <1>1, <2>1, <2>5, <3>1 DEF Staged, Failed, InSet, OutSet
    <2> QED
      BY <2>2, <2>3, <2>4, <2>5
  <1>6. CASE pc = "out2set"
    <2>1. Paused
      BY <1>6 DEF Staged, Fresh, Sized, Running, Finished, Failed, Pre, Header, Loop, OutSet
    <2>2. cst' = {"size", "run"} /\ out' = 1 /\ pc' = "intest"
      BY <1>6, <2>1 DEF Out1, Out2, OutputBuffer, OutputGo, At, Fails, Paused
    <2>3. Settled' /\ y' >= lines' + Drawn'
      BY <1>1, <1>2, <1>6, <2>1, <2>2 DEF Settled, Paused
    <2> QED
      BY <1>1, <1>2, <2>1, <2>2, <2>3 DEF Staged, Running, Paused
  <1> QED
    BY <1>1, <1>3, <1>4, <1>5, <1>6 DEF OutSet

LEMMA DrawWhole == ASSUME Within, Draw PROVE Staged'
  <1>1. UNCHANGED <<err, word, left, whole, gst, sem, cst, open, out, inp, chunks, lines, extra>>
        /\ pc = "draw" /\ pc' = "last" /\ y' = y + 1
    BY DEF Draw, At, codec
  <1>2. InHand = 1 /\ InHand' = 0 /\ Drawn = 0 /\ Drawn' = 1 /\ pc' \in Loop /\ Early'
    BY <1>1 DEF InHand, Drawn, Loop, Early
  <1> USE DEF Within
  <1>3. CASE Running \/ Paused \/ Finished
    <2>1. Settled'
      BY <1>1, <1>2, <1>3 DEF Running, Paused, Finished, Settled
    <2> QED
      BY <1>1, <1>2, <1>3, <2>1 DEF Staged, Running, Paused, Finished
  <1>4. CASE Failed
    BY <1>1, <1>4 DEF Staged, Failed, InSet, OutSet
  <1>5. ~Fresh /\ ~Sized
    BY <1>1 DEF Fresh, Sized, Pre, Header
  <1> QED
    BY <1>3, <1>4, <1>5 DEF Staged

LEMMA OpenWhole == JpegInv /\ Open => WholeInv'
  <1> SUFFICES ASSUME JpegInv, Open PROVE WholeInv'
    OBVIOUS
  <1>1. whole' = 1 => chunks' = 0
    BY DEF Open
  <1>2. Headed' = 0 /\ pc' = "head1"
    BY DEF Open, At, Headed
  <1>3. sem \in Nat /\ left' = sem /\ sem' = sem
    BY DEF Open, JpegInv, JpegTypeOK
  <1>4. Fresh'
    BY <1>2, <1>3 DEF Open, Fresh, Header, Early
  <1> QED
    BY <1>1, <1>2, <1>4 DEF WholeInv, Staged

LEMMA CloseWhole == JpegInv /\ Close => WholeInv'
  <1> SUFFICES ASSUME JpegInv, Close, whole = 1 PROVE chunks' = 0 /\ Closed'
    BY DEF WholeInv, Close, At
  <1>1. /\ pc = "close" /\ UNCHANGED <<y, left, whole, gst, sem, cst, chunks, lines, extra>>
        /\ err' = (IF "err" \in gst /\ err = 0 THEN 1 ELSE err)
    BY DEF Close, At
  <1>2. Staged /\ chunks = 0 /\ y \in Nat /\ sem \in Nat /\ left \in Nat /\ lines \in Nat /\ extra \in Nat /\ Bands \in Nat
    BY <1>1, JpegAssumption DEF JpegInv, WholeInv, JpegTypeOK
  <1>3. InHand = 0 /\ Drawn = 0
    BY <1>1 DEF InHand, Drawn
  <1>4. CASE Fresh \/ Sized
    BY <1>1, <1>2, <1>4 DEF Fresh, Sized, Early, Closed
  <1>5. CASE Running \/ Paused
    BY <1>1, <1>2, <1>3, <1>5 DEF Running, Paused, Early, Settled, Closed
  <1>6. CASE Finished
    BY <1>1, <1>2, <1>3, <1>6 DEF Finished, Settled, Closed
  <1>7. CASE Failed
    BY <1>1, <1>2, <1>7 DEF Failed, Closed
  <1> QED
    BY <1>1, <1>2, <1>4, <1>5, <1>6, <1>7 DEF Staged

LEMMA FrameWhole == JpegInv /\ Frame => WholeInv'
  <1> SUFFICES ASSUME JpegInv, Frame PROVE WholeInv'
    OBVIOUS
  <1>1. CASE Close
    BY <1>1, CloseWhole
  <1>2. CASE ~Close
    <2> SUFFICES ASSUME whole' = 1 PROVE WholeInv'
      BY DEF WholeInv
    <2>1. pc # "ready" /\ pc' # "ready" /\ UNCHANGED <<whole, chunks>>
      <3>1. CASE Head1 \/ Size \/ Head2 \/ Test \/ Last \/ InTest \/ Done
        BY <3>1 DEF Head1, Size, Head2, Test, Last, InTest, Done, Branch, codec
      <3>2. CASE In1 \/ In2 \/ Out1 \/ Out2
        BY <3>2 DEF In1, In2, InputBuffer, InputGo, Out1, Out2, OutputBuffer, OutputGo, At, Fails, codec
      <3>3. CASE Wait1 \/ Wait2 \/ Geometry \/ Stride \/ Draw
        BY <3>3 DEF Wait1, Wait2, Wait, Geometry, Stride, Draw, At, Fails, codec
      <3> QED
        BY <1>2, <3>1, <3>2, <3>3 DEF Frame
    <2>2. Within /\ chunks = 0
      BY <2>1 DEF JpegInv, WholeInv, Within, JpegTypeOK
    <2>3. Staged'
      BY <1>2, <2>2, BranchWhole, WaitWhole, GeometryWhole, InputWhole, OutputWhole, DrawWhole DEF Frame
    <2> QED
      BY <2>1, <2>2, <2>3 DEF WholeInv
  <1> QED
    BY <1>1, <1>2

-----------------------------------------------------------------------------
\* Nothing the codec or the thread does breaks the invariant.
LEMMA JpegInvNext == JpegInv /\ [JpegNext]_jvars => JpegInv'
  <1> SUFFICES ASSUME JpegInv, [JpegNext]_jvars PROVE JpegInv'
    OBVIOUS
  <1>1. CASE Open \/ Frame
    BY <1>1, FrameTypes, FrameLines, OpenWhole, FrameWhole DEF JpegInv
  <1>2. CASE Codec
    BY <1>2, CodecTypes, CodecLines, CodecWhole DEF JpegInv
  <1>3. CASE UNCHANGED jvars
    <2>1. UNCHANGED <<pc, err, y, word, left, whole, gst, sem, cst, open, out, inp, chunks, lines, extra>>
      BY <1>3 DEF jvars, thread, codec
    <2>2. JpegTypeOK' /\ LinesInv'
      BY <2>1 DEF JpegInv, JpegTypeOK, LinesInv, StatusInv, WordInv, Complete, Restarted, Idling
    <2>3. WholeInv'
      BY <2>1 DEF JpegInv, WholeInv, Staged, Closed, Fresh, Sized, Running, Paused, Finished, Failed, Settled, Early, InHand, Headed, Drawn
    <2> QED
      BY <2>2, <2>3 DEF JpegInv
  <1> QED
    BY <1>1, <1>2, <1>3 DEF JpegNext

\* The codec's and the thread's state fit together at every moment, whatever
\* the interrupts' timing, the timeouts and the tokens earlier frames left.
THEOREM JpegInvariant == JpegSpec => []JpegInv
  BY JpegInvInit, JpegInvNext, PTL DEF JpegSpec

\* JPEG_Draw_frame and the codec driver keep their types: the semaphore never
\* passes its largest value and no more bands are written than the frame has,
\* even when a late block of input restarts a codec that is done.
THEOREM JpegTypeCorrect == JpegSpec => []JpegTypeOK
  BY JpegInvariant, PTL DEF JpegInv

\* The codec never writes the buffer that is being copied to the screen, for a
\* frame of one block that found the semaphore empty.
THEOREM JpegBufferHandedOver == JpegSpec => []BufferHandedOver
  <1>1. JpegInv => BufferHandedOver
    <2> SUFFICES ASSUME JpegInv, left = 0, whole = 1, pc = "draw" PROVE out = 0
      BY DEF BufferHandedOver
    <2>1. Staged /\ InHand = 1 /\ y \in Nat /\ sem \in Nat /\ lines \in Nat /\ Drawn \in Nat
      BY Hands DEF JpegInv, WholeInv, JpegTypeOK, InHand
    <2>2. ~Running
      BY <2>1 DEF Running, Settled
    <2> QED
      BY <2>1, <2>2 DEF Staged, Fresh, Sized, Paused, Finished, Failed
  <1> QED
    BY <1>1, JpegInvariant, PTL

\* A frame of one block draws no more bands than were written, but for the
\* tokens it found, and one that ends well all of them but at most the last.
THEOREM JpegDrawnOnce == JpegSpec => []DrawnOnce
  <1>1. JpegInv => DrawnOnce
    <2> SUFFICES ASSUME JpegInv, whole = 1 PROVE DrawnOnce
      BY DEF DrawnOnce
    <2>1. y \in Nat /\ sem \in Nat /\ lines \in Nat /\ left \in Nat
      BY DEF JpegInv, JpegTypeOK
    <2>2. CASE pc = "ready"
      BY <2>1, <2>2 DEF JpegInv, WholeInv, Closed, DrawnOnce
    <2>3. CASE pc # "ready"
      <3>1. Staged
        BY <2>3 DEF JpegInv, WholeInv
      <3>2. y <= lines + left
        BY <2>1, <3>1, Hands DEF Staged, Fresh, Sized, Running, Paused, Finished, Failed, Settled
      <3> QED
        BY <2>3, <3>2 DEF DrawnOnce
    <2> QED
      BY <2>2, <2>3
  <1> QED
    BY <1>1, JpegInvariant, PTL

\* A frame of one block that found the semaphore empty and ends well leaves
\* one token for each band it has not drawn, and at most one more for an
\* interrupt of the transfer's end.
THEOREM JpegTokensSettle == JpegSpec => []TokensSettle
  <1>1. JpegInv => TokensSettle
    BY DEF JpegInv, WholeInv, Closed, TokensSettle
  <1> QED
    BY <1>1, JpegInvariant, PTL
=============================================================================
