---------------------------- MODULE PcapFileProofs -----------------------------
(***************************************************************************)
(* The capture file is readable up to the first failure the code does not  *)
(* see, however long it is and whichever writes fail.                      *)
(***************************************************************************)
EXTENDS PcapFile, SequenceTheorems, TLAPS

\* What the file will hold when the writes that were started are done.
All == file \o pending

\* The first n items are a header and records, each where it belongs.
Whole(s, n) ==
    /\ n > 0 => s[1] = "hdr"
    /\ \A i \in 2 .. n : s[i] \in Follow(s[i - 1])

\* So are all of them, up to a piece at the end.
Sound(s) ==
    /\ s # <<>> => s[1] = "hdr" \/ (s[1] = "part" /\ 1 = Len(s))
    /\ \A i \in 2 .. Len(s) :
         s[i] \in Follow(s[i - 1]) \/ (s[i] = "part" /\ i = Len(s))

EndsWith(s, items) == s # <<>> /\ s[Len(s)] \in items

\* What the file ends with when the next write is due.
Due(next) ==
    CASE next \in {"none", "raw_rec", "rt_rec"} -> {"hdr", "pkt"}
      [] next \in {"raw_pkt", "rt_rtap"}        -> {"rec"}
      [] next = "rt_pkt"                        -> {"rtap"}

TypeOK ==
    /\ pcap_fd \in {Fd, NoFd}
    /\ file \in Seq(Items) /\ pending \in Seq(Items)
    /\ at \in {"none", "raw_rec", "raw_pkt", "rt_rec", "rt_rtap", "rt_pkt"}
    /\ cut \in {NoCut} \cup Nat

\* Until a failure goes unseen ...
Uncut == (pcap_fd = Fd => EndsWith(All, Due(at))) /\ Sound(All)
\* ... and from then on.
Cut == cut <= Len(file) /\ Whole(file, cut)

IInv ==
    /\ TypeOK
    /\ pcap_fd = NoFd => at = "none"
    /\ cut = NoCut => Uncut
    /\ cut # NoCut => Cut

-------------------------------------------------------------------------------
USE DEF vars, Items, Fd, NoFd, NoCut

\* Adding an item leaves the others where they are.
LEMMA Added ==
    ASSUME NEW s \in Seq(Items), NEW x \in Items
    PROVE  /\ Append(s, x) \in Seq(Items) /\ Append(s, x) # <<>>
           /\ Len(s) \in Nat /\ Len(Append(s, x)) = Len(s) + 1
           /\ Append(s, x)[Len(s) + 1] = x
           /\ \A i \in 1 .. Len(s) : Append(s, x)[i] = s[i]
           /\ s # <<>> => Len(s) > 0
BY AppendProperties, EmptySeq

\* A sequence that is sound stays so when an item is added that may follow its
\* last one, or a piece of one.
LEMMA SoundAppend ==
    ASSUME NEW s \in Seq(Items), Sound(s), s # <<>>, NEW x \in Items,
           s[Len(s)] # "part",
           x \in Follow(s[Len(s)]) \/ x = "part"
    PROVE  Sound(Append(s, x)) /\ EndsWith(Append(s, x), {x})
<1> USE Added
<1>1. ASSUME NEW i \in 2 .. Len(s)
      PROVE  s[i] \in Follow(s[i - 1])
  BY <1>1 DEF Sound
<1>2. ASSUME NEW i \in 2 .. Len(s) + 1
      PROVE  \/ Append(s, x)[i] \in Follow(Append(s, x)[i - 1])
             \/ Append(s, x)[i] = "part" /\ i = Len(s) + 1
  <2>1. CASE i = Len(s) + 1
    BY <1>2, <2>1
  <2>2. CASE i \in 2 .. Len(s)
    BY <1>1, <2>2
  <2> QED
    BY <1>2, <2>1, <2>2
<1>3. Append(s, x)[1] = "hdr"
  BY DEF Sound
<1> QED
  BY <1>2, <1>3 DEF Sound, EndsWith

\* Where an item goes from the queue to the file does not matter.
LEMMA AllSteps ==
    ASSUME TypeOK
    PROVE  /\ All \in Seq(Items) /\ Len(All) = Len(file) + Len(pending)
           /\ \A i \in 1 .. Len(file) : All[i] = file[i]
           /\ pending = <<>> => All = file
           /\ pending' = <<>> /\ file' \in Seq(Items) => All' = file'
           /\ \A x \in Items :
                pending' = Append(pending, x) /\ file' = file => All' = Append(All, x)
           /\ pending # <<>> /\ file' = Append(file, Head(pending))
                /\ pending' = Tail(pending) => All' = All
<1> USE DEF TypeOK, All
<1>1. /\ All \in Seq(Items) /\ Len(All) = Len(file) + Len(pending)
      /\ \A i \in 1 .. Len(file) : All[i] = file[i]
  BY ConcatProperties
<1>2. \A s \in Seq(Items) : s \o <<>> = s
  BY ConcatEmptySeq
<1>3. ASSUME NEW x \in Items, pending' = Append(pending, x), file' = file
      PROVE  All' = Append(All, x)
  <2>1. <<x>> \in Seq(Items)
    OBVIOUS
  <2>2. Append(pending, x) = pending \o <<x>> /\ Append(All, x) = All \o <<x>>
    BY <1>1, AppendIsConcat
  <2> QED
    BY <1>3, <2>1, <2>2, ConcatAssociative
<1>4. ASSUME pending # <<>>, file' = Append(file, Head(pending)), pending' = Tail(pending)
      PROVE  All' = All
  <2>1. /\ Head(pending) \in Items /\ Tail(pending) \in Seq(Items)
        /\ pending = <<Head(pending)>> \o Tail(pending)
    BY <1>4, HeadTailProperties
  <2>2. <<Head(pending)>> \in Seq(Items)
    BY <2>1
  <2>3. Append(file, Head(pending)) = file \o <<Head(pending)>>
    BY <2>1, AppendIsConcat
  <2> QED
    BY <1>4, <2>1, <2>2, <2>3, ConcatAssociative
<1> QED
  BY <1>1, <1>2, <1>3, <1>4

\* Behind the first unseen failure nothing matters any more.
LEMMA CutKeeps ==
    ASSUME TypeOK, cut # NoCut, Cut, UNCHANGED cut,
           UNCHANGED file \/ \E x \in Items : file' = Append(file, x)
    PROVE  Cut'
<1>1. CASE UNCHANGED file
  BY <1>1 DEF Cut, Whole
<1>2. ASSUME NEW x \in Items, file' = Append(file, x) PROVE Cut'
  <2>1. /\ \A i \in 1 .. Len(file) : file'[i] = file[i]
        /\ Len(file') = Len(file) + 1 /\ Len(file) \in Nat
    BY <1>2, Added DEF TypeOK
  <2> QED
    BY <2>1 DEF Cut, Whole, TypeOK
<1> QED
  BY <1>1, <1>2

\* The first failure that goes unseen comes after a file without a torn end:
\* something is still to be written behind it, or was just due.
LEMMA CutBegins ==
    ASSUME TypeOK, cut = NoCut, Sound(All), Spoilt, Unseen,
           pending # <<>> \/ (file # <<>> => file[Len(file)] # "part")
    PROVE  cut' # NoCut /\ Cut' /\ cut' \in Nat
<1>1. /\ Len(file) \in Nat /\ Len(pending) \in Nat /\ cut' = Len(file)
      /\ pending # <<>> => Len(pending) > 0
      /\ file # <<>> <=> Len(file) > 0
  BY EmptySeq DEF TypeOK, Unseen
<1>2. \A i \in 1 .. Len(file) : ~(All[i] = "part" /\ i = Len(All))
  BY <1>1, AllSteps
<1>3. All # <<>> \/ Len(file) = 0
  BY <1>1, AllSteps, EmptySeq
<1>4. Whole(file, Len(file))
  <2>1. Len(file) > 0 => file[1] = "hdr"
    BY <1>1, <1>2, <1>3, AllSteps DEF Sound
  <2>2. \A i \in 2 .. Len(file) : file[i] \in Follow(file[i - 1])
    <3> SUFFICES ASSUME NEW i \in 2 .. Len(file)
                 PROVE  file[i] \in Follow(file[i - 1])
      OBVIOUS
    <3>1. /\ Len(All) = Len(file) + Len(pending)
          /\ All[i] = file[i] /\ All[i - 1] = file[i - 1]
      <4>1. i \in 1 .. Len(file) /\ i - 1 \in 1 .. Len(file)
        BY <1>1
      <4> QED
        BY <4>1, AllSteps
    <3>2. i \in 2 .. Len(All) /\ i \in 1 .. Len(file)
      BY <1>1, <3>1
    <3> QED
      BY <1>2, <3>1, <3>2 DEF Sound
  <2> QED
    BY <2>1, <2>2 DEF Whole
<1>5. CASE file' = file
  BY <1>1, <1>4, <1>5 DEF Cut, Whole
<1>6. CASE file' = Append(file, "part")
  <2>1. /\ \A i \in 1 .. Len(file) : file'[i] = file[i]
        /\ Len(file') = Len(file) + 1
    BY <1>6, Added DEF TypeOK
  <2> QED
    BY <1>1, <1>4, <2>1 DEF Cut, Whole
<1> QED
  BY <1>5, <1>6 DEF Spoilt

\* Nothing is written yet.
LEMMA InitIInv == Init => IInv
<1> SUFFICES ASSUME Init PROVE IInv
  OBVIOUS
<1>1. All = <<>>
  BY ConcatEmptySeq DEF Init, All
<1> QED
  BY <1>1 DEF Init, IInv, TypeOK, Uncut, Sound

\* The types, as far as the file and its queue go.
LEMMA FileTypes ==
    ASSUME TypeOK,
           UNCHANGED file \/ Spoilt \/ \E x \in Items : file' = Append(file, x),
           UNCHANGED cut \/ Unseen
    PROVE  file' \in Seq(Items) /\ cut' \in {NoCut} \cup Nat
<1>1. file' \in Seq(Items)
  <2>1. \A x \in Items : Append(file, x) \in Seq(Items)
    BY Added DEF TypeOK
  <2> QED
    BY <2>1 DEF TypeOK, Spoilt
<1>2. Len(file) \in Nat
  BY DEF TypeOK
<1> QED
  BY <1>1, <1>2 DEF TypeOK, Unseen

\* A write that is carried out, started, cut short, or fails.
LEMMA WriteKeeps ==
    ASSUME IInv, pcap_fd = Fd, NEW x \in Items,
           \A y \in Due(at) : x \in Follow(y),
           \/ (Wrote(x) \/ Started(x)) /\ at' \in {"none", "raw_pkt", "rt_rtap", "rt_pkt"}
              /\ Due(at') = IF x \in {"hdr", "pkt"} THEN {"hdr", "pkt"} ELSE {x}
           \/ (WriteFailed \/ Closed) /\ at' = "none"
    PROVE  IInv'
<1> USE DEF IInv
<1>1. /\ All \in Seq(Items) /\ (pending = <<>> => All = file)
      /\ pending' = <<>> /\ file' \in Seq(Items) => All' = file'
  BY AllSteps
<1>2. cut = NoCut => /\ All # <<>> /\ Sound(All) /\ x \in Follow(All[Len(All)])
                     /\ All[Len(All)] # "part"
  BY DEF Uncut, EndsWith, Due, Follow
<1>3. CASE Wrote(x) \/ Started(x)
  <2>1. pcap_fd' = Fd /\ TypeOK' /\ at' \in {"none", "raw_pkt", "rt_rtap", "rt_pkt"}
        /\ Due(at') = IF x \in {"hdr", "pkt"} THEN {"hdr", "pkt"} ELSE {x}
    <3>1. /\ at' \in {"none", "raw_pkt", "rt_rtap", "rt_pkt"}
          /\ pcap_fd' = Fd
          /\ Due(at') = IF x \in {"hdr", "pkt"} THEN {"hdr", "pkt"} ELSE {x}
      BY <1>3 DEF Wrote, Started, WriteFailed, Closed
    <3>2. file' \in Seq(Items) /\ cut' \in {NoCut} \cup Nat
      <4>1. /\ UNCHANGED file \/ Spoilt \/ \E y \in Items : file' = Append(file, y)
            /\ UNCHANGED cut \/ Unseen
        BY <1>3 DEF Wrote, Started
      <4> QED
        BY <4>1, FileTypes
    <3>3. pending' \in Seq(Items)
      <4>1. Append(pending, x) \in Seq(Items)
        BY Added DEF TypeOK
      <4> QED
        BY <1>3, <4>1 DEF Wrote, Started, Served, TypeOK
    <3> QED
      BY <3>1, <3>2, <3>3 DEF TypeOK
  <2>2. CASE cut # NoCut
    <3>1. cut' = cut
      BY <1>3, <2>2 DEF Wrote, Started, Unseen
    <3>2. Cut'
      BY <1>3, <2>2, <3>1, CutKeeps DEF Wrote, Started, Spoilt
    <3> QED
      BY <2>1, <2>2, <3>1, <3>2
  <2>3. CASE cut = NoCut /\ All' = Append(All, x) /\ cut' = cut
    <3>1. Sound(Append(All, x)) /\ EndsWith(Append(All, x), {x})
      BY <1>1, <1>2, <2>3, SoundAppend
    <3> QED
      BY <2>1, <2>3, <3>1 DEF Uncut, Sound, EndsWith
  <2>4. CASE cut = NoCut /\ Served /\ Spoilt /\ Unseen
    BY <1>1, <1>2, <2>1, <2>4, CutBegins DEF Served
  <2>5. CASE cut = NoCut /\ Started(x)
    BY <2>3, <2>5, AllSteps DEF Started
  <2>6. CASE cut = NoCut /\ Wrote(x)
    <3>1. CASE file' = Append(file, x) /\ UNCHANGED cut
      BY <1>1, <2>1, <2>3, <2>6, <3>1 DEF Wrote, Served, TypeOK
    <3> QED
      BY <2>4, <2>6, <3>1 DEF Wrote
  <2> QED
    BY <1>3, <2>2, <2>5, <2>6
<1>4. CASE (WriteFailed \/ Closed) /\ at' = "none"
  <2>1. /\ pcap_fd' = NoFd /\ pending = <<>> /\ pending' = <<>> /\ cut' = cut
        /\ file' \in {file, Append(file, "part")}
    BY <1>4 DEF WriteFailed, Closed, Served, Spoilt
  <2>2. TypeOK'
    BY <1>4, <2>1, Added DEF TypeOK
  <2>3. CASE cut # NoCut
    BY <1>4, <2>1, <2>2, <2>3, CutKeeps
  <2>4. CASE cut = NoCut
    <3>1. file = All /\ All' = file'
      BY <1>1, <2>1, <2>2 DEF TypeOK
    <3>2. Sound(file')
      BY <1>1, <1>2, <2>1, <2>4, <3>1, SoundAppend
    <3> QED
      BY <1>4, <2>1, <2>2, <2>4, <3>1, <3>2 DEF Uncut, Sound
  <2> QED
    BY <2>3, <2>4
<1> QED
  BY <1>3, <1>4

\* Every step keeps the invariant.
LEMMA StepIInv == IInv /\ [Next]_vars => IInv'
<1> SUFFICES ASSUME IInv, [Next]_vars PROVE IInv'
  OBVIOUS
<1> USE DEF IInv
<1>0. TypeOK /\ All \in Seq(Items)
  BY AllSteps
<1>1. CASE PcapOpen
  <2>1. at' = "none" /\ pending = <<>> /\ pending' = <<>>
    BY <1>1 DEF PcapOpen, Served
  <2>2. /\ <<>> \in Seq(Items) /\ <<"part">> \in Seq(Items) /\ <<"hdr">> \in Seq(Items)
        /\ Len(<<>>) = 0 /\ Len(<<"part">>) = 1 /\ Len(<<"hdr">>) = 1
    OBVIOUS
  <2>3. file' \in Seq(Items) => All' = file'
    BY <2>1, AllSteps
  <2>4. CASE pcap_fd' = Fd /\ file' = <<"hdr">> /\ cut' = NoCut
    <3>1. All' = <<"hdr">> /\ TypeOK'
      BY <2>1, <2>2, <2>3, <2>4 DEF TypeOK
    <3>2. Sound(<<"hdr">>) /\ EndsWith(<<"hdr">>, {"hdr", "pkt"})
      BY <2>2 DEF Sound, EndsWith
    <3> QED
      BY <2>1, <2>4, <3>1, <3>2 DEF Uncut, Due, Sound, EndsWith
  <2>5. CASE pcap_fd' = Fd /\ file' \in {<<>>, <<"part">>} /\ cut' = 0
    <3>1. TypeOK' /\ Cut'
      <4>1. Len(file') \in Nat /\ file' \in Seq(Items)
        BY <2>2, <2>5
      <4> QED
        BY <2>1, <2>2, <2>5, <4>1 DEF TypeOK, Cut, Whole
    <3> QED
      BY <2>1, <2>5, <3>1
  <2>6. CASE pcap_fd' = NoFd /\ file' \in {<<>>, <<"part">>} /\ cut' = NoCut
    <3>1. All' = file' /\ TypeOK'
      BY <2>1, <2>2, <2>3, <2>6 DEF TypeOK
    <3>2. Sound(<<"part">>) /\ Sound(<<>>)
      BY <2>2 DEF Sound
    <3> QED
      BY <2>1, <2>6, <3>1, <3>2 DEF Uncut, Sound
  <2>7. CASE pcap_fd' = NoFd /\ UNCHANGED <<file, cut>>
    <3>1. TypeOK'
      BY <2>1, <2>7 DEF TypeOK
    <3>2. All' = All
      BY <2>1, <2>7 DEF All
    <3> QED
      BY <2>1, <2>7, <3>1, <3>2 DEF Uncut, Sound, Cut, Whole
  <2> QED
    BY <1>1, <2>4, <2>5, <2>6, <2>7 DEF PcapOpen
<1>2. CASE PcapClose
  <2>1. at' = "none" /\ pcap_fd' = NoFd /\ UNCHANGED <<file, pending, cut>>
    BY <1>2 DEF PcapClose, Closed, Served
  <2>2. All' = All /\ TypeOK'
    BY <2>1 DEF All, TypeOK
  <2> QED
    BY <2>1, <2>2 DEF Uncut, Sound, Cut, Whole
<1>3. CASE BeginRaw \/ BeginRt
  <2>1. at = "none" /\ at' \in {"raw_rec", "rt_rec"} /\ pcap_fd = Fd
        /\ UNCHANGED <<pcap_fd, file, pending, cut>>
    BY <1>3 DEF BeginRaw, BeginRt, Begin, TypeOK
  <2>2. All' = All /\ TypeOK' /\ Due(at') = Due(at)
    BY <2>1 DEF All, TypeOK, Due
  <2> QED
    BY <2>1, <2>2 DEF Uncut, Sound, EndsWith, Cut, Whole
<1>4. CASE RawRec \/ RawPkt \/ Rt
  <2>1. at # "none" /\ pcap_fd = Fd
    BY <1>4 DEF RawRec, RawPkt, Rt, RtWrite, TypeOK
  <2>2. \A y \in Due(at) :
          /\ at \in {"raw_rec", "rt_rec"} => "rec" \in Follow(y)
          /\ at = "rt_rtap" => "rtap" \in Follow(y)
          /\ at \in {"raw_pkt", "rt_pkt"} => "pkt" \in Follow(y)
    BY DEF Due, Follow
  <2>3. CASE at \in {"raw_rec", "rt_rec"}
    BY <1>4, <2>1, <2>2, <2>3, WriteKeeps DEF RawRec, RawPkt, Rt, RtWrite, Due
  <2>4. CASE at = "rt_rtap"
    BY <1>4, <2>1, <2>2, <2>4, WriteKeeps DEF RawRec, RawPkt, Rt, RtWrite, Due
  <2>5. CASE at \in {"raw_pkt", "rt_pkt"}
    BY <1>4, <2>1, <2>2, <2>5, WriteKeeps DEF RawRec, RawPkt, Rt, RtWrite, Due
  <2> QED
    BY <2>1, <2>3, <2>4, <2>5 DEF TypeOK
<1>5. CASE Complete
  <2>1. /\ pending # <<>> /\ pending' = Tail(pending) /\ UNCHANGED <<pcap_fd, at>>
        /\ Head(pending) \in Items /\ pending' \in Seq(Items)
    BY <1>5, HeadTailProperties DEF Complete, TypeOK
  <2>2. \/ file' = Append(file, Head(pending)) /\ UNCHANGED cut
        \/ Spoilt /\ Unseen
    BY <1>5 DEF Complete
  <2>3. TypeOK'
    <3>1. /\ UNCHANGED file \/ Spoilt \/ \E x \in Items : file' = Append(file, x)
          /\ UNCHANGED cut \/ Unseen
      BY <2>1, <2>2
    <3>2. file' \in Seq(Items) /\ cut' \in {NoCut} \cup Nat
      BY <3>1, FileTypes
    <3> QED
      BY <2>1, <3>2 DEF TypeOK
  <2>4. CASE cut # NoCut
    <3>1. cut' = cut
      BY <2>2, <2>4 DEF Unseen
    <3>2. UNCHANGED file \/ \E x \in Items : file' = Append(file, x)
      BY <2>1, <2>2 DEF Spoilt
    <3> QED
      BY <2>1, <2>3, <2>4, <3>1, <3>2, CutKeeps
  <2>5. CASE cut = NoCut /\ file' = Append(file, Head(pending)) /\ UNCHANGED cut
    <3>1. All' = All
      BY <2>1, <2>5, AllSteps
    <3> QED
      BY <2>1, <2>3, <2>5, <3>1 DEF Uncut, Sound, EndsWith
  <2>6. CASE cut = NoCut /\ Spoilt /\ Unseen
    BY <2>1, <2>3, <2>6, CutBegins DEF Uncut
  <2> QED
    BY <2>2, <2>4, <2>5, <2>6
<1>6. CASE UNCHANGED vars
  <2>1. All' = All /\ TypeOK'
    BY <1>6 DEF All, TypeOK
  <2> QED
    BY <1>6, <2>1 DEF Uncut, Sound, EndsWith, Cut, Whole
<1> QED
  BY <1>1, <1>2, <1>3, <1>4, <1>5, <1>6 DEF Next

\* However long the capture, whichever writes of both writers fail, and wherever
\* it is cut off: as long as no write was short and none failed after it was
\* started, a torn record is the last, and pcap_fd is open only behind a whole
\* one.  Behind the first such failure, which pcap.c does not see, nothing is
\* said; the records up to it are whole.
THEOREM FileCorrect == Spec => []TornOnlyLast
<1>1. IInv => TornOnlyLast
  <2> SUFFICES ASSUME IInv PROVE TornOnlyLast
    OBVIOUS
  <2> DEFINE whole   == IF cut = NoCut THEN Len(All) ELSE cut
             Torn(i) == cut = NoCut /\ All[i] = "part" /\ i = Len(All)
  <2>1. /\ whole > 0 => All[1] = "hdr" \/ Torn(1)
        /\ \A i \in 2 .. whole : All[i] \in Follow(All[i - 1]) \/ Torn(i)
    <3>1. /\ Len(All) \in Nat /\ Len(file) \in Nat /\ Len(All) > 0 => All # <<>>
          /\ \A i \in 1 .. Len(file) : All[i] = file[i]
          /\ cut = NoCut \/ cut \in Nat
      BY AllSteps, EmptySeq DEF IInv, TypeOK
    <3>2. CASE cut = NoCut
      BY <3>1, <3>2 DEF IInv, Uncut, Sound
    <3>3. CASE cut # NoCut
      <4>1. whole = cut /\ cut \in Nat /\ cut <= Len(file) /\ Whole(file, cut)
        BY <3>1, <3>3 DEF IInv, Cut
      <4>2. ASSUME NEW i \in 2 .. whole PROVE All[i] \in Follow(All[i - 1])
        <5>1. i \in 1 .. Len(file) /\ i - 1 \in 1 .. Len(file) /\ i \in 2 .. cut
          BY <3>1, <4>1
        <5> QED
          BY <3>1, <4>1, <5>1 DEF Whole
      <4> QED
        BY <3>1, <4>1, <4>2 DEF Whole
    <3> QED
      BY <3>2, <3>3
  <2>2. cut = NoCut /\ pcap_fd >= 0 /\ at = "none" => All[Len(All)] \in {"hdr", "pkt"}
    BY DEF IInv, TypeOK, Uncut, EndsWith, Due
  <2> QED
    BY <2>1, <2>2 DEF TornOnlyLast, All
<1> QED
  BY <1>1, InitIInv, StepIInv, PTL DEF Spec
===============================================================================
