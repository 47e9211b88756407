------------------------------- MODULE PcapFile --------------------------------
(***************************************************************************)
(* The capture file (src/src/kplugin/pcap.c): what is in it while records  *)
(* are written, and after any write failed.  One caller at a time, under   *)
(* kwifimon_mutex; the receive hook's own calls are commented out          *)
(* (kwifimon.c:280, 288-290).  What the descriptors do is in Kwifimon.     *)
(***************************************************************************)
EXTENDS Sequences, Integers

CONSTANTS
    Writers,     \* which of pcap_write_raw ("raw") and pcap_write_rt ("rt") run
    MaxItems     \* bound: no record is begun in a file this long

ASSUME WritersAssumption == Writers \subseteq {"raw", "rt"} /\ MaxItems \in Nat

\* What a write adds: the file's header, a record's, a radiotap header, the
\* packet, or a piece of one of them.
Items == {"hdr", "rec", "rtap", "pkt", "part"}

VARIABLES
    pcap_fd,     \* Fd or NoFd: which descriptor it is does not matter here
    file,        \* what the file holds
    pending,     \* writes that were started and are not done
    at,          \* the next write of the call in progress, "none" between calls
    cut          \* history: length of the file at the first failure nobody saw

vars == <<pcap_fd, file, pending, at, cut>>

Fd    == 1
NoFd  == -1
NoCut == -1

Init ==
    pcap_fd = NoFd /\ file = <<>> /\ pending = <<>> /\ at = "none" /\ cut = NoCut

\* The kernel serves the requests on one descriptor in order: a write that waits
\* and a close come after what was started before.
Served == pending = <<>> /\ UNCHANGED pending

\* What a request that failed leaves: nothing, or a piece.
Spoilt == file' \in {file, Append(file, "part")}
Unseen == cut' = IF cut = NoCut THEN Len(file) ELSE cut

\* pcap_close
Closed == Served /\ pcap_fd' = NoFd /\ UNCHANGED <<file, cut>>

\* ksceIoWrite wrote everything, or a part of it, which is no error to the test
\* for a negative result ...
Wrote(item) ==
    /\ Served /\ UNCHANGED pcap_fd
    /\ \/ file' = Append(file, item) /\ UNCHANGED cut
       \/ Spoilt /\ Unseen

\* ... or it failed, and the file is closed.
WriteFailed == Served /\ pcap_fd' = NoFd /\ Spoilt /\ UNCHANGED cut

\* ksceIoWriteAsync, which has checked nothing but the descriptor.
Started(item) ==
    pending' = Append(pending, item) /\ UNCHANGED <<pcap_fd, file, cut>>

\* pcap_open: a running capture is closed, the file emptied, the header written.
PcapOpen ==
    /\ at = "none" /\ at' = at
    /\ Served
    /\ \/ pcap_fd' = Fd   /\ file' = <<"hdr">> /\ cut' = NoCut
       \/ pcap_fd' = Fd   /\ file' \in {<<>>, <<"part">>} /\ cut' = 0   \* short
       \/ pcap_fd' = NoFd /\ file' \in {<<>>, <<"part">>} /\ cut' = NoCut
       \/ pcap_fd' = NoFd /\ UNCHANGED <<file, cut>>          \* not opened

PcapClose == at = "none" /\ at' = at /\ pcap_fd >= 0 /\ Closed

\* The writers return at once when there is no file.
Begin(writer, first) ==
    /\ writer \in Writers /\ pcap_fd >= 0
    /\ at = "none" /\ at' = first
    /\ Len(file) + Len(pending) < MaxItems
    /\ UNCHANGED <<pcap_fd, file, pending, cut>>

\* pcap_write_raw
BeginRaw == Begin("raw", "raw_rec")

RawRec ==
    /\ at = "raw_rec"
    /\ \/ Wrote("rec") /\ at' = "raw_pkt"
       \/ WriteFailed /\ at' = "none"

RawPkt_KeepsOpen ==                    \* slip: no pcap_close when the body fails
    /\ at = "raw_pkt" /\ at' = "none"
    /\ Wrote("pkt") \/ (Served /\ Spoilt /\ UNCHANGED <<pcap_fd, cut>>)

RawPkt ==
    /\ at = "raw_pkt" /\ at' = "none"
    /\ Wrote("pkt") \/ WriteFailed

\* pcap_write_rt: the same with three writes that are only started.
BeginRt == Begin("rt", "rt_rec")

RtWrite(from, item, to) ==
    /\ at = from
    /\ \/ Started(item) /\ at' = to
       \/ Closed /\ at' = "none"

Rt == \/ RtWrite("rt_rec", "rec", "rt_rtap")
      \/ RtWrite("rt_rtap", "rtap", "rt_pkt")
      \/ RtWrite("rt_pkt", "pkt", "none")

\* The kernel carries out a write that was started, or fails to: pcap.c never
\* asks for the result, and what was started behind it goes on.
Complete ==
    /\ pending # <<>> /\ pending' = Tail(pending)
    /\ \/ file' = Append(file, Head(pending)) /\ UNCHANGED cut
       \/ Spoilt /\ Unseen
    /\ UNCHANGED <<pcap_fd, at>>

Next == \/ PcapOpen \/ PcapClose
        \/ BeginRaw \/ RawRec \/ RawPkt \/ BeginRt \/ Rt
        \/ Complete

Spec == Init /\ [][Next]_vars
-------------------------------------------------------------------------------
\* What may come after an item when nothing is torn or missing.
Follow(item) ==
    CASE item = "hdr"  -> {"rec"}
      [] item = "rec"  -> {"rtap", "pkt"}
      [] item = "rtap" -> {"pkt"}
      [] item = "pkt"  -> {"rec"}
      [] OTHER         -> {}

\* A write that failed, as far as the code can see it, is the last thing in the
\* file: a reader finds the header and whole records, torn at the end if at all,
\* at every moment, also where the power goes off between two writes; and
\* between calls an open file ends with a whole record, so that the next one
\* goes to the right place.  Failures the code does not see end that: a write
\* that was short (pcap.c:32, 65 and 70 test for < 0 only) and one that failed
\* after it was started (pcap.c:95-108 never collect the result).  Behind the
\* first of them anything may follow; up to it the file is whole.
TornOnlyLast ==
    LET all     == file \o pending
        whole   == IF cut = NoCut THEN Len(all) ELSE cut
        Torn(i) == cut = NoCut /\ all[i] = "part" /\ i = Len(all)
    IN  /\ whole > 0 => all[1] = "hdr" \/ Torn(1)
        /\ \A i \in 2 .. whole : all[i] \in Follow(all[i - 1]) \/ Torn(i)
        /\ cut = NoCut /\ pcap_fd >= 0 /\ at = "none" => all[Len(all)] \in {"hdr", "pkt"}
===============================================================================
