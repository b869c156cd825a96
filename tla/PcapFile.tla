------------------------------ MODULE PcapFile ------------------------------
(***************************************************************************)
(* 4P's PcapWriter (PickAPeckOfPacketParsers/src/pcap_writer.rs): a pcap   *)
(* file behind a BufWriter.  Bytes are counted in units: one for the       *)
(* header of a record, one for the header of the file, FrameUnits for a    *)
(* frame.  What the BufWriter has accepted reaches the file in order, as   *)
(* far as the write(2) calls get.                                          *)
(***************************************************************************)
EXTENDS Naturals, Sequences

CONSTANTS Capacity,    \* of the BufWriter
          FrameUnits   \* the size of a frame

\* The default capacity of a BufWriter is 8 KiB; pnet hands out at most 4 KiB
\* of a frame, so a record always fits an empty buffer.
ASSUME PcapAssumption ==
    /\ FrameUnits \in Nat \ {0}
    /\ Capacity \in Nat
    /\ Capacity > FrameUnits

VARIABLES
    accepted,  \* the units the BufWriter has taken so far
    inFile,    \* how many of them are in the file
    failed,    \* a write to the file has failed
    refused    \* a write_all has been refused because the full buffer could not be flushed

fileVars == <<accepted, inFile, failed, refused>>

\* Record 0 is the header of the file.
Unit(k, part) == [record |-> k, part |-> part]

FrameOf(k) == [i \in 1..FrameUnits |-> Unit(k, i)]

\* The file a reader of the first n frames expects.
Image(n) ==
    <<Unit(0, 0)>>
    \o [i \in 1..(n * (1 + FrameUnits)) |->
           Unit(1 + (i - 1) \div (1 + FrameUnits), (i - 1) % (1 + FrameUnits))]

\* create: the header of the file waits in the buffer for the first flush.
InitFile ==
    /\ accepted = <<Unit(0, 0)>>
    /\ inFile = 0
    /\ failed = FALSE
    /\ refused = FALSE

Buffered == Len(accepted) - inFile

-----------------------------------------------------------------------------
(* BufWriter.                                                              *)

\* write_all of units: into the buffer, after a flush if there is no room.
Accept(units) ==
    /\ accepted' = accepted \o units
    /\ inFile' = IF Buffered + Len(units) <= Capacity THEN inFile ELSE Len(accepted)
    /\ UNCHANGED <<failed, refused>>

\* write_all of units that do not fit while the file takes only a part of the
\* buffer, or nothing of it: the error leaves these units out.
Refuse(units) ==
    /\ Buffered + Len(units) > Capacity
    /\ inFile' \in inFile..(Len(accepted) - 1)
    /\ failed' = TRUE
    /\ refused' = TRUE
    /\ UNCHANGED accepted

\* One write(2) of flush.
FlushSome ==
    /\ Buffered > 0
    /\ inFile' \in (inFile + 1)..Len(accepted)
    /\ UNCHANGED <<accepted, failed, refused>>

\* A write(2) of flush that fails: what is not in the file stays in the buffer.
FlushFails ==
    /\ Buffered > 0
    /\ failed' = TRUE
    /\ UNCHANGED <<accepted, inFile, refused>>
=============================================================================
