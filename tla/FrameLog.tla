------------------------------ MODULE FrameLog ------------------------------
(***************************************************************************)
(* The frame log: FrameLogger of src/observability/frame_log.rs as the     *)
(* service spawns it.  Clones of the logger share the sending side of a    *)
(* bounded channel; a writer thread appends what it receives to the file,  *)
(* until no clone is left.  append never waits: it drops the record when   *)
(* the channel is full.  The content of a record is not modelled.          *)
(*                                                                         *)
(* The module gives the state and its operations; module Shutdown says who *)
(* performs them, and when.                                                *)
(***************************************************************************)
EXTENDS Naturals, Sequences, SequencesExt

CONSTANTS Relays,      \* the upgraded calls, each with a clone of the logger
          Depth,       \* WRITER_QUEUE_DEPTH
          MaxRecords   \* bound: records a relay appends

ASSUME FrameLogAssumption == Depth \in Nat \ {0} /\ MaxRecords \in Nat

VARIABLES senders,  \* who holds a clone with its sender
          queue,    \* the channel
          writing,  \* the record the writer has taken, in a sequence of at most one
          file,     \* records written, in order
          lost,     \* records dropped: channel full, no writer, or write error
          handed,   \* handed[r]: number of records relay r has appended
          writer,   \* the writer thread: absent, running or finished
          drain     \* FrameLogger::drain: not called, waiting, flushed or gaveUp

logVars == <<senders, queue, writing, file, lost, handed, writer, drain>>

Record == Relays \X (1..MaxRecords)

(***************************************************************************)
(* Logging is off, or the writer was spawned, or its thread could not be   *)
(* started: then the receiver is gone and every record is lost.            *)
(***************************************************************************)
LogInit(owners) ==
    /\ \/ senders = {} /\ writer = "absent"
       \/ senders = owners /\ writer \in {"running", "absent"}
    /\ queue = <<>>
    /\ writing = <<>>
    /\ file = <<>>
    /\ lost = {}
    /\ handed = [r \in Relays |-> 0]
    /\ drain = "none"

-----------------------------------------------------------------------------
(* A definition named ...Slip is not used by the specification: it is a      *)
(* wrong version of the definition that follows it, kept to show that a      *)
(* property notices the difference.                                          *)

CloneForSlip(r, owner) == UNCHANGED logVars
CloneFor(r, owner) ==
    /\ senders' = IF owner \in senders THEN senders \cup {r} ELSE senders
    /\ UNCHANGED <<queue, writing, file, lost, handed, writer, drain>>

Forget(owner) ==
    /\ senders' = senders \ {owner}
    /\ UNCHANGED <<queue, writing, file, lost, handed, writer, drain>>

EnqueueSlip(record) == <<record>> \o queue
Enqueue(record) == Append(queue, record)

HasRoomSlip == Len(queue) <= Depth
HasRoom == Len(queue) < Depth

(* append: a disabled logger does nothing, an enabled one never waits. *)
AppendRecord(r) ==
    /\ r \in senders
    /\ handed[r] < MaxRecords
    /\ LET record == <<r, handed[r] + 1>> IN
          IF writer = "running" /\ HasRoom
          THEN queue' = Enqueue(record) /\ UNCHANGED lost
          ELSE lost' = lost \cup {record} /\ UNCHANGED queue
    /\ handed' = [handed EXCEPT ![r] = @ + 1]
    /\ UNCHANGED <<senders, writing, file, writer, drain>>

WriterTakes ==
    /\ writer = "running"
    /\ writing = <<>>
    /\ queue # <<>>
    /\ writing' = <<Head(queue)>>
    /\ queue' = Tail(queue)
    /\ UNCHANGED <<senders, file, lost, handed, writer, drain>>

(* append_line; its errors are swallowed. *)
WriterWrites ==
    /\ writing # <<>>
    /\ \/ file' = file \o writing /\ UNCHANGED lost
       \/ lost' = lost \cup Range(writing) /\ UNCHANGED file
    /\ writing' = <<>>
    /\ UNCHANGED <<senders, queue, handed, writer, drain>>

NothingMoreToReceiveSlip == senders = {}
NothingMoreToReceive == senders = {} /\ queue = <<>>

WriterFinishes ==
    /\ writer = "running"
    /\ writing = <<>>
    /\ NothingMoreToReceive
    /\ writer' = "finished"
    /\ UNCHANGED <<senders, queue, writing, file, lost, handed, drain>>

(* Without a writer there is nothing to wait for. *)
DrainStarts(owner) ==
    /\ drain = "none"
    /\ senders' = senders \ {owner}
    /\ drain' = IF writer = "absent" THEN "flushed" ELSE "waiting"
    /\ UNCHANGED <<queue, writing, file, lost, handed, writer>>

DrainFlushed ==
    /\ drain = "waiting"
    /\ writer = "finished"
    /\ drain' = "flushed"
    /\ UNCHANGED <<senders, queue, writing, file, lost, handed, writer>>

DrainGivesUpSlip == FALSE

(* The deadline passes: DRAIN_TIMEOUT. *)
DrainGivesUp ==
    /\ drain = "waiting"
    /\ writer # "finished"
    /\ drain' = "gaveUp"
    /\ UNCHANGED <<senders, queue, writing, file, lost, handed, writer>>

-----------------------------------------------------------------------------
LogTypeOK(owners) ==
    /\ senders \subseteq owners \cup Relays
    /\ queue \in Seq(Record)
    /\ Len(queue) <= Depth
    /\ writing \in Seq(Record)
    /\ Len(writing) <= 1
    /\ file \in Seq(Record)
    /\ lost \subseteq Record
    /\ handed \in [Relays -> 0..MaxRecords]
    /\ writer \in {"absent", "running", "finished"}
    /\ drain \in {"none", "waiting", "flushed", "gaveUp"}

\* A drain that reports success has lost nothing the channel had accepted: every
\* record of every relay is in the file, or was dropped when it was appended or
\* written, and no clone is left that could add one.
FlushedMeansWritten ==
    drain = "flushed" =>
        /\ \A r \in Relays : \A n \in 1..handed[r] : <<r, n>> \in Range(file) \cup lost
        /\ writer = "finished" => senders = {}

\* However relays and writer interleave, and whatever is dropped, the records of a
\* relay are in the file in the order its frames crossed, each at most once.
FileKeepsOrder ==
    \A i, j \in 1..Len(file) :
        i < j /\ file[i][1] = file[j][1] => file[i][2] < file[j][2]

\* What the file says of the frames is neither short of what the drain promised
\* nor out of order.
FileIsFaithful == FlushedMeansWritten /\ FileKeepsOrder
=============================================================================
