------------------------------ MODULE CappedBody ------------------------------
(***************************************************************************)
(* A body read to its end under a cap: the client's, in src/relay/body.rs, *)
(* and the upstream's, in execute_capped of src/relay/http.rs.             *)
(*                                                                         *)
(* A body is the sequence of the lengths of its chunks and how its stream  *)
(* ends: well, or with an error, which is the chain of its sources from    *)
(* the outermost in.  A chunk is in memory when its length is added, so    *)
(* the saturating addition never saturates and is an addition here.        *)
(***************************************************************************)
EXTENDS Naturals, Sequences, SequencesExt, Checks

DisconnectKinds ==
    {"ConnectionReset", "ConnectionAborted", "BrokenPipe", "NotConnected", "UnexpectedEof",
     "TimedOut"}
IoKinds == DisconnectKinds \cup {"InvalidData", "Other"}
HyperGone == {"hyper_incomplete", "hyper_canceled", "hyper_closed"}
Links == IoKinds \cup HyperGone \cup {"hyper_parse", "opaque"}

\* is_disconnect_kind
IsDisconnectKind(kind) == kind \in DisconnectKinds

\* Any link that tells of a peer that left is believed.
ClassifyBodyErrorSlip(chain) ==
    IF \E link \in Range(chain) : IsDisconnectKind(link) \/ link \in HyperGone
    THEN "client_canceled" ELSE "body_unreadable"

\* classify_body_error: the first link that is an I/O error decides, whatever its
\* kind; a hyper error only if it says that the peer left.
ClassifyBodyError(chain) ==
    LET first == SelectInSeq(chain, LAMBDA link : link \in IoKinds \cup HyperGone)
    IN  IF first # 0 /\ (IsDisconnectKind(chain[first]) \/ chain[first] \in HyperGone)
        THEN "client_canceled" ELSE "body_unreadable"

Reading == [error |-> "none", buffered |-> 0, observed |-> 0]

\* The cap is held against each chunk by itself.
TakeSlip(reading, chunk, cap) ==
    IF reading.error # "none" \/ chunk = 0 THEN reading
    ELSE IF chunk > cap THEN [reading EXCEPT !.error = "over", !.observed = reading.buffered + chunk]
    ELSE [reading EXCEPT !.buffered = @ + chunk]

\* One turn of either loop: an empty chunk costs nothing, one that goes over the
\* cap ends the reading unbuffered, and nothing is read after that.
Take(reading, chunk, cap) ==
    LET observed == reading.buffered + chunk
    IN  IF reading.error # "none" \/ chunk = 0 THEN reading
        ELSE IF observed > cap THEN [reading EXCEPT !.error = "over", !.observed = observed]
        ELSE [reading EXCEPT !.buffered = observed]

\* The loop over the chunks.
ReadAll(chunks, cap) ==
    LET reading[n \in 0..Len(chunks)] ==
            IF n = 0 THEN Reading ELSE Take(reading[n - 1], chunks[n], cap)
    IN  reading[Len(chunks)]

\* read_capped
ReadCapped(chunks, ending, cap) ==
    LET reading == ReadAll(chunks, cap)
    IN  CASE reading.error = "over" -> [error |-> "body_too_large", bytes |-> 0]
          [] reading.error # "over" /\ ending # <<>> ->
                 [error |-> ClassifyBodyError(ending), bytes |-> 0]
          [] OTHER -> [error |-> "none", bytes |-> reading.buffered]

\* execute_capped, from the response's head on.
ExecuteCapped(chunks, ending, cap) ==
    LET reading == ReadAll(chunks, cap)
    IN  CASE reading.error = "over" ->
                 [error |-> "response_too_large", bytes |-> reading.observed]
          [] reading.error # "over" /\ ending # <<>> ->
                 [error |-> "upstream_failed", bytes |-> 0]
          [] OTHER -> [error |-> "none", bytes |-> reading.buffered]

-----------------------------------------------------------------------------
(* Properties *)

\* A peer that left is told from bad data by the outermost evidence there is: no
\* link before it is an I/O error of another kind.
TellsOfLeaving(chain) ==
    \E i \in DOMAIN chain :
        /\ chain[i] \in DisconnectKinds \cup HyperGone
        /\ \A j \in 1..i - 1 : chain[j] \in {"hyper_parse", "opaque"}

\* How a body is cut into chunks decides nothing: both readers take it whole if it
\* has at most `cap` bytes, and refuse it at the first chunk that goes over,
\* without keeping that one, whatever the stream would have done later.  A broken
\* body under the cap is the client's departure only if the error says so; a
\* broken response never is.
CutsDoNotMatter(chunks, ending, cap) ==
    LET body == ReadCapped(chunks, ending, cap)
        response == ExecuteCapped(chunks, ending, cap)
        total == Total(chunks)
    IN  /\ ReadAll(chunks, cap).buffered <= cap
        /\ total > cap =>
               /\ body.error = "body_too_large" /\ response.error = "response_too_large"
               /\ \E n \in DOMAIN chunks :
                      /\ response.bytes = Total(SubSeq(chunks, 1, n)) /\ response.bytes > cap
                      /\ Total(SubSeq(chunks, 1, n - 1)) <= cap
        /\ (total <= cap /\ ending = <<>>) =>
               body = [error |-> "none", bytes |-> total] /\ response = body
        /\ (total <= cap /\ ending # <<>>) =>
               /\ body.error =
                      IF TellsOfLeaving(ending) THEN "client_canceled" ELSE "body_unreadable"
               /\ response.error = "upstream_failed"
=============================================================================
