------------------------------- MODULE Upload -------------------------------
(***************************************************************************)
(* The sequences of requests that one goroutine makes for a medium         *)
(* (UploadMedia and chunkedUpload in lib/qqapi/) and for a message that is *)
(* shown while it grows (StreamSession).  They share nothing with other    *)
(* goroutines: what matters is which bytes and numbers each request has,   *)
(* and what is left undone when one fails.                                 *)
(***************************************************************************)
EXTENDS Integers, Sequences, FiniteSetsExt, SequencesExt

Mebi == 1024 * 1024

Threshold(configured) == IF configured > 0 THEN configured ELSE 3 * Mebi

\* How UploadMedia sends size bytes, or a public address if hasURL.
Way(size, hasURL, configured) ==
    CASE size > Threshold(configured) -> "chunked"
      [] size <= Threshold(configured) /\ hasURL -> "url"
      [] size \in 1 .. Threshold(configured) /\ ~hasURL -> "data"
      [] OTHER -> "refused"

-----------------------------------------------------------------------------
\* The block size the server gives is a text: zero if it is no number.
BlockSize(given) == IF given > 0 THEN given ELSE Mebi

From(index, block) == (index - 1) * block
Until(index, block, size) == Min({From(index, block) + block, size})

\* data[start:end] panics otherwise.
Sliceable(index, block, size) ==
    /\ 0 <= From(index, block)
    /\ From(index, block) <= Until(index, block, size)

Chunk(data, index, block) ==
    SubSeq(data, From(index, block) + 1, Until(index, block, Len(data)))

\* What chunkedUpload would ask of the server for the parts it was given.
Requests(parts) ==
    <<[do |-> "prepare"]>>
        \o FlattenSeq([k \in 1 .. Len(parts) |-> <<[do |-> "put", index |-> parts[k]],
                                                   [do |-> "finish", index |-> parts[k]]>>])
        \o <<[do |-> "send"]>>

\* What it asks, and how it ends, when the requests at the positions failing fail.
ChunkedUpload(parts, block, size, failing) ==
    LET requests == Requests(parts)
        panics == {k \in DOMAIN requests : /\ requests[k].do = "put"
                                           /\ ~Sliceable(requests[k].index, block, size)}
        stops == panics \cup (failing \cap DOMAIN requests)
    IN  IF stops = {} THEN [made |-> requests, ends |-> "file_info"]
        ELSE IF Min(stops) \in panics
             THEN [made |-> SubSeq(requests, 1, Min(stops) - 1), ends |-> "panic"]
             ELSE [made |-> SubSeq(requests, 1, Min(stops)), ends |-> "error"]

-----------------------------------------------------------------------------
\* A session counts its fragments (in 32 bits, which no stream fills) and shows the
\* low 8 bits as MsgSeq.  An answer is the id of the stream, "" if there was none.
NewStreamSession == [index |-> 0, streamID |-> ""]

Fragment(session) ==
    [streamID |-> session.streamID, seq |-> (session.index + 1) % 2^8, index |-> session.index]

SendContent(session, answer) ==
    [index    |-> session.index + 1,
     streamID |-> IF session.streamID = "" THEN answer ELSE session.streamID]

\* The fragments sent while the answers come in.
Fragments(answers) ==
    LET after[k \in 0 .. Len(answers)] ==
            IF k = 0 THEN NewStreamSession ELSE SendContent(after[k - 1], answers[k])
    IN  [k \in 1 .. Len(answers) |-> Fragment(after[k - 1])]
=============================================================================
