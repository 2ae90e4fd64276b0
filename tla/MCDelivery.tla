----------------------------- MODULE MCDelivery -----------------------------
(***************************************************************************)
(* Two replies to one event, two attempts per request and two business     *)
(* attempts, two workers; and the functions of the other users of the      *)
(* client, an upload, a stream and a push, compared with what they are     *)
(* meant to do.                                                            *)
(***************************************************************************)
EXTENDS Delivery, Upload, Push

CONSTANTS r1, r2, e1

MCReplyTo == [s \in Sends |-> e1]

-----------------------------------------------------------------------------
\* The parts 1, 2, ... that cover the data are its bytes in order, each once;
\* one part more panics unless the data ends with the part before it.
ASSUME ChunksCoverTheData ==
    \A size \in 1 .. 9, block \in 1 .. 10 :
        LET data  == [k \in 1 .. size |-> k]
            parts == (size + block - 1) \div block
        IN  /\ FlattenSeq([i \in 1 .. parts |-> Chunk(data, i, block)]) = data
            /\ \A i \in 1 .. parts : Sliceable(i, block, size)
            /\ Sliceable(parts + 1, block, size) <=> size % block = 0
            /\ ~Sliceable(parts + 2, block, size)

\* The file is sent only after every part of the list was put and finished, in
\* the order of the list, and nothing is asked after a request that failed.
ASSUME SendsTheWholeFile ==
    \A parts \in {<<>>, <<1>>, <<1, 2>>, <<2, 1>>, <<1, 5>>}, failing \in SUBSET (1 .. 6) :
        LET upload == ChunkedUpload(parts, 2, 4, failing)
        IN  /\ upload.ends = "file_info" <=> /\ 5 \notin {parts[i] : i \in DOMAIN parts}
                                             /\ failing \cap (1 .. 2 * Len(parts) + 2) = {}
            /\ upload.ends = "file_info" =>
                   SelectSeq(upload.made, LAMBDA r : r.do = "finish")
                       = [i \in DOMAIN parts |-> [do |-> "finish", index |-> parts[i]]]
            /\ \A k \in DOMAIN upload.made : k \in failing => k = Len(upload.made)

\* The fragments of a stream are numbered without a gap, a failed one
\* included; all after the first answer belong to its stream.
ASSUME StreamGoesOn ==
    \A answers \in UNION {[1 .. n -> {"", "a", "b"}] : n \in 0 .. 4} :
        LET sent == Fragments(answers)
        IN  \A k \in DOMAIN sent :
                LET earlier == SelectSeq(SubSeq(answers, 1, k - 1), LAMBDA a : a # "")
                IN  /\ sent[k].index = k - 1
                    /\ sent[k].streamID = IF earlier = <<>> THEN "" ELSE earlier[1]

\* MsgSeq has eight bits: the fragment 256 shows 0 and the next one 1 again.
ASSUME SeqWraps ==
    LET shown(k) == Fragment([index |-> k - 1, streamID |-> "a"]).seq
    IN  shown(255) = 255 /\ shown(256) = 0 /\ shown(257) = shown(1)

-----------------------------------------------------------------------------
OwnerCommands ==
    [do : {"enable", "disable"}, scope : Scopes, key : {"k1"}]
        \cup [do : {"key"}, scope : {"group"}, key : {"k1", "k2", ""}]

Commanded(store, c) ==
    CASE c.do = "enable"  -> EnablePush(store, c.scope, "id")
      [] c.do = "disable" -> DisablePush(store, c.scope, "id")
      [] OTHER            -> SetPushKey(store, "id", c.key)

\* A push goes out exactly if the last command on its place allowed it and its
\* key is the last one that was set and not empty.
ASSUME PushNeedsConsentAndKey ==
    \A commands \in UNION {[1 .. n -> OwnerCommands] : n \in 0 .. 4}, scope \in Scopes :
        LET store    == FoldLeft(Commanded, <<>>, commands)
            request  == [scope |-> scope, openid |-> "id", parses |-> TRUE, header |-> "",
                         key |-> "k1", content |-> "text", kind |-> "text"]
            consents == SelectSeq(commands, LAMBDA c : c.do # "key" /\ c.scope = scope)
            keys     == SelectSeq(commands, LAMBDA c : c.do = "key" /\ c.key # "")
        IN  HTTPHandle(request, store, NoWindow, 1, "sends").status = 200
                <=> /\ consents # <<>> /\ Last(consents).do = "enable"
                    /\ keys # <<>> /\ Last(keys).key = "k1"

\* How often an attempt at one of the times is told that its key is wrong.
Told(times, first, last) ==
    LET wrong == [scope |-> "group", openid |-> "id", parses |-> TRUE, header |-> "k2",
                  key |-> "", content |-> "text", kind |-> ""]
        after[k \in 0 .. Len(times)] ==
            IF k = 0 THEN [status |-> 0, window |-> NoWindow]
            ELSE HTTPHandle(wrong, <<>>, after[k - 1].window, times[k], "sends")
    IN  Cardinality({k \in DOMAIN times : /\ times[k] \in first .. last
                                          /\ after[k].status = 401})

\* In any span as long as a window less than twice the limit is told so, and
\* all but one of that: the window does not slide (push.go:31 says it does).
ASSUME AttemptsAreBounded ==
    LET orders == {t \in [1 .. 6 -> 0 .. 6] : \A i \in 1 .. 5 : t[i] <= t[i + 1]}
    IN  /\ \A t \in orders, first \in 0 .. 6 :
               Told(t, first, first + RateLimitWindow) < 2 * RateLimitMax
        /\ \E t \in orders, first \in 0 .. 6 :
               Told(t, first, first + RateLimitWindow) = 2 * RateLimitMax - 1
=============================================================================
