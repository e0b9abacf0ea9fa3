---------------------------- MODULE JsonRpcProofs ----------------------------
(* What is proved of JsonRpc for every request, reply and number of calls. *)
EXTENDS JsonRpc, FiniteSetTheorems, SequenceTheorems, TLAPS

HandleType == handle \in [header : Nat, write : Nat, read : Nat, timeout : {0, 10, 60}]

\* What CallbacksLive rests on: the calls are counted, the handle is one.
HandleInv == calls \in Nat /\ HandleType /\ CallbacksLive

LEMMA HandleInit == Init => HandleInv
BY DEF Init, HandleInv, HandleType, CallbacksLive, FreshHandle

LEMMA HandleStep == HandleInv /\ [Next]_vars => HandleInv'
<1> SUFFICES ASSUME HandleInv, [Next]_vars PROVE HandleInv'
    OBVIOUS
<1> USE DEF HandleInv, HandleType, CallbacksLive
<1>1. ASSUME NEW r, NEW n, Return(r, n) PROVE HandleInv'
    BY <1>1 DEF Return, FreshHandle, threadVars
<1>2. CASE Call
    <2>1. handle = FreshHandle
        BY <1>2 DEF Call
    <2>2. PICK scanning \in BOOLEAN : SetOptions(calls + 1, scanning) /\ (scanning => ~haveLongpoll)
        BY <1>2, OptionsAssumption DEF Call
    <2>3. handle' = [header |-> IF scanning THEN calls + 1 ELSE 0, write |-> calls + 1,
                     read |-> calls + 1, timeout |-> IF longpoll THEN 60 ELSE 10]
        BY <2>1, <2>2 DEF SetOptions, FreshHandle
    <2>4. calls' = calls + 1 /\ pc' = "perform" /\ haveLongpoll' = haveLongpoll
        BY <1>2 DEF Call, resultVars
    <2> QED
        BY <2>2, <2>3, <2>4
<1>3. CASE UploadChunk \/ HeaderLine \/ BodyChunk \/ TransferEnds
    <2>1. UNCHANGED <<calls, handle, haveLongpoll>> /\ pc' # "idle" /\ (pc' = "perform" => pc = "perform")
        BY <1>3 DEF UploadChunk, HeaderLine, BodyChunk, TransferEnds, threadVars, resultVars
    <2> QED
        BY <2>1
<1>4. CASE TransferFails \/ TimeIsUp
    BY <1>1, <1>4 DEF TransferFails, TimeIsUp
<1>5. CASE Activate \/ FreezeQueue
    BY <1>5 DEF Activate, FreezeQueue, threadVars, resultVars
<1>6. CASE Decode
    <2>1. CASE pc' = "crashed" /\ UNCHANGED <<threadVars, handle>>
        BY <2>1 DEF threadVars
    <2> QED
        BY <1>1, <1>6, <2>1 DEF Decode
<1>7. CASE UNCHANGED vars
    BY <1>7 DEF vars, threadVars, resultVars
<1> QED
    BY <1>2, <1>3, <1>4, <1>5, <1>6, <1>7 DEF Next, Curl, Stopped

(***************************************************************************)
(* No callback ever writes to the stack of a call that has returned, and   *)
(* every call finds the handle as new: both exits of json_rpc_call reset   *)
(* it (util.c:312-321), and a call that looks for the long-poll header     *)
(* does so only while long polling is not active.                          *)
(***************************************************************************)
THEOREM CallbacksOnLiveStack == Spec => []CallbacksLive
<1>1. HandleInv => CallbacksLive
    BY DEF HandleInv
<1> QED
    BY HandleInit, HandleStep, <1>1, PTL DEF Spec
-----------------------------------------------------------------------------
\* Cutting a sequence in two loses nothing.
LEMMA CutInTwo ==
    ASSUME NEW S, NEW s \in Seq(S), NEW t \in Seq(S), NEW k \in 0 .. Len(t)
    PROVE  /\ SubSeq(t, 1, k) \in Seq(S)
           /\ SubSeq(t, k + 1, Len(t)) \in Seq(S)
           /\ (s \o SubSeq(t, 1, k)) \o SubSeq(t, k + 1, Len(t)) = s \o t
<1> DEFINE a == SubSeq(t, 1, k)
           b == SubSeq(t, k + 1, Len(t))
<1>1. a \in Seq(S)
    OBVIOUS
<1>2. b \in Seq(S)
    OBVIOUS
<1>3. a \o b = t
    <2>1. 1 \in 1 .. Len(t) + 1 /\ k \in 1 - 1 .. Len(t) /\ Len(t) \in k .. Len(t)
        OBVIOUS
    <2>2. a \o b = SubSeq(t, 1, Len(t))
        BY <2>1, ConcatAdjacentSubSeq, ZenonT(30)
    <2>3. SubSeq(t, 1, Len(t)) = t
        BY SubSeqFull, Zenon
    <2> QED
        BY <2>2, <2>3, Zenon
<1>4. (s \o a) \o b = s \o t
    <2> HIDE DEF a, b
    <2>1. \A u, v, w \in Seq(S) : (u \o v) \o w = u \o (v \o w)
        BY ConcatAssociative
    <2> QED
        BY <1>1, <1>2, <1>3, <2>1, Zenon
<1> QED
    BY <1>1, <1>2, <1>4

RequestOrder ==
    /\ sent \in Seq(1 .. Units) /\ upload \in Seq(1 .. Units)
    /\ RequestInOrder

LEMMA RequestStep == RequestOrder /\ [Next]_vars => RequestOrder'
<1> SUFFICES ASSUME RequestOrder, [Next]_vars PROVE RequestOrder'
    OBVIOUS
<1> USE DEF RequestOrder, RequestInOrder
<1>1. Request \in Seq(1 .. Units) /\ Request' = Request
    BY BoundsAssumption DEF Request
<1>2. CASE Call
    <2>1. sent' = <<>> /\ upload' = Request
        BY <1>2 DEF Call
    <2> QED
        BY <1>1, <2>1
<1>3. CASE UploadChunk
    <2>1. PICK room \in 1 .. Units : Upload(room)
        BY <1>3 DEF UploadChunk
    <2> DEFINE len == Minimum(room, Len(upload))
    <2>2. len \in 0 .. Len(upload)
        BY BoundsAssumption DEF Minimum
    <2>3. /\ sent' = sent \o SubSeq(upload, 1, len)
          /\ upload' = SubSeq(upload, len + 1, Len(upload))
        BY <2>1 DEF Upload
    <2>4. sent \o upload = Request
        BY <1>3 DEF UploadChunk
    <2> HIDE DEF len
    <2> DEFINE a == SubSeq(upload, 1, len)
               b == SubSeq(upload, len + 1, Len(upload))
    <2>5. a \in Seq(1 .. Units) /\ b \in Seq(1 .. Units) /\ (sent \o a) \o b = sent \o upload
        <3>1. sent \in Seq(1 .. Units) /\ upload \in Seq(1 .. Units)
            OBVIOUS
        <3> QED
            BY ONLY <2>2, <3>1, CutInTwo, ZenonT(60) DEF a, b
    <2> HIDE DEF a, b
    <2>6. sent' = sent \o a /\ upload' = b
        BY <2>3 DEF a, b
    <2>7. sent \o a \in Seq(1 .. Units)
        BY <2>5
    <2> QED
        BY <1>1, <2>4, <2>5, <2>6, <2>7
<1>4. CASE UNCHANGED <<sent, upload>> /\ (pc' = "perform" => pc = "perform")
    BY <1>1, <1>4
<1>5. ASSUME ~Call, ~UploadChunk PROVE UNCHANGED <<sent, upload>> /\ (pc' = "perform" => pc = "perform")
    BY <1>5 DEF Next, Curl, HeaderLine, BodyChunk, TransferFails, TimeIsUp, TransferEnds, FreezeQueue, Activate,
                Decode, Return, Stopped, vars, bufferVars, curlVars
<1> QED
    BY <1>2, <1>3, <1>4, <1>5

(***************************************************************************)
(* Whatever room libcurl offers upload_data_cb and wherever the call       *)
(* before was broken off, the server gets each request in order and once,  *)
(* for a request of any length (util.c:134-150, 249-250).                  *)
(***************************************************************************)
THEOREM RequestArrivesInOrder == Spec => []RequestInOrder
<1>1. Init => RequestOrder
    BY DEF Init, RequestOrder, RequestInOrder
<1>2. RequestOrder => RequestInOrder
    BY DEF RequestOrder
<1> QED
    BY <1>1, RequestStep, <1>2, PTL DEF Spec

-----------------------------------------------------------------------------
ReplyOrder == delivered \in 0 .. Units /\ ReplyInOrder

LEMMA ReplyStep == ReplyOrder /\ [Next]_vars => ReplyOrder'
<1> SUFFICES ASSUME ReplyOrder, [Next]_vars PROVE ReplyOrder'
    OBVIOUS
<1> USE DEF ReplyOrder, ReplyInOrder
<1>1. Reply \in Seq(1 .. Units) /\ Len(Reply) = Units /\ Reply' = Reply
    BY BoundsAssumption DEF Reply
<1>2. CASE Call
    <2>1. db' = <<>> /\ delivered' = 0
        BY <1>2 DEF Call
    <2>2. SubSeq(Reply, 1, 0) = <<>>
        BY <1>1
    <2> QED
        BY <1>1, <2>1, <2>2, BoundsAssumption
<1>3. CASE BodyChunk
    <2>1. PICK n \in 0 .. Units - delivered :
              /\ Store(SubSeq(Reply, delivered + 1, delivered + n))
              /\ delivered' = delivered + n
        BY <1>3, BoundsAssumption DEF BodyChunk
    <2>2. db = SubSeq(Reply, 1, delivered)
        BY <1>3 DEF BodyChunk
    <2> DEFINE d == delivered + n
    <2>3. 1 \in 1 .. Len(Reply) + 1 /\ delivered \in 1 - 1 .. Len(Reply) /\ d \in delivered .. Len(Reply)
        BY <1>1, BoundsAssumption
    <2> HIDE DEF d
    <2>4. SubSeq(Reply, 1, delivered) \o SubSeq(Reply, delivered + 1, d) = SubSeq(Reply, 1, d)
        BY <1>1, <2>3, ConcatAdjacentSubSeq, ZenonT(30)
    <2>5. db' = SubSeq(Reply, 1, d)
        BY <2>1, <2>2, <2>4 DEF Store, d
    <2> QED
        BY <1>1, <2>1, <2>3, <2>5 DEF d
<1>4. CASE /\ UNCHANGED <<db, delivered>>
           /\ pc' \in {"perform", "activate", "decode"} => pc \in {"perform", "activate", "decode"}
    BY <1>1, <1>4
<1>5. ASSUME ~Call, ~BodyChunk
      PROVE  /\ UNCHANGED <<db, delivered>>
             /\ pc' \in {"perform", "activate", "decode"} => pc \in {"perform", "activate", "decode"}
    BY <1>5 DEF Next, Curl, UploadChunk, HeaderLine, TransferFails, TimeIsUp, TransferEnds, FreezeQueue, Activate,
                Decode, Return, Stopped, vars, bufferVars, curlVars
<1> QED
    BY <1>2, <1>3, <1>4, <1>5

(***************************************************************************)
(* Whatever chunks libcurl gives all_data_cb, the buffer that is decoded   *)
(* holds what has come of the reply, in order (util.c:110-132).            *)
(***************************************************************************)
THEOREM ReplyArrivesInOrder == Spec => []ReplyInOrder
<1>1. Init => ReplyOrder
    BY BoundsAssumption DEF Init, ReplyOrder, ReplyInOrder
<1>2. ReplyOrder => ReplyInOrder
    BY DEF ReplyOrder
<1> QED
    BY <1>1, ReplyStep, <1>2, PTL DEF Spec

-----------------------------------------------------------------------------
\* A path in the hands of a call: the call looks for one, and none came before.
Scanning == WantLongpoll /\ ~longpoll /\ ~haveLongpoll

PathInv ==
    /\ path \in Paths \cup {NoPath} /\ lpq \in Seq(Paths)
    /\ pc = "idle" => handle.header = 0
    /\ pc = "perform" /\ handle.header # 0 => Scanning
    /\ pc \in {"perform", "activate"} /\ path # NoPath => Scanning
    /\ ~haveLongpoll => lpq = <<>>
    /\ PathHandedOver

LEMMA PathStep == HandleType /\ PathInv /\ [Next]_vars => PathInv'
<1> SUFFICES ASSUME HandleType, PathInv, [Next]_vars PROVE PathInv'
    OBVIOUS
<1> USE DEF PathInv, PathHandedOver, Scanning
<1>1. CASE Call
    <2>1. PICK scanning \in BOOLEAN :
              SetOptions(calls + 1, scanning) /\ (scanning => Scanning)
        BY <1>1, OptionsAssumption DEF Call
    <2>2. handle'.header = IF scanning THEN calls + 1 ELSE 0
        BY <1>1, <2>1 DEF Call, SetOptions, HandleType
    <2>3. path' = NoPath /\ pc' = "perform" /\ UNCHANGED <<longpoll, oom, frozen, haveLongpoll, lpq>>
        BY <1>1 DEF Call, resultVars
    <2> QED
        BY <2>1, <2>2, <2>3
<1>2. CASE HeaderLine
    <2>1. path' \in Paths \cup {NoPath} /\ Scanning /\ pc' # "idle"
        BY <1>2 DEF HeaderLine
    <2>2. UNCHANGED <<handle, longpoll, oom, frozen, haveLongpoll, lpq>>
        BY <1>2 DEF HeaderLine, threadVars, resultVars
    <2> QED
        BY <2>1, <2>2
<1>3. CASE Activate
    <2>1. pc' = "decode" /\ UNCHANGED <<path, handle, longpoll, oom, frozen>>
        BY <1>3 DEF Activate, threadVars, bufferVars
    <2>2. CASE path = NoPath
        BY <1>3, <2>1, <2>2 DEF Activate
    <2>3. CASE path # NoPath
        <3>1. Scanning /\ lpq = <<>> /\ haveLongpoll' = TRUE
            BY <1>3, <2>3 DEF Activate
        <3>2. lpq' = <<path>> \/ ((frozen \/ oom) /\ lpq' = <<>>)
            BY <1>3, <2>3, <3>1 DEF Activate
        <3>3. /\ lpq' \in Seq(Paths) /\ Len(lpq') <= 1
              /\ lpq' # <<>> \/ frozen \/ oom
            <4>1. <<path>> \in Seq(Paths) /\ Len(<<path>>) = 1 /\ <<path>> # <<>>
                BY <2>3
            <4>2. CASE lpq' = <<path>>
                BY <4>1, <4>2
            <4>3. CASE lpq' = <<>> /\ (frozen \/ oom)
                BY <4>3
            <4> QED
                BY <3>2, <4>2, <4>3
        <3> QED
            BY <2>1, <3>1, <3>3
    <2> QED
        BY <2>2, <2>3
<1>4. ASSUME NEW r, NEW n, Return(r, n), UNCHANGED <<haveLongpoll, lpq>> PROVE PathInv'
    BY <1>4 DEF Return, FreshHandle, threadVars, bufferVars
<1>5. CASE /\ UNCHANGED <<path, handle, longpoll, oom, haveLongpoll, lpq>>
           /\ frozen => frozen'
           /\ pc' = "idle" => pc = "idle"
           /\ pc' = "perform" => pc = "perform"
           /\ pc' = "activate" => pc \in {"perform", "activate"}
    BY <1>5
<1>6. CASE UploadChunk \/ BodyChunk \/ TransferEnds \/ FreezeQueue \/ UNCHANGED vars
    BY <1>5, <1>6 DEF UploadChunk, BodyChunk, TransferEnds, FreezeQueue, vars, threadVars, resultVars, bufferVars
<1>7. CASE TransferFails \/ TimeIsUp
    BY <1>4, <1>7 DEF TransferFails, TimeIsUp
<1>8. CASE Decode
    <2>1. CASE pc' = "crashed" /\ UNCHANGED <<threadVars, result, handle, bufferVars, heap, curlVars, lost>>
        BY <1>5, <1>8, <2>1 DEF Decode, threadVars, bufferVars
    <2> QED
        BY <1>4, <1>8, <2>1 DEF Decode
<1> QED
    BY <1>1, <1>2, <1>3, <1>6, <1>7, <1>8 DEF Next, Curl, Stopped

(***************************************************************************)
(* The long-poll thread gets one path at most, and long polling is active  *)
(* exactly once one came, memory permitting (util.c:220-221, 269-276).     *)
(***************************************************************************)
THEOREM PathPushedOnce == Spec => []PathHandedOver
<1>1. Init => PathInv
    BY DEF Init, PathInv, PathHandedOver, FreshHandle
<1>2. HandleInv => HandleType
    BY DEF HandleInv
<1>3. PathInv => PathHandedOver
    BY DEF PathInv
<1> QED
    BY <1>1, <1>2, <1>3, HandleInit, HandleStep, PathStep, PTL DEF Spec
-----------------------------------------------------------------------------
\* A buffer something has come for is one.
Buffered == delivered \in Nat /\ (delivered > 0 => ~null)

LEMMA BufferStep == Buffered /\ [Next]_vars => Buffered'
<1> SUFFICES ASSUME Buffered, [Next]_vars PROVE Buffered'
    OBVIOUS
<1> USE DEF Buffered
<1>1. CASE Call
    BY <1>1 DEF Call
<1>2. CASE BodyChunk
    <2>1. PICK n \in 0 .. Units - delivered : delivered' = delivered + n
        BY <1>2, BoundsAssumption DEF BodyChunk
    <2> QED
        BY <1>2, <2>1 DEF BodyChunk
<1>3. ASSUME ~Call, ~BodyChunk PROVE UNCHANGED <<delivered, null>>
    BY <1>3 DEF Next, Curl, UploadChunk, HeaderLine, TransferFails, TimeIsUp, TransferEnds, FreezeQueue, Activate,
                Decode, Return, Stopped, vars, bufferVars, curlVars
<1> QED
    BY <1>1, <1>2, <1>3

LEMMA WholeReply ==
    ASSUME ReplyOrder, Buffered, pc = "decode"
    PROVE  WholeAnswer <=> Accepted
<1>1. Reply \in Seq(1 .. Units) /\ Len(Reply) = Units /\ Units \in Nat \ {0}
    BY BoundsAssumption DEF Reply
<1>2. db = SubSeq(Reply, 1, delivered) /\ delivered \in 0 .. Units
    BY DEF ReplyOrder, ReplyInOrder
<1>3. Len(db) = delivered
    BY <1>1, <1>2
<1>4. delivered = Units => db = Reply
    BY <1>1, <1>2, SubSeqFull, Zenon
<1> QED
    BY <1>1, <1>2, <1>3, <1>4 DEF WholeAnswer, Accepted, Parsed, Buffered

(***************************************************************************)
(* However the reply was cut into chunks, a call that decodes it returns a *)
(* value exactly when all of a valid reply has come and there is memory to *)
(* parse it (util.c:278-315).                                              *)
(***************************************************************************)
THEOREM AnswersFaithful == Spec => AnswerFaithful
<1> DEFINE Inv == ReplyOrder /\ Buffered
           A == pc = "decode" /\ pc' = "idle" =>
                    /\ result' = "val" => WholeAnswer
                    /\ WholeAnswer /\ ~oom => result' = "val"
<1>1. Init => Inv
    BY BoundsAssumption DEF Init, ReplyOrder, ReplyInOrder, Buffered
<1>2. Inv /\ [Next]_vars => Inv'
    BY ReplyStep, BufferStep
<1>3. Inv /\ [Next]_vars => [A]_vars
    <2> SUFFICES ASSUME Inv, Next, pc = "decode", pc' = "idle"
                 PROVE  /\ result' = "val" => WholeAnswer
                        /\ WholeAnswer /\ ~oom => result' = "val"
        OBVIOUS
    <2>1. Decode
        BY DEF Next, Call, Curl, UploadChunk, HeaderLine, BodyChunk, TransferFails, TransferEnds,
               TimeIsUp, FreezeQueue, Activate, Stopped, vars
    <2>2. \/ Accepted /\ result' = "val"
          \/ (~Accepted \/ oom) /\ result' = "NULL"
        BY <2>1 DEF Decode, Return
    <2> QED
        BY <2>2, WholeReply
<1> QED
    BY <1>1, <1>2, <1>3, PTL DEF Spec, AnswerFaithful

-----------------------------------------------------------------------------
\* While a call runs, what is lost are the paths before the last one; then the
\* last one too, if the queue would not have it.
MemoryInv ==
    /\ lost \in Nat /\ lines \in Nat /\ heap \subseteq {"headers", "body", "path"}
    /\ pc \in {"perform", "activate"} =>
        /\ "path" \in heap => path # NoPath
        /\ IF path = NoPath THEN lost = 0 ELSE lost + 1 <= lines
    /\ pc = "decode" =>
        /\ "path" \notin heap
        /\ lost <= lines
        /\ lines <= 1 /\ (haveLongpoll => lpq # <<>>) => lost = 0
    /\ MemoryKept

\* What a call returns with is freed, but for a path.
LEMMA LostAtReturn ==
    ASSUME MemoryInv, NEW r, NEW n \in {0, 1}, Return(r, n)
    PROVE  /\ lost' = lost + n + (IF "path" \in heap THEN 1 ELSE 0)
           /\ heap' = {} /\ result' = r /\ pc' = "idle" /\ lines' = lines
<1>1. heap \ Freed = IF "path" \in heap THEN {"path"} ELSE {}
    BY DEF MemoryInv, Freed
<1>2. Cardinality({"path"}) = 1 /\ Cardinality({}) = 0
    BY FS_Singleton, FS_EmptySet
<1>3. Cardinality(heap \ Freed) = IF "path" \in heap THEN 1 ELSE 0
    BY <1>1, <1>2
<1> QED
    BY <1>3 DEF Return, curlVars

LEMMA MemoryStep == PathInv /\ MemoryInv /\ [Next]_vars => MemoryInv'
<1> SUFFICES ASSUME PathInv, MemoryInv, [Next]_vars PROVE MemoryInv'
    OBVIOUS
<1> USE DEF MemoryInv, MemoryKept
<1>1. CASE Call
    BY <1>1 DEF Call
<1>2. CASE HeaderLine
    <2>1. /\ lines' = lines + 1 /\ lines' \in Nat /\ pc = "perform" /\ pc' \in {"perform", "crashed"}
          /\ UNCHANGED <<haveLongpoll, lpq>>
        BY <1>2 DEF HeaderLine, resultVars
    <2>2. CASE path' \in Paths /\ heap' = heap \cup {"path"}
               /\ lost' = IF path = NoPath THEN lost ELSE lost + 1
        <3>1. path' # NoPath
            BY <2>2, PathsAssumption
        <3>2. lost' \in Nat /\ lost' + 1 <= lines'
            BY <2>1, <2>2
        <3> QED
            BY <2>1, <2>2, <3>1, <3>2
    <2>3. CASE UNCHANGED <<path, heap, lost>>
        BY <2>1, <2>3
    <2> QED
        BY <1>2, <2>2, <2>3 DEF HeaderLine
<1>3. CASE UploadChunk \/ BodyChunk \/ TransferEnds
    <2>1. /\ UNCHANGED <<path, lost, lines, haveLongpoll, lpq>>
          /\ pc = "perform" /\ pc' \in {"perform", "activate"}
          /\ heap' \in {heap, heap \cup {"body"}}
        BY <1>3 DEF UploadChunk, BodyChunk, TransferEnds, resultVars, bufferVars, curlVars
    <2> QED
        BY <2>1
<1>4. CASE TransferFails \/ TimeIsUp
    <2>1. Return("NULL", 0) /\ pc = "perform"
        BY <1>4 DEF TransferFails, TimeIsUp
    <2>2. /\ lost' = lost + 0 + (IF "path" \in heap THEN 1 ELSE 0) /\ heap' = {}
          /\ result' = "NULL" /\ pc' = "idle" /\ lines' = lines
        BY <2>1, LostAtReturn
    <2> QED
        BY <2>1, <2>2
<1>5. CASE Activate
    <2>1. /\ pc = "activate" /\ pc' = "decode" /\ UNCHANGED <<path, lines>>
          /\ heap' = heap \ {"path"}
        BY <1>5 DEF Activate, bufferVars, curlVars
    <2>2. CASE UNCHANGED <<haveLongpoll, lpq, lost>> /\ path = NoPath
        BY <2>1, <2>2
    <2>3. CASE haveLongpoll' = TRUE /\ path # NoPath
               /\ (UNCHANGED lost \/ (lost' = lost + 1 /\ UNCHANGED lpq))
        <3>1. lpq = <<>>
            BY <2>1, <2>3 DEF PathInv, Scanning
        <3> QED
            BY <2>1, <2>3, <3>1
    <2> QED
        BY <1>5, <2>2, <2>3 DEF Activate
<1>6. CASE Decode
    <2>1. pc = "decode" /\ UNCHANGED <<haveLongpoll, lpq>>
        BY <1>6 DEF Decode
    <2>2. CASE pc' = "crashed" /\ UNCHANGED <<heap, curlVars, lost>>
        BY <2>1, <2>2 DEF curlVars
    <2>3. ASSUME NEW r, NEW n \in {0, 1}, Return(r, n), r = "val" => n = 0 PROVE MemoryInv'
        <3>1. lost' = lost + n /\ heap' = {} /\ result' = r /\ pc' = "idle" /\ lines' = lines
            BY <2>1, <2>3, LostAtReturn
        <3> QED
            BY <2>1, <2>3, <3>1
    <2> QED
        BY <1>6, <2>2, <2>3 DEF Decode
<1>7. CASE FreezeQueue \/ UNCHANGED vars
    BY <1>7 DEF FreezeQueue, vars, threadVars, resultVars, bufferVars, curlVars
<1> QED
    BY <1>1, <1>2, <1>3, <1>4, <1>5, <1>6, <1>7 DEF Next, Curl, Stopped

(***************************************************************************)
(* A call that returns a value has freed what it allocated, but for the    *)
(* paths of all long-poll headers after the first and one the queue would  *)
(* not have; no call loses more than those and its reply (util.c:303-321). *)
(***************************************************************************)
THEOREM MemoryFreed == Spec => []MemoryKept
<1> DEFINE Inv == HandleInv /\ PathInv /\ MemoryInv
<1>1. Init => Inv
    <2>1. Init => PathInv
        BY DEF Init, PathInv, PathHandedOver, FreshHandle
    <2>2. Init => MemoryInv
        BY DEF Init, MemoryInv, MemoryKept
    <2> QED
        BY <2>1, <2>2, HandleInit
<1>2. Inv /\ [Next]_vars => Inv'
    <2>1. HandleInv => HandleType
        BY DEF HandleInv
    <2> QED
        BY <2>1, HandleStep, PathStep, MemoryStep
<1>3. Inv => MemoryKept
    BY DEF MemoryInv
<1> QED
    BY <1>1, <1>2, <1>3, PTL DEF Spec
=============================================================================
