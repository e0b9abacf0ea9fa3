------------------------------- MODULE JsonRpc -------------------------------
(***************************************************************************)
(* json_rpc_call (util.c:202-322) and the callbacks libcurl makes in it,   *)
(* call after call on the one curl handle of a thread.  libcurl and the    *)
(* server are external: in curl_easy_perform the callbacks come as libcurl *)
(* documents them, then the transfer ends or fails.  What a callback       *)
(* writes to is on the stack of the call that set the option; a call is    *)
(* known by its number.  A request and a reply are a few units each; a     *)
(* reply parses only when it is whole.                                     *)
(***************************************************************************)
EXTENDS Naturals, Sequences, FiniteSets

CONSTANTS
    WantLongpoll,   \* want_longpoll
    Paths,          \* values of the X-Long-Polling header
    NoPath,         \* lp_path = NULL
    Units,          \* bound: units of a request, and of a reply
    MaxCalls,       \* bound: calls
    MaxLines        \* bound: long-poll headers in one call

ASSUME OptionsAssumption == WantLongpoll \in BOOLEAN
ASSUME PathsAssumption == NoPath \notin Paths
ASSUME BoundsAssumption == Units \in Nat \ {0} /\ MaxCalls \in Nat /\ MaxLines \in Nat

Request == [i \in 1 .. Units |-> i]
Reply == [i \in 1 .. Units |-> i]

\* A JSON object with a result and no error; one without the first or with the
\* second; something else.
Replies == {"valid", "refused", "garbage"}
NoReply == "none"

\* The options of a handle that matter: the calls whose stack the callbacks
\* use, and the time limit in minutes; 0 for none.
FreshHandle == [header |-> 0, write |-> 0, read |-> 0, timeout |-> 0]

VARIABLES
    pc,             \* where the call is; "crashed" when the process is gone
    calls,          \* the number of the current or last call
    longpoll,       \* the argument longpoll: the same in all calls of a thread
    oom,            \* whether allocations may fail in this behaviour
    frozen,         \* whether the long-poll thread has frozen its queue
    handle,         \* curl
    upload,         \* upload_data: what is left of the request
    path,           \* hi.lp_path
    db,             \* all_data: the reply so far
    null,           \* whether all_data.buf is NULL
    heap,           \* what this call has allocated and still has to free
    result,         \* what the last call returned
    haveLongpoll,   \* have_longpoll
    lpq,            \* paths pushed to the long-poll thread's queue
    sent,           \* libcurl: what it has sent of the request
    reply,          \* libcurl: the kind of the reply, once its body begins
    delivered,      \* libcurl: units of the reply it has passed on
    lines,          \* libcurl: long-poll headers in this call
    lost            \* history: blocks of this call that nobody refers to any more

threadVars == <<calls, longpoll, oom, frozen>>
resultVars == <<result, haveLongpoll, lpq>>
bufferVars == <<upload, path, db, null>>
curlVars == <<sent, reply, delivered, lines>>
vars == <<pc, threadVars, resultVars, handle, bufferVars, heap, curlVars, lost>>

TypeOK ==
    /\ pc \in {"idle", "perform", "activate", "decode", "crashed"}
    /\ calls \in 0 .. MaxCalls
    /\ longpoll \in BOOLEAN /\ oom \in BOOLEAN /\ haveLongpoll \in BOOLEAN /\ null \in BOOLEAN
    /\ frozen \in BOOLEAN
    /\ handle \in [header : 0 .. calls, write : 0 .. calls, read : 0 .. calls,
                   timeout : {0, 10, 60}]
    /\ upload \in Seq(1 .. Units) /\ sent \in Seq(1 .. Units) /\ db \in Seq(1 .. Units)
    /\ path \in Paths \cup {NoPath} /\ lpq \in Seq(Paths)
    /\ heap \subseteq {"headers", "body", "path"}
    /\ result \in {"none", "val", "NULL"}
    /\ reply \in Replies \cup {NoReply} /\ delivered \in 0 .. Units
    /\ lines \in 0 .. MaxLines /\ lost \in Nat

Init ==
    /\ pc = "idle"
    /\ calls = 0 /\ longpoll \in BOOLEAN /\ oom \in BOOLEAN /\ result = "none"
    /\ haveLongpoll = FALSE /\ lpq = <<>> /\ frozen = FALSE
    /\ handle = FreshHandle
    /\ upload = <<>> /\ path = NoPath /\ db = <<>> /\ null = TRUE
    /\ heap = {} /\ lost = 0
    /\ sent = <<>> /\ reply = NoReply /\ delivered = 0 /\ lines = 0

\* Mutant: the handle has no time limit.
SetOptions_Unlimited(c, scanning) ==
    handle' = [handle EXCEPT !.write = c, !.read = c, !.header = IF scanning THEN c ELSE @]

\* An option that is not set keeps the value it has.
SetOptions(c, scanning) ==
    handle' = [handle EXCEPT !.write = c, !.read = c, !.header = IF scanning THEN c ELSE @,
                             !.timeout = IF longpoll THEN 60 ELSE 10]

\* longpoll_scan is want_longpoll when work I/O asks for work, else false.
Call ==
    /\ pc = "idle"
    /\ calls < MaxCalls
    /\ \E scan \in IF longpoll THEN {FALSE} ELSE {WantLongpoll, FALSE} :
           SetOptions(calls + 1, scan /\ WantLongpoll /\ ~haveLongpoll)
    /\ calls' = calls + 1
    /\ upload' = Request /\ path' = NoPath /\ db' = <<>> /\ null' = TRUE
    /\ heap' = {"headers"}
    /\ sent' = <<>> /\ reply' = NoReply /\ delivered' = 0 /\ lines' = 0
    /\ lost' = 0
    /\ pc' = "perform"
    /\ UNCHANGED <<longpoll, oom, frozen, resultVars>>

\* Mutant: the list of headers is not freed.
Freed_NotHeaders == {"body"}

\* databuf_free and curl_slist_free_all.
Freed == {"headers", "body"}

\* Mutant: the handle is left as it is.
Return_NoReset(r, n) ==
    /\ result' = r
    /\ lost' = lost + n + Cardinality(heap \ Freed)
    /\ heap' = {}
    /\ pc' = "idle"
    /\ UNCHANGED <<handle, threadVars, bufferVars, curlVars>>

\* Return r, n more blocks being lost; curl_easy_reset.
Return(r, n) ==
    /\ result' = r
    /\ lost' = lost + n + Cardinality(heap \ Freed)
    /\ heap' = {}
    /\ handle' = FreshHandle
    /\ pc' = "idle"
    /\ UNCHANGED <<threadVars, bufferVars, curlVars>>

-----------------------------------------------------------------------------
(* curl_easy_perform *)

Minimum(a, b) == IF a < b THEN a ELSE b

\* Mutant: the pointer is not moved on.
Upload_Again(room) ==
    LET len == Minimum(room, Len(upload)) IN
    /\ sent' = sent \o SubSeq(Request, 1, len)
    /\ upload' = SubSeq(upload, len + 1, Len(upload))

\* upload_data_cb fills the room libcurl has.
Upload(room) ==
    LET len == Minimum(room, Len(upload)) IN
    /\ sent' = sent \o SubSeq(upload, 1, len)
    /\ upload' = SubSeq(upload, len + 1, Len(upload))

UploadChunk ==
    /\ pc = "perform"
    /\ handle.read = calls
    /\ \E room \in 1 .. Units : Upload(room)
    /\ UNCHANGED <<pc, threadVars, resultVars, handle, path, db, null, heap, reply, delivered, lines, lost>>

(***************************************************************************)
(* resp_hdr_cb: only a long-poll line with a value counts, and only if it  *)
(* can be copied; the path of an earlier one is forgotten.  A redirect     *)
(* brings more headers.  Called for another call than the one it was set   *)
(* for, it writes to a stack frame that is gone.                           *)
(***************************************************************************)
HeaderLine ==
    /\ pc = "perform"
    /\ handle.header # 0
    /\ reply = NoReply /\ lines < MaxLines
    /\ lines' = lines + 1
    /\ IF handle.header = calls THEN UNCHANGED pc ELSE pc' = "crashed"
    /\ \/ /\ path' \in Paths
          /\ heap' = heap \cup {"path"}
          /\ lost' = IF path = NoPath THEN lost ELSE lost + 1
       \/ /\ oom
          /\ UNCHANGED <<path, heap, lost>>
    /\ UNCHANGED <<threadVars, resultVars, handle, upload, db, null, sent, reply, delivered>>

\* Mutant: the data goes to the beginning of the buffer.
Store_First(chunk) == db' = chunk

\* all_data_cb appends to the buffer.
Store(chunk) == db' = db \o chunk

\* A transfer without a body may still bring an empty chunk.
BodyChunk ==
    /\ pc = "perform"
    /\ reply' \in IF reply = NoReply THEN Replies ELSE {reply}
    /\ \E n \in (IF delivered = 0 THEN 0 ELSE 1) .. Units - delivered :
           /\ Store(SubSeq(Reply, delivered + 1, delivered + n))
           /\ delivered' = delivered + n
    /\ null' = FALSE
    /\ heap' = heap \cup {"body"}
    /\ UNCHANGED <<pc, threadVars, resultVars, handle, upload, path, sent, lines, lost>>

\* No connection, an HTTP error, or no memory for a chunk of the reply.
TransferFails ==
    /\ pc = "perform"
    /\ Return("NULL", 0)
    /\ UNCHANGED <<haveLongpoll, lpq>>

TimeIsUp ==
    /\ pc = "perform"
    /\ handle.timeout > 0
    /\ Return("NULL", 0)
    /\ UNCHANGED <<haveLongpoll, lpq>>

\* The transfer succeeds; the reply may be short, or have no body at all.
TransferEnds ==
    /\ pc = "perform"
    /\ pc' = "activate"
    /\ UNCHANGED <<threadVars, resultVars, handle, bufferVars, heap, curlVars, lost>>

-----------------------------------------------------------------------------
(* After curl_easy_perform *)

\* longpoll_thread ends: tq_freeze on its queue, from another thread.
FreezeQueue ==
    /\ ~frozen /\ frozen' = TRUE
    /\ UNCHANGED <<pc, calls, longpoll, oom, resultVars, handle, bufferVars, heap, curlVars, lost>>

\* The path goes to the long-poll thread, unless tq_push finds the queue frozen
\* or has no memory: then it is lost, and long polling is active all the same.
Activate ==
    /\ pc = "activate"
    /\ pc' = "decode"
    /\ heap' = heap \ {"path"}
    /\ IF path = NoPath
       THEN UNCHANGED <<haveLongpoll, lpq, lost>>
       ELSE /\ haveLongpoll' = TRUE
            /\ \/ ~frozen /\ lpq' = Append(lpq, path) /\ UNCHANGED lost
               \/ (frozen \/ oom) /\ lost' = lost + 1 /\ UNCHANGED lpq
    /\ UNCHANGED <<threadVars, result, handle, bufferVars, curlVars>>

Parsed(kind) == ~null /\ db = Reply /\ reply = kind

\* Mutant: what makes a reply valid is not looked at.
Accepted_Any == Parsed("valid") \/ Parsed("refused")

Accepted == Parsed("valid")

\* A refused reply is not freed.  json_loads of NULL is undefined: the vendored
\* jansson reads through it, later ones return NULL.
Decode ==
    /\ pc = "decode"
    /\ UNCHANGED <<haveLongpoll, lpq>>
    /\ \/ Accepted /\ Return("val", 0)
       \/ ~Accepted /\ Return("NULL", IF Parsed("refused") THEN 1 ELSE 0)
       \/ oom /\ Return("NULL", 0)
       \/ /\ null
          /\ pc' = "crashed"
          /\ UNCHANGED <<threadVars, result, handle, bufferVars, heap, curlVars, lost>>

\* The thread makes no more calls, or the process is gone.
Stopped ==
    /\ pc = "crashed" \/ (pc = "idle" /\ calls = MaxCalls)
    /\ UNCHANGED vars

Curl == UploadChunk \/ HeaderLine \/ BodyChunk \/ TransferFails \/ TransferEnds

Next == Call \/ Curl \/ TimeIsUp \/ FreezeQueue \/ Activate \/ Decode \/ Stopped

Spec == Init /\ [][Next]_vars

\* The thread runs and libcurl keeps to the time limit; the server need not
\* answer.
FairSpec == Spec /\ WF_vars(TimeIsUp) /\ WF_vars(Activate \/ Decode)
-----------------------------------------------------------------------------
\* A callback only ever uses the stack of the call it is made in: between calls
\* the handle is as new (util.c:218: "it is assumed that 'curl' is freshly
\* [re]initialized at this pt").  No call looks for the header once long polling
\* is active.
CallbacksLive ==
    /\ pc = "idle" => handle = FreshHandle
    /\ pc = "perform" => handle.header \in {0, calls} /\ handle.write = calls
    /\ pc = "perform" /\ handle.header # 0 => ~haveLongpoll

\* However the request is cut into chunks, the server gets it in order and
\* once, also when the call before was broken off in the middle.
RequestInOrder == pc = "perform" => sent \o upload = Request

\* However the reply is cut into chunks, the buffer has what came of it.
ReplyInOrder == pc \in {"perform", "activate", "decode"} => db = SubSeq(Reply, 1, delivered)

WholeAnswer == reply = "valid" /\ delivered = Units

\* A call that decodes a reply returns a value for a whole reply with a result
\* and no error, if there is memory to parse it, and for no other.
AnswerFaithful ==
    [][pc = "decode" /\ pc' = "idle" =>
           /\ result' = "val" => WholeAnswer
           /\ WholeAnswer /\ ~oom => result' = "val"]_vars

\* The long-poll thread gets one path at most, the one in the transfer that
\* activates long polling; a call that fails before activates nothing.
PathHandedOver ==
    /\ Len(lpq) <= 1
    /\ lpq # <<>> => haveLongpoll /\ WantLongpoll /\ ~longpoll
    /\ haveLongpoll /\ ~oom /\ ~frozen => lpq # <<>>

\* A server in order costs no memory however long the program runs: a call that
\* returns a value has freed all it allocated, unless it met two long-poll
\* headers or could not queue the path.  No call loses more than those and its
\* reply.
MemoryKept ==
    /\ lost <= lines + 1
    /\ pc = "idle" /\ result = "val" /\ lines <= 1 /\ (haveLongpoll => lpq # <<>>) => lost = 0

\* A call returns within its time limit, whatever the server does; or the
\* process is gone.
CallEnds == pc = "perform" ~> pc \in {"idle", "crashed"}
=============================================================================
