----------------------------- MODULE EchoServer -----------------------------
(***************************************************************************)
(* A session of echo_server_t (src/include/kg/net/echo_server.hpp): the    *)
(* bytes basic_server_t reads from a connection are cut into messages,     *)
(* each a header of HeaderSize bytes whose size the application's reader   *)
(* tells, and given to the application's readed, which may answer.         *)
(*                                                                         *)
(* basic_server_t calls one handler of a connection at a time (module      *)
(* Callbacks), so a handler is one action.  The bytes not yet parsed are a *)
(* byte stream (ByteStream, which buffer_t is shown to implement).         *)
(***************************************************************************)
EXTENDS Integers, Sequences

CONSTANTS
  HeaderSize,  \* _headerSize
  Reader(_),   \* what the application's _reader returns for a header
  ReadSize,    \* KG_NET_BASIC_SERVER_BUFFER_SIZE
  Garbage      \* what the application's _readed may answer besides the message

VARIABLES
  callbacks,  \* which of _readed, _reader the application has set
  phase,      \* "none", or the connection is "connecting", "waiting" for bytes, "closed"
  session,    \* the basic_session_spt: "null" or "made"
  buffer,     \* basic_session_t::buffer
  size,       \* basic_session_t::size
  handled,    \* history: what _readed was given
  answers,    \* history: what _readed wrote
  lossy,      \* history: whether the buffer has lost bytes on this connection
  up, down,   \* the bytes under way to and from the server
  fault       \* a null pointer was used

sessionVars == <<session, buffer, size, handled, answers, lossy>>
vars == <<callbacks, phase, sessionVars, up, down, fault>>

Smaller(a, b) == IF a <= b THEN a ELSE b

Init ==
  /\ callbacks \in SUBSET {"readed", "reader"}
  /\ phase = "none" /\ session = "null" /\ buffer = <<>> /\ size = -1
  /\ handled = <<>> /\ answers = <<>> /\ lossy = FALSE
  /\ up = <<>> /\ down = <<>>
  /\ fault = FALSE

-----------------------------------------------------------------------------
\* basic_server_t accepts a connection and starts its coroutine.
Accept ==
  /\ phase = "none"
  /\ phase' = "connecting"
  /\ handled' = <<>> /\ answers' = <<>> /\ lossy' = FALSE /\ up' = <<>> /\ down' = <<>>
  /\ UNCHANGED <<callbacks, session, buffer, size, fault>>

\* forward_connected: the session is made and the application does not refuse.
Connected ==
  /\ phase = "connecting"
  /\ session' = "made" /\ size' = -1 /\ buffer' = <<>>
  /\ phase' \in {"waiting", "closed"}
  /\ UNCHANGED <<callbacks, handled, answers, lossy, up, down, fault>>

\* make_shared throws.
NoSession ==
  /\ phase = "connecting"
  /\ phase' = "closed"
  /\ UNCHANGED <<callbacks, sessionVars, up, down, fault>>

-----------------------------------------------------------------------------
(* forward_readed, which has just written the chunk, so that b is buffered. *)

\* Its result: the coroutine reads on, or leaves.
Continue == phase' = "waiting"
Disconnect == phase' = "closed"

\* The application's _readed is called and returns true, having answered, or false.
Readed(m) ==
  /\ handled' = Append(handled, m)
  /\ \/ \E r \in {m} \cup Garbage :
          /\ answers' = Append(answers, r)
          /\ down' = down \o r
          /\ Continue
     \/ Disconnect /\ UNCHANGED <<answers, down>>

\* Without a _reader it is called with what was read; no history is kept.
ReadedRaw(chunk) ==
  /\ \/ down' = down \o chunk /\ Continue
     \/ down' = down /\ Disconnect
  /\ UNCHANGED <<buffer, size, handled, answers>>

Quiet == UNCHANGED <<handled, answers, down>>

HeaderPassed(b) == size # -1 \/ Len(b) > HeaderSize   \* variant: off by one
HeaderThere(b) == size # -1 \/ Len(b) >= HeaderSize
MessageSize(b) == IF size # -1 THEN size ELSE Reader(SubSeq(b, 1, HeaderSize))

TooSmall(s) == s < 0      \* variant: only a negative size is refused
BadSize(s) == s < HeaderSize \/ s < 1

AwaitHeader(b) ==
  /\ ~HeaderThere(b)
  /\ buffer' = b /\ size' = size
  /\ Continue /\ Quiet

BadHeader(b) ==
  /\ HeaderThere(b) /\ BadSize(MessageSize(b))
  /\ buffer' = b /\ size' = MessageSize(b)
  /\ Disconnect /\ Quiet

AwaitBody(b) ==
  /\ HeaderThere(b) /\ ~BadSize(MessageSize(b))
  /\ Len(b) < MessageSize(b)
  /\ buffer' = b /\ size' = MessageSize(b)
  /\ Continue /\ Quiet

KeepSize(b) == size' = MessageSize(b)   \* variant: the size is not reset
ResetSize(b) == size' = IF phase' = "waiting" THEN -1 ELSE MessageSize(b)

\* One message, however many the buffer holds.
Message(b) ==
  /\ HeaderThere(b) /\ ~BadSize(MessageSize(b))
  /\ Len(b) >= MessageSize(b)
  /\ buffer' = SubSeq(b, MessageSize(b) + 1, Len(b))
  /\ Readed(SubSeq(b, 1, MessageSize(b)))
  /\ ResetSize(b)

\* write returns 0, or the array of the header or of the message cannot be had.
NoMemory(b) ==
  /\ \/ buffer' = buffer /\ size' = size
     \/ HeaderThere(b) /\ size = -1 /\ HeaderSize > 0 /\ buffer' = b /\ size' = size
     \/ /\ HeaderThere(b) /\ ~BadSize(MessageSize(b)) /\ Len(b) >= MessageSize(b)
        /\ buffer' = b /\ size' = MessageSize(b)
  /\ Disconnect /\ Quiet

\* What write(b, n) puts into the buffer when it returns n: all, or, if the array of a new
\* fragment could not be had, the beginning that fits in the last one; the rest is gone
\* (fragmentation.hpp:59-66 swallows the exception).
Written(chunk) == {SubSeq(chunk, 1, i) : i \in 0..Len(chunk)}

ForwardReaded(chunk) ==
  \/ /\ "readed" \notin callbacks
     /\ Continue /\ Quiet /\ UNCHANGED <<buffer, size, lossy>>
  \/ /\ "readed" \in callbacks /\ "reader" \notin callbacks
     /\ ReadedRaw(chunk) /\ UNCHANGED lossy
  \/ /\ {"readed", "reader"} \subseteq callbacks
     /\ \E kept \in Written(chunk) :
          /\ LET b == buffer \o kept IN
               AwaitHeader(b) \/ BadHeader(b) \/ AwaitBody(b) \/ Message(b) \/ NoMemory(b)
          /\ lossy' = (lossy \/ kept # chunk)

\* async_read_some takes what has arrived, at most its buffer.
Read ==
  /\ phase = "waiting"
  /\ \E k \in 1..Smaller(ReadSize, Len(up)) :
       /\ ForwardReaded(SubSeq(up, 1, k))
       /\ up' = SubSeq(up, k + 1, Len(up))
  /\ UNCHANGED <<callbacks, session, fault>>

\* The read fails: end of file, the timer, stop().
ReadFails ==
  /\ phase = "waiting"
  /\ Disconnect
  /\ UNCHANGED <<callbacks, sessionVars, up, down, fault>>

-----------------------------------------------------------------------------
\* forward_closed.  Without a session _closed, if there is one, gets a null reference.
Closed ==
  /\ phase = "closed"
  /\ phase' = "none"
  /\ fault' \in {FALSE, session = "null"}
  /\ session' = "null" /\ buffer' = <<>> /\ size' = -1
  /\ UNCHANGED <<callbacks, handled, answers, lossy, up, down>>

Step == Connected \/ NoSession \/ Read \/ Closed
Next == Step \/ ReadFails
-----------------------------------------------------------------------------
\* Between reads a session holds the beginning of one message, at its very start: its size
\* is what the header says and valid, and its body is not complete (216-247).
Parsing == {"readed", "reader"} \subseteq callbacks
Pending ==
  phase = "waiting" /\ Parsing /\ size # -1 =>
    /\ HeaderSize <= Len(buffer) /\ Len(buffer) < size
    /\ size = Reader(SubSeq(buffer, 1, HeaderSize))
=============================================================================
