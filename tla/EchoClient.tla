----------------------------- MODULE EchoClient -----------------------------
(***************************************************************************)
(* echo_client_t (src/include/kg/net/echo_client.hpp): a blocking client   *)
(* that cuts what it reads into messages.  One thread uses it: it          *)
(* connects, sends on the raw socket, calls read() and closes.             *)
(* read() first looks for a message that is already buffered and then      *)
(* blocks in read_some until one is complete.                              *)
(***************************************************************************)
EXTENDS Integers, Sequences

CONSTANTS
  HeaderSize,  \* _headerSize
  Reader(_),   \* what the application's _reader returns for a header
  DataSize,    \* the size of _data
  Junk         \* the bytes memory that is not initialized may hold

VARIABLES
  reader,    \* whether the application has set _reader
  linked,    \* whether _socket is connected
  pc,        \* "idle", or "reading": blocked in read_some
  buffer,    \* _buffer
  size,      \* _size
  data,      \* _data
  received,  \* history: the messages read() has returned on this connection
  spoilt,    \* history: what has put the parser out of step on this connection
  down       \* the bytes under way to the client

parserVars == <<buffer, size, data>>
vars == <<reader, linked, pc, parserVars, received, spoilt, down>>

AllOf(a, b) == b        \* variant: more is read than _data holds
Smaller(a, b) == IF a <= b THEN a ELSE b

\* _data is not initialized.
Init ==
  /\ reader \in BOOLEAN
  /\ linked = FALSE /\ pc = "idle"
  /\ buffer = <<>> /\ size = -1 /\ data \in [1..DataSize -> Junk]
  /\ received = <<>> /\ spoilt = {}
  /\ down = <<>>

-----------------------------------------------------------------------------
\* connect.  _buffer and _size keep what the last connection left.
Fresh == buffer = <<>> /\ size = -1
Connect ==
  /\ ~linked
  /\ linked' = TRUE
  /\ received' = <<>>
  /\ spoilt' = IF Fresh THEN {} ELSE {"leftover"}
  /\ UNCHANGED <<reader, pc, parserVars>>

Close ==
  /\ linked /\ pc = "idle"
  /\ linked' = FALSE
  /\ UNCHANGED <<reader, pc, parserVars, received, spoilt>>

-----------------------------------------------------------------------------
(* reader_message, when b is buffered.  Without a message read() goes on to *)
(* (or stays in) read_some; another caller gets control back.  step tells   *)
(* whether this very call puts the parser out of step.                      *)

HeaderThere(b) == size # -1 \/ Len(b) >= HeaderSize
MessageSize(b) == IF size # -1 THEN size ELSE Reader(SubSeq(b, 1, HeaderSize))
BadSize(s) == s < HeaderSize \/ s < 1

\* _size as the std::size_t it is compared as: a negative one is more than any size.
Complete(b) == HeaderThere(b) /\ MessageSize(b) >= 0 /\ Len(b) >= MessageSize(b)

NoMessage(b, again, step) ==
  /\ \/ ~HeaderThere(b) /\ size' = size
     \/ HeaderThere(b) /\ (size # -1 \/ ~BadSize(MessageSize(b))) /\ ~Complete(b)
        /\ size' = MessageSize(b)
  /\ buffer' = b /\ pc' = again
  /\ spoilt' = spoilt \cup step
  /\ UNCHANGED received

\* KG_NET_ECHO_CLIENT_CODE_BAD_MSG_HEADER: the size stays.
BadHeader(b, step) ==
  /\ size = -1 /\ HeaderThere(b) /\ BadSize(MessageSize(b))
  /\ buffer' = b /\ size' = MessageSize(b)
  /\ spoilt' = spoilt \cup step \cup {"header"}
  /\ pc' = "idle"
  /\ UNCHANGED received

KeepSize(b) == MessageSize(b)     \* variant: the size is not reset
NoSize(b) == -1

\* An empty message (a bad size of 0 that stayed) is none to read().
Message(b, again, step) ==
  /\ Complete(b) /\ (size # -1 \/ ~BadSize(MessageSize(b)))
  /\ buffer' = SubSeq(b, MessageSize(b) + 1, Len(b))
  /\ size' = NoSize(b)
  /\ IF MessageSize(b) = 0
     THEN received' = received /\ pc' = again
     ELSE received' = Append(received, SubSeq(b, 1, MessageSize(b))) /\ pc' = "idle"
  /\ spoilt' = spoilt \cup step

\* bad_alloc is swallowed, for the header or for the message.
Swallowed(b, again, step) ==
  /\ \/ size = -1 /\ HeaderThere(b) /\ HeaderSize > 0 /\ size' = size
     \/ Complete(b) /\ (size # -1 \/ ~BadSize(MessageSize(b))) /\ size' = MessageSize(b)
  /\ buffer' = b /\ pc' = again
  /\ spoilt' = spoilt \cup step \cup {"memory"}
  /\ UNCHANGED received

ReaderMessage(b, again, step) ==
  \/ NoMessage(b, again, step) \/ BadHeader(b, step)
  \/ Message(b, again, step) \/ Swallowed(b, again, step)

\* The write to _buffer fails: the bytes are gone and an exception tells.
WriteFails ==
  /\ spoilt' = spoilt \cup {"lost"}
  /\ pc' = "idle"
  /\ UNCHANGED <<buffer, size, received>>

-----------------------------------------------------------------------------
\* read() begins: a buffered message is returned at once.  Without a _reader the
\* header cannot be told (and for HeaderSize 0 the call itself throws).
SkipBuffered == UNCHANGED <<buffer, size, received, spoilt>> /\ pc' = "reading"   \* variant: read() always waits
Buffered == ReaderMessage(buffer, "reading", {})

ReadCall ==
  /\ linked /\ pc = "idle" /\ (reader \/ (HeaderSize > 0 /\ Len(buffer) < HeaderSize))
  /\ Buffered
  /\ UNCHANGED <<reader, linked, data, down>>

Overlay(chunk) ==
  [j \in DOMAIN data \cup DOMAIN chunk |-> IF j \in DOMAIN chunk THEN chunk[j] ELSE data[j]]

\* What write(_data, n) puts into _buffer when it returns n: all, or a beginning, if the array
\* of a new fragment could not be had (fragmentation.hpp:59-66 swallows the exception).
Written(chunk) == {SubSeq(chunk, 1, i) : i \in 0..Len(chunk)}
Gap(chunk, kept) == IF kept = chunk THEN {} ELSE {"gap"}

Parse(chunk, again, step) ==
  \/ \E kept \in Written(chunk) :
       ReaderMessage(buffer \o kept, again, step \cup Gap(chunk, kept))
  \/ WriteFails

\* read_some returns; without a _reader a slice of n uninitialized bytes is returned.
ReadSome ==
  /\ pc = "reading"
  /\ \E k \in 1..Smaller(DataSize, Len(down)) :
       /\ down' = SubSeq(down, k + 1, Len(down))
       /\ data' = Overlay(SubSeq(down, 1, k))
       /\ \/ reader /\ Parse(SubSeq(down, 1, k), "reading", {})
          \/ /\ ~reader
             /\ \E bytes \in [1..k -> Junk] : received' = Append(received, bytes)
             /\ pc' = "idle"
             /\ UNCHANGED <<buffer, size, spoilt>>
  /\ UNCHANGED <<reader, linked>>

\* read_some throws: end of file or a reset.
ReadFails ==
  /\ pc = "reading"
  /\ pc' = "idle"
  /\ UNCHANGED <<reader, linked, parserVars, received, spoilt, down>>

\* The application has read k bytes itself and calls reader_message(b, k), which
\* parses the first k bytes of _data instead.
Feed(k) ==
  /\ linked /\ reader /\ pc = "idle" /\ k <= DataSize
  /\ Parse(SubSeq(data, 1, k), "idle", {"fed"})
  /\ down' = SubSeq(down, k + 1, Len(down))
  /\ UNCHANGED <<reader, linked, data>>
=============================================================================
