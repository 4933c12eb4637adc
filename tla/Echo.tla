-------------------------------- MODULE Echo --------------------------------
(***************************************************************************)
(* An echo_client_t that talks to an echo_server_t, as the programs in     *)
(* test/kg/net do: the client's application sends messages, the server's   *)
(* sends each message back, and the client's reads the answers.  TCP       *)
(* delivers the bytes in order, cut anywhere.                              *)
(***************************************************************************)
EXTENDS Integers, Sequences, SequencesExt

CONSTANTS
  HeaderSize,  \* the constructors' headerSize
  Reader(_),   \* the size the applications' readers tell from a header
  ReadSize,    \* the size of the arrays both sides read into
  Byte,        \* the bytes
  Junk,        \* the bytes memory that is not initialized may hold
  Messages,    \* the messages the applications send
  Garbage,     \* what else they may send: the reader refuses its header
  MaxSent,     \* bound on the messages sent on all connections
  MaxConnects, \* bound on the connections
  Window       \* bound on the answers the client's application is waiting for

WellFormed(m) ==
  /\ Len(m) >= HeaderSize /\ Len(m) >= 1
  /\ Reader(SubSeq(m, 1, HeaderSize)) = Len(m)

ASSUME EchoAssumption ==
  /\ HeaderSize \in Nat /\ ReadSize \in Nat \ {0}
  /\ Messages \subseteq Seq(Byte) /\ \A m \in Messages : WellFormed(m)
  /\ Garbage \subseteq Seq(Byte)
  /\ \A g \in Garbage : Len(g) = HeaderSize /\ HeaderSize > 0 /\ Reader(g) < HeaderSize
  /\ \A h \in [1..HeaderSize -> Byte] : Reader(h) \in Int
  /\ Junk \subseteq Byte
  /\ MaxSent \in Nat /\ MaxConnects \in Nat /\ Window \in Nat

VARIABLES
  callbacks, phase, session, inbuf, insize, handled, answers, lossy, fault,   \* EchoServer
  reader, linked, pc, buffer, size, data, received, spoilt,            \* EchoClient
  up, down,  \* the bytes under way
  sent,      \* history: the messages sent on this connection
  connects, total  \* the connections and the messages so far, to bound them

Server == INSTANCE EchoServer WITH buffer <- inbuf, size <- insize
Client == INSTANCE EchoClient WITH DataSize <- ReadSize

serverVars == <<callbacks, phase, session, inbuf, insize, handled, answers, lossy, fault>>
clientVars == <<reader, linked, pc, buffer, size, data, received, spoilt>>
appVars    == <<sent, connects, total>>
vars == <<serverVars, clientVars, up, down, appVars>>

Init ==
  /\ Server!Init /\ Client!Init
  /\ sent = <<>> /\ connects = 0 /\ total = 0

Connect ==
  /\ connects < MaxConnects
  /\ Client!Connect /\ Server!Accept
  /\ connects' = connects + 1 /\ sent' = <<>>
  /\ UNCHANGED total

Close == Client!Close /\ UNCHANGED <<serverVars, up, appVars, down>>

Waiting == Len(received) < Len(sent)

Send ==
  /\ linked /\ pc = "idle" /\ phase # "none"
  /\ total < MaxSent /\ total' = total + 1 /\ Len(sent) - Len(received) < Window
  /\ \E m \in Messages \cup Garbage : up' = up \o m /\ sent' = Append(sent, m)
  /\ UNCHANGED <<serverVars, clientVars, down, connects>>

ReadCall == Waiting /\ Client!ReadCall /\ UNCHANGED <<serverVars, up, appVars>>
ReadSome == Client!ReadSome /\ UNCHANGED <<serverVars, up, appVars>>
ReadFails == Client!ReadFails /\ UNCHANGED <<serverVars, up, appVars>>
FeedSome(k) == Client!Feed(k) /\ UNCHANGED <<serverVars, up, appVars>>
\* Bound: the parser is fed while it is in step.
Feed == Waiting /\ spoilt = {} /\ \E k \in 1..Len(down) : FeedSome(k)

ServerStep  == Server!Step /\ UNCHANGED <<clientVars, appVars>>
ServerFails == Server!ReadFails /\ UNCHANGED <<clientVars, appVars>>

Ended == fault \/ (~linked /\ connects = MaxConnects /\ phase = "none")

Next ==
  \/ /\ ~fault
     /\ \/ Connect \/ Close \/ Send \/ ReadCall \/ ReadSome \/ ReadFails \/ Feed
        \/ ServerStep \/ ServerFails
  \/ Ended /\ UNCHANGED vars

Spec == Init /\ [][Next]_vars

\* The server's threads run, callbacks return, bytes arrive, a blocked client wakes up for
\* bytes and for the end of the connection.  Nothing is asked of the applications.
Fairness ==
  /\ WF_vars(~fault /\ ServerStep)
  /\ WF_vars(~fault /\ ReadSome)
  /\ WF_vars(~fault /\ phase = "none" /\ ReadFails)

FairSpec == Spec /\ Fairness
-----------------------------------------------------------------------------
TypeOK ==
  /\ callbacks \subseteq {"readed", "reader"}
  /\ phase \in {"none", "connecting", "waiting", "closed"} /\ session \in {"null", "made"}
  /\ inbuf \in Seq(Byte) /\ insize \in Int
  /\ handled \in Seq(Seq(Byte)) /\ answers \in Seq(Seq(Byte))
  /\ lossy \in BOOLEAN /\ fault \in BOOLEAN
  /\ reader \in BOOLEAN /\ linked \in BOOLEAN /\ pc \in {"idle", "reading"}
  /\ buffer \in Seq(Byte) /\ size \in Int /\ data \in [1..ReadSize -> Byte]
  /\ received \in Seq(Seq(Byte)) /\ spoilt \subseteq {"leftover", "header", "lost", "gap", "memory", "fed"}
  /\ up \in Seq(Byte) /\ down \in Seq(Byte)
  /\ sent \in Seq(Seq(Byte)) /\ connects \in 0..MaxConnects /\ total \in 0..MaxSent

\* However TCP cuts the bytes (192-264), and whatever the buffer loses of them, _readed gets
\* only what a header announces, all of it; and while nothing is lost it gets the messages
\* that were sent, once, in order, and nothing after one whose header is refused.
ServerFraming ==
  Server!Parsing =>
    /\ \A j \in DOMAIN handled : WellFormed(handled[j])
    /\ ~lossy => IsPrefix(handled, sent) /\ \A j \in DOMAIN handled : handled[j] \in Messages

ServerPending == Server!Pending

\* read() returns what the server's application wrote, whole, once, in order (195-308),
\* unless something has put the parser out of step: only a refused header, a write that
\* failed or that lost bytes, bytes left over from an earlier connection, or
\* reader_message(b, n) can.  What the server's session has lost does not matter to it.
ClientFraming ==
  reader /\ Server!Parsing /\ spoilt \subseteq {"memory"} =>
    IsPrefix(received, answers) /\ \A j \in DOMAIN received : received[j] \notin Garbage

\* A read() that blocks (287) has no whole message in _buffer: the messages that came with
\* an earlier one are returned first (279-283), unless an allocation failed; not even bytes
\* that _buffer has lost make it wait for what it has.
BlocksForBytes ==
  pc = "reading" /\ reader /\ spoilt \subseteq {"gap"} => ~Client!Complete(buffer)

\* read() returns (277-308) when the client's application waits for each answer before it
\* sends again; unless the server was given no _readed, an allocation failed, the parser is
\* out of step or the session has lost bytes.
Answered ==
  [](Len(sent) - Len(received) <= 1 /\ "readed" \in callbacks)
    => ((pc = "reading") ~> (pc = "idle" \/ spoilt # {} \/ lossy \/ fault))
-----------------------------------------------------------------------------
(* What the two sides make together (proved in EchoProofs).                 *)

\* What read() returns (client 195-308) is what the application sent, message by message,
\* through both parsers, both directions and every cut: an echo, while neither side's buffer
\* has lost bytes.
EndToEnd ==
  reader /\ Server!Parsing /\ ~lossy /\ spoilt \subseteq {"memory"} => IsPrefix(received, sent)

\* The safety half of Answered.  Both sides wait for bytes and none is under way.
Stalled == pc = "reading" /\ phase = "waiting" /\ up = <<>> /\ down = <<>>

\* It has three causes: the session holds a whole message back, for forward_readed (192-264)
\* handles one message however many it was given; the session's buffer has lost bytes
\* (fragmentation.hpp:59-66); or the client's parser is out of step, lost bytes included.
StallsOnlyOnKept ==
  reader /\ Server!Parsing /\ Stalled =>
    \/ insize = -1 /\ \E m \in Messages \cup Garbage : IsPrefix(m, inbuf)
    \/ lossy \/ spoilt # {}

\* It never happens to an application that reads each answer before it sends again, while
\* neither side's buffer has lost bytes and the client's parser is in step.
NeverStalls ==
  Window <= 1 /\ reader /\ Server!Parsing /\ ~lossy /\ spoilt = {} => ~Stalled
=============================================================================
