----------------------------- MODULE ByteStream -----------------------------
(***************************************************************************)
(* What buffer_t promises (src/include/kg/bytes/buffer.hpp:15-20, 97-104,  *)
(* 208-218, 238-247, 289-295): a stream of bytes.  write appends all it is *)
(* given or nothing and says which, read takes as many bytes from the      *)
(* front as are wanted and there, copy_to shows them and leaves them.      *)
(***************************************************************************)
EXTENDS Integers, Sequences

CONSTANTS
  Byte,    \* the bytes
  Skips,   \* what copy_to may be asked to skip
  MaxLen   \* bound on what a call asks for

VARIABLES
  stream,  \* the bytes written and not yet read
  ret,     \* what the last call returned
  out,     \* what the last call left in its caller's memory
  call,    \* "ready", or the call in progress: "read", "copy"
  asked,   \* how many bytes it is to deliver
  past     \* how many it is to skip

vars == <<stream, ret, out, call, asked, past>>

Init ==
  /\ stream = <<>> /\ ret = 0 /\ out = <<>>
  /\ call = "ready" /\ asked = 0 /\ past = 0

Write(bytes) ==
  /\ call = "ready"
  /\ \/ stream' = stream \o bytes /\ ret' = Len(bytes)
     \/ stream' = stream /\ ret' = 0
  /\ out' = <<>>
  /\ UNCHANGED <<call, asked, past>>

Ask(c, n, s) ==
  /\ call = "ready"
  /\ call' = c /\ asked' = n /\ past' = s
  /\ UNCHANGED <<stream, ret, out>>

\* At most n bytes of the stream, the first s left out.
Window(s, n) == SubSeq(stream, s + 1, IF s + n <= Len(stream) THEN s + n ELSE Len(stream))

Answer(bytes) ==
  /\ out' = bytes /\ ret' = Len(bytes)
  /\ call' = "ready" /\ asked' = 0 /\ past' = 0

Read ==
  /\ call = "read"
  /\ Answer(Window(0, asked))
  /\ stream' = SubSeq(stream, ret' + 1, Len(stream))

Copy ==
  /\ call = "copy"
  /\ Answer(Window(past, asked))
  /\ UNCHANGED stream

Clear == call = "ready" /\ stream' = <<>> /\ UNCHANGED <<ret, out, call, asked, past>>

Next ==
  \/ \E n \in 1..MaxLen : \E bytes \in [1..n -> Byte] : Write(bytes)
  \/ \E n \in 0..MaxLen : Ask("read", n, 0) \/ \E s \in Skips : Ask("copy", n, s)
  \/ Read \/ Copy \/ Clear

Spec == Init /\ [][Next]_vars
=============================================================================
