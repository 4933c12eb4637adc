------------------------------- MODULE K3xsx -------------------------------
(***************************************************************************)
(* k3xsx_salt_t of src/include/kg/crypto/k3xsx_salt.hpp: a byte is         *)
(* enciphered by an exclusive or, a mirroring of its bits with a rotation, *)
(* and another exclusive or, each with one of three random salts that go   *)
(* in front of the cipher text.  encryption() and decryption() walk over   *)
(* the caller's memory byte by byte and read the salts from it anew for    *)
(* every byte, so where src and dist lie in relation to each other decides *)
(* whether the text survives: the model has one memory and lets the caller *)
(* place src and dist anywhere in it.                                      *)
(***************************************************************************)
EXTENDS Integers, Sequences

CONSTANTS
  Size,       \* cells of the caller's memory
  SizeMax,    \* the largest std::size_t
  Longest,    \* bound: the longest text that is encrypted
  Calls,      \* bound: number of calls
  Keys,       \* values of _salt, the base of the salts
  Salts,      \* what _rand_salts may produce
  Memories    \* what the memory may hold at first

VARIABLES
  mem,        \* the memory
  call,       \* the call in progress, or the last one
  good,       \* a cipher text in the memory and the text it stands for
  calls       \* number of calls made

vars == <<mem, call, good, calls>>

Bits == 0 .. 7
Byte == SUBSET Bits           \* a byte is the set of the bits that are 1
SaltLen == 3
Cells == 0 .. (Size - 1)
Area(p, n) == p .. (p + n - 1)

ASSUME SizeAssumption == /\ Size \in Nat /\ Longest \in Nat /\ Calls \in Nat
                         /\ SizeMax \in Nat /\ Size <= SizeMax
ASSUME ByteAssumption == /\ Keys \subseteq Byte
                         /\ Salts \subseteq [0 .. 2 -> Byte \ {Bits}]
                         /\ Memories \subseteq [Cells -> Byte]

(***************************************************************************)
(* The cipher of one byte.                                                 *)
(***************************************************************************)
Weight == <<1, 2, 4, 8, 16, 32, 64, 128>>
BitValue(b, i) == IF i \in b THEN Weight[i + 1] ELSE 0
Value(b) == BitValue(b, 0) + BitValue(b, 1) + BitValue(b, 2) + BitValue(b, 3)
              + BitValue(b, 4) + BitValue(b, 5) + BitValue(b, 6) + BitValue(b, 7)

\* A salt and the base are added as ints: the sum reaches 510 ...
Sum(s, k) == Value(s) + Value(k)

\* ... and loses its ninth bit when the result of ^ becomes a byte again.
ToByte(v) == {i \in Bits : (v \div Weight[i + 1]) % 2 = 1}

Xor(a, b) == (a \ b) \cup (b \ a)
SetBit(b, n, ok) == IF ok THEN b \cup {n} ELSE b \ {n}
SwapBit(b, l, r) == SetBit(SetBit(b, r, l \in b), l, r \in b)
Swap(b) == SwapBit(SwapBit(SwapBit(SwapBit(b, 0, 7), 1, 6), 2, 5), 3, 4)

\* variant: the shifted int is not cut to a byte
ShlWide(b, n) == {i + n : i \in b}
Shl(b, n) == {i \in Bits : i - n \in b}
Shr(b, n) == {i \in Bits : i + n \in b}
ShlLoop(b, n) == Shl(b, n % 8) \cup Shr(b, 8 - (n % 8))
ShrLoop(b, n) == Shr(b, n % 8) \cup Shl(b, 8 - (n % 8))

Encipher(b, s, k) ==
  Xor(ShlLoop(Swap(Xor(b, ToByte(Sum(s[0], k)))), Sum(s[1], k)), ToByte(Sum(s[2], k)))

\* variant: the bits are swapped before they are shifted back
DecipherOrder(b, s, k) ==
  Xor(ShrLoop(Swap(Xor(b, ToByte(Sum(s[2], k)))), Sum(s[1], k)), ToByte(Sum(s[0], k)))

Decipher(b, s, k) ==
  Xor(Swap(ShrLoop(Xor(b, ToByte(Sum(s[2], k))), Sum(s[1], k))), ToByte(Sum(s[0], k)))

(***************************************************************************)
(* The calls.  A call that has returned leaves its record in "call"; "due" *)
(* is the text it is about, "sound" that the caller may count on it.       *)
(***************************************************************************)
Init ==
  /\ mem \in Memories
  /\ call = [op |-> "none", key |-> {}, src |-> 0, n |-> 0, dist |-> 0, i |-> 0,
             result |-> FALSE, due |-> <<>>, sound |-> FALSE]
  /\ good = [at |-> 0, key |-> {}, text |-> <<>>, live |-> FALSE]
  /\ calls = 0

Idle == call.op \notin {"encrypting", "decrypting"}
SaltsAt(p) == [j \in 0 .. 2 |-> mem[p + j]]
Text(p, n) == [j \in 1 .. n |-> mem[p + j - 1]]
Cipher == Area(good.at, Len(good.text) + SaltLen)

\* The cipher text stays good as long as no call is given cells of it to write.
Spare(area) ==
  [good EXCEPT !.live = @ /\ Cipher \cap area = {}]

\* A text may be encrypted over itself when it lies behind room for the salts,
\* and decrypted over itself up to the first of the salts.
EncryptsSoundly(src, n, dist) == dist + SaltLen <= src \/ src + n <= dist
DecryptsSoundly(src, n, dist) ==
  dist + n <= src + 1 \/ dist = src + SaltLen \/ src + SaltLen + n <= dist

\* encryption up to the loop: the salts are written before any byte is read.
Encrypt(k, src, n, dist, s) ==
  /\ Idle /\ calls < Calls
  /\ mem' = [c \in Cells |-> IF c \in Area(dist, SaltLen) THEN s[c - dist] ELSE mem[c]]
  /\ call' = [op |-> "encrypting", key |-> k, src |-> src, n |-> n, dist |-> dist, i |-> 0,
              result |-> FALSE, due |-> Text(src, n), sound |-> EncryptsSoundly(src, n, dist)]
  /\ good' = Spare(Area(dist, n + SaltLen))
  /\ calls' = calls + 1

EncryptByte ==
  /\ call.op = "encrypting" /\ call.i < call.n
  /\ mem' = [mem EXCEPT ![call.dist + SaltLen + call.i] =
                          Encipher(mem[call.src + call.i], SaltsAt(call.dist), call.key)]
  /\ call' = [call EXCEPT !.i = @ + 1]
  /\ UNCHANGED <<good, calls>>

Encrypted ==
  /\ call.op = "encrypting" /\ call.i = call.n
  /\ call' = [call EXCEPT !.op = "encrypted"]
  /\ good' = IF call.sound THEN [at |-> call.dist, key |-> call.key, text |-> call.due,
                                 live |-> TRUE]
                           ELSE good
  /\ UNCHANGED <<mem, calls>>

\* decryption of n bytes, the salts among them.
Decrypt(k, src, n, dist) ==
  /\ Idle /\ calls < Calls
  /\ call' = [op |-> "decrypting", key |-> k, src |-> src, n |-> n, dist |-> dist, i |-> 0,
              result |-> FALSE, due |-> good.text,
              sound |-> /\ good.live /\ good.at = src /\ good.key = k
                        /\ Len(good.text) + SaltLen = n
                        /\ DecryptsSoundly(src, Len(good.text), dist)]
  /\ good' = Spare(Area(dist, n - SaltLen))
  /\ calls' = calls + 1
  /\ UNCHANGED mem

\* variant: without the test of n
TooShortNever(n) == FALSE

TooShort(n) == n < SaltLen

\* n - saltLen of std::size_t wraps: only the test of n keeps the loop within dist.
Rounds(n) == IF n < SaltLen THEN SizeMax + 1 + n - SaltLen ELSE n - SaltLen

\* variant: the text is taken from the start of src
DecryptByteHead ==
  /\ call.op = "decrypting" /\ ~TooShort(call.n) /\ call.i < Rounds(call.n)
  /\ mem' = [mem EXCEPT ![call.dist + call.i] =
                          Decipher(mem[call.src + call.i], SaltsAt(call.src), call.key)]
  /\ call' = [call EXCEPT !.i = @ + 1]
  /\ UNCHANGED <<good, calls>>

DecryptByte ==
  /\ call.op = "decrypting" /\ ~TooShort(call.n) /\ call.i < Rounds(call.n)
  /\ mem' = [mem EXCEPT ![call.dist + call.i] =
                          Decipher(mem[call.src + SaltLen + call.i], SaltsAt(call.src), call.key)]
  /\ call' = [call EXCEPT !.i = @ + 1]
  /\ UNCHANGED <<good, calls>>

Decrypted ==
  /\ call.op = "decrypting" /\ (TooShort(call.n) \/ call.i = Rounds(call.n))
  /\ call' = [call EXCEPT !.op = "decrypted", !.result = ~TooShort(call.n)]
  /\ UNCHANGED <<mem, good, calls>>

Next ==
  \/ \E k \in Keys, src, dist \in 0 .. Size :
       \/ \E n \in 0 .. Longest, s \in Salts :
            /\ src + n <= Size /\ dist + n + SaltLen <= Size
            /\ Encrypt(k, src, n, dist, s)
       \/ \E n \in (SaltLen - 1) .. (SaltLen + Longest) :
            /\ src + n <= Size /\ dist + n - SaltLen <= Size
            /\ Decrypt(k, src, n, dist)
  \/ EncryptByte \/ Encrypted \/ DecryptByte \/ Decrypted

Spec == Init /\ [][Next]_vars

(***************************************************************************)
(* Properties.                                                             *)
(***************************************************************************)
Ops == {"none", "encrypting", "encrypted", "decrypting", "decrypted"}

\* Types: no shift or sum leaves a bit beyond the eighth in a byte.
TypeOK ==
  /\ mem \in [Cells -> Byte]
  /\ call \in [op : Ops, key : Byte, src : 0 .. Size, n : 0 .. Size, dist : 0 .. Size,
               i : 0 .. Size, result : BOOLEAN, due : Seq(Byte), sound : BOOLEAN]
  /\ good \in [at : 0 .. Size, key : Byte, text : Seq(Byte), live : BOOLEAN]
  /\ calls \in 0 .. Calls

\* What encryption leaves in the memory deciphers to the text that was in it at
\* the call, from the salts in front of it, as long as no call writes over it,
\* the text encrypted over itself included (encryption, _encryption).
Recoverable ==
  good.live =>
    \A j \in DOMAIN good.text :
      Decipher(mem[good.at + SaltLen + j - 1], SaltsAt(good.at), good.key) = good.text[j]

\* decryption of a good cipher text with the same base returns true and leaves
\* the text in dist, also where dist covers the cipher text up to its first salt:
\* the salts are read from src for every byte (decryption, _decryption).
RoundTrip ==
  call.op = "decrypted" /\ call.sound =>
    /\ call.result
    /\ \A j \in DOMAIN call.due : mem[call.dist + j - 1] = call.due[j]

\* A call writes to the n + 3 bytes, or n - 3 bytes, of dist and nowhere else; a
\* decryption of fewer than 3 bytes writes nothing: the test of n comes before the
\* loop, whose bound would wrap (the bounds of both loops).
Written(c) ==
  IF c.op \in {"encrypting", "encrypted"} THEN Area(c.dist, c.n + SaltLen)
                                          ELSE Area(c.dist, c.n - SaltLen)
StaysInside == [][\A c \in Cells : mem'[c] # mem[c] => c \in Written(call')]_vars
=============================================================================
