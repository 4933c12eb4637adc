---------------------------- MODULE K3xsxProofs ----------------------------
(***************************************************************************)
(* Proofs about K3xsx, for every memory, text, base and salts.             *)
(*                                                                         *)
(* The first part is about bytes: every step of the cipher has an inverse, *)
(* so deciphering undoes enciphering.  The second part is the inductive    *)
(* invariant: while a loop runs, the cells it has passed hold the result,  *)
(* the cells it has still to read hold what they held at the call, and the *)
(* cipher text in the memory, if it is good, lies outside of dist.         *)
(***************************************************************************)
EXTENDS K3xsx, TLAPS

(***************************************************************************)
(* Bytes.                                                                  *)
(***************************************************************************)

\* The sum of a salt and the base is a natural number.
LEMMA SumType ==
  ASSUME NEW s \in Byte, NEW k \in Byte
  PROVE  Sum(s, k) \in Nat
<1>1. ASSUME NEW b \in Byte, NEW i \in Bits  PROVE BitValue(b, i) \in Nat
  BY SMT DEF BitValue, Weight, Bits
<1>2. ASSUME NEW b \in Byte  PROVE Value(b) \in Nat
  BY <1>1, SMT DEF Value, Bits
<1>. QED  BY <1>2, SMT DEF Sum

\* Every step of the cipher leaves a byte.
LEMMA StepTypes ==
  ASSUME NEW b \in Byte, NEW c \in Byte, NEW n \in Nat
  PROVE  /\ ToByte(n) \in Byte
         /\ Xor(b, c) \in Byte
         /\ Swap(b) \in Byte
         /\ ShlLoop(b, n) \in Byte
         /\ ShrLoop(b, n) \in Byte
<1>1. ToByte(n) \in Byte
  BY DEF ToByte, Byte
<1>2. Xor(b, c) \in Byte
  BY SMT DEF Xor, Byte
<1>3. ASSUME NEW a \in Byte, NEW l \in Bits, NEW r \in Bits  PROVE SwapBit(a, l, r) \in Byte
  BY SMT DEF SwapBit, SetBit, Byte
<1>4. Swap(b) \in Byte
  BY <1>3, SMT DEF Swap, Bits
<1>5. ShlLoop(b, n) \in Byte /\ ShrLoop(b, n) \in Byte
  BY SMT DEF ShlLoop, ShrLoop, Shl, Shr, Byte
<1>. QED  BY <1>1, <1>2, <1>4, <1>5

\* The second exclusive or with the same byte takes the first one back.
LEMMA XorBack ==
  ASSUME NEW b \in Byte, NEW c \in Byte
  PROVE  Xor(Xor(b, c), c) = b
BY SMT DEF Xor

\* The four swaps together mirror the byte ...
LEMMA SwapMirrors ==
  ASSUME NEW b \in Byte
  PROVE  Swap(b) = {i \in Bits : 7 - i \in b}
<1>. DEFINE b1 == SwapBit(b, 0, 7)
            b2 == SwapBit(b1, 1, 6)
            b3 == SwapBit(b2, 2, 5)
            b4 == SwapBit(b3, 3, 4)
<1>1. /\ b1 \in Byte
      /\ \A i \in Bits : i \in b1 <=> IF i \in {0, 7} THEN 7 - i \in b ELSE i \in b
  BY SMT DEF SwapBit, SetBit, Byte, Bits
<1>2. /\ b2 \in Byte
      /\ \A i \in Bits : i \in b2 <=> IF i \in {1, 6} THEN 7 - i \in b1 ELSE i \in b1
  <2>. HIDE DEF b1
  <2>. QED  BY <1>1, SMT DEF SwapBit, SetBit, Byte, Bits
<1>3. /\ b3 \in Byte
      /\ \A i \in Bits : i \in b3 <=> IF i \in {2, 5} THEN 7 - i \in b2 ELSE i \in b2
  <2>. HIDE DEF b2
  <2>. QED  BY <1>2, SMT DEF SwapBit, SetBit, Byte, Bits
<1>4. /\ b4 \in Byte
      /\ \A i \in Bits : i \in b4 <=> IF i \in {3, 4} THEN 7 - i \in b3 ELSE i \in b3
  <2>. HIDE DEF b3
  <2>. QED  BY <1>3, SMT DEF SwapBit, SetBit, Byte, Bits
<1>5. Swap(b) = b4
  BY DEF Swap
<1>. HIDE DEF b1, b2, b3, b4
<1>6. \A i \in Bits : i \in b4 <=> 7 - i \in b
  BY <1>1, <1>2, <1>3, <1>4, SMT DEF Bits
<1>. QED  BY <1>4, <1>5, <1>6, SMT DEF Byte

\* ... and mirroring twice changes nothing.
LEMMA SwapBack ==
  ASSUME NEW b \in Byte
  PROVE  Swap(Swap(b)) = b
<1>1. Swap(b) \in Byte
  BY StepTypes
<1>2. Swap(b) = {i \in Bits : 7 - i \in b}
  BY SwapMirrors
<1>3. Swap(Swap(b)) = {i \in Bits : 7 - i \in Swap(b)}
  BY <1>1, SwapMirrors
<1>4. \A i \in Bits : /\ 7 - i \in Bits
                     /\ 7 - (7 - i) = i
  BY SMT DEF Bits
<1>5. {i \in Bits : 7 - i \in Swap(b)} = {i \in Bits : i \in b}
  BY <1>2, <1>4
<1>6. {i \in Bits : i \in b} = b
  BY DEF Byte
<1>. QED  BY <1>3, <1>5, <1>6

\* Rotating back by the same number of bits, whatever multiple of eight it has
\* in it, takes the rotation back.
LEMMA RotateBack ==
  ASSUME NEW b \in Byte, NEW n \in Nat
  PROVE  ShrLoop(ShlLoop(b, n), n) = b
<1>. DEFINE m == n % 8
<1>1. m \in 0 .. 7
  BY SMT
<1>. HIDE DEF m
<1>2. ASSUME NEW i \in Bits
      PROVE  i \in (Shr(Shl(b, m) \cup Shr(b, 8 - m), m)
                     \cup Shl(Shl(b, m) \cup Shr(b, 8 - m), 8 - m)) <=> i \in b
  BY <1>1, SMT DEF Shl, Shr, Byte, Bits
<1>3. (Shr(Shl(b, m) \cup Shr(b, 8 - m), m)
        \cup Shl(Shl(b, m) \cup Shr(b, 8 - m), 8 - m)) = b
  BY <1>2, SMT DEF Shl, Shr, Byte
<1>. QED  BY <1>3 DEF ShlLoop, ShrLoop, m

\* Enciphering and deciphering give bytes.
LEMMA CipherTypes ==
  ASSUME NEW b \in Byte, NEW s \in [0 .. 2 -> Byte], NEW k \in Byte
  PROVE  Encipher(b, s, k) \in Byte /\ Decipher(b, s, k) \in Byte
<1>1. \A j \in 0 .. 2 : Sum(s[j], k) \in Nat
  BY SumType
<1>. DEFINE x0 == ToByte(Sum(s[0], k))
            x2 == ToByte(Sum(s[2], k))
<1>2. x0 \in Byte /\ x2 \in Byte /\ Sum(s[1], k) \in Nat
  BY <1>1, StepTypes, SMT
<1>3. Encipher(b, s, k) \in Byte
  <2>1. Xor(b, x0) \in Byte
    BY <1>2, StepTypes
  <2>2. ShlLoop(Swap(Xor(b, x0)), Sum(s[1], k)) \in Byte
    BY <1>2, <2>1, StepTypes
  <2>. QED  BY <1>2, <2>2, StepTypes DEF Encipher
<1>4. Decipher(b, s, k) \in Byte
  <2>1. Xor(b, x2) \in Byte
    BY <1>2, StepTypes
  <2>2. Swap(ShrLoop(Xor(b, x2), Sum(s[1], k))) \in Byte
    BY <1>2, <2>1, StepTypes
  <2>. QED  BY <1>2, <2>2, StepTypes DEF Decipher
<1>. QED  BY <1>3, <1>4

\* _decryption undoes _encryption, for every byte, every three salts and every base.
THEOREM ByteRoundTrip ==
  ASSUME NEW b \in Byte, NEW s \in [0 .. 2 -> Byte], NEW k \in Byte
  PROVE  Decipher(Encipher(b, s, k), s, k) = b
<1>. DEFINE x0 == ToByte(Sum(s[0], k))
            x2 == ToByte(Sum(s[2], k))
            n  == Sum(s[1], k)
            m  == Swap(Xor(b, x0))
<1>1. \A j \in 0 .. 2 : Sum(s[j], k) \in Nat
  BY SumType
<1>2. x0 \in Byte /\ x2 \in Byte /\ n \in Nat
  BY <1>1, StepTypes, SMT
<1>3. Xor(b, x0) \in Byte /\ m \in Byte /\ ShlLoop(m, n) \in Byte
  BY <1>2, StepTypes
<1>4. Encipher(b, s, k) = Xor(ShlLoop(m, n), x2)
  BY DEF Encipher
<1>5. Decipher(Encipher(b, s, k), s, k)
        = Xor(Swap(ShrLoop(Xor(Xor(ShlLoop(m, n), x2), x2), n)), x0)
  BY <1>4 DEF Decipher
<1>6. Xor(Xor(ShlLoop(m, n), x2), x2) = ShlLoop(m, n)
  BY <1>2, <1>3, XorBack
<1>7. ShrLoop(ShlLoop(m, n), n) = m
  BY <1>2, <1>3, RotateBack
<1>8. Swap(m) = Xor(b, x0)
  BY <1>3, SwapBack
<1>9. Xor(Xor(b, x0), x0) = b
  BY <1>2, XorBack
<1>. QED  BY <1>5, <1>6, <1>7, <1>8, <1>9

(***************************************************************************)
(* The loops.                                                              *)
(***************************************************************************)
Encrypting == call.op = "encrypting"
Decrypting == call.op = "decrypting"

\* The areas a call was given lie in the memory.
Within ==
  /\ call.src + call.n <= Size
  /\ Encrypting => /\ call.dist + call.n + SaltLen <= Size
                   /\ call.i <= call.n
  /\ Decrypting => /\ call.dist + call.n - SaltLen <= Size
                   /\ call.i = 0 \/ call.i <= call.n - SaltLen
  /\ good.live => good.at + Len(good.text) + SaltLen <= Size

\* A good cipher text lies outside of the cells a loop writes.
Aside ==
  good.live =>
    /\ Encrypting => Cipher \cap Area(call.dist, call.n + SaltLen) = {}
    /\ Decrypting => Cipher \cap Area(call.dist, call.n - SaltLen) = {}

\* encryption: the first i bytes are done, the others are as they were.
EncryptedSoFar ==
  Encrypting /\ call.sound =>
    /\ EncryptsSoundly(call.src, call.n, call.dist)
    /\ Len(call.due) = call.n
    /\ \A j \in 1 .. call.i :
         Decipher(mem[call.dist + SaltLen + j - 1], SaltsAt(call.dist), call.key) = call.due[j]
    /\ \A j \in (call.i + 1) .. call.n : mem[call.src + j - 1] = call.due[j]

\* decryption: the first i bytes are done, the others can still be deciphered.
DecryptedSoFar ==
  Decrypting /\ call.sound =>
    /\ call.n = Len(call.due) + SaltLen
    /\ DecryptsSoundly(call.src, Len(call.due), call.dist)
    /\ \A j \in 1 .. call.i : mem[call.dist + j - 1] = call.due[j]
    /\ \A j \in (call.i + 1) .. Len(call.due) :
         Decipher(mem[call.src + SaltLen + j - 1], SaltsAt(call.src), call.key) = call.due[j]

IInv ==
  /\ TypeOK /\ Within /\ Aside /\ EncryptedSoFar /\ DecryptedSoFar
  /\ Recoverable /\ RoundTrip

\* The salts that are read from the memory are bytes.
LEMMA SaltsType ==
  ASSUME TypeOK, NEW p \in Nat, p + SaltLen <= Size
  PROVE  SaltsAt(p) \in [0 .. 2 -> Byte]
<1>1. \A j \in 0 .. 2 : p + j \in Cells
  BY SizeAssumption, SMT DEF Cells, SaltLen
<1>. QED  BY <1>1 DEF SaltsAt, TypeOK

\* So is a text, which is as long as it was asked for.
LEMMA TextType ==
  ASSUME TypeOK, NEW p \in Nat, NEW n \in Nat, p + n <= Size
  PROVE  /\ Text(p, n) \in Seq(Byte)
         /\ Len(Text(p, n)) = n
         /\ \A j \in 1 .. n : p + j - 1 \in Cells /\ Text(p, n)[j] = mem[p + j - 1]
<1>1. \A j \in 1 .. n : p + j - 1 \in Cells
  BY SizeAssumption, SMT DEF Cells
<1>2. \A j \in 1 .. n : mem[p + j - 1] \in Byte
  BY <1>1 DEF TypeOK
<1>. DEFINE t == [j \in 1 .. n |-> mem[p + j - 1]]
<1>3. t \in [1 .. n -> Byte]
  BY <1>2
<1>4. \A j \in 1 .. n : t[j] = mem[p + j - 1]
  OBVIOUS
<1>. HIDE DEF t
<1>5. t \in Seq(Byte) /\ Len(t) = n
  BY <1>3, SMT
<1>. QED  BY <1>1, <1>4, <1>5 DEF Text, t

\* The fields of the calls and of the cipher text, for the arithmetic.
LEMMA FieldTypes ==
  ASSUME TypeOK
  PROVE  /\ good.at \in Nat /\ good.text \in Seq(Byte) /\ Len(good.text) \in Nat
         /\ DOMAIN good.text = 1 .. Len(good.text) /\ good.key \in Byte
         /\ call.src \in Nat /\ call.dist \in Nat /\ call.n \in Nat /\ call.i \in Nat
         /\ call.due \in Seq(Byte) /\ Len(call.due) \in Nat
         /\ DOMAIN call.due = 1 .. Len(call.due) /\ call.key \in Byte
<1>1. /\ good.at \in 0 .. Size /\ good.text \in Seq(Byte) /\ good.key \in Byte
      /\ call.src \in 0 .. Size /\ call.dist \in 0 .. Size /\ call.n \in 0 .. Size
      /\ call.i \in 0 .. Size /\ call.due \in Seq(Byte) /\ call.key \in Byte
  BY DEF TypeOK
<1>2. \A x \in 0 .. Size : x \in Nat
  BY SizeAssumption, SMT
<1>3. ASSUME NEW t \in Seq(Byte)
      PROVE  Len(t) \in Nat /\ DOMAIN t = 1 .. Len(t)
  BY SMT
<1>. QED  BY <1>1, <1>2, <1>3

\* Writing none of the cells of the cipher text leaves it as it is.
LEMMA CipherUntouched ==
  ASSUME IInv, TypeOK, Recoverable, Within, good.live,
         \A c \in Cipher : c \in Cells => mem'[c] = mem[c],
         good'.at = good.at, good'.text = good.text, good'.key = good.key
  PROVE  Recoverable'
<1>1. SUFFICES ASSUME NEW j \in DOMAIN good.text
               PROVE  /\ mem'[good.at + SaltLen + j - 1] = mem[good.at + SaltLen + j - 1]
                      /\ SaltsAt(good.at)' = SaltsAt(good.at)
  BY DEF Recoverable, SaltsAt
<1>2. /\ good.at + Len(good.text) + SaltLen <= Size
      /\ good.at \in Nat /\ Len(good.text) \in Nat /\ j \in 1 .. Len(good.text)
  BY <1>1, FieldTypes DEF Within
<1>3. ASSUME NEW d \in 0 .. (Len(good.text) + SaltLen - 1)
      PROVE  mem'[good.at + d] = mem[good.at + d]
  <2>1. good.at + d \in Cipher
    BY <1>2, SMT DEF Cipher, Area, SaltLen
  <2>2. good.at + d >= 0 /\ good.at + d < Size /\ good.at + d \in Int
    BY <1>2, SizeAssumption, SMT DEF SaltLen
  <2>3. good.at + d \in Cells
    BY <2>2, SizeAssumption, SMT DEF Cells
  <2>. QED  BY <2>1, <2>3
<1>4. /\ SaltLen + j - 1 \in 0 .. (Len(good.text) + SaltLen - 1)
      /\ good.at + (SaltLen + j - 1) = good.at + SaltLen + j - 1
      /\ \A d \in 0 .. 2 : d \in 0 .. (Len(good.text) + SaltLen - 1)
  <2>. DEFINE L == Len(good.text)
  <2>1. L \in Nat /\ j \in 1 .. L /\ good.at \in Nat
    BY <1>2
  <2>. HIDE DEF L
  <2>2. /\ SaltLen + j - 1 \in 0 .. (L + SaltLen - 1)
        /\ good.at + (SaltLen + j - 1) = good.at + SaltLen + j - 1
        /\ \A d \in 0 .. 2 : d \in 0 .. (L + SaltLen - 1)
    BY <2>1, SMT DEF SaltLen
  <2>. QED  BY <2>2 DEF L
<1>5. mem'[good.at + SaltLen + j - 1] = mem[good.at + SaltLen + j - 1]
  BY <1>3, <1>4
<1>6. \A d \in 0 .. 2 : mem'[good.at + d] = mem[good.at + d]
  BY <1>3, <1>4
<1>. QED  BY <1>5, <1>6 DEF SaltsAt

\* A call takes nothing from the cipher text but that it is good, and only if
\* the call may write to it.
LEMMA SpareKeeps ==
  ASSUME TypeOK, NEW area, good' = Spare(area)
  PROVE  /\ good'.at = good.at /\ good'.text = good.text /\ good'.key = good.key
         /\ good'.live => good.live /\ Cipher \cap area = {}
         /\ good' \in [at : 0 .. Size, key : Byte, text : Seq(Byte), live : BOOLEAN]
<1>1. good \in [at : 0 .. Size, key : Byte, text : Seq(Byte), live : BOOLEAN]
  BY DEF TypeOK
<1>2. good' = [good EXCEPT !.live = good.live /\ Cipher \cap area = {}]
  BY DEF Spare
<1>. QED  BY <1>1, <1>2, Zenon

LEMMA InitHolds == Init => IInv
<1>. SUFFICES ASSUME Init  PROVE IInv
  OBVIOUS
<1>. USE DEF Init
<1>1. TypeOK
  BY SizeAssumption, ByteAssumption, SMT DEF TypeOK, Ops, Byte
<1>2. Within
  BY SizeAssumption, SMT DEF Within, Encrypting, Decrypting
<1>. QED  BY <1>1, <1>2 DEF IInv, Aside, EncryptedSoFar, DecryptedSoFar, Encrypting,
                            Decrypting, Recoverable, RoundTrip

LEMMA EncryptKeeps ==
  ASSUME IInv, NEW k \in Keys, NEW src \in 0 .. Size, NEW dist \in 0 .. Size,
         NEW n \in 0 .. Longest, NEW s \in Salts,
         src + n <= Size, dist + n + SaltLen <= Size, Encrypt(k, src, n, dist, s)
  PROVE  IInv'
<1>. USE SizeAssumption DEF SaltLen
<1>1. /\ TypeOK /\ Within /\ Recoverable
      /\ k \in Byte /\ s \in [0 .. 2 -> Byte] /\ n \in 0 .. Size
  BY ByteAssumption, SMT DEF IInv
<1>2. /\ Text(src, n) \in Seq(Byte) /\ Len(Text(src, n)) = n
      /\ \A j \in 1 .. n : src + j - 1 \in Cells /\ Text(src, n)[j] = mem[src + j - 1]
  <2>1. src \in Nat /\ n \in Nat
    BY <1>1, SMT
  <2>. QED  BY <1>1, <2>1, TextType
<1>3. \A c \in Cells : c \in Area(dist, SaltLen) => c - dist \in 0 .. 2
  BY SMT DEF Area, Cells
<1>4. TypeOK'
  <2>1. mem' \in [Cells -> Byte]
    BY <1>1, <1>3 DEF Encrypt, TypeOK
  <2>2. call'.sound \in BOOLEAN
    BY SMT DEF Encrypt, EncryptsSoundly
  <2>3. good' \in [at : 0 .. Size, key : Byte, text : Seq(Byte), live : BOOLEAN]
    BY <1>1, SpareKeeps DEF Encrypt
  <2>4. calls' \in 0 .. Calls
    BY <1>1, SMT DEF Encrypt, TypeOK
  <2>5. call' \in [op : Ops, key : Byte, src : 0 .. Size, n : 0 .. Size, dist : 0 .. Size,
                   i : 0 .. Size, result : BOOLEAN, due : Seq(Byte), sound : BOOLEAN]
    BY <1>1, <1>2, <2>2, SMT DEF Encrypt, Ops
  <2>. QED  BY <2>1, <2>3, <2>4, <2>5 DEF TypeOK
<1>5. /\ call'.op = "encrypting" /\ call'.src = src /\ call'.n = n /\ call'.dist = dist
      /\ call'.i = 0 /\ call'.due = Text(src, n)
      /\ call'.sound = EncryptsSoundly(src, n, dist)
  BY DEF Encrypt
<1>6. /\ good'.at = good.at /\ good'.text = good.text /\ good'.key = good.key
      /\ good'.live => good.live /\ Cipher \cap Area(dist, n + SaltLen) = {}
  BY <1>1, SpareKeeps DEF Encrypt
<1>7. Within'
  BY <1>1, <1>5, <1>6, SMT DEF Within, Encrypting, Decrypting, TypeOK
<1>8. Aside'
  BY <1>5, <1>6 DEF Aside, Encrypting, Decrypting, Cipher
<1>9. EncryptedSoFar'
  <2>1. SUFFICES ASSUME EncryptsSoundly(src, n, dist), NEW j \in 1 .. n
                 PROVE  mem'[src + j - 1] = mem[src + j - 1]
    <3>1. \A j \in 1 .. call'.i : FALSE
      BY <1>5, SMT
    <3>2. call'.i + 1 = 1
      BY <1>5, SMT
    <3>3. EncryptsSoundly(call'.src, call'.n, call'.dist) <=> EncryptsSoundly(src, n, dist)
      BY <1>5
    <3>4. \A j \in (call'.i + 1) .. call'.n : call'.due[j] = mem[call'.src + j - 1]
      BY <1>2, <1>5, <3>2
    <3>. QED  BY <1>2, <1>5, <2>1, <3>1, <3>2, <3>3, <3>4 DEF EncryptedSoFar
  <2>2. src + j - 1 \in Cells
    BY <1>2, <2>1
  <2>3. src + j - 1 \notin Area(dist, SaltLen)
    BY <1>1, <1>2, <2>1, SMT DEF Area, EncryptsSoundly
  <2>. QED  BY <2>2, <2>3 DEF Encrypt
<1>10. Recoverable'
  <2>1. SUFFICES ASSUME good'.live  PROVE Recoverable'
    BY DEF Recoverable
  <2>2. Area(dist, SaltLen) \subseteq Area(dist, n + SaltLen)
    BY <1>1, SMT DEF Area
  <2>3. \A c \in Cipher : c \in Cells => mem'[c] = mem[c]
    BY <1>6, <2>1, <2>2 DEF Encrypt
  <2>. QED  BY <1>1, <1>6, <2>1, <2>3, CipherUntouched
<1>. QED  BY <1>4, <1>5, <1>7, <1>8, <1>9, <1>10
          DEF IInv, DecryptedSoFar, Decrypting, RoundTrip

LEMMA EncryptByteKeeps ==
  ASSUME IInv, EncryptByte
  PROVE  IInv'
<1>. DEFINE a == call.dist + SaltLen + call.i
            e == Encipher(mem[call.src + call.i], SaltsAt(call.dist), call.key)
<1>1. /\ TypeOK /\ Within /\ Aside /\ EncryptedSoFar /\ Recoverable
      /\ Encrypting /\ call.i < call.n
  BY DEF IInv, EncryptByte, Encrypting
<1>2. /\ call.src \in Nat /\ call.dist \in Nat /\ call.n \in Nat /\ call.i \in Nat
      /\ call.key \in Byte /\ call.i < call.n
      /\ call.src + call.n <= Size /\ call.dist + call.n + 3 <= Size
  BY <1>1, FieldTypes DEF Within, SaltLen
<1>3. /\ call.src + call.i \in Cells /\ a \in Cells
      /\ call.dist + SaltLen <= Size
  BY <1>2, SizeAssumption, SMT DEF Cells, SaltLen, a
<1>4. SaltsAt(call.dist) \in [0 .. 2 -> Byte]
  BY <1>1, <1>2, <1>3, SaltsType
<1>5. e \in Byte
  <2>1. mem[call.src + call.i] \in Byte
    BY <1>1, <1>3 DEF TypeOK
  <2>. QED  BY <1>2, <1>4, <2>1, CipherTypes
<1>6. /\ mem' = [mem EXCEPT ![a] = e] /\ good' = good /\ calls' = calls
      /\ call' = [call EXCEPT !.i = call.i + 1]
  BY DEF EncryptByte
<1>. HIDE DEF a, e
<1>7. /\ call'.op = "encrypting" /\ call'.src = call.src /\ call'.n = call.n
      /\ call'.dist = call.dist /\ call'.key = call.key /\ call'.due = call.due
      /\ call'.i = call.i + 1 /\ call'.sound = call.sound
  BY <1>1, <1>6, Zenon DEF TypeOK, Encrypting
<1>8. mem'[a] = e /\ \A c \in Cells : c # a => mem'[c] = mem[c]
  BY <1>1, <1>3, <1>6 DEF TypeOK
<1>9. TypeOK'
  <2>1. mem' \in [Cells -> Byte]
    BY <1>1, <1>5, <1>6 DEF TypeOK
  <2>2. call.i + 1 \in 0 .. Size
    BY <1>1, <1>2, SizeAssumption, SMT DEF Within
  <2>. QED  BY <1>1, <1>6, <2>1, <2>2, Zenon DEF TypeOK
<1>10. Within'
  BY <1>1, <1>2, <1>6, <1>7, SMT DEF Within, Encrypting, Decrypting
<1>11. Aside'
  BY <1>1, <1>6, <1>7 DEF Aside, Encrypting, Decrypting, Cipher
<1>12. Recoverable'
  <2>1. SUFFICES ASSUME good.live  PROVE Recoverable'
    BY <1>6 DEF Recoverable
  <2>2. a \in Area(call.dist, call.n + SaltLen)
    BY <1>1, <1>2, SMT DEF Area, SaltLen, a
  <2>3. \A c \in Cipher : c \in Cells => mem'[c] = mem[c]
    BY <1>1, <1>8, <2>1, <2>2 DEF Aside
  <2>. QED  BY <1>1, <1>6, <2>1, <2>3, CipherUntouched
<1>13. EncryptedSoFar'
  <2>1. SUFFICES ASSUME call.sound
                 PROVE  /\ Len(call.due) = call.n
                        /\ EncryptsSoundly(call.src, call.n, call.dist)
                        /\ \A j \in 1 .. (call.i + 1) :
                             Decipher(mem'[call.dist + SaltLen + j - 1], SaltsAt(call.dist)',
                                      call.key) = call.due[j]
                        /\ \A j \in (call.i + 1 + 1) .. call.n :
                             mem'[call.src + j - 1] = call.due[j]
    BY <1>7 DEF EncryptedSoFar, SaltsAt
  <2>2. /\ EncryptsSoundly(call.src, call.n, call.dist) /\ Len(call.due) = call.n
        /\ \A j \in 1 .. call.i :
             Decipher(mem[call.dist + SaltLen + j - 1], SaltsAt(call.dist), call.key)
               = call.due[j]
        /\ \A j \in (call.i + 1) .. call.n : mem[call.src + j - 1] = call.due[j]
    BY <1>1, <2>1 DEF EncryptedSoFar
  <2>3. SaltsAt(call.dist)' = SaltsAt(call.dist)
    <3>1. \A j \in 0 .. 2 : call.dist + j \in Cells /\ call.dist + j # a
      BY <1>2, <1>3, SizeAssumption, SMT DEF Cells, SaltLen, a
    <3>2. \A j \in 0 .. 2 : mem'[call.dist + j] = mem[call.dist + j]
      BY <1>8, <3>1
    <3>. QED  BY <1>7, <3>2 DEF SaltsAt
  <2>4. ASSUME NEW j \in 1 .. (call.i + 1)
        PROVE  Decipher(mem'[call.dist + SaltLen + j - 1], SaltsAt(call.dist), call.key)
                 = call.due[j]
    <3>1. CASE j = call.i + 1
      <4>1. /\ call.dist + SaltLen + j - 1 = a /\ call.src + j - 1 = call.src + call.i
            /\ j \in (call.i + 1) .. call.n
        BY <1>1, <1>2, <3>1, SMT DEF SaltLen, a
      <4>2. mem[call.src + call.i] = call.due[j] /\ mem[call.src + call.i] \in Byte
        BY <1>1, <1>3, <2>2, <4>1 DEF TypeOK
      <4>3. Decipher(e, SaltsAt(call.dist), call.key) = mem[call.src + call.i]
        BY <1>2, <1>4, <4>2, ByteRoundTrip DEF e
      <4>. QED  BY <1>8, <4>1, <4>2, <4>3
    <3>2. CASE j # call.i + 1
      <4>1. /\ j \in 1 .. call.i
            /\ call.dist + SaltLen + j - 1 \in Cells /\ call.dist + SaltLen + j - 1 # a
        BY <1>2, <3>2, SizeAssumption, SMT DEF SaltLen, a, Cells
      <4>. QED  BY <1>8, <2>2, <4>1
    <3>. QED  BY <3>1, <3>2
  <2>5. ASSUME NEW j \in (call.i + 1 + 1) .. call.n
        PROVE  mem'[call.src + j - 1] = call.due[j]
    <3>1. /\ j \in (call.i + 1) .. call.n
          /\ call.src + j - 1 \in Cells /\ call.src + j - 1 # a
      <4>1. call.dist + 3 <= call.src \/ call.src + call.n <= call.dist
        BY <2>2 DEF EncryptsSoundly, SaltLen
      <4>. QED  BY <1>2, <4>1, SizeAssumption, SMT DEF SaltLen, a, Cells
    <3>. QED  BY <1>8, <2>2, <3>1
  <2>. QED  BY <2>2, <2>3, <2>4, <2>5
<1>. QED  BY <1>7, <1>9, <1>10, <1>11, <1>12, <1>13
          DEF IInv, DecryptedSoFar, Decrypting, RoundTrip

LEMMA EncryptedKeeps ==
  ASSUME IInv, Encrypted
  PROVE  IInv'
<1>1. /\ TypeOK /\ Within /\ EncryptedSoFar /\ Recoverable
      /\ Encrypting /\ call.i = call.n
  BY DEF IInv, Encrypted, Encrypting
<1>2. /\ call.src \in Nat /\ call.dist \in Nat /\ call.n \in Nat
      /\ call.due \in Seq(Byte) /\ call.key \in Byte
      /\ DOMAIN call.due = 1 .. Len(call.due)
  BY <1>1, FieldTypes
<1>3. mem' = mem /\ calls' = calls /\ call' = [call EXCEPT !.op = "encrypted"]
  BY DEF Encrypted
<1>4. /\ call'.op = "encrypted" /\ call'.src = call.src /\ call'.n = call.n
  BY <1>1, <1>3, Zenon DEF TypeOK
<1>5. call' \in [op : Ops, key : Byte, src : 0 .. Size, n : 0 .. Size, dist : 0 .. Size,
                 i : 0 .. Size, result : BOOLEAN, due : Seq(Byte), sound : BOOLEAN]
  BY <1>1, <1>3, Zenon DEF TypeOK, Ops
<1>6. CASE call.sound
  <2>1. /\ good'.at = call.dist /\ good'.text = call.due /\ good'.key = call.key
        /\ good' = [at |-> call.dist, key |-> call.key, text |-> call.due, live |-> TRUE]
    BY <1>6 DEF Encrypted
  <2>2. good' \in [at : 0 .. Size, key : Byte, text : Seq(Byte), live : BOOLEAN]
    BY <1>1, <2>1, Zenon DEF TypeOK
  <2>3. TypeOK'
    BY <1>1, <1>3, <1>5, <2>2 DEF TypeOK
  <2>4. Len(call.due) = call.n /\ call.dist + call.n + SaltLen <= Size
    BY <1>1, <1>6 DEF EncryptedSoFar, Within
  <2>5. good'.at + Len(good'.text) + SaltLen <= Size
    BY <2>1, <2>4
  <2>6. Within'
    BY <1>1, <1>4, <2>5 DEF Within, Encrypting, Decrypting
  <2>7. Recoverable'
    <3>1. \A j \in 1 .. call.n :
             Decipher(mem[call.dist + SaltLen + j - 1], SaltsAt(call.dist), call.key)
               = call.due[j]
      BY <1>1, <1>6 DEF EncryptedSoFar
    <3>2. DOMAIN good'.text = 1 .. call.n
      BY <1>2, <2>1, <2>4
    <3>3. \A j \in 1 .. call.n :
             Decipher(mem'[good'.at + SaltLen + j - 1], SaltsAt(good.at)', good'.key)
               = good'.text[j]
      BY <1>3, <2>1, <3>1 DEF SaltsAt
    <3>. QED  BY <3>2, <3>3 DEF Recoverable
  <2>. QED  BY <1>4, <2>3, <2>6, <2>7 DEF IInv, Aside, EncryptedSoFar, DecryptedSoFar,
                                          Encrypting, Decrypting, RoundTrip
<1>7. CASE ~call.sound
  <2>1. good' = good
    BY <1>7 DEF Encrypted
  <2>2. TypeOK'
    BY <1>1, <1>3, <1>5, <2>1 DEF TypeOK
  <2>3. Within'
    BY <1>1, <1>4, <2>1 DEF Within, Encrypting, Decrypting
  <2>4. Recoverable'
    BY <1>1, <1>3, <2>1 DEF Recoverable, SaltsAt
  <2>. QED  BY <1>4, <2>2, <2>3, <2>4 DEF IInv, Aside, EncryptedSoFar, DecryptedSoFar,
                                          Encrypting, Decrypting, RoundTrip
<1>. QED  BY <1>6, <1>7

LEMMA DecryptKeeps ==
  ASSUME IInv, NEW k \in Keys, NEW src \in 0 .. Size, NEW dist \in 0 .. Size,
         NEW n \in (SaltLen - 1) .. (SaltLen + Longest),
         src + n <= Size, dist + n - SaltLen <= Size, Decrypt(k, src, n, dist)
  PROVE  IInv'
<1>1. TypeOK /\ Within /\ Recoverable /\ k \in Byte
  BY ByteAssumption DEF IInv
<1>2. /\ good.text \in Seq(Byte) /\ Len(good.text) \in Nat
      /\ DOMAIN good.text = 1 .. Len(good.text)
  BY <1>1, FieldTypes
<1>3. n \in 0 .. Size
  BY SizeAssumption, SMT DEF SaltLen
<1>4. /\ call'.op = "decrypting" /\ call'.src = src /\ call'.n = n /\ call'.dist = dist
      /\ call'.key = k /\ call'.i = 0 /\ call'.due = good.text
      /\ call'.sound => /\ good.live /\ good.at = src /\ good.key = k
                        /\ Len(good.text) + SaltLen = n
                        /\ DecryptsSoundly(src, Len(good.text), dist)
      /\ mem' = mem
  BY DEF Decrypt
<1>5. /\ good'.at = good.at /\ good'.text = good.text /\ good'.key = good.key
      /\ good'.live => good.live /\ Cipher \cap Area(dist, n - SaltLen) = {}
      /\ good' \in [at : 0 .. Size, key : Byte, text : Seq(Byte), live : BOOLEAN]
  BY <1>1, SpareKeeps DEF Decrypt
<1>6. TypeOK'
  <2>1. calls' \in 0 .. Calls
    BY <1>1, SizeAssumption, SMT DEF Decrypt, TypeOK
  <2>2. call' \in [op : Ops, key : Byte, src : 0 .. Size, n : 0 .. Size, dist : 0 .. Size,
                   i : 0 .. Size, result : BOOLEAN, due : Seq(Byte), sound : BOOLEAN]
    <3>1. 0 \in 0 .. Size
      BY SizeAssumption, SMT
    <3>2. (/\ good.live /\ good.at = src /\ good.key = k
           /\ Len(good.text) + SaltLen = n
           /\ DecryptsSoundly(src, Len(good.text), dist)) \in BOOLEAN
      OBVIOUS
    <3>. QED  BY <1>1, <1>2, <1>3, <3>1, <3>2, Zenon DEF Decrypt, Ops
  <2>. QED  BY <1>1, <1>4, <1>5, <2>1, <2>2 DEF TypeOK
<1>7. Within'
  <2>1. good.live => good.at + Len(good.text) + SaltLen <= Size
    BY <1>1 DEF Within
  <2>. QED  BY <1>4, <1>5, <2>1 DEF Within, Encrypting, Decrypting
<1>8. Aside'
  BY <1>4, <1>5 DEF Aside, Encrypting, Decrypting, Cipher
<1>9. DecryptedSoFar'
  <2>1. SUFFICES ASSUME call'.sound
                 PROVE  /\ n = Len(good.text) + SaltLen
                        /\ DecryptsSoundly(src, Len(good.text), dist)
                        /\ \A j \in 1 .. 0 : mem[dist + j - 1] = good.text[j]
                        /\ \A j \in (0 + 1) .. Len(good.text) :
                             Decipher(mem[src + SaltLen + j - 1], SaltsAt(src), k)
                               = good.text[j]
    BY <1>4 DEF DecryptedSoFar, SaltsAt
  <2>2. \A j \in 1 .. Len(good.text) :
           Decipher(mem[src + SaltLen + j - 1], SaltsAt(src), k) = good.text[j]
    BY <1>1, <1>2, <1>4, <2>1 DEF Recoverable
  <2>3. 0 + 1 = 1 /\ 1 .. 0 = {}
    BY SMT
  <2>. QED  BY <1>4, <2>1, <2>2, <2>3
<1>10. Recoverable'
  BY <1>1, <1>4, <1>5 DEF Recoverable, SaltsAt
<1>. QED  BY <1>4, <1>6, <1>7, <1>8, <1>9, <1>10
          DEF IInv, EncryptedSoFar, Encrypting, RoundTrip

LEMMA DecryptByteKeeps ==
  ASSUME IInv, DecryptByte
  PROVE  IInv'
<1>. DEFINE a == call.dist + call.i
            b == call.src + SaltLen + call.i
            d == Decipher(mem[b], SaltsAt(call.src), call.key)
<1>1. /\ TypeOK /\ Within /\ Aside /\ DecryptedSoFar /\ Recoverable
      /\ Decrypting /\ ~ (call.n < SaltLen) /\ call.i < call.n - SaltLen
  BY DEF IInv, DecryptByte, Decrypting, TooShort, Rounds
<1>2. /\ call.src \in Nat /\ call.dist \in Nat /\ call.n \in Nat /\ call.i \in Nat
      /\ call.key \in Byte /\ call.i < call.n - 3 /\ Size \in Nat
      /\ call.src + call.n <= Size /\ call.dist + call.n - 3 <= Size
  BY <1>1, FieldTypes, SizeAssumption DEF Within, SaltLen
<1>3. /\ a \in Cells /\ b \in Cells /\ call.src + SaltLen <= Size
  BY <1>2, SMT DEF Cells, SaltLen, a, b
<1>4. SaltsAt(call.src) \in [0 .. 2 -> Byte]
  BY <1>1, <1>2, <1>3, SaltsType
<1>5. d \in Byte
  <2>1. mem[b] \in Byte
    BY <1>1, <1>3 DEF TypeOK
  <2>. QED  BY <1>2, <1>4, <2>1, CipherTypes
<1>6. /\ mem' = [mem EXCEPT ![a] = d] /\ good' = good /\ calls' = calls
      /\ call' = [call EXCEPT !.i = call.i + 1]
  BY DEF DecryptByte
<1>. HIDE DEF a, b, d
<1>7. /\ call'.op = "decrypting" /\ call'.src = call.src /\ call'.n = call.n
      /\ call'.dist = call.dist /\ call'.key = call.key /\ call'.due = call.due
      /\ call'.i = call.i + 1 /\ call'.sound = call.sound
  BY <1>1, <1>6, Zenon DEF TypeOK, Decrypting
<1>8. mem'[a] = d /\ \A c \in Cells : c # a => mem'[c] = mem[c]
  BY <1>1, <1>3, <1>6 DEF TypeOK
<1>9. TypeOK'
  <2>1. mem' \in [Cells -> Byte]
    BY <1>1, <1>5, <1>6 DEF TypeOK
  <2>2. call.i + 1 \in 0 .. Size
    BY <1>2, SMT
  <2>. QED  BY <1>1, <1>6, <2>1, <2>2, Zenon DEF TypeOK
<1>10. Within'
  <2>1. call.i + 1 <= call.n - SaltLen
    BY <1>2, SMT DEF SaltLen
  <2>. QED  BY <1>1, <1>6, <1>7, <2>1 DEF Within, Encrypting, Decrypting
<1>11. Aside'
  BY <1>1, <1>6, <1>7 DEF Aside, Encrypting, Decrypting, Cipher
<1>12. Recoverable'
  <2>1. SUFFICES ASSUME good.live  PROVE Recoverable'
    BY <1>6 DEF Recoverable
  <2>2. a \in Area(call.dist, call.n - SaltLen)
    BY <1>2, SMT DEF Area, SaltLen, a
  <2>3. \A c \in Cipher : c \in Cells => mem'[c] = mem[c]
    BY <1>1, <1>8, <2>1, <2>2 DEF Aside
  <2>. QED  BY <1>1, <1>6, <2>1, <2>3, CipherUntouched
<1>13. DecryptedSoFar'
  <2>. DEFINE m == Len(call.due)
  <2>1. SUFFICES ASSUME call.sound
                 PROVE  /\ call.n = m + SaltLen
                        /\ DecryptsSoundly(call.src, m, call.dist)
                        /\ \A j \in 1 .. (call.i + 1) : mem'[call.dist + j - 1] = call.due[j]
                        /\ \A j \in (call.i + 1 + 1) .. m :
                             Decipher(mem'[call.src + SaltLen + j - 1], SaltsAt(call.src)',
                                      call.key) = call.due[j]
    BY <1>7 DEF DecryptedSoFar, SaltsAt
  <2>2. /\ call.n = m + SaltLen
        /\ DecryptsSoundly(call.src, m, call.dist)
        /\ \A j \in 1 .. call.i : mem[call.dist + j - 1] = call.due[j]
        /\ \A j \in (call.i + 1) .. m :
             Decipher(mem[call.src + SaltLen + j - 1], SaltsAt(call.src), call.key)
               = call.due[j]
    BY <1>1, <2>1 DEF DecryptedSoFar
  <2>3. /\ m \in Nat /\ call.n = m + 3 /\ call.i < m
        /\ \/ call.dist + m <= call.src + 1
           \/ call.dist = call.src + 3
           \/ call.src + 3 + m <= call.dist
    <3>1. m \in Nat
      BY <1>1, FieldTypes
    <3>2. /\ call.n = m + 3
          /\ \/ call.dist + m <= call.src + 1
             \/ call.dist = call.src + 3
             \/ call.src + 3 + m <= call.dist
      BY <2>2 DEF DecryptsSoundly, SaltLen
    <3>. HIDE DEF m
    <3>. QED  BY <1>2, <3>1, <3>2, SMT
  <2>. HIDE DEF m
  <2>4. ASSUME NEW j \in 1 .. (call.i + 1)
        PROVE  mem'[call.dist + j - 1] = call.due[j]
    <3>1. CASE j = call.i + 1
      <4>1. /\ call.dist + j - 1 = a /\ call.src + SaltLen + j - 1 = b
            /\ j \in (call.i + 1) .. m
        BY <1>2, <2>3, <3>1, SMT DEF SaltLen, a, b
      <4>. QED  BY <1>8, <2>2, <4>1 DEF d
    <3>2. CASE j # call.i + 1
      <4>1. j \in 1 .. call.i /\ call.dist + j - 1 \in Cells /\ call.dist + j - 1 # a
        BY <1>2, <3>2, SMT DEF a, Cells
      <4>. QED  BY <1>8, <2>2, <4>1
    <3>. QED  BY <3>1, <3>2
  <2>5. ASSUME NEW j \in (call.i + 1 + 1) .. m
        PROVE  Decipher(mem'[call.src + SaltLen + j - 1], SaltsAt(call.src)', call.key)
                 = call.due[j]
    <3>1. /\ j \in (call.i + 1) .. m
          /\ call.src + SaltLen + j - 1 \in Cells /\ call.src + SaltLen + j - 1 # a
      BY <1>2, <2>3, SMT DEF SaltLen, a, Cells
    <3>2. \A h \in 0 .. 2 : call.src + h \in Cells /\ call.src + h # a
      BY <1>2, <2>3, SMT DEF a, Cells
    <3>3. \A h \in 0 .. 2 : mem'[call.src + h] = mem[call.src + h]
      BY <1>8, <3>2
    <3>4. SaltsAt(call.src)' = SaltsAt(call.src)
      BY <1>7, <3>3 DEF SaltsAt
    <3>. QED  BY <1>8, <2>2, <3>1, <3>4
  <2>. QED  BY <2>2, <2>4, <2>5
<1>. QED  BY <1>7, <1>9, <1>10, <1>11, <1>12, <1>13
          DEF IInv, EncryptedSoFar, Encrypting, RoundTrip

LEMMA DecryptedKeeps ==
  ASSUME IInv, Decrypted
  PROVE  IInv'
<1>1. /\ TypeOK /\ Within /\ DecryptedSoFar /\ Recoverable /\ Decrypting
      /\ call.n < SaltLen \/ call.i = call.n - SaltLen
  BY DEF IInv, Decrypted, Decrypting, TooShort, Rounds
<1>2. /\ call.n \in Nat /\ Len(call.due) \in Nat /\ DOMAIN call.due = 1 .. Len(call.due)
  BY <1>1, FieldTypes
<1>3. /\ mem' = mem /\ good' = good /\ calls' = calls
      /\ call' = [call EXCEPT !.op = "decrypted", !.result = ~ (call.n < SaltLen)]
  BY DEF Decrypted, TooShort
<1>4. /\ call'.op = "decrypted" /\ call'.src = call.src /\ call'.n = call.n
      /\ call'.dist = call.dist /\ call'.due = call.due /\ call'.sound = call.sound
      /\ call'.result <=> ~ (call.n < SaltLen)
  BY <1>1, <1>3, Zenon DEF TypeOK
<1>5. TypeOK'
  BY <1>1, <1>3, Zenon DEF TypeOK, Ops
<1>6. Within'
  BY <1>1, <1>3, <1>4 DEF Within, Encrypting, Decrypting
<1>7. Recoverable'
  BY <1>1, <1>3 DEF Recoverable, SaltsAt
<1>8. RoundTrip'
  <2>1. SUFFICES ASSUME call.sound
                 PROVE  /\ ~ (call.n < SaltLen)
                        /\ \A j \in 1 .. Len(call.due) : mem[call.dist + j - 1] = call.due[j]
    BY <1>2, <1>3, <1>4 DEF RoundTrip
  <2>2. /\ call.n = Len(call.due) + SaltLen
        /\ \A j \in 1 .. call.i : mem[call.dist + j - 1] = call.due[j]
    BY <1>1, <2>1 DEF DecryptedSoFar
  <2>. DEFINE m == Len(call.due)
  <2>3. m \in Nat /\ call.n = m + SaltLen
    BY <1>2, <2>2
  <2>. HIDE DEF m
  <2>4. ~ (call.n < SaltLen) /\ call.i = m
    BY <1>1, <1>2, <2>3, SMT DEF SaltLen
  <2>. QED  BY <2>2, <2>4 DEF m
<1>. QED  BY <1>3, <1>4, <1>5, <1>6, <1>7, <1>8
          DEF IInv, Aside, EncryptedSoFar, DecryptedSoFar, Encrypting, Decrypting

LEMMA StepKeeps == IInv /\ [Next]_vars => IInv'
<1>. SUFFICES ASSUME IInv, [Next]_vars  PROVE IInv'
  OBVIOUS
<1>1. CASE \E k \in Keys, src, dist \in 0 .. Size :
             \E n \in 0 .. Longest, s \in Salts :
               /\ src + n <= Size /\ dist + n + SaltLen <= Size
               /\ Encrypt(k, src, n, dist, s)
  BY <1>1, EncryptKeeps
<1>2. CASE \E k \in Keys, src, dist \in 0 .. Size :
             \E n \in (SaltLen - 1) .. (SaltLen + Longest) :
               /\ src + n <= Size /\ dist + n - SaltLen <= Size
               /\ Decrypt(k, src, n, dist)
  BY <1>2, DecryptKeeps
<1>3. CASE EncryptByte
  BY <1>3, EncryptByteKeeps
<1>4. CASE Encrypted
  BY <1>4, EncryptedKeeps
<1>5. CASE DecryptByte
  BY <1>5, DecryptByteKeeps
<1>6. CASE Decrypted
  BY <1>6, DecryptedKeeps
<1>7. CASE UNCHANGED vars
  BY <1>7 DEF vars, IInv, TypeOK, Within, Aside, EncryptedSoFar, DecryptedSoFar, Encrypting,
              Decrypting, Recoverable, RoundTrip, Cipher, SaltsAt
<1>. QED  BY <1>1, <1>2, <1>3, <1>4, <1>5, <1>6, <1>7 DEF Next

LEMMA InvariantHolds == Spec => []IInv
BY InitHolds, StepKeeps, PTL DEF Spec

(***************************************************************************)
(* The theorems.                                                           *)
(***************************************************************************)

\* No sum, shift or swap leaves a byte's eight bits.
THEOREM K3xsxTypeCorrect == Spec => []TypeOK
<1>1. IInv => TypeOK
  BY DEF IInv
<1>. QED  BY <1>1, InvariantHolds, PTL

\* A text that was encrypted can be got back while nobody writes over it.
THEOREM K3xsxRecoverable == Spec => []Recoverable
<1>1. IInv => Recoverable
  BY DEF IInv
<1>. QED  BY <1>1, InvariantHolds, PTL

\* decryption gives the text back, wherever it is allowed to put it.
THEOREM K3xsxRoundTrip == Spec => []RoundTrip
<1>1. IInv => RoundTrip
  BY DEF IInv
<1>. QED  BY <1>1, InvariantHolds, PTL

\* No call writes outside of its dist.
THEOREM K3xsxStaysInside == Spec => StaysInside
<1>. DEFINE Inside == \A c \in Cells : mem'[c] # mem[c] => c \in Written(call')
<1>1. ASSUME IInv, Next  PROVE Inside
  <2>1. CASE \E k \in Keys, src, dist \in 0 .. Size :
               \E n \in 0 .. Longest, s \in Salts :
                 /\ src + n <= Size /\ dist + n + SaltLen <= Size
                 /\ Encrypt(k, src, n, dist, s)
    <3>1. PICK k \in Keys, src \in 0 .. Size, dist \in 0 .. Size, n \in 0 .. Longest,
               s \in Salts : Encrypt(k, src, n, dist, s)
      BY <2>1
    <3>2. Area(dist, SaltLen) \subseteq Area(dist, n + SaltLen)
      BY SizeAssumption, SMT DEF Area, SaltLen
    <3>3. call'.op = "encrypting" /\ call'.dist = dist /\ call'.n = n
      BY <3>1 DEF Encrypt
    <3>. QED  BY <3>1, <3>2, <3>3 DEF Encrypt, Written
  <2>2. CASE \E k \in Keys, src, dist \in 0 .. Size :
               \E n \in (SaltLen - 1) .. (SaltLen + Longest) :
                 /\ src + n <= Size /\ dist + n - SaltLen <= Size
                 /\ Decrypt(k, src, n, dist)
    BY <2>2 DEF Decrypt
  <2>3. CASE EncryptByte
    <3>1. /\ call.dist \in Nat /\ call.n \in Nat /\ call.i \in Nat /\ call.i < call.n
      BY <1>1, <2>3, FieldTypes DEF IInv, EncryptByte
    <3>2. call.dist + SaltLen + call.i \in Area(call.dist, call.n + SaltLen)
      BY <3>1, SMT DEF Area, SaltLen
    <3>3. call'.op = "encrypting" /\ call'.dist = call.dist /\ call'.n = call.n
      BY <1>1, <2>3, Zenon DEF IInv, TypeOK, EncryptByte
    <3>. QED  BY <1>1, <2>3, <3>2, <3>3 DEF IInv, TypeOK, EncryptByte, Written
  <2>4. CASE DecryptByte
    <3>1. /\ call.dist \in Nat /\ call.n \in Nat /\ call.i \in Nat
          /\ call.i < call.n - SaltLen
      BY <1>1, <2>4, FieldTypes DEF IInv, DecryptByte, TooShort, Rounds
    <3>2. call.dist + call.i \in Area(call.dist, call.n - SaltLen)
      BY <3>1, SMT DEF Area, SaltLen
    <3>3. call'.op = "decrypting" /\ call'.dist = call.dist /\ call'.n = call.n
      BY <1>1, <2>4, Zenon DEF IInv, TypeOK, DecryptByte
    <3>. QED  BY <1>1, <2>4, <3>2, <3>3 DEF IInv, TypeOK, DecryptByte, Written
  <2>5. CASE Encrypted \/ Decrypted
    BY <2>5 DEF Encrypted, Decrypted
  <2>. QED  BY <1>1, <2>1, <2>2, <2>3, <2>4, <2>5 DEF Next
<1>2. IInv /\ [Next]_vars => [Inside]_vars
  BY <1>1
<1>. QED  BY <1>2, InvariantHolds, PTL DEF Spec, StaysInside
=============================================================================
