--------------------------- MODULE ProducersProofs ---------------------------
(***************************************************************************)
(* Proofs about Producers.  A length, a name, a value, a field, and all    *)
(* fields, that were written are read back, wherever in a file they are;   *)
(* the search for the section does not depend on what is behind the place  *)
(* it comes to; so what worker-build has entered is found again, with all  *)
(* other bytes around it, whatever file it was given.  tlapm has no        *)
(* induction over data: each recursive function is shown to exist, and its *)
(* values to follow, by induction on a set of numbers.                     *)
(***************************************************************************)
EXTENDS Producers, SequenceTheorems, WellFoundedInduction, TLAPS

(* The numbers that fit in the 32 bits of a length.                        *)
U32 == {n \in Nat : IsU32(n)}

(* The bytes of a length are as many as it needs.                           *)
LEMMA U32BytesIs ==
  ASSUME NEW n \in Nat
  PROVE  U32Bytes(n) = IF n < 128 THEN 1 ELSE IF n < 16384 THEN 2 ELSE IF n < 2097152 THEN 3
                       ELSE IF n < 268435456 THEN 4 ELSE 5
<1> DEFINE P(k) == (k < 5 => n < Unit[k + 1]) /\ \A j \in 2..k : n >= Unit[j]
           b == IF n < 128 THEN 1 ELSE IF n < 16384 THEN 2 ELSE IF n < 2097152 THEN 3
                       ELSE IF n < 268435456 THEN 4 ELSE 5
<1>1. Unit[2] = 128 /\ Unit[3] = 16384 /\ Unit[4] = 2097152 /\ Unit[5] = 268435456
  BY DEF Unit
<1>2. \A k \in 1..5 : P(k) <=> k = b
  BY <1>1
<1>3. b \in 1..5
  OBVIOUS
<1>4. U32Bytes(n) = CHOOSE k \in 1..5 : P(k)
  BY DEF U32Bytes
<1> HIDE DEF P, b
<1>5. PICK k \in 1..5 : P(k)
  BY <1>2, <1>3
<1>6. U32Bytes(n) \in 1..5 /\ P(U32Bytes(n))
  BY <1>4, <1>5
<1> QED
  BY <1>2, <1>6 DEF b

(* A length is written in one to five bytes.                               *)
LEMMA EncodeU32Type ==
  ASSUME NEW n \in Nat
  PROVE  EncodeU32(n) \in Name /\ Len(EncodeU32(n)) = U32Bytes(n) /\ U32Bytes(n) \in 1..5
<1>1. U32Bytes(n) \in 1..5
  BY U32BytesIs
<1>2. \A k \in 1..5 : Unit[k] \in Nat \ {0}
  BY DEF Unit
<1>3. \A k \in 1..5 : (n \div Unit[k]) \in Nat
  BY <1>2
<1>4. \A m \in Nat : (m % 128) \in 0..127
  OBVIOUS
<1>5. \A k \in 1..U32Bytes(n) : ((n \div Unit[k]) % 128) + (IF k < U32Bytes(n) THEN 128 ELSE 0) \in Byte
  BY <1>1, <1>3, <1>4 DEF Byte
<1> QED
  BY <1>1, <1>5 DEF EncodeU32, Name

(* What is at a place of a file is a byte.                                 *)
LEMMA ByteAt == ASSUME NEW bytes \in Name, NEW i \in 1..Len(bytes) PROVE bytes[i] \in Nat /\ bytes[i] <= 255
<1>1. bytes[i] \in Byte
  BY ElementOfSeq DEF Name
<1>2. \A b \in Byte : b \in Nat /\ b <= 255
  BY DEF Byte
<1> QED
  BY <1>1, <1>2

(* A number is its last seven bits and the rest.                            *)
LEMMA SevenBits ==
  ASSUME NEW n \in Nat
  PROVE  n \div 128 \in Nat /\ n % 128 \in 0..127 /\ n = (n % 128) + 128 * (n \div 128)
  OBVIOUS

(* Seven more bits off, and seven more, is the same as all of them at once.*)
LEMMA MoreBits ==
  ASSUME NEW n \in Nat
  PROVE  /\ n \div 16384 = (n \div 128) \div 128
         /\ n \div 2097152 = (n \div 16384) \div 128
         /\ n \div 268435456 = (n \div 2097152) \div 128
<1>1. n \div 16384 = (n \div 128) \div 128
  BY SMTT(30)
<1>2. n \div 2097152 = (n \div 16384) \div 128
  BY SMTT(30)
<1>3. n \div 268435456 = (n \div 2097152) \div 128
  BY SMTT(30)
<1> QED
  BY <1>1, <1>2, <1>3, SMT

(* Where the bytes have a piece at pos.                                     *)
At(bytes, pos, piece) ==
  /\ pos + Len(piece) <= Len(bytes)
  /\ \A i \in 1..Len(piece) : bytes[pos + i] = piece[i]

(* What the reader's conditions ask for is so of k bytes for one k only.    *)
LEMMA ReadU32Ends ==
  ASSUME NEW bytes \in Name, NEW pos \in Nat, NEW k \in 1..5,
         pos + k <= Len(bytes), bytes[pos + k] < 128, \A j \in 1..(k - 1) : bytes[pos + j] >= 128
  PROVE  ReadU32(bytes, pos) =
           Ok(pos + k, (bytes[pos + 1] % 128)
              + (IF k < 2 THEN 0 ELSE (bytes[pos + 2] % 128) * 128)
              + (IF k < 3 THEN 0 ELSE (bytes[pos + 3] % 128) * 16384)
              + (IF k < 4 THEN 0 ELSE (bytes[pos + 4] % 128) * 2097152)
              + (IF k < 5 THEN 0 ELSE (bytes[pos + 5] % 16) * 268435456))
<1> DEFINE ends == {j \in 1..5 : pos + j <= Len(bytes) /\ bytes[pos + j] < 128}
           last == CHOOSE m \in ends : \A j \in ends : m <= j
           part(m) == IF m > last THEN 0 ELSE (bytes[pos + m] % (IF m = 5 THEN 16 ELSE 128)) * Unit[m]
<1>1. \A i \in 1..Len(bytes) : bytes[i] \in Nat
  BY ByteAt
<1>2. k \in ends
  OBVIOUS
<1>3. \A j \in ends : k <= j
  BY <1>1
<1>4. \A m \in ends : (\A j \in ends : m <= j) => m = k
  BY <1>2, <1>3
<1>5. last = k
  <2>1. last \in ends /\ \A j \in ends : last <= j
    BY <1>2, <1>3
  <2> QED
    BY <1>4, <2>1
<1>6. ReadU32(bytes, pos) = Ok(pos + last, part(1) + part(2) + part(3) + part(4) + part(5))
  BY <1>2 DEF ReadU32, U32Ending, Part
<1>7. Unit[1] = 1 /\ Unit[2] = 128 /\ Unit[3] = 16384 /\ Unit[4] = 2097152 /\ Unit[5] = 268435456
  BY DEF Unit
<1> HIDE DEF ends, last
<1>8. \A i \in 1..k : bytes[pos + i] \in Nat
  BY <1>1
<1>9. part(1) = bytes[pos + 1] % 128
  BY <1>5, <1>7, <1>8
<1>10. part(2) = IF k < 2 THEN 0 ELSE (bytes[pos + 2] % 128) * 128
  BY <1>5, <1>7
<1>11. part(3) = IF k < 3 THEN 0 ELSE (bytes[pos + 3] % 128) * 16384
  BY <1>5, <1>7
<1>12. part(4) = IF k < 4 THEN 0 ELSE (bytes[pos + 4] % 128) * 2097152
  BY <1>5, <1>7
<1>13. part(5) = IF k < 5 THEN 0 ELSE (bytes[pos + 5] % 16) * 268435456
  BY <1>5, <1>7
<1> HIDE DEF part
<1> QED
  BY <1>5, <1>6, <1>9, <1>10, <1>11, <1>12, <1>13

(* The bytes of a length give it back, wherever they are.                   *)
LEMMA ReadU32AtEncoded ==
  ASSUME NEW bytes \in Name, NEW pos \in Nat, NEW n \in U32, At(bytes, pos, EncodeU32(n))
  PROVE  ReadU32(bytes, pos) = Ok(pos + Len(EncodeU32(n)), n)
<1> DEFINE k == U32Bytes(n)
           digit(i) == (n \div Unit[i]) % 128
<1>1. n \in Nat /\ n < 4294967296
  BY DEF U32, IsU32
<1>2. k = IF n < 128 THEN 1 ELSE IF n < 16384 THEN 2 ELSE IF n < 2097152 THEN 3 ELSE IF n < 268435456 THEN 4 ELSE 5
  BY <1>1, U32BytesIs
<1>3. k \in 1..5 /\ Len(EncodeU32(n)) = k
  BY <1>1, EncodeU32Type
<1>4. \A i \in 1..k : EncodeU32(n)[i] = digit(i) + (IF i < k THEN 128 ELSE 0)
  BY DEF EncodeU32
<1>5. Unit[1] = 1 /\ Unit[2] = 128 /\ Unit[3] = 16384 /\ Unit[4] = 2097152 /\ Unit[5] = 268435456
  BY DEF Unit
<1> HIDE DEF k
<1>6. \A i \in 1..k : bytes[pos + i] = digit(i) + (IF i < k THEN 128 ELSE 0)
  BY <1>3, <1>4 DEF At
<1>7. \A i \in 1..5 : digit(i) \in 0..127
  <2>1. \A i \in 1..5 : (n \div Unit[i]) \in Nat
    BY <1>1, <1>5
  <2>2. \A m \in Nat : (m % 128) \in 0..127
    OBVIOUS
  <2> QED
    BY <2>1, <2>2
<1>8. \A d \in 0..127 : (d % 128 = d) /\ ((d + 128) % 128 = d)
  OBVIOUS
<1> DEFINE q1 == n \div 128
           q2 == n \div 16384
           q3 == n \div 2097152
           q4 == n \div 268435456
<1>9. digit(1) = n % 128 /\ digit(2) = q1 % 128 /\ digit(3) = q2 % 128 /\ digit(4) = q3 % 128 /\ digit(5) = q4 % 128
  BY <1>1, <1>5, SMT
<1> HIDE DEF digit
<1>10. pos + k <= Len(bytes)
  BY <1>3 DEF At
<1>11. bytes[pos + k] < 128 /\ \A j \in 1..(k - 1) : bytes[pos + j] >= 128
  <2>1. k \in 1..k /\ ~(k < k)
    BY <1>3
  <2>2. bytes[pos + k] = digit(k) + 0 /\ digit(k) \in 0..127
    BY <1>3, <1>6, <1>7, <2>1
  <2>3. ASSUME NEW j \in 1..(k - 1) PROVE bytes[pos + j] >= 128
    <3>1. j \in 1..k /\ j < k /\ j \in 1..5
      BY <1>3
    <3>2. bytes[pos + j] = digit(j) + 128 /\ digit(j) \in 0..127
      BY <1>6, <1>7, <3>1
    <3> QED
      BY <3>2
  <2> QED
    BY <2>2, <2>3
<1>12. \A i \in 1..k : bytes[pos + i] % 128 = digit(i)
  <2> SUFFICES ASSUME NEW i \in 1..k PROVE bytes[pos + i] % 128 = digit(i)
    OBVIOUS
  <2>0. i \in 1..5
    BY <1>3
  <2>1. digit(i) \in 0..127
    BY <1>7, <2>0
  <2>2. bytes[pos + i] = digit(i) + (IF i < k THEN 128 ELSE 0)
    BY <1>6
  <2>3. bytes[pos + i] = digit(i) \/ bytes[pos + i] = digit(i) + 128
    BY <2>1, <2>2
  <2> QED
    BY <1>8, <2>1, <2>3
<1>13. k = 5 => bytes[pos + 5] % 16 = q4
  BY <1>1, <1>2, <1>6, <1>9, SMTT(30)
<1>14. ReadU32(bytes, pos) = Ok(pos + k, digit(1)
              + (IF k < 2 THEN 0 ELSE digit(2) * 128)
              + (IF k < 3 THEN 0 ELSE digit(3) * 16384)
              + (IF k < 4 THEN 0 ELSE digit(4) * 2097152)
              + (IF k < 5 THEN 0 ELSE q4 * 268435456))
  <2>1. ReadU32(bytes, pos) =
           Ok(pos + k, (bytes[pos + 1] % 128)
              + (IF k < 2 THEN 0 ELSE (bytes[pos + 2] % 128) * 128)
              + (IF k < 3 THEN 0 ELSE (bytes[pos + 3] % 128) * 16384)
              + (IF k < 4 THEN 0 ELSE (bytes[pos + 4] % 128) * 2097152)
              + (IF k < 5 THEN 0 ELSE (bytes[pos + 5] % 16) * 268435456))
    BY <1>3, <1>10, <1>11, ReadU32Ends
  <2>2. bytes[pos + 1] % 128 = digit(1)
    BY <1>3, <1>12
  <2>3. (IF k < 2 THEN 0 ELSE (bytes[pos + 2] % 128) * 128) = (IF k < 2 THEN 0 ELSE digit(2) * 128)
    BY <1>3, <1>12
  <2>4. (IF k < 3 THEN 0 ELSE (bytes[pos + 3] % 128) * 16384) = (IF k < 3 THEN 0 ELSE digit(3) * 16384)
    BY <1>3, <1>12
  <2>5. (IF k < 4 THEN 0 ELSE (bytes[pos + 4] % 128) * 2097152) = (IF k < 4 THEN 0 ELSE digit(4) * 2097152)
    BY <1>3, <1>12
  <2>6. (IF k < 5 THEN 0 ELSE (bytes[pos + 5] % 16) * 268435456) = (IF k < 5 THEN 0 ELSE q4 * 268435456)
    BY <1>3, <1>13
  <2> QED
    BY <2>1, <2>2, <2>3, <2>4, <2>5, <2>6
<1>15. /\ q1 \in Nat /\ q2 \in Nat /\ q3 \in Nat /\ q4 \in Nat
       /\ digit(1) \in 0..127 /\ digit(2) \in 0..127 /\ digit(3) \in 0..127 /\ digit(4) \in 0..127
       /\ n = digit(1) + 128 * q1
       /\ q1 = digit(2) + 128 * q2
       /\ q2 = digit(3) + 128 * q3
       /\ q3 = digit(4) + 128 * q4
  <2>1. q1 \in Nat /\ n % 128 \in 0..127 /\ n = (n % 128) + 128 * q1
    BY <1>1, SevenBits
  <2>2. q2 \in Nat /\ q1 % 128 \in 0..127 /\ q1 = (q1 % 128) + 128 * q2
    BY <1>1, <2>1, SevenBits, MoreBits
  <2>3. q3 \in Nat /\ q2 % 128 \in 0..127 /\ q2 = (q2 % 128) + 128 * q3
    BY <1>1, <2>2, SevenBits, MoreBits
  <2>4. q4 \in Nat /\ q3 % 128 \in 0..127 /\ q3 = (q3 % 128) + 128 * q4
    BY <1>1, <2>3, SevenBits, MoreBits
  <2> HIDE DEF q1, q2, q3, q4
  <2> QED
    BY <1>9, <2>1, <2>2, <2>3, <2>4
<1>16. digit(1) + (IF k < 2 THEN 0 ELSE digit(2) * 128) + (IF k < 3 THEN 0 ELSE digit(3) * 16384) + (IF k < 4 THEN 0 ELSE digit(4) * 2097152)
         + (IF k < 5 THEN 0 ELSE q4 * 268435456) = n
  <2> HIDE DEF q1, q2, q3, q4
  <2> DEFINE d1 == digit(1)
             d2 == digit(2)
             d3 == digit(3)
             d4 == digit(4)
  <2>0. /\ d1 \in Nat /\ d2 \in Nat /\ d3 \in Nat /\ d4 \in Nat
        /\ q1 \in Nat /\ q2 \in Nat /\ q3 \in Nat /\ q4 \in Nat
        /\ n \in Nat
    BY <1>1, <1>15, SMT
  <2>1. /\ n = d1 + 128 * q1 /\ q1 = d2 + 128 * q2 /\ q2 = d3 + 128 * q3 /\ q3 = d4 + 128 * q4
    BY <1>15, SMT
  <2> HIDE DEF d1, d2, d3, d4, q1, q2, q3, q4
  <2>2. n = d1 + d2 * 128 + q2 * 16384
    BY ONLY <2>0, <2>1, SMT
  <2>3. n = d1 + d2 * 128 + d3 * 16384 + q3 * 2097152
    BY ONLY <2>0, <2>1, <2>2, SMT
  <2>4. n = d1 + d2 * 128 + d3 * 16384 + d4 * 2097152 + q4 * 268435456
    BY ONLY <2>0, <2>1, <2>3, SMT
  <2>5. n < 128 => n = d1
    BY ONLY <2>0, <2>1, SMT
  <2>6. n < 16384 => n = d1 + d2 * 128
    BY ONLY <2>0, <2>2, SMT
  <2>7. n < 2097152 => n = d1 + d2 * 128 + d3 * 16384
    BY ONLY <2>0, <2>3, SMT
  <2>8. n < 268435456 => n = d1 + d2 * 128 + d3 * 16384 + d4 * 2097152
    BY ONLY <2>0, <2>4, SMT
  <2>9. d1 + (IF k < 2 THEN 0 ELSE d2 * 128) + (IF k < 3 THEN 0 ELSE d3 * 16384) + (IF k < 4 THEN 0 ELSE d4 * 2097152)
          + (IF k < 5 THEN 0 ELSE q4 * 268435456) = n
    BY ONLY <1>2, <2>0, <2>4, <2>5, <2>6, <2>7, <2>8, SMT
  <2> QED
    BY <2>9, SMT DEF d1, d2, d3, d4
<1> QED
  BY <1>3, <1>14, <1>16

(* What a read that succeeded has seen.                                     *)
U32Ends(bytes, pos, k) ==
  k \in 1..5 /\ pos + k <= Len(bytes) /\ bytes[pos + k] < 128 /\ \A j \in 1..(k - 1) : bytes[pos + j] >= 128

(* What five bytes or fewer are worth to read_u32_leb128.                  *)
U32Value(bytes, pos, k) ==
  (bytes[pos + 1] % 128)
  + (IF k < 2 THEN 0 ELSE (bytes[pos + 2] % 128) * 128)
  + (IF k < 3 THEN 0 ELSE (bytes[pos + 3] % 128) * 16384)
  + (IF k < 4 THEN 0 ELSE (bytes[pos + 4] % 128) * 2097152)
  + (IF k < 5 THEN 0 ELSE (bytes[pos + 5] % 16) * 268435456)

(* read_u32_leb128 fails, or it has seen the bytes up to one below 128.    *)
LEMMA ReadU32Seen ==
  ASSUME NEW bytes \in Name, NEW pos \in Nat
  PROVE  \/ ReadU32(bytes, pos) = Fail
         \/ \E k \in 1..5 : U32Ends(bytes, pos, k) /\ ReadU32(bytes, pos) = Ok(pos + k, U32Value(bytes, pos, k))
<1> DEFINE ends == {j \in 1..5 : pos + j <= Len(bytes) /\ bytes[pos + j] < 128}
           k == IF 1 \in ends THEN 1 ELSE IF 2 \in ends THEN 2 ELSE IF 3 \in ends THEN 3 ELSE IF 4 \in ends THEN 4 ELSE 5
<1>1. ends = {} => ReadU32(bytes, pos) = Fail
  BY DEF ReadU32, U32Ending, Part
<1>2. CASE ends # {}
  <2>1. ends \subseteq 1..5
    OBVIOUS
  <2>2. k \in ends /\ k \in 1..5 /\ \A j \in 1..(k - 1) : j \notin ends
    <3> HIDE DEF ends
    <3>1. 1 \in ends \/ 2 \in ends \/ 3 \in ends \/ 4 \in ends \/ 5 \in ends
      <4>1. PICK x : x \in ends
        BY <1>2
      <4>2. x = 1 \/ x = 2 \/ x = 3 \/ x = 4 \/ x = 5
        BY <2>1, <4>1
      <4> QED
        BY <4>1, <4>2
    <3> QED
      BY <3>1
  <2> HIDE DEF k
  <2>3. pos + k <= Len(bytes) /\ bytes[pos + k] < 128
    BY <2>2
  <2>4. Len(bytes) \in Nat
    BY LenProperties DEF Name
  <2>5. ASSUME NEW j \in 1..(k - 1) PROVE bytes[pos + j] >= 128
    <3>1. j \in 1..5 /\ pos + j <= Len(bytes) /\ pos + j \in 1..Len(bytes)
      BY <2>2, <2>3, <2>4
    <3>2. bytes[pos + j] \in Nat
      BY <3>1, ByteAt
    <3>3. ~(bytes[pos + j] < 128)
      BY <2>2, <3>1
    <3> QED
      BY <3>2, <3>3
  <2>6. U32Ends(bytes, pos, k)
    BY <2>2, <2>3, <2>5 DEF U32Ends
  <2>7. ReadU32(bytes, pos) = Ok(pos + k, U32Value(bytes, pos, k))
    BY <2>2, <2>3, <2>5, ReadU32Ends DEF U32Value
  <2> QED
    BY <2>2, <2>6, <2>7
<1> QED
  BY <1>1, <1>2

(* Of a length that was read: it fits in 32 bits, and ends behind where it *)
(* starts.                                                                 *)
LEMMA ReadU32Type ==
  ASSUME NEW bytes \in Name, NEW pos \in Nat, ReadU32(bytes, pos).ok
  PROVE  /\ ReadU32(bytes, pos).pos \in Nat /\ pos < ReadU32(bytes, pos).pos /\ ReadU32(bytes, pos).pos <= Len(bytes)
         /\ ReadU32(bytes, pos).val \in U32
         /\ ReadU32(bytes, pos) = Ok(ReadU32(bytes, pos).pos, ReadU32(bytes, pos).val)
<1>1. PICK k \in 1..5 : U32Ends(bytes, pos, k) /\ ReadU32(bytes, pos) = Ok(pos + k, U32Value(bytes, pos, k))
  BY ReadU32Seen DEF Fail
<1>2. Len(bytes) \in Nat
  BY LenProperties DEF Name
<1>3. pos + k <= Len(bytes)
  BY <1>1 DEF U32Ends
<1>4. \A j \in 1..k : bytes[pos + j] \in Nat
  BY <1>2, <1>3, ByteAt
<1>5. \A j \in 1..k : bytes[pos + j] % 128 \in 0..127 /\ bytes[pos + j] % 16 \in 0..15
  <2>1. \A n \in Nat : n % 128 \in 0..127 /\ n % 16 \in 0..15
    OBVIOUS
  <2> QED
    BY <1>4, <2>1
<1>6. U32Value(bytes, pos, k) \in Nat /\ U32Value(bytes, pos, k) < 4294967296
  <2> DEFINE a == bytes[pos + 1] % 128
             b == IF k < 2 THEN 0 ELSE bytes[pos + 2] % 128
             c == IF k < 3 THEN 0 ELSE bytes[pos + 3] % 128
             d == IF k < 4 THEN 0 ELSE bytes[pos + 4] % 128
             e == IF k < 5 THEN 0 ELSE bytes[pos + 5] % 16
  <2>1. a \in 0..127 /\ b \in 0..127 /\ c \in 0..127 /\ d \in 0..127 /\ e \in 0..15
    BY <1>5
  <2>2. U32Value(bytes, pos, k) = a + b * 128 + c * 16384 + d * 2097152 + e * 268435456
    BY SMT DEF U32Value
  <2> HIDE DEF a, b, c, d, e
  <2>3. a + b * 128 + c * 16384 + d * 2097152 + e * 268435456 \in Nat
    BY ONLY <2>1, SMT
  <2>4. a + b * 128 + c * 16384 + d * 2097152 + e * 268435456 < 4294967296
    BY ONLY <2>1, SMT
  <2> QED
    BY ONLY <2>2, <2>3, <2>4, SMT
<1>7. U32Value(bytes, pos, k) \in U32
  <2>1. \A n \in Nat : n < 4294967296 => n \div 65536 < 65536
    BY SMT
  <2> QED
    BY <1>6, <2>1, SMT DEF U32, IsU32
<1> QED
  BY <1>1, <1>2, <1>3, <1>7 DEF Ok

(* Two files that are the same up to end read the same up to end.           *)
Same(bytes, other, end) ==
  end <= Len(bytes) /\ end <= Len(other) /\ \A i \in 1..end : bytes[i] = other[i]

(* A length that ends before end is read the same in both files.           *)
LEMMA ReadU32Same ==
  ASSUME NEW bytes \in Name, NEW other \in Name, NEW pos \in Nat, NEW end \in Nat, Same(bytes, other, end),
         ReadU32(bytes, pos).ok, ReadU32(bytes, pos).pos <= end
  PROVE  ReadU32(other, pos) = ReadU32(bytes, pos)
<1>1. PICK k \in 1..5 : U32Ends(bytes, pos, k) /\ ReadU32(bytes, pos) = Ok(pos + k, U32Value(bytes, pos, k))
  BY ReadU32Seen DEF Fail
<1>2. pos + k <= end /\ end <= Len(other) /\ Len(other) \in Nat
  BY <1>1, LenProperties DEF Ok, Same, Name
<1>3. \A j \in 1..k : pos + j \in 1..end
  BY <1>2
<1>4. \A j \in 1..k : other[pos + j] = bytes[pos + j]
  BY <1>3 DEF Same
<1>5. U32Value(other, pos, k) = U32Value(bytes, pos, k)
  <2>1. other[pos + 1] = bytes[pos + 1] /\ (k >= 2 => other[pos + 2] = bytes[pos + 2]) /\ (k >= 3 => other[pos + 3] = bytes[pos + 3])
        /\ (k >= 4 => other[pos + 4] = bytes[pos + 4]) /\ (k >= 5 => other[pos + 5] = bytes[pos + 5])
    BY <1>4
  <2> QED
    BY <2>1, SMT DEF U32Value
<1>6. k \in 1..k
  OBVIOUS
<1>7. pos + k <= Len(other) /\ other[pos + k] < 128 /\ \A j \in 1..(k - 1) : other[pos + j] >= 128
  <2>1. bytes[pos + k] < 128 /\ \A j \in 1..(k - 1) : bytes[pos + j] >= 128
    BY <1>1 DEF U32Ends
  <2>2. other[pos + k] = bytes[pos + k]
    BY <1>4, <1>6
  <2>3. ASSUME NEW j \in 1..(k - 1) PROVE other[pos + j] >= 128
    <3>1. other[pos + j] = bytes[pos + j]
      BY <1>4
    <3> QED
      BY <2>1, <3>1
  <2> QED
    BY <1>2, <2>1, <2>2, <2>3
<1>8. ReadU32(other, pos) = Ok(pos + k, U32Value(other, pos, k))
  BY <1>7, ReadU32Ends, SMT DEF U32Value
<1> QED
  BY <1>1, <1>5, <1>8

-----------------------------------------------------------------------------
(* Two pieces are in a file when the second is behind the first.           *)
LEMMA AtConcat ==
  ASSUME NEW bytes \in Name, NEW pos \in Nat, NEW s \in Name, NEW t \in Name
  PROVE  At(bytes, pos, s \o t) <=> At(bytes, pos, s) /\ At(bytes, pos + Len(s), t)
<1>1. Len(s) \in Nat /\ Len(t) \in Nat /\ Len(bytes) \in Nat
  BY LenProperties DEF Name
<1>2. Len(s \o t) = Len(s) + Len(t) /\ \A i \in 1..(Len(s) + Len(t)) : (s \o t)[i] = IF i <= Len(s) THEN s[i] ELSE t[i - Len(s)]
  BY ConcatProperties DEF Name
<1>3. ASSUME At(bytes, pos, s \o t) PROVE At(bytes, pos, s) /\ At(bytes, pos + Len(s), t)
  <2>1. \A i \in 1..(Len(s) + Len(t)) : bytes[pos + i] = (s \o t)[i]
    BY <1>2, <1>3 DEF At
  <2>2. pos + Len(s) + Len(t) <= Len(bytes)
    BY <1>1, <1>2, <1>3 DEF At
  <2>3. \A i \in 1..Len(s) : bytes[pos + i] = s[i]
    BY <1>1, <1>2, <2>1
  <2>4. ASSUME NEW i \in 1..Len(t) PROVE bytes[pos + Len(s) + i] = t[i]
    <3>1. Len(s) + i \in 1..(Len(s) + Len(t)) /\ ~(Len(s) + i <= Len(s)) /\ (Len(s) + i) - Len(s) = i
      BY <1>1
    <3>2. bytes[pos + (Len(s) + i)] = t[(Len(s) + i) - Len(s)]
      BY <1>2, <2>1, <3>1
    <3>3. pos + (Len(s) + i) = pos + Len(s) + i
      BY <1>1
    <3> QED
      BY <3>1, <3>2, <3>3
  <2> QED
    BY <1>1, <2>2, <2>3, <2>4 DEF At
<1>4. ASSUME At(bytes, pos, s), At(bytes, pos + Len(s), t) PROVE At(bytes, pos, s \o t)
  <2>1. pos + Len(s \o t) <= Len(bytes)
    BY <1>1, <1>2, <1>4 DEF At
  <2>2. ASSUME NEW i \in 1..(Len(s) + Len(t)) PROVE bytes[pos + i] = (s \o t)[i]
    <3>1. CASE i <= Len(s)
      <4>1. i \in 1..Len(s)
        BY <1>1, <3>1
      <4> QED
        BY <1>2, <1>4, <3>1, <4>1 DEF At
    <3>2. CASE ~(i <= Len(s))
      <4>1. i - Len(s) \in 1..Len(t) /\ pos + Len(s) + (i - Len(s)) = pos + i
        BY <1>1, <3>2
      <4>2. bytes[pos + Len(s) + (i - Len(s))] = t[i - Len(s)]
        BY <1>4, <4>1 DEF At
      <4> QED
        BY <1>2, <3>2, <4>1, <4>2
    <3> QED
      BY <3>1, <3>2
  <2> QED
    BY <1>2, <2>1, <2>2 DEF At
<1> QED
  BY <1>3, <1>4

(* A name is written as its length and its bytes.                          *)
LEMMA EncodeNameType ==
  ASSUME NEW name \in Name
  PROVE  EncodeName(name) \in Name /\ Len(EncodeName(name)) = Len(EncodeU32(Len(name))) + Len(name) /\ Len(name) \in Nat
         /\ EncodeU32(Len(name)) \in Name /\ Len(EncodeU32(Len(name))) \in 1..5
         /\ Len(EncodeName(name)) \in Nat /\ Len(name) < Len(EncodeName(name))
<1>1. Len(name) \in Nat
  BY LenProperties DEF Name
<1>2. EncodeU32(Len(name)) \in Name /\ Len(EncodeU32(Len(name))) \in 1..5
  BY <1>1, EncodeU32Type
<1>3. EncodeName(name) \in Name /\ Len(EncodeName(name)) = Len(EncodeU32(Len(name))) + Len(name)
  BY <1>1, <1>2, ConcatProperties DEF EncodeName, Name
<1> DEFINE a == Len(EncodeName(name))
           b == Len(EncodeU32(Len(name)))
           c == Len(name)
<1>4. a = b + c /\ b \in 1..5 /\ c \in Nat
  BY <1>1, <1>2, <1>3
<1> HIDE DEF a, b, c
<1>5. a \in Nat /\ c < a
  BY <1>4
<1> QED
  BY <1>1, <1>2, <1>3, <1>5 DEF a, b, c

(* The bytes that are written of a name give it back, wherever they are.   *)
LEMMA ReadNameAtEncoded ==
  ASSUME NEW bytes \in Name, NEW pos \in Nat, NEW limit \in Nat, NEW name \in Name, Len(name) \in U32,
         At(bytes, pos, EncodeName(name)), pos + Len(EncodeName(name)) <= limit
  PROVE  ReadName(bytes, pos, limit) = Ok(pos + Len(EncodeName(name)), name)
<1> DEFINE w == Len(EncodeU32(Len(name)))
           end == pos + w + Len(name)
<1>1. EncodeU32(Len(name)) \in Name /\ w \in 1..5 /\ Len(name) \in Nat /\ Len(EncodeName(name)) = w + Len(name) /\ Len(bytes) \in Nat
  BY EncodeNameType, LenProperties DEF Name
<1>2. At(bytes, pos, EncodeU32(Len(name))) /\ At(bytes, pos + w, name)
  BY <1>1, AtConcat DEF EncodeName
<1>3. ReadU32(bytes, pos) = Ok(pos + w, Len(name))
  BY <1>2, ReadU32AtEncoded
<1> HIDE DEF w
<1>4. SubSeq(bytes, pos + w + 1, end) = name
  <2>1. end <= Len(bytes) /\ \A i \in 1..Len(name) : bytes[pos + w + i] = name[i]
    BY <1>1, <1>2 DEF At
  <2>2. \A i \in (pos + w + 1)..end : bytes[i] \in Byte
    BY <1>1, <2>1, ElementOfSeq DEF Name
  <2>3. pos + w + 1 \in Int /\ end \in Int
    BY <1>1
  <2> DEFINE sub == SubSeq(bytes, pos + w + 1, end)
  <2>4. sub \in Seq(Byte) /\ Len(sub) = (IF pos + w + 1 <= end THEN end - (pos + w + 1) + 1 ELSE 0)
        /\ \A i \in 1..(end - (pos + w + 1) + 1) : sub[i] = bytes[(pos + w + 1) + i - 1]
    BY <2>2, <2>3, SubSeqProperties
  <2> HIDE DEF sub
  <2>5. Len(sub) = Len(name)
    BY <1>1, <2>4
  <2>6. ASSUME NEW i \in 1..Len(name) PROVE sub[i] = name[i]
    <3>1. i \in 1..(end - (pos + w + 1) + 1) /\ (pos + w + 1) + i - 1 = pos + w + i
      BY <1>1
    <3> QED
      BY <2>1, <2>4, <3>1
  <2>7. sub = name
    BY <2>4, <2>5, <2>6, SeqEqual DEF Name
  <2> QED
    BY <2>7 DEF sub
<1>5. end <= limit /\ end = pos + Len(EncodeName(name))
  BY <1>1
<1> DEFINE len == ReadU32(bytes, pos)
<1>6. len.ok /\ len.pos = pos + w /\ len.val = Len(name)
  BY <1>3 DEF Ok
<1>7. len.pos + len.val = end /\ len.pos + 1 = pos + w + 1
  BY <1>6
<1>8. ReadName(bytes, pos, limit) = IF len.ok /\ len.pos + len.val <= limit THEN Ok(len.pos + len.val, SubSeq(bytes, len.pos + 1, len.pos + len.val)) ELSE Fail
  BY DEF ReadName, NameOf
<1> HIDE DEF len
<1> QED
  BY <1>4, <1>5, <1>6, <1>7, <1>8

(* Induction, for a set: what zero is in, and with a number the next, has   *)
(* every number in it.                                                      *)
LEMMA SetInduction ==
  ASSUME NEW S, 0 \in S, \A n \in S \cap Nat : n + 1 \in S
  PROVE  Nat \subseteq S
<1> DEFINE T == Nat \ S
<1> SUFFICES ASSUME T # {} PROVE FALSE
  OBVIOUS
<1> DEFINE R == OpToRel(<, Nat)
<1>1. IsWellFoundedOn(R, Nat)
  BY NatLessThanWellFounded
<1>2. \A x, y \in Nat : y < x => <<y, x>> \in R
  BY DEF OpToRel
<1> HIDE DEF R
<1>3. PICK x \in T : \A y \in T : <<y, x>> \notin R
  <2>1. T \subseteq Nat
    OBVIOUS
  <2> HIDE DEF T
  <2> QED
    BY <1>1, <2>1, WFMin
<1>4. x \in Nat \ {0}
  BY <1>3
<1>5. x - 1 \in Nat /\ x - 1 < x /\ (x - 1) + 1 = x
  BY <1>4
<1>6. x - 1 \notin T
  BY <1>2, <1>3, <1>4, <1>5
<1>7. x - 1 \in S
  BY <1>5, <1>6
<1>8. x \in S
  BY <1>5, <1>7
<1> QED
  BY <1>3, <1>8

(* The same up to a number.                                                *)
LEMMA InductionUpTo ==
  ASSUME NEW n \in Nat, NEW S, 0 \in S, \A i \in 1..n : i - 1 \in S => i \in S
  PROVE  0..n \subseteq S
<1> DEFINE T == {i \in Nat : i <= n => i \in S}
<1>1. 0 \in T
  OBVIOUS
<1>2. \A i \in T \cap Nat : i + 1 \in T
  <2> SUFFICES ASSUME NEW i \in Nat, i <= n => i \in S, i + 1 <= n PROVE i + 1 \in S
    OBVIOUS
  <2>1. i + 1 \in 1..n /\ (i + 1) - 1 = i /\ i <= n
    OBVIOUS
  <2> QED
    BY <2>1
<1> HIDE DEF T
<1>3. Nat \subseteq T
  BY <1>1, <1>2, SetInduction
<1> QED
  BY <1>3 DEF T

(* What is made from x in n steps.                                          *)
IsIterated(f, n, x, step) == f[0] = x /\ \A i \in 1..n : f[i] = step[i][f[i - 1]]

(* A step that stays in T can be taken any number of times.                *)
LEMMA Iterated ==
  ASSUME NEW T, NEW n \in Nat, NEW x \in T, NEW step, \A i \in 1..n, t \in T : step[i][t] \in T
  PROVE  \E f \in [0..n -> T] : IsIterated(f, n, x, step)
<1> DEFINE S == {k \in Nat : \E f \in [0..k -> T] : IsIterated(f, k, x, step)}
<1>1. 0 \in S
  <2> DEFINE f == [i \in 0..0 |-> x]
  <2>1. f \in [0..0 -> T] /\ f[0] = x /\ 1..0 = {}
    OBVIOUS
  <2> QED
    BY <2>1 DEF IsIterated
<1>2. ASSUME NEW k \in 1..n, k - 1 \in S PROVE k \in S
  <2>1. PICK f \in [0..(k - 1) -> T] : IsIterated(f, k - 1, x, step)
    BY <1>2
  <2> DEFINE g == [i \in 0..k |-> IF i = k THEN step[k][f[k - 1]] ELSE f[i]]
  <2>2. k - 1 \in 0..(k - 1) /\ f[k - 1] \in T
    OBVIOUS
  <2>3. step[k][f[k - 1]] \in T
    BY <2>2
  <2>4. \A i \in 0..k : i # k => i \in 0..(k - 1) /\ f[i] \in T
    OBVIOUS
  <2>5. g \in [0..k -> T]
    BY <2>3, <2>4
  <2>6. g[0] = x
    BY <2>1 DEF IsIterated
  <2>7. ASSUME NEW i \in 1..k PROVE g[i] = step[i][g[i - 1]]
    <3>1. i - 1 \in 0..k /\ i - 1 # k /\ i \in 0..k
      OBVIOUS
    <3>2. g[i - 1] = f[i - 1]
      BY <3>1
    <3>3. CASE i = k
      BY <3>1, <3>2, <3>3
    <3>4. CASE i # k
      <4>1. i \in 1..(k - 1)
        BY <3>4
      <4>2. f[i] = step[i][f[i - 1]]
        BY <2>1, <4>1 DEF IsIterated
      <4> QED
        BY <3>1, <3>2, <3>4, <4>2
    <3> QED
      BY <3>3, <3>4
  <2> HIDE DEF g
  <2>8. IsIterated(g, k, x, step)
    BY <2>6, <2>7 DEF IsIterated
  <2> QED
    BY <2>5, <2>8
<1> HIDE DEF S
<1>3. 0..n \subseteq S
  BY <1>1, <1>2, InductionUpTo
<1> QED
  BY <1>3 DEF S

-----------------------------------------------------------------------------
(* What the pieces up to the i-th make together.                            *)
UpTo(f, pieces) ==
  /\ f \in [0..Len(pieces) -> Name] /\ f[0] = <<>>
  /\ \A i \in 1..Len(pieces) : f[i] = f[i - 1] \o pieces[i]

(* FlattenSeq is what the pieces up to the last make together.             *)
LEMMA Flattened ==
  ASSUME NEW pieces \in Seq(Name)
  PROVE  \E f : UpTo(f, pieces) /\ FlattenSeq(pieces) = f[Len(pieces)]
<1> DEFINE n == Len(pieces)
           step == [i \in 1..n |-> [t \in Name |-> t \o pieces[i]]]
           Flat(g) == [i \in 1..n |-> IF i = 1 THEN pieces[i] ELSE g[i - 1] \o pieces[i]]
<1>1. n \in Nat /\ \A i \in 1..n : pieces[i] \in Name
  BY LenProperties, ElementOfSeq
<1>2. <<>> \in Name
  BY DEF Name
<1>3. \A i \in 1..n, t \in Name : step[i][t] \in Name
  BY <1>1, ConcatProperties DEF Name
<1>4. PICK f \in [0..n -> Name] : IsIterated(f, n, <<>>, step)
  <2> HIDE DEF n, step
  <2> QED
    BY <1>1, <1>2, <1>3, Iterated
<1>5. \A i \in 1..n : i - 1 \in 0..n /\ f[i - 1] \in Name /\ f[i] = f[i - 1] \o pieces[i]
  <2> SUFFICES ASSUME NEW i \in 1..n PROVE i - 1 \in 0..n /\ f[i - 1] \in Name /\ f[i] = f[i - 1] \o pieces[i]
    OBVIOUS
  <2>1. i - 1 \in 0..n
    BY <1>1
  <2>2. f[i - 1] \in Name
    BY <1>4, <2>1
  <2>3. f[i] = step[i][f[i - 1]]
    BY <1>4 DEF IsIterated
  <2> QED
    BY <2>1, <2>2, <2>3
<1>6. UpTo(f, pieces)
  BY <1>4, <1>5 DEF UpTo, IsIterated
<1>7. CASE n = 0
  BY <1>6, <1>7, EmptySeq DEF FlattenSeq, UpTo
<1>8. CASE n # 0
  <2> DEFINE g == [i \in 1..n |-> f[i]]
  <2>1. ASSUME NEW i \in 1..n PROVE f[i] = IF i = 1 THEN pieces[i] ELSE g[i - 1] \o pieces[i]
    <3>1. CASE i = 1
      <4>1. f[i] = <<>> \o pieces[i]
        BY <1>5, <1>6, <3>1 DEF UpTo
      <4>2. pieces[i] \in Seq(Byte)
        BY <1>1 DEF Name
      <4> QED
        BY <3>1, <4>1, <4>2, ConcatEmptySeq
    <3>2. CASE i # 1
      <4>1. i - 1 \in 1..n
        BY <1>1, <3>2
      <4> QED
        BY <1>5, <3>2, <4>1
    <3> QED
      BY <3>1, <3>2
  <2>2. g = Flat(g)
    BY <2>1
  <2> DEFINE h == CHOOSE h : h = Flat(h)
  <2> HIDE DEF g
  <2>3. h = Flat(h)
    BY <2>2
  <2>4. FlattenSeq(pieces) = h[n]
    BY <1>1, <1>8 DEF FlattenSeq
  <2> HIDE DEF h
  <2>5. \A i \in 1..n : h[i] = IF i = 1 THEN pieces[i] ELSE h[i - 1] \o pieces[i]
    BY <2>3
  <2> DEFINE S == {i \in 0..n : i = 0 \/ h[i] = f[i]}
  <2>6. 0 \in S
    BY <1>1
  <2>7. ASSUME NEW i \in 1..n, i - 1 \in S PROVE i \in S
    <3>1. CASE i = 1
      BY <2>1, <2>5, <3>1
    <3>2. CASE i # 1
      <4>1. i - 1 \in 1..n /\ h[i - 1] = f[i - 1]
        BY <1>1, <2>7, <3>2
      <4>2. h[i] = h[i - 1] \o pieces[i]
        BY <2>5, <3>2
      <4>3. f[i] = f[i - 1] \o pieces[i]
        BY <1>5
      <4>4. h[i] = f[i]
        BY <4>1, <4>2, <4>3
      <4>5. i \in 0..n
        BY <1>1
      <4> QED
        BY <4>4, <4>5
    <3> QED
      BY <3>1, <3>2
  <2> HIDE DEF S
  <2>8. 0..n \subseteq S
    BY <1>1, <2>6, <2>7, InductionUpTo
  <2>9. h[n] = f[n]
    BY <1>1, <1>8, <2>8 DEF S
  <2> QED
    BY <1>6, <2>4, <2>9
<1> QED
  BY <1>7, <1>8

(* Two files that are the same up to end have the same bytes between m and *)
(* n.                                                                      *)
LEMMA SubSeqSame ==
  ASSUME NEW bytes \in Name, NEW other \in Name, NEW end \in Nat, Same(bytes, other, end),
         NEW m \in Nat \ {0}, NEW n \in Nat, n <= end
  PROVE  SubSeq(other, m, n) = SubSeq(bytes, m, n) /\ SubSeq(bytes, m, n) \in Name /\ Len(SubSeq(bytes, m, n)) = (IF m <= n THEN (n - m) + 1 ELSE 0)
<1>1. Len(bytes) \in Nat /\ Len(other) \in Nat /\ m \in Int /\ n \in Int
  BY LenProperties DEF Name
<1>2. \A i \in m..n : i \in 1..end /\ i \in 1..Len(bytes) /\ i \in 1..Len(other)
  BY <1>1 DEF Same
<1>3. \A i \in m..n : bytes[i] \in Byte /\ other[i] \in Byte /\ bytes[i] = other[i]
  BY <1>2, ElementOfSeq DEF Name, Same
<1> DEFINE s == SubSeq(bytes, m, n)
           t == SubSeq(other, m, n)
<1>4. s \in Seq(Byte) /\ Len(s) = (IF m <= n THEN n - m + 1 ELSE 0) /\ \A i \in 1..(n - m + 1) : s[i] = bytes[m + i - 1]
  BY <1>1, <1>3, SubSeqProperties
<1>5. t \in Seq(Byte) /\ Len(t) = (IF m <= n THEN n - m + 1 ELSE 0) /\ \A i \in 1..(n - m + 1) : t[i] = other[m + i - 1]
  BY <1>1, <1>3, SubSeqProperties
<1> HIDE DEF s, t
<1>6. ASSUME NEW i \in 1..Len(s) PROVE s[i] = t[i]
  <2>1. i \in 1..(n - m + 1) /\ m + i - 1 \in m..n
    BY <1>1, <1>4
  <2> QED
    BY <1>3, <1>4, <1>5, <2>1
<1>7. s = t
  BY <1>4, <1>5, <1>6, SeqEqual
<1> QED
  BY <1>4, <1>7 DEF s, t, Name

(* A name that was read is one of bytes, and within the limit.             *)
LEMMA ReadNameType ==
  ASSUME NEW bytes \in Name, NEW pos \in Nat, NEW limit \in Nat, limit <= Len(bytes), ReadName(bytes, pos, limit).ok
  PROVE  LET name == ReadName(bytes, pos, limit) IN
         /\ name.pos \in Nat /\ pos < name.pos /\ name.pos <= limit
         /\ name.val \in Name /\ Len(name.val) \in U32 /\ name = Ok(name.pos, name.val)
<1> DEFINE len == ReadU32(bytes, pos)
           end == len.pos + len.val
<1>1. ReadName(bytes, pos, limit) = IF len.ok /\ end <= limit THEN Ok(end, SubSeq(bytes, len.pos + 1, end)) ELSE Fail
  BY DEF ReadName, NameOf
<1>2. len.ok /\ end <= limit
  BY <1>1 DEF Fail
<1>3. len.pos \in Nat /\ pos < len.pos /\ len.val \in U32 /\ len.val \in Nat
  BY <1>2, ReadU32Type DEF U32
<1> HIDE DEF len
<1>4. end \in Nat /\ len.pos + 1 \in Nat \ {0} /\ pos < end /\ end <= Len(bytes) /\ Len(bytes) \in Nat
  BY <1>2, <1>3, LenProperties DEF Name
<1>5. Same(bytes, bytes, Len(bytes))
  BY <1>4 DEF Same
<1>6. SubSeq(bytes, len.pos + 1, end) \in Name /\ Len(SubSeq(bytes, len.pos + 1, end)) = (IF len.pos + 1 <= end THEN (end - (len.pos + 1)) + 1 ELSE 0)
  BY <1>4, <1>5, SubSeqSame
<1>7. Len(SubSeq(bytes, len.pos + 1, end)) = len.val
  BY <1>3, <1>6
<1> QED
  BY <1>1, <1>2, <1>3, <1>4, <1>6, <1>7 DEF Ok

(* A name within end is read the same in both files.                       *)
LEMMA ReadNameSame ==
  ASSUME NEW bytes \in Name, NEW other \in Name, NEW pos \in Nat, NEW end \in Nat, Same(bytes, other, end),
         NEW limit \in Nat, limit <= end, ReadName(bytes, pos, limit).ok
  PROVE  ReadName(other, pos, limit) = ReadName(bytes, pos, limit)
<1> DEFINE len == ReadU32(bytes, pos)
<1>1. ReadName(bytes, pos, limit) = IF len.ok /\ len.pos + len.val <= limit THEN Ok(len.pos + len.val, SubSeq(bytes, len.pos + 1, len.pos + len.val)) ELSE Fail
  BY DEF ReadName, NameOf
<1>2. len.ok /\ len.pos + len.val <= limit
  BY <1>1 DEF Fail
<1>3. len.pos \in Nat /\ len.val \in Nat
  BY <1>2, ReadU32Type DEF U32
<1>4. ReadU32(other, pos) = len
  BY <1>2, <1>3, ReadU32Same
<1>5. SubSeq(other, len.pos + 1, len.pos + len.val) = SubSeq(bytes, len.pos + 1, len.pos + len.val)
  <2> HIDE DEF len
  <2> DEFINE a == len.pos + 1
             b == len.pos + len.val
  <2>1. a \in Nat \ {0} /\ b \in Nat /\ b <= end
    BY <1>2, <1>3
  <2> HIDE DEF a, b
  <2>2. SubSeq(other, a, b) = SubSeq(bytes, a, b)
    BY <2>1, SubSeqSame
  <2> QED
    BY <2>2 DEF a, b
<1>6. ReadName(other, pos, limit) = IF len.ok /\ len.pos + len.val <= limit THEN Ok(len.pos + len.val, SubSeq(other, len.pos + 1, len.pos + len.val)) ELSE Fail
  BY <1>4 DEF ReadName, NameOf
<1> HIDE DEF len
<1>7. ReadName(bytes, pos, limit) = Ok(len.pos + len.val, SubSeq(bytes, len.pos + 1, len.pos + len.val))
  BY <1>1, <1>2
<1>8. ReadName(other, pos, limit) = Ok(len.pos + len.val, SubSeq(other, len.pos + 1, len.pos + len.val))
  BY <1>2, <1>6
<1> QED
  BY <1>5, <1>7, <1>8

-----------------------------------------------------------------------------
(* Each piece adds its length.                                             *)
LEMMA UpToLengths ==
  ASSUME NEW pieces \in Seq(Name), NEW f, UpTo(f, pieces)
  PROVE  /\ \A i \in 0..Len(pieces) : f[i] \in Name /\ Len(f[i]) \in Nat /\ Len(f[i]) <= Len(f[Len(pieces)])
         /\ \A i \in 1..Len(pieces) : Len(f[i]) = Len(f[i - 1]) + Len(pieces[i]) /\ Len(pieces[i]) \in Nat
         /\ Len(f[0]) = 0
<1> DEFINE n == Len(pieces)
<1>1. n \in Nat /\ \A i \in 1..n : pieces[i] \in Name
  BY LenProperties, ElementOfSeq
<1>2. \A s \in Name : Len(s) \in Nat
  BY LenProperties DEF Name
<1>3. \A i \in 0..n : f[i] \in Name /\ Len(f[i]) \in Nat
  BY <1>2 DEF UpTo
<1>4. \A i \in 1..n : i - 1 \in 0..n
  BY <1>1
<1>5. \A i \in 1..n : Len(f[i]) = Len(f[i - 1]) + Len(pieces[i]) /\ Len(pieces[i]) \in Nat
  <2> SUFFICES ASSUME NEW i \in 1..n PROVE Len(f[i]) = Len(f[i - 1]) + Len(pieces[i]) /\ Len(pieces[i]) \in Nat
    OBVIOUS
  <2>1. f[i - 1] \in Name /\ pieces[i] \in Name
    BY <1>1, <1>3, <1>4
  <2>2. f[i] = f[i - 1] \o pieces[i]
    BY DEF UpTo
  <2> QED
    BY <1>2, <2>1, <2>2, ConcatProperties DEF Name
<1>6. Len(f[0]) = 0
  BY EmptySeq DEF UpTo
<1> DEFINE S == {i \in 0..n : \A k \in 0..i : Len(f[k]) <= Len(f[i])}
<1>7. 0 \in S
  BY <1>1, <1>3
<1>8. ASSUME NEW i \in 1..n, i - 1 \in S PROVE i \in S
  <2>0. Len(f[i]) = Len(f[i - 1]) + Len(pieces[i]) /\ Len(pieces[i]) \in Nat
    BY <1>5
  <2>a. i - 1 \in 0..n /\ i \in 0..n
    BY <1>1
  <2>b. Len(f[i]) \in Nat /\ Len(f[i - 1]) \in Nat
    BY <1>3, <2>a
  <2>1. Len(f[i - 1]) <= Len(f[i]) /\ Len(f[i]) \in Nat /\ Len(f[i - 1]) \in Nat
    <3> DEFINE a == Len(f[i - 1])
               b == Len(pieces[i])
               c == Len(f[i])
    <3>1. c = a + b /\ a \in Nat /\ b \in Nat /\ c \in Nat
      BY <2>0, <2>b
    <3> HIDE DEF a, b, c
    <3>2. a <= c
      BY <3>1
    <3> QED
      BY <3>1, <3>2 DEF a, b, c
  <2>2. ASSUME NEW k \in 0..i PROVE Len(f[k]) <= Len(f[i])
    <3>1. CASE k = i
      BY <2>1, <3>1
    <3>2. CASE k # i
      <4>1. k \in 0..(i - 1) /\ k \in 0..n
        BY <1>1, <3>2
      <4>2. Len(f[k]) <= Len(f[i - 1]) /\ Len(f[k]) \in Nat
        BY <1>3, <1>8, <4>1
      <4> QED
        BY <2>1, <4>2
    <3> QED
      BY <3>1, <3>2
  <2>3. i \in 0..n
    BY <1>1
  <2> QED
    BY <2>2, <2>3
<1> HIDE DEF S
<1>9. 0..n \subseteq S
  BY <1>1, <1>7, <1>8, InductionUpTo
<1>10. \A i \in 0..n : Len(f[i]) <= Len(f[n])
  BY <1>1, <1>9 DEF S
<1> QED
  BY <1>3, <1>5, <1>6, <1>10

(* A number of pieces is not more than the length of all of them.           *)
LEMMA UpToCounts ==
  ASSUME NEW pieces \in Seq(Name), NEW f, UpTo(f, pieces), \A i \in 1..Len(pieces) : Len(pieces[i]) # 0
  PROVE  Len(pieces) \in Nat /\ Len(pieces) <= Len(f[Len(pieces)])
<1> DEFINE n == Len(pieces)
           S == {i \in 0..n : i <= Len(f[i])}
<1>1. n \in Nat
  BY LenProperties
<1>2. 0 \in S
  BY <1>1, UpToLengths
<1>3. ASSUME NEW i \in 1..n, i - 1 \in S PROVE i \in S
  <2>1. Len(f[i]) = Len(f[i - 1]) + Len(pieces[i]) /\ Len(pieces[i]) \in Nat
    BY UpToLengths
  <2>2. i - 1 <= Len(f[i - 1]) /\ i - 1 \in 0..n /\ i \in 0..n
    BY <1>1, <1>3
  <2>3. Len(f[i - 1]) \in Nat
    BY <2>2, UpToLengths
  <2>4. Len(pieces[i]) # 0
    OBVIOUS
  <2>5. i \in Nat
    BY <1>1
  <2>6. i <= Len(f[i])
    <3> DEFINE a == Len(f[i - 1])
               b == Len(pieces[i])
               c == Len(f[i])
    <3>1. c = a + b /\ a \in Nat /\ b \in Nat /\ b # 0 /\ i - 1 <= a
      BY <2>1, <2>2, <2>3, <2>4
    <3> HIDE DEF a, b, c
    <3>2. i <= c
      BY <2>5, <3>1
    <3> QED
      BY <3>2 DEF c
  <2> QED
    BY <2>2, <2>6
<1> HIDE DEF S
<1>4. 0..n \subseteq S
  BY <1>1, <1>2, <1>3, InductionUpTo
<1> QED
  BY <1>1, <1>4 DEF S

(* Where all pieces are, each of them is.                                   *)
LEMMA UpToAt ==
  ASSUME NEW bytes \in Name, NEW pos \in Nat, NEW pieces \in Seq(Name), NEW f, UpTo(f, pieces), At(bytes, pos, f[Len(pieces)])
  PROVE  \A i \in 1..Len(pieces) : At(bytes, pos + Len(f[i - 1]), pieces[i])
<1> DEFINE n == Len(pieces)
           S == {i \in 0..n : At(bytes, pos, f[i]) => \A k \in 1..i : At(bytes, pos + Len(f[k - 1]), pieces[k])}
<1>1. n \in Nat /\ \A i \in 1..n : pieces[i] \in Name
  BY LenProperties, ElementOfSeq
<1>2. 0 \in S
  BY <1>1
<1>3. ASSUME NEW i \in 1..n, i - 1 \in S PROVE i \in S
  <2>1. f[i] = f[i - 1] \o pieces[i] /\ i - 1 \in 0..n /\ i \in 0..n
    BY <1>1 DEF UpTo
  <2>2. f[i - 1] \in Name /\ pieces[i] \in Name
    BY <1>1, <2>1, UpToLengths
  <2>3. ASSUME At(bytes, pos, f[i]) PROVE At(bytes, pos, f[i - 1]) /\ At(bytes, pos + Len(f[i - 1]), pieces[i])
    BY <2>1, <2>2, <2>3, AtConcat
  <2>4. ASSUME At(bytes, pos, f[i]), NEW k \in 1..i PROVE At(bytes, pos + Len(f[k - 1]), pieces[k])
    <3>1. CASE k = i
      BY <2>3, <2>4, <3>1
    <3>2. CASE k # i
      <4>1. k \in 1..(i - 1)
        BY <1>1, <3>2
      <4> QED
        BY <1>3, <2>3, <2>4, <4>1
    <3> QED
      BY <3>1, <3>2
  <2> QED
    BY <2>1, <2>4
<1> HIDE DEF S
<1>4. 0..n \subseteq S
  BY <1>1, <1>2, <1>3, InductionUpTo
<1> QED
  BY <1>1, <1>4 DEF S

(* A value of a field of the producers section, and a field with its       *)
(* values.                                                                 *)
Value == [name : Name, version : Name]
GroupType == [field : Name, values : Seq(Value)]

(* The lists that are kept: every field once, with its values.              *)
Lists ==
  {l \in Seq(GroupType) :
     /\ \A i \in 1..Len(l) : Len(l[i].values) # 0
     /\ \A i, j \in 1..Len(l) : l[i].field = l[j].field => i = j}

(* A field and one of its values.                                          *)
TheEntry(field, value) == [field |-> field, name |-> value.name, version |-> value.version]

(* What a list holds at each place.                                        *)
LEMMA ListsAt ==
  ASSUME NEW l \in Lists
  PROVE  /\ l \in Seq(GroupType) /\ Len(l) \in Nat /\ DOMAIN l = 1..Len(l)
         /\ \A i \in 1..Len(l) : l[i] \in GroupType /\ l[i].field \in Name /\ l[i].values \in Seq(Value)
                                 /\ Len(l[i].values) \in Nat \ {0} /\ DOMAIN l[i].values = 1..Len(l[i].values)
                                 /\ l[i] = [field |-> l[i].field, values |-> l[i].values]
         /\ \A i, j \in 1..Len(l) : l[i].field = l[j].field => i = j
<1>1. l \in Seq(GroupType)
  BY DEF Lists
<1>2. Len(l) \in Nat /\ DOMAIN l = 1..Len(l) /\ \A i \in 1..Len(l) : l[i] \in GroupType
  BY <1>1, LenProperties, ElementOfSeq
<1>3. \A g \in GroupType : g.field \in Name /\ g.values \in Seq(Value) /\ g = [field |-> g.field, values |-> g.values]
  BY DEF GroupType
<1>4. \A s \in Seq(Value) : Len(s) \in Nat /\ DOMAIN s = 1..Len(s)
  BY LenProperties
<1>5. \A i \in 1..Len(l) : Len(l[i].values) # 0
  BY DEF Lists
<1>6. \A i \in 1..Len(l) : l[i].field \in Name /\ l[i].values \in Seq(Value) /\ l[i] = [field |-> l[i].field, values |-> l[i].values]
  BY <1>2, <1>3
<1>7. \A i \in 1..Len(l) : Len(l[i].values) \in Nat \ {0} /\ DOMAIN l[i].values = 1..Len(l[i].values)
  BY <1>4, <1>5, <1>6
<1>8. \A i, j \in 1..Len(l) : l[i].field = l[j].field => i = j
  BY DEF Lists
<1> QED
  BY <1>1, <1>2, <1>6, <1>7, <1>8

(* An entry is listed when it is a value of a field.                        *)
LEMMA ListedIs ==
  ASSUME NEW l \in Lists, NEW e
  PROVE  e \in Listed(l) <=> \E i \in 1..Len(l) : \E j \in 1..Len(l[i].values) : e = TheEntry(l[i].field, l[i].values[j])
<1>1. DOMAIN l = 1..Len(l) /\ \A i \in 1..Len(l) : DOMAIN l[i].values = 1..Len(l[i].values)
  BY ListsAt
<1> QED
  BY <1>1 DEF Listed, TheEntry

(* A value of a field that is not listed is added in a group of its own.   *)
LEMMA PushNew ==
  ASSUME NEW l \in Lists, NEW field \in Name, NEW v \in Value, ~\E i \in 1..Len(l) : l[i].field = field
  PROVE  /\ Push(l, field, v) = Append(l, [field |-> field, values |-> <<v>>])
         /\ Push(l, field, v) \in Lists
         /\ Listed(Push(l, field, v)) = Listed(l) \cup {TheEntry(field, v)}
<1> DEFINE g == [field |-> field, values |-> <<v>>]
           m == Append(l, g)
           n == Len(l)
<1>1. l \in Seq(GroupType) /\ n \in Nat /\ DOMAIN l = 1..n
  BY ListsAt
<1>2. Push(l, field, v) = m
  BY <1>1 DEF Push
<1>3. <<v>> \in Seq(Value) /\ Len(<<v>>) = 1 /\ <<v>>[1] = v
  OBVIOUS
<1>4. g \in GroupType /\ g.field = field /\ g.values = <<v>>
  BY <1>3 DEF GroupType
<1> HIDE DEF g
<1>5. m \in Seq(GroupType) /\ Len(m) = n + 1 /\ (\A i \in 1..n : m[i] = l[i]) /\ m[n + 1] = g
  BY <1>1, <1>4, AppendProperties
<1> HIDE DEF m
<1>6. \A i \in 1..(n + 1) : i \in 1..n \/ i = n + 1
  BY <1>1
<1>7. \A i \in 1..Len(m) : Len(m[i].values) # 0
  <2> SUFFICES ASSUME NEW i \in 1..(n + 1) PROVE Len(m[i].values) # 0
    BY <1>5
  <2>1. CASE i \in 1..n
    <3>1. Len(l[i].values) \in Nat \ {0}
      BY <2>1, ListsAt
    <3> QED
      BY <1>5, <2>1, <3>1
  <2>2. CASE i = n + 1
    <3>1. m[i] = g
      BY <1>5, <2>2
    <3>2. Len(g.values) = 1
      BY <1>3, <1>4
    <3> QED
      BY <3>1, <3>2
  <2> QED
    BY <1>6, <2>1, <2>2
<1>8. \A i, j \in 1..Len(m) : m[i].field = m[j].field => i = j
  <2> SUFFICES ASSUME NEW i \in 1..(n + 1), NEW j \in 1..(n + 1), m[i].field = m[j].field PROVE i = j
    BY <1>5
  <2>1. CASE i \in 1..n /\ j \in 1..n
    BY <1>5, <2>1, ListsAt
  <2>2. CASE i = n + 1 /\ j = n + 1
    BY <2>2
  <2>3. CASE i \in 1..n /\ j = n + 1
    BY <1>4, <1>5, <2>3
  <2>4. CASE i = n + 1 /\ j \in 1..n
    BY <1>4, <1>5, <2>4
  <2> QED
    BY <1>6, <2>1, <2>2, <2>3, <2>4
<1>9. m \in Lists
  BY <1>5, <1>7, <1>8 DEF Lists
<1>10. ASSUME NEW e PROVE e \in Listed(m) <=> e \in Listed(l) \cup {TheEntry(field, v)}
  <2>1. e \in Listed(m) <=> \E i \in 1..(n + 1) : \E j \in 1..Len(m[i].values) : e = TheEntry(m[i].field, m[i].values[j])
    BY <1>5, <1>9, ListedIs
  <2>2. e \in Listed(l) <=> \E i \in 1..n : \E j \in 1..Len(m[i].values) : e = TheEntry(m[i].field, m[i].values[j])
    BY <1>5, ListedIs
  <2>3. (\E j \in 1..Len(m[n + 1].values) : e = TheEntry(m[n + 1].field, m[n + 1].values[j])) <=> e = TheEntry(field, v)
    <3>1. Len(m[n + 1].values) = 1 /\ m[n + 1].field = field /\ m[n + 1].values[1] = v
      BY <1>3, <1>4, <1>5
    <3>2. \A j \in 1..1 : j = 1
      OBVIOUS
    <3>3. 1 \in 1..1
      OBVIOUS
    <3> QED
      BY <3>1, <3>2, <3>3
  <2>4. \A i \in 1..n : i \in 1..(n + 1)
    BY <1>1
  <2>5. n + 1 \in 1..(n + 1)
    BY <1>1
  <2> QED
    BY <1>6, <2>1, <2>2, <2>3, <2>4, <2>5
<1> QED
  BY <1>2, <1>9, <1>10 DEF m, g

(* A value of a field that is listed is added to its group.                *)
LEMMA PushMore ==
  ASSUME NEW l \in Lists, NEW field \in Name, NEW v \in Value, NEW k \in 1..Len(l), l[k].field = field
  PROVE  /\ Push(l, field, v) = [i \in 1..Len(l) |-> IF i = k THEN [field |-> field, values |-> Append(l[k].values, v)] ELSE l[i]]
         /\ Push(l, field, v) \in Lists
         /\ Listed(Push(l, field, v)) = Listed(l) \cup {TheEntry(field, v)}
<1> DEFINE g == [field |-> field, values |-> Append(l[k].values, v)]
           n == Len(l)
           m == [i \in 1..n |-> IF i = k THEN g ELSE l[i]]
<1>1. n \in Nat /\ DOMAIN l = 1..n /\ \A i \in 1..n : l[i] \in GroupType
  BY ListsAt
<1>2. \A i \in 1..n : l[i].field = field <=> i = k
  BY ListsAt
<1>3. Push(l, field, v) = m
  <2>1. Push(l, field, v) = [i \in 1..n |-> IF l[i].field = field THEN [field |-> field, values |-> Append(l[i].values, v)] ELSE l[i]]
    BY <1>1 DEF Push
  <2>2. \A i \in 1..n : (IF l[i].field = field THEN [field |-> field, values |-> Append(l[i].values, v)] ELSE l[i]) = (IF i = k THEN g ELSE l[i])
    BY <1>2
  <2> QED
    BY <2>1, <2>2
<1>4. l[k].values \in Seq(Value) /\ Len(l[k].values) \in Nat
  BY ListsAt
<1>5. /\ Append(l[k].values, v) \in Seq(Value) /\ Len(Append(l[k].values, v)) = Len(l[k].values) + 1
      /\ \A j \in 1..Len(l[k].values) : Append(l[k].values, v)[j] = l[k].values[j]
      /\ Append(l[k].values, v)[Len(l[k].values) + 1] = v
  BY <1>4, AppendProperties
<1>6. g \in GroupType /\ g.field = field /\ g.values = Append(l[k].values, v)
  BY <1>5 DEF GroupType
<1> HIDE DEF g
<1>7. m \in Seq(GroupType) /\ Len(m) = n /\ \A i \in 1..n : m[i] = IF i = k THEN g ELSE l[i]
  BY <1>1, <1>6
<1> HIDE DEF m
<1>8. ASSUME NEW i \in 1..n PROVE m[i].field = l[i].field /\ Len(m[i].values) # 0
  <2>1. CASE i = k
    <3>1. m[i] = g /\ l[i].field = field
      BY <1>7, <2>1
    <3>2. Len(g.values) # 0
      BY <1>4, <1>5, <1>6
    <3> QED
      BY <1>6, <3>1, <3>2
  <2>2. CASE i # k
    <3>1. m[i] = l[i]
      BY <1>7, <2>2
    <3>2. Len(l[i].values) \in Nat \ {0}
      BY ListsAt
    <3> QED
      BY <3>1, <3>2
  <2> QED
    BY <2>1, <2>2
<1>9. m \in Lists
  BY <1>7, <1>8, ListsAt DEF Lists
<1>10. ASSUME NEW e PROVE e \in Listed(m) <=> e \in Listed(l) \cup {TheEntry(field, v)}
  <2>1. e \in Listed(m) <=> \E i \in 1..n : \E j \in 1..Len(m[i].values) : e = TheEntry(m[i].field, m[i].values[j])
    BY <1>7, <1>9, ListedIs
  <2>2. e \in Listed(l) <=> \E i \in 1..n : \E j \in 1..Len(l[i].values) : e = TheEntry(l[i].field, l[i].values[j])
    BY ListedIs
  <2>3. (\E j \in 1..Len(m[k].values) : e = TheEntry(m[k].field, m[k].values[j]))
          <=> (\E j \in 1..Len(l[k].values) : e = TheEntry(l[k].field, l[k].values[j])) \/ e = TheEntry(field, v)
    <3> DEFINE p == Len(l[k].values)
    <3>1. m[k].field = field /\ l[k].field = field /\ Len(m[k].values) = p + 1 /\ p \in Nat
      BY <1>4, <1>5, <1>6, <1>7
    <3>2. (\A j \in 1..p : m[k].values[j] = l[k].values[j]) /\ m[k].values[p + 1] = v
      BY <1>5, <1>6, <1>7
    <3> HIDE DEF p
    <3>3. \A j \in 1..(p + 1) : j \in 1..p \/ j = p + 1
      BY <3>1
    <3>4. p + 1 \in 1..(p + 1) /\ \A j \in 1..p : j \in 1..(p + 1)
      BY <3>1
    <3> QED
      BY <3>1, <3>2, <3>3, <3>4 DEF p
  <2>4. \A i \in 1..n : i # k => m[i] = l[i]
    BY <1>7
  <2> QED
    BY <2>1, <2>2, <2>3, <2>4
<1> QED
  BY <1>3, <1>9, <1>10 DEF m, g

(* Either way the list is one, with that one entry more.                   *)
LEMMA PushType ==
  ASSUME NEW l \in Lists, NEW field \in Name, NEW v \in Value
  PROVE  Push(l, field, v) \in Lists /\ Listed(Push(l, field, v)) = Listed(l) \cup {TheEntry(field, v)}
<1>1. CASE \E i \in 1..Len(l) : l[i].field = field
  BY <1>1, PushMore
<1>2. CASE ~\E i \in 1..Len(l) : l[i].field = field
  BY <1>2, PushNew
<1> QED
  BY <1>1, <1>2

(* What the parsers return: a failure, or a place and what is listed.       *)
Results == {Fail} \cup {Ok(p, l) : p \in Nat, l \in Lists}

(* A result is of its form.                                                *)
LEMMA ResultsAre ==
  ASSUME NEW r \in Results
  PROVE  /\ r.ok \in BOOLEAN
         /\ r.ok => r.pos \in Nat /\ r.val \in Lists /\ r = Ok(r.pos, r.val)
         /\ ~r.ok => r = Fail
<1>1. CASE r = Fail
  BY <1>1 DEF Fail
<1>2. CASE \E p \in Nat, l \in Lists : r = Ok(p, l)
  <2>1. PICK p \in Nat, l \in Lists : r = Ok(p, l)
    BY <1>2
  <2>2. r.ok = TRUE /\ r.pos = p /\ r.val = l
    BY <2>1 DEF Ok
  <2> QED
    BY <2>1, <2>2
<1> QED
  BY <1>1, <1>2 DEF Results

(* Reading a value comes to a result.                                      *)
LEMMA NextValueType ==
  ASSUME NEW bytes \in Name, NEW end \in Nat, end <= Len(bytes), NEW field \in Name, NEW sofar \in Results
  PROVE  NextValue(bytes, sofar, end, field) \in Results
<1> DEFINE name == ReadName(bytes, sofar.pos, end)
           version == ReadName(bytes, name.pos, end)
           v == [name |-> name.val, version |-> version.val]
<1>1. NextValue(bytes, sofar, end, field) =
        IF sofar.ok /\ name.ok /\ version.ok THEN Ok(version.pos, Push(sofar.val, field, v)) ELSE Fail
  BY DEF NextValue
<1>2. CASE sofar.ok /\ name.ok /\ version.ok
  <2>1. sofar.pos \in Nat /\ sofar.val \in Lists
    BY <1>2, ResultsAre
  <2>2. name.pos \in Nat /\ name.val \in Name
    BY <1>2, <2>1, ReadNameType
  <2> HIDE DEF name
  <2>3. version.pos \in Nat /\ version.val \in Name
    BY <1>2, <2>2, ReadNameType
  <2> HIDE DEF version
  <2>4. v \in Value
    BY <2>2, <2>3 DEF Value
  <2> HIDE DEF v
  <2>5. Push(sofar.val, field, v) \in Lists
    BY <2>1, <2>4, PushType
  <2> QED
    BY <1>1, <1>2, <2>3, <2>5 DEF Results
<1>3. CASE ~(sofar.ok /\ name.ok /\ version.ok)
  BY <1>1, <1>3 DEF Results
<1> QED
  BY <1>2, <1>3

(* The values of a field, one after the other.                              *)
ValuesOf(f, bytes, sofar, end, field, count) ==
  f \in [0..count -> Results] /\ f[0] = sofar /\ \A i \in 1..count : f[i] = NextValue(bytes, f[i - 1], end, field)

(* ParseValues is the last of the results that follow one from the other.  *)
LEMMA ValuesParsed ==
  ASSUME NEW bytes \in Name, NEW end \in Nat, end <= Len(bytes), NEW field \in Name, NEW sofar \in Results, NEW count \in Nat
  PROVE  \E f : ValuesOf(f, bytes, sofar, end, field, count) /\ ParseValues(bytes, sofar, end, field, count) = f[count]
<1> DEFINE step == [i \in 1..count |-> [r \in Results |-> NextValue(bytes, r, end, field)]]
           Parse(g) == [i \in 0..count |-> IF i = 0 THEN sofar ELSE NextValue(bytes, g[i - 1], end, field)]
<1>1. \A r \in Results : NextValue(bytes, r, end, field) \in Results
  BY NextValueType
<1>2. \A i \in 1..count, r \in Results : step[i][r] \in Results
  BY <1>1
<1>3. PICK f \in [0..count -> Results] : IsIterated(f, count, sofar, step)
  <2> HIDE DEF step
  <2> QED
    BY <1>2, Iterated
<1>4. ASSUME NEW i \in 1..count PROVE i - 1 \in 0..count /\ f[i - 1] \in Results /\ f[i] = NextValue(bytes, f[i - 1], end, field)
  <2>1. i - 1 \in 0..count
    OBVIOUS
  <2>2. f[i - 1] \in Results
    BY <1>3, <2>1
  <2>3. f[i] = step[i][f[i - 1]]
    BY <1>3 DEF IsIterated
  <2> QED
    BY <2>1, <2>2, <2>3
<1>5. f = Parse(f)
  <2>1. f = [i \in 0..count |-> f[i]]
    BY <1>3
  <2>2. \A i \in 0..count : f[i] = IF i = 0 THEN sofar ELSE NextValue(bytes, f[i - 1], end, field)
    <3>1. \A i \in 0..count : i = 0 \/ i \in 1..count
      OBVIOUS
    <3> QED
      BY <1>3, <1>4, <3>1 DEF IsIterated
  <2> QED
    BY <2>1, <2>2
<1> DEFINE h == CHOOSE h : h = Parse(h)
<1>6. h = Parse(h)
  BY <1>5
<1>7. ParseValues(bytes, sofar, end, field, count) = h[count]
  BY DEF ParseValues
<1> HIDE DEF h
<1>8. \A i \in 0..count : h[i] = IF i = 0 THEN sofar ELSE NextValue(bytes, h[i - 1], end, field)
  BY <1>6
<1> DEFINE S == {i \in 0..count : h[i] \in Results}
<1>9. 0 \in S
  BY <1>8
<1>10. ASSUME NEW i \in 1..count, i - 1 \in S PROVE i \in S
  BY <1>1, <1>8, <1>10
<1> HIDE DEF S
<1>11. 0..count \subseteq S
  BY <1>9, <1>10, InductionUpTo
<1>12. ValuesOf(h, bytes, sofar, end, field, count)
  <2>1. h \in [0..count -> Results]
    <3>1. \A i \in 0..count : h[i] \in Results
      BY <1>11 DEF S
    <3>2. h = [i \in 0..count |-> h[i]]
      BY <1>6
    <3> QED
      BY <3>1, <3>2
  <2>2. h[0] = sofar /\ \A i \in 1..count : h[i] = NextValue(bytes, h[i - 1], end, field)
    BY <1>8
  <2> QED
    BY <2>1, <2>2 DEF ValuesOf
<1> QED
  BY <1>7, <1>12

(* Reading a field comes to a result.                                      *)
LEMMA NextFieldType ==
  ASSUME NEW bytes \in Name, NEW end \in Nat, end <= Len(bytes), NEW sofar \in Results
  PROVE  NextField(bytes, sofar, end) \in Results
<1> DEFINE field == ReadName(bytes, sofar.pos, end)
           count == ReadU32(bytes, field.pos)
           r == Ok(count.pos, sofar.val)
<1>1. NextField(bytes, sofar, end) =
        IF sofar.ok /\ field.ok /\ count.ok THEN ParseValues(bytes, r, end, field.val, count.val) ELSE Fail
  BY DEF NextField
<1>2. CASE sofar.ok /\ field.ok /\ count.ok
  <2>1. sofar.pos \in Nat /\ sofar.val \in Lists
    BY <1>2, ResultsAre
  <2>2. field.pos \in Nat /\ field.val \in Name
    BY <1>2, <2>1, ReadNameType
  <2> HIDE DEF field
  <2>3. count.pos \in Nat /\ count.val \in Nat
    BY <1>2, <2>2, ReadU32Type DEF U32
  <2> HIDE DEF count
  <2>4. r \in Results
    BY <2>1, <2>3 DEF Results
  <2> HIDE DEF r
  <2>5. PICK f : ValuesOf(f, bytes, r, end, field.val, count.val) /\ ParseValues(bytes, r, end, field.val, count.val) = f[count.val]
    BY <2>2, <2>3, <2>4, ValuesParsed
  <2>6. f[count.val] \in Results
    BY <2>3, <2>5 DEF ValuesOf
  <2> QED
    BY <1>1, <1>2, <2>5, <2>6
<1>3. CASE ~(sofar.ok /\ field.ok /\ count.ok)
  BY <1>1, <1>3 DEF Results
<1> QED
  BY <1>2, <1>3

(* The fields of a section, one after the other.                           *)
FieldsOf(f, bytes, pos, end, count) ==
  f \in [0..count -> Results] /\ f[0] = Ok(pos, <<>>) /\ \A i \in 1..count : f[i] = NextField(bytes, f[i - 1], end)

(* ParseFields is the last of the results that follow one from the other.  *)
LEMMA FieldsParsed ==
  ASSUME NEW bytes \in Name, NEW pos \in Nat, NEW end \in Nat, end <= Len(bytes), NEW count \in Nat
  PROVE  \E f : FieldsOf(f, bytes, pos, end, count) /\ ParseFields(bytes, pos, end, count) = f[count]
<1> DEFINE x == Ok(pos, <<>>)
           step == [i \in 1..count |-> [r \in Results |-> NextField(bytes, r, end)]]
           Parse(g) == [i \in 0..count |-> IF i = 0 THEN x ELSE NextField(bytes, g[i - 1], end)]
<1>0. x \in Results
  <2>1. <<>> \in Lists
    BY DEF Lists
  <2> QED
    BY <2>1 DEF Results
<1>1. \A r \in Results : NextField(bytes, r, end) \in Results
  BY NextFieldType
<1>2. \A i \in 1..count, r \in Results : step[i][r] \in Results
  BY <1>1
<1>7. ParseFields(bytes, pos, end, count) = (CHOOSE h : h = Parse(h))[count]
  BY DEF ParseFields
<1> HIDE DEF x
<1>3. PICK f \in [0..count -> Results] : IsIterated(f, count, x, step)
  <2> HIDE DEF step
  <2> QED
    BY <1>0, <1>2, Iterated
<1>4. ASSUME NEW i \in 1..count PROVE i - 1 \in 0..count /\ f[i - 1] \in Results /\ f[i] = NextField(bytes, f[i - 1], end)
  <2>1. i - 1 \in 0..count
    OBVIOUS
  <2>2. f[i - 1] \in Results
    BY <1>3, <2>1
  <2>3. f[i] = step[i][f[i - 1]]
    BY <1>3 DEF IsIterated
  <2> QED
    BY <2>1, <2>2, <2>3
<1>5. f = Parse(f)
  <2>1. f = [i \in 0..count |-> f[i]]
    BY <1>3
  <2>2. \A i \in 0..count : f[i] = IF i = 0 THEN x ELSE NextField(bytes, f[i - 1], end)
    <3>1. \A i \in 0..count : i = 0 \/ i \in 1..count
      OBVIOUS
    <3> QED
      BY <1>3, <1>4, <3>1 DEF IsIterated
  <2> QED
    BY <2>1, <2>2
<1> DEFINE h == CHOOSE h : h = Parse(h)
<1>6. h = Parse(h)
  BY <1>5
<1>b. ParseFields(bytes, pos, end, count) = h[count]
  BY <1>7
<1> HIDE DEF h
<1>8. \A i \in 0..count : h[i] = IF i = 0 THEN x ELSE NextField(bytes, h[i - 1], end)
  BY <1>6
<1> DEFINE S == {i \in 0..count : h[i] \in Results}
<1>9. 0 \in S
  BY <1>0, <1>8
<1>10. ASSUME NEW i \in 1..count, i - 1 \in S PROVE i \in S
  BY <1>1, <1>8, <1>10
<1> HIDE DEF S
<1>11. 0..count \subseteq S
  BY <1>9, <1>10, InductionUpTo
<1>12. FieldsOf(h, bytes, pos, end, count)
  <2>1. h \in [0..count -> Results]
    <3>1. \A i \in 0..count : h[i] \in Results
      BY <1>11 DEF S
    <3>2. h = [i \in 0..count |-> h[i]]
      BY <1>6
    <3> QED
      BY <3>1, <3>2
  <2>2. h[0] = x /\ \A i \in 1..count : h[i] = NextField(bytes, h[i - 1], end)
    BY <1>8
  <2> QED
    BY <2>1, <2>2 DEF FieldsOf, x
<1> QED
  BY <1>b, <1>12

(* parse_producers fails, or returns a list.                               *)
LEMMA ParseProducersType ==
  ASSUME NEW bytes \in Name, NEW start \in Nat, NEW end \in Nat, end <= Len(bytes)
  PROVE  ParseProducers(bytes, start, end) \in Results
<1> DEFINE count == ReadU32(bytes, start)
           fields == ParseFields(bytes, count.pos, end, count.val)
<1>1. ParseProducers(bytes, start, end) = IF count.ok /\ fields.ok /\ fields.pos = end THEN fields ELSE Fail
  BY DEF ParseProducers
<1>2. CASE count.ok /\ fields.ok /\ fields.pos = end
  <2>1. count.pos \in Nat /\ count.val \in Nat
    BY <1>2, ReadU32Type DEF U32
  <2> HIDE DEF count
  <2>2. PICK f : FieldsOf(f, bytes, count.pos, end, count.val) /\ fields = f[count.val]
    BY <2>1, FieldsParsed
  <2>3. fields \in Results
    BY <2>1, <2>2 DEF FieldsOf
  <2> QED
    BY <1>1, <1>2, <2>3
<1>3. CASE ~(count.ok /\ fields.ok /\ fields.pos = end)
  BY <1>1, <1>3 DEF Results
<1> QED
  BY <1>2, <1>3

-----------------------------------------------------------------------------
(* What is written of values, of a group, and of all groups.                *)
ValuePieces(values) == [j \in DOMAIN values |-> EncodeValue(values[j])]
FieldPieces(l) == [i \in DOMAIN l |-> EncodeField(l[i])]

(* A value is written as more bytes than its name and its version have.    *)
LEMMA EncodeValueType ==
  ASSUME NEW v \in Value
  PROVE  /\ v.name \in Name /\ v.version \in Name /\ v = [name |-> v.name, version |-> v.version]
         /\ EncodeValue(v) \in Name /\ Len(EncodeValue(v)) = Len(EncodeName(v.name)) + Len(EncodeName(v.version))
         /\ Len(EncodeValue(v)) # 0 /\ Len(v.name) <= Len(EncodeValue(v)) /\ Len(v.version) <= Len(EncodeValue(v))
<1>1. v.name \in Name /\ v.version \in Name /\ v = [name |-> v.name, version |-> v.version]
  BY DEF Value
<1> DEFINE a == EncodeName(v.name)
           b == EncodeName(v.version)
<1>2. a \in Name /\ Len(a) \in Nat /\ Len(v.name) < Len(a) /\ Len(v.name) \in Nat
  BY <1>1, EncodeNameType
<1>3. b \in Name /\ Len(b) \in Nat /\ Len(v.version) < Len(b) /\ Len(v.version) \in Nat
  BY <1>1, EncodeNameType
<1>4. EncodeValue(v) = a \o b
  BY DEF EncodeValue
<1> HIDE DEF a, b
<1>5. EncodeValue(v) \in Name /\ Len(EncodeValue(v)) = Len(a) + Len(b)
  BY <1>2, <1>3, <1>4, ConcatProperties DEF Name
<1> QED
  BY <1>1, <1>2, <1>3, <1>5 DEF a, b

(* What is written of each of the values.                                  *)
LEMMA ValuePiecesType ==
  ASSUME NEW values \in Seq(Value)
  PROVE  /\ ValuePieces(values) \in Seq(Name) /\ Len(ValuePieces(values)) = Len(values) /\ Len(values) \in Nat
         /\ \A j \in 1..Len(values) : values[j] \in Value /\ ValuePieces(values)[j] = EncodeValue(values[j])
<1>1. Len(values) \in Nat /\ DOMAIN values = 1..Len(values) /\ \A j \in 1..Len(values) : values[j] \in Value
  BY LenProperties, ElementOfSeq
<1>2. \A j \in 1..Len(values) : EncodeValue(values[j]) \in Name
  BY <1>1, EncodeValueType
<1> QED
  BY <1>1, <1>2 DEF ValuePieces

(* A field is written as more bytes than it has values, and than each has. *)
LEMMA EncodeFieldType ==
  ASSUME NEW g \in GroupType
  PROVE  /\ g.field \in Name /\ g.values \in Seq(Value) /\ FlattenSeq(ValuePieces(g.values)) \in Name
         /\ EncodeField(g) = EncodeName(g.field) \o EncodeU32(Len(g.values)) \o FlattenSeq(ValuePieces(g.values))
         /\ EncodeField(g) \in Name
         /\ Len(EncodeField(g)) = Len(EncodeName(g.field)) + Len(EncodeU32(Len(g.values))) + Len(FlattenSeq(ValuePieces(g.values)))
         /\ Len(EncodeField(g)) # 0
         /\ Len(g.field) <= Len(EncodeField(g)) /\ Len(g.values) <= Len(EncodeField(g))
         /\ \A j \in 1..Len(g.values) : Len(EncodeValue(g.values[j])) <= Len(EncodeField(g))
<1>1. g.field \in Name /\ g.values \in Seq(Value)
  BY DEF GroupType
<1> DEFINE vs == g.values
           ps == ValuePieces(vs)
           n == Len(vs)
           a == EncodeName(g.field)
           b == EncodeU32(n)
           c == FlattenSeq(ps)
<1>2. ps \in Seq(Name) /\ Len(ps) = n /\ n \in Nat /\ \A j \in 1..n : vs[j] \in Value /\ ps[j] = EncodeValue(vs[j])
  BY <1>1, ValuePiecesType
<1>3. a \in Name /\ Len(a) \in Nat /\ Len(g.field) < Len(a) /\ Len(g.field) \in Nat
  BY <1>1, EncodeNameType
<1>4. b \in Name /\ Len(b) \in Nat
  BY <1>2, EncodeU32Type
<1>5. EncodeField(g) = a \o b \o c
  BY DEF EncodeField, ValuePieces
<1> HIDE DEF a, b, c, ps, n, vs
<1>6. PICK f : UpTo(f, ps) /\ c = f[Len(ps)]
  BY <1>2, Flattened DEF c
<1>7. c \in Name /\ Len(c) \in Nat
  <2>1. Len(ps) \in 0..Len(ps)
    BY <1>2
  <2> QED
    BY <1>2, <1>6, <2>1, UpToLengths
<1>8. \A j \in 1..n : Len(ps[j]) \in Nat /\ Len(ps[j]) # 0 /\ Len(ps[j]) <= Len(c)
  <2> SUFFICES ASSUME NEW j \in 1..n PROVE Len(ps[j]) \in Nat /\ Len(ps[j]) # 0 /\ Len(ps[j]) <= Len(c)
    OBVIOUS
  <2>1. j - 1 \in 0..n /\ j \in 0..n
    BY <1>2
  <2>2. Len(f[j]) = Len(f[j - 1]) + Len(ps[j]) /\ Len(ps[j]) \in Nat
    BY <1>2, <1>6, UpToLengths
  <2>3. Len(f[j - 1]) \in Nat /\ Len(f[j]) \in Nat /\ Len(f[j]) <= Len(c)
    BY <1>2, <1>6, <2>1, UpToLengths
  <2>4. Len(ps[j]) # 0
    BY <1>2, EncodeValueType
  <2> DEFINE x == Len(f[j - 1])
             y == Len(ps[j])
             z == Len(f[j])
             w == Len(c)
  <2>5. z = x + y /\ x \in Nat /\ y \in Nat /\ z <= w /\ w \in Nat /\ z \in Nat
    BY <1>7, <2>2, <2>3
  <2> HIDE DEF x, y, z, w
  <2>6. y <= w
    BY <2>5
  <2> QED
    BY <2>2, <2>4, <2>6 DEF y, w
<1>9. n <= Len(c)
  BY <1>2, <1>6, <1>8, UpToCounts
<1>10. EncodeField(g) \in Name /\ Len(EncodeField(g)) = Len(a) + Len(b) + Len(c)
  <2>1. a \o b \in Name /\ Len(a \o b) = Len(a) + Len(b)
    BY <1>3, <1>4, ConcatProperties DEF Name
  <2> QED
    BY <1>5, <1>7, <2>1, ConcatProperties DEF Name
<1> DEFINE x == Len(a)
           y == Len(b)
           z == Len(c)
           w == Len(EncodeField(g))
<1>11. w = x + y + z /\ x \in Nat /\ y \in Nat /\ z \in Nat
  BY <1>3, <1>4, <1>7, <1>10
<1>12. Len(g.field) < x /\ Len(g.field) \in Nat /\ n <= z /\ n \in Nat /\ \A j \in 1..n : Len(ps[j]) \in Nat /\ Len(ps[j]) <= z
  BY <1>2, <1>3, <1>8, <1>9
<1> HIDE DEF x, y, z, w
<1>13. w # 0 /\ Len(g.field) <= w /\ n <= w /\ \A j \in 1..n : Len(ps[j]) <= w
  BY <1>11, <1>12
<1> QED
  BY <1>1, <1>2, <1>5, <1>7, <1>10, <1>13 DEF a, b, c, ps, n, vs, w

(* What is written of each of the fields.                                  *)
LEMMA FieldPiecesType ==
  ASSUME NEW l \in Seq(GroupType)
  PROVE  /\ FieldPieces(l) \in Seq(Name) /\ Len(FieldPieces(l)) = Len(l) /\ Len(l) \in Nat
         /\ \A i \in 1..Len(l) : l[i] \in GroupType /\ FieldPieces(l)[i] = EncodeField(l[i])
<1>1. Len(l) \in Nat /\ DOMAIN l = 1..Len(l) /\ \A i \in 1..Len(l) : l[i] \in GroupType
  BY LenProperties, ElementOfSeq
<1>2. \A i \in 1..Len(l) : EncodeField(l[i]) \in Name
  BY <1>1, EncodeFieldType
<1> QED
  BY <1>1, <1>2 DEF FieldPieces

(* The part of a section that parse_producers reads.                        *)
Content(l) == EncodeU32(Len(l)) \o FlattenSeq(FieldPieces(l))

(* A list is written as more bytes than it has fields, and than each has.  *)
LEMMA ContentType ==
  ASSUME NEW l \in Lists
  PROVE  /\ EncodeU32(Len(l)) \in Name /\ FlattenSeq(FieldPieces(l)) \in Name /\ Content(l) \in Name
         /\ Len(Content(l)) = Len(EncodeU32(Len(l))) + Len(FlattenSeq(FieldPieces(l)))
         /\ Len(Content(l)) \in Nat /\ Len(l) <= Len(Content(l))
         /\ \A i \in 1..Len(l) : Len(EncodeField(l[i])) <= Len(Content(l))
<1> DEFINE ps == FieldPieces(l)
           n == Len(l)
           b == EncodeU32(n)
           c == FlattenSeq(ps)
<1>1. ps \in Seq(Name) /\ Len(ps) = n /\ n \in Nat /\ \A i \in 1..n : l[i] \in GroupType /\ ps[i] = EncodeField(l[i])
  BY ListsAt, FieldPiecesType
<1>2. b \in Name /\ Len(b) \in Nat
  BY <1>1, EncodeU32Type
<1>3. Content(l) = b \o c
  BY DEF Content
<1> HIDE DEF b, c, ps, n
<1>4. PICK f : UpTo(f, ps) /\ c = f[Len(ps)]
  BY <1>1, Flattened DEF c
<1>5. c \in Name /\ Len(c) \in Nat
  <2>1. Len(ps) \in 0..Len(ps)
    BY <1>1
  <2> QED
    BY <1>1, <1>4, <2>1, UpToLengths
<1>6. \A i \in 1..n : Len(ps[i]) \in Nat /\ Len(ps[i]) # 0 /\ Len(ps[i]) <= Len(c)
  <2> SUFFICES ASSUME NEW i \in 1..n PROVE Len(ps[i]) \in Nat /\ Len(ps[i]) # 0 /\ Len(ps[i]) <= Len(c)
    OBVIOUS
  <2>1. i - 1 \in 0..n /\ i \in 0..n
    BY <1>1
  <2>2. Len(f[i]) = Len(f[i - 1]) + Len(ps[i]) /\ Len(ps[i]) \in Nat
    BY <1>1, <1>4, UpToLengths
  <2>3. Len(f[i - 1]) \in Nat /\ Len(f[i]) \in Nat /\ Len(f[i]) <= Len(c)
    BY <1>1, <1>4, <2>1, UpToLengths
  <2>4. Len(ps[i]) # 0
    BY <1>1, EncodeFieldType
  <2> DEFINE x == Len(f[i - 1])
             y == Len(ps[i])
             z == Len(f[i])
             w == Len(c)
  <2>5. z = x + y /\ x \in Nat /\ y \in Nat /\ z <= w /\ w \in Nat /\ z \in Nat
    BY <1>5, <2>2, <2>3
  <2> HIDE DEF x, y, z, w
  <2>6. y <= w
    BY <2>5
  <2> QED
    BY <2>2, <2>4, <2>6 DEF y, w
<1>7. n <= Len(c)
  BY <1>1, <1>4, <1>6, UpToCounts
<1>8. Content(l) \in Name /\ Len(Content(l)) = Len(b) + Len(c)
  BY <1>2, <1>3, <1>5, ConcatProperties DEF Name
<1> DEFINE y == Len(b)
           z == Len(c)
           w == Len(Content(l))
<1>9. w = y + z /\ y \in Nat /\ z \in Nat
  BY <1>2, <1>5, <1>8
<1>10. n <= z /\ n \in Nat /\ \A i \in 1..n : Len(ps[i]) \in Nat /\ Len(ps[i]) <= z
  BY <1>1, <1>6, <1>7
<1> HIDE DEF y, z, w
<1>11. w \in Nat /\ n <= w /\ \A i \in 1..n : Len(ps[i]) <= w
  BY <1>9, <1>10
<1> QED
  BY <1>1, <1>2, <1>5, <1>8, <1>11 DEF b, c, ps, n, w

(* The payload is the name of the section and what parse_producers reads.  *)
LEMMA PayloadIs ==
  ASSUME NEW l \in Lists
  PROVE  /\ EncodeName(ProducersName) \in Name
         /\ EncodePayload(l) = EncodeName(ProducersName) \o Content(l)
         /\ EncodePayload(l) \in Name /\ Len(EncodePayload(l)) \in Nat
         /\ Len(EncodePayload(l)) = Len(EncodeName(ProducersName)) + Len(Content(l))
         /\ Len(Content(l)) <= Len(EncodePayload(l))
<1> DEFINE a == EncodeName(ProducersName)
           b == EncodeU32(Len(l))
           c == FlattenSeq(FieldPieces(l))
<1>1. a \in Name /\ Len(a) \in Nat
  <2>1. ProducersName \in Name
    BY DEF ProducersName, Name, Byte
  <2> QED
    BY <2>1, EncodeNameType
<1>2. b \in Name /\ c \in Name /\ b \o c = Content(l) /\ Content(l) \in Name /\ Len(Content(l)) \in Nat
  BY ContentType DEF Content
<1>3. EncodePayload(l) = (a \o b) \o c
  BY DEF EncodePayload, FieldPieces
<1> HIDE DEF a, b, c
<1>4. (a \o b) \o c = a \o (b \o c)
  <2>1. a \in Seq(Byte) /\ b \in Seq(Byte) /\ c \in Seq(Byte)
    BY <1>1, <1>2 DEF Name
  <2> QED
    BY <2>1, ConcatAssociative
<1>5. a \o Content(l) \in Name /\ Len(a \o Content(l)) = Len(a) + Len(Content(l))
  BY <1>1, <1>2, ConcatProperties DEF Name
<1> DEFINE x == Len(a)
           y == Len(Content(l))
           z == Len(EncodePayload(l))
<1>6. z = x + y /\ x \in Nat /\ y \in Nat
  BY <1>1, <1>2, <1>3, <1>4, <1>5
<1> HIDE DEF x, y, z
<1>7. z \in Nat /\ y <= z
  BY <1>6
<1> QED
  BY <1>1, <1>2, <1>3, <1>4, <1>5, <1>7 DEF a, y, z

(* All lengths that are written are lengths that can be read.               *)
ShortGroup(g) ==
  /\ Len(g.field) \in U32 /\ Len(g.values) \in U32
  /\ \A j \in 1..Len(g.values) : Len(g.values[j].name) \in U32 /\ Len(g.values[j].version) \in U32

Short(l) == Len(l) \in U32 /\ \A i \in 1..Len(l) : ShortGroup(l[i])

(* What is less than a length is one.                                      *)
LEMMA U32Down == ASSUME NEW n \in U32, NEW m \in Nat, m <= n PROVE m \in U32
<1>1. n \in Nat /\ n \div 65536 < 65536
  BY DEF U32, IsU32
<1>2. m \div 65536 < 65536
  BY <1>1
<1> QED
  BY <1>2 DEF U32, IsU32

(* A list whose payload has a length has only lengths in it, at any depth: *)
(* merge_producers_section need look at one of them only.                  *)
LEMMA WrittenIsShort ==
  ASSUME NEW l \in Lists, IsU32(Len(EncodePayload(l)))
  PROVE  Short(l)
<1> DEFINE m == Len(EncodePayload(l))
           c == Len(Content(l))
<1>1. m \in U32
  BY PayloadIs DEF U32
<1>2. c \in U32
  BY <1>1, PayloadIs, ContentType, U32Down
<1>3. Len(l) \in U32
  BY <1>2, ContentType, ListsAt, U32Down
<1>4. ASSUME NEW i \in 1..Len(l)
      PROVE  /\ Len(l[i].field) \in U32 /\ Len(l[i].values) \in U32
             /\ \A j \in 1..Len(l[i].values) : Len(l[i].values[j].name) \in U32 /\ Len(l[i].values[j].version) \in U32
  <2> DEFINE g == l[i]
  <2>1. g \in GroupType
    BY ListsAt
  <2>2. Len(EncodeField(g)) <= c
    BY ContentType
  <2> HIDE DEF c, g
  <2>3. EncodeField(g) \in Name /\ g.field \in Name /\ g.values \in Seq(Value)
    BY <2>1, EncodeFieldType
  <2>4. Len(EncodeField(g)) \in Nat /\ Len(g.field) \in Nat /\ Len(g.values) \in Nat
    BY <2>3, LenProperties DEF Name
  <2>5. Len(EncodeField(g)) \in U32
    BY <1>2, <2>2, <2>4, U32Down
  <2>6. Len(g.field) \in U32 /\ Len(g.values) \in U32
    BY <2>1, <2>4, <2>5, EncodeFieldType, U32Down
  <2>7. ASSUME NEW j \in 1..Len(g.values) PROVE Len(g.values[j].name) \in U32 /\ Len(g.values[j].version) \in U32
    <3> DEFINE v == g.values[j]
    <3>1. v \in Value
      BY <2>3, ElementOfSeq
    <3>2. Len(EncodeValue(v)) <= Len(EncodeField(g))
      BY <2>1, EncodeFieldType
    <3> HIDE DEF v
    <3>3. v.name \in Name /\ v.version \in Name /\ EncodeValue(v) \in Name
      BY <3>1, EncodeValueType
    <3>4. Len(v.name) \in Nat /\ Len(v.version) \in Nat /\ Len(EncodeValue(v)) \in Nat
      BY <3>3, LenProperties DEF Name
    <3>5. Len(EncodeValue(v)) \in U32
      BY <2>5, <3>2, <3>4, U32Down
    <3>6. Len(v.name) \in U32 /\ Len(v.version) \in U32
      BY <3>1, <3>4, <3>5, EncodeValueType, U32Down
    <3> QED
      BY <3>6 DEF v
  <2> QED
    BY <2>6, <2>7 DEF g
<1> QED
  BY <1>3, <1>4 DEF Short, ShortGroup

(* A list to which a group is added at the end, and one more value to it.   *)
LEMMA PushLast ==
  ASSUME NEW l \in Lists, NEW field \in Name, \A i \in 1..Len(l) : l[i].field # field,
         NEW s \in Seq(Value), s # <<>>, NEW v \in Value
  PROVE  /\ Append(l, [field |-> field, values |-> s]) \in Lists
         /\ Push(Append(l, [field |-> field, values |-> s]), field, v) = Append(l, [field |-> field, values |-> Append(s, v)])
<1> DEFINE g == [field |-> field, values |-> s]
           h == [field |-> field, values |-> Append(s, v)]
           n == Len(l)
           m == Append(l, g)
           o == Append(l, h)
<1>1. l \in Seq(GroupType) /\ n \in Nat /\ Len(s) \in Nat /\ Len(s) # 0
  BY ListsAt, EmptySeq
<1>2. Append(s, v) \in Seq(Value)
  BY AppendProperties
<1>3. g \in GroupType /\ g.field = field /\ g.values = s
  BY DEF GroupType
<1>4. h \in GroupType
  BY <1>2 DEF GroupType
<1> HIDE DEF g
<1>5. m \in Seq(GroupType) /\ Len(m) = n + 1 /\ (\A i \in 1..n : m[i] = l[i]) /\ m[n + 1] = g
  BY <1>1, <1>3, AppendProperties
<1>6. o \in Seq(GroupType) /\ Len(o) = n + 1 /\ (\A i \in 1..n : o[i] = l[i]) /\ o[n + 1] = h
  <2> HIDE DEF h
  <2> QED
    BY <1>1, <1>4, AppendProperties
<1> HIDE DEF m, o, h
<1>7. \A i \in 1..(n + 1) : i \in 1..n \/ i = n + 1
  BY <1>1
<1>8. ASSUME NEW i \in 1..(n + 1) PROVE Len(m[i].values) # 0
  <2>1. CASE i \in 1..n
    <3>1. Len(l[i].values) \in Nat \ {0}
      BY <2>1, ListsAt
    <3> QED
      BY <1>5, <2>1, <3>1
  <2>2. CASE i = n + 1
    BY <1>1, <1>3, <1>5, <2>2
  <2> QED
    BY <1>7, <2>1, <2>2
<1>9. ASSUME NEW i \in 1..(n + 1), NEW j \in 1..(n + 1), m[i].field = m[j].field PROVE i = j
  <2>1. CASE i \in 1..n /\ j \in 1..n
    BY <1>5, <1>9, <2>1, ListsAt
  <2>2. CASE i = n + 1 /\ j = n + 1
    BY <2>2
  <2>3. CASE i \in 1..n /\ j = n + 1
    BY <1>3, <1>5, <1>9, <2>3
  <2>4. CASE i = n + 1 /\ j \in 1..n
    BY <1>3, <1>5, <1>9, <2>4
  <2> QED
    BY <1>7, <2>1, <2>2, <2>3, <2>4
<1>10. m \in Lists
  BY <1>5, <1>8, <1>9 DEF Lists
<1> DEFINE k == n + 1
           p == Push(m, field, v)
<1>11. k \in 1..Len(m) /\ m[k].field = field /\ m[k].values = s
  BY <1>1, <1>3, <1>5
<1>12. p = [i \in 1..(n + 1) |-> IF i = k THEN h ELSE m[i]]
  <2> HIDE DEF k
  <2>1. Push(m, field, v) = [i \in 1..Len(m) |-> IF i = k THEN [field |-> field, values |-> Append(m[k].values, v)] ELSE m[i]]
    BY <1>10, <1>11, PushMore
  <2> QED
    BY <1>5, <1>11, <2>1 DEF h
<1>13. p \in Lists
  <2> HIDE DEF k
  <2> QED
    BY <1>10, <1>11, PushMore
<1> HIDE DEF p
<1>14. p \in Seq(GroupType) /\ Len(p) = n + 1
  <2>1. DOMAIN p = 1..(n + 1)
    BY <1>12
  <2>2. DOMAIN p = 1..Len(p) /\ Len(p) \in Nat /\ p \in Seq(GroupType)
    BY <1>13, ListsAt
  <2> QED
    BY <1>1, <2>1, <2>2
<1>15. \A i \in 1..(n + 1) : p[i] = o[i]
  BY <1>5, <1>6, <1>7, <1>12
<1>16. p = o
  BY <1>6, <1>14, <1>15, SeqEqual
<1> QED
  BY <1>10, <1>16 DEF m, o, g, h, p

(* The first elements of a sequence are those before, and one.             *)
LEMMA SubSeqGrows ==
  ASSUME NEW T, NEW s \in Seq(T), NEW i \in 1..Len(s)
  PROVE  /\ SubSeq(s, 1, i) = Append(SubSeq(s, 1, i - 1), s[i]) /\ SubSeq(s, 1, i - 1) \in Seq(T) /\ SubSeq(s, 1, i) \in Seq(T)
         /\ Len(SubSeq(s, 1, i - 1)) = i - 1 /\ Len(SubSeq(s, 1, i)) = i
         /\ (\A j \in 1..(i - 1) : SubSeq(s, 1, i - 1)[j] = s[j])
<1> DEFINE a == SubSeq(s, 1, i - 1)
           b == SubSeq(s, 1, i)
<1>1. Len(s) \in Nat /\ i \in Nat /\ i \in Int /\ i - 1 \in Int /\ 1 \in Int /\ \A j \in 1..Len(s) : s[j] \in T
  BY LenProperties, ElementOfSeq
<1>2. \A j \in 1..i : s[j] \in T
  BY <1>1
<1>3. \A j \in 1..(i - 1) : s[j] \in T
  BY <1>2
<1>4. a \in Seq(T) /\ Len(a) = (IF 1 <= i - 1 THEN (i - 1) - 1 + 1 ELSE 0) /\ \A j \in 1..((i - 1) - 1 + 1) : a[j] = s[1 + j - 1]
  BY <1>1, <1>3, SubSeqProperties
<1>5. b \in Seq(T) /\ Len(b) = (IF 1 <= i THEN i - 1 + 1 ELSE 0) /\ \A j \in 1..(i - 1 + 1) : b[j] = s[1 + j - 1]
  BY <1>1, <1>2, SubSeqProperties
<1> HIDE DEF a, b
<1>6. Len(a) = i - 1 /\ Len(b) = i /\ (\A j \in 1..(i - 1) : a[j] = s[j]) /\ (\A j \in 1..i : b[j] = s[j])
  BY <1>1, <1>4, <1>5
<1> DEFINE c == Append(a, s[i])
<1>7. c \in Seq(T) /\ Len(c) = (i - 1) + 1 /\ (\A j \in 1..(i - 1) : c[j] = a[j]) /\ c[(i - 1) + 1] = s[i]
  BY <1>1, <1>4, <1>6, AppendProperties
<1>8. ASSUME NEW j \in 1..i PROVE b[j] = c[j]
  <2> HIDE DEF c
  <2>1. CASE j = i
    BY <1>1, <1>6, <1>7, <2>1
  <2>2. CASE j # i
    <3>1. j \in 1..(i - 1)
      BY <2>2
    <3> QED
      BY <1>6, <1>7, <3>1
  <2> QED
    BY <2>1, <2>2
<1> HIDE DEF c
<1>9. b = c
  BY <1>1, <1>5, <1>6, <1>7, <1>8, SeqEqual
<1> QED
  BY <1>4, <1>5, <1>6, <1>9 DEF a, b, c

(* One value that was written is read, and entered.                         *)
LEMMA NextValueAtEncoded ==
  ASSUME NEW bytes \in Name, NEW end \in Nat, end <= Len(bytes), NEW field \in Name,
         NEW p \in Nat, NEW l \in Lists, NEW v \in Value, Len(v.name) \in U32, Len(v.version) \in U32,
         At(bytes, p, EncodeValue(v)), p + Len(EncodeValue(v)) <= end
  PROVE  NextValue(bytes, Ok(p, l), end, field) = Ok(p + Len(EncodeValue(v)), Push(l, field, v))
<1> DEFINE a == EncodeName(v.name)
           b == EncodeName(v.version)
           q == p + Len(a)
           r == p + Len(EncodeValue(v))
<1>1. v.name \in Name /\ v.version \in Name /\ v = [name |-> v.name, version |-> v.version] /\ EncodeValue(v) \in Name
      /\ Len(EncodeValue(v)) = Len(a) + Len(b) /\ EncodeValue(v) = a \o b
  BY EncodeValueType DEF EncodeValue
<1>2. a \in Name /\ b \in Name /\ Len(a) \in Nat /\ Len(b) \in Nat
  BY <1>1, EncodeNameType
<1> HIDE DEF a, b
<1>3. q \in Nat /\ r = q + Len(b) /\ q <= end /\ r <= end
  BY <1>1, <1>2
<1>4. At(bytes, p, a) /\ At(bytes, q, b)
  BY <1>1, <1>2, AtConcat
<1>5. ReadName(bytes, p, end) = Ok(q, v.name)
  BY <1>1, <1>3, <1>4, ReadNameAtEncoded DEF a
<1> HIDE DEF q
<1>6. ReadName(bytes, q, end) = Ok(r, v.version)
  BY <1>1, <1>3, <1>4, ReadNameAtEncoded DEF b
<1> HIDE DEF r
<1> DEFINE sofar == Ok(p, l)
           name == ReadName(bytes, sofar.pos, end)
           version == ReadName(bytes, name.pos, end)
<1>7. sofar.ok /\ sofar.pos = p /\ sofar.val = l
  BY DEF Ok
<1>8. name.ok /\ name.pos = q /\ name.val = v.name
  BY <1>5, <1>7 DEF Ok
<1>9. version.ok /\ version.pos = r /\ version.val = v.version
  BY <1>6, <1>8 DEF Ok
<1>10. NextValue(bytes, sofar, end, field) =
        IF sofar.ok /\ name.ok /\ version.ok
          THEN Ok(version.pos, Push(sofar.val, field, [name |-> name.val, version |-> version.val])) ELSE Fail
  BY DEF NextValue
<1> HIDE DEF sofar, name, version
<1>11. [name |-> name.val, version |-> version.val] = v
  BY <1>1, <1>8, <1>9
<1>12. NextValue(bytes, sofar, end, field) = Ok(r, Push(l, field, v))
  BY <1>7, <1>8, <1>9, <1>10, <1>11
<1> QED
  BY <1>12 DEF sofar, r

(* The values of a field that is new come back as one group.                *)
LEMMA ValuesComeBack ==
  ASSUME NEW bytes \in Name, NEW end \in Nat, end <= Len(bytes), NEW p \in Nat, NEW l \in Lists,
         NEW field \in Name, \A i \in 1..Len(l) : l[i].field # field,
         NEW vs \in Seq(Value), vs # <<>>, \A j \in 1..Len(vs) : Len(vs[j].name) \in U32 /\ Len(vs[j].version) \in U32,
         At(bytes, p, FlattenSeq(ValuePieces(vs))), p + Len(FlattenSeq(ValuePieces(vs))) <= end
  PROVE  ParseValues(bytes, Ok(p, l), end, field, Len(vs))
           = Ok(p + Len(FlattenSeq(ValuePieces(vs))), Append(l, [field |-> field, values |-> vs]))
<1> DEFINE ps == ValuePieces(vs)
           n == Len(vs)
           c == FlattenSeq(ps)
           Grown(j) == Append(l, [field |-> field, values |-> SubSeq(vs, 1, j)])
<1>1. ps \in Seq(Name) /\ Len(ps) = n /\ n \in Nat /\ n # 0 /\ \A j \in 1..n : vs[j] \in Value /\ ps[j] = EncodeValue(vs[j])
  BY ValuePiecesType, EmptySeq
<1> HIDE DEF ps, n
<1>2. PICK f : UpTo(f, ps) /\ c = f[Len(ps)]
  BY <1>1, Flattened
<1> HIDE DEF c
<1>3. \A j \in 1..n : At(bytes, p + Len(f[j - 1]), ps[j])
  BY <1>1, <1>2, UpToAt DEF c, ps
<1>4. Ok(p, l) \in Results
  BY DEF Results
<1>5. PICK g : ValuesOf(g, bytes, Ok(p, l), end, field, n) /\ ParseValues(bytes, Ok(p, l), end, field, n) = g[n]
  BY <1>1, <1>4, ValuesParsed
<1>6. g[0] = Ok(p, l) /\ \A j \in 1..n : g[j] = NextValue(bytes, g[j - 1], end, field)
  BY <1>5 DEF ValuesOf
<1>7. Len(f[0]) = 0 /\ (\A j \in 1..n : Len(f[j]) = Len(f[j - 1]) + Len(ps[j]))
      /\ \A j \in 0..n : Len(f[j]) \in Nat /\ p + Len(f[j]) <= end
  <2>1. Len(f[0]) = 0 /\ (\A j \in 1..n : Len(f[j]) = Len(f[j - 1]) + Len(ps[j]))
        /\ \A j \in 0..n : Len(f[j]) \in Nat /\ Len(f[j]) <= Len(c)
    BY <1>1, <1>2, UpToLengths
  <2>2. p + Len(c) <= end
    BY DEF c, ps
  <2>3. Len(c) \in Nat
    <3>1. n \in 0..n
      BY <1>1
    <3> QED
      BY <1>1, <1>2, <2>1, <3>1
  <2>4. ASSUME NEW j \in 0..n PROVE Len(f[j]) \in Nat /\ p + Len(f[j]) <= end
    <3> DEFINE x == Len(f[j])
               y == Len(c)
    <3>1. x \in Nat /\ x <= y /\ y \in Nat /\ p + y <= end
      BY <2>1, <2>2, <2>3
    <3> HIDE DEF x, y
    <3>2. x \in Nat /\ p + x <= end
      BY <3>1
    <3> QED
      BY <3>2 DEF x
  <2> QED
    BY <2>1, <2>4
<1>8. \A j \in 1..n : SubSeq(vs, 1, j) = Append(SubSeq(vs, 1, j - 1), vs[j]) /\ SubSeq(vs, 1, j - 1) \in Seq(Value)
                       /\ SubSeq(vs, 1, j) \in Seq(Value) /\ Len(SubSeq(vs, 1, j - 1)) = j - 1 /\ Len(SubSeq(vs, 1, j)) = j
  BY SubSeqGrows DEF n
<1> DEFINE S == {j \in 0..n : g[j] = Ok(p + Len(f[j]), IF j = 0 THEN l ELSE Grown(j))}
<1>9. 0 \in S
  BY <1>1, <1>6, <1>7
<1>10. ASSUME NEW j \in 1..n, j - 1 \in S PROVE j \in S
  <2> DEFINE before == IF j - 1 = 0 THEN l ELSE Grown(j - 1)
             v == vs[j]
             q == p + Len(f[j - 1])
  <2>1. j - 1 \in 0..n /\ j \in 0..n
    BY <1>1
  <2>2. g[j - 1] = Ok(q, before)
    BY <1>10
  <2>3. v \in Value /\ ps[j] = EncodeValue(v) /\ Len(v.name) \in U32 /\ Len(v.version) \in U32
    BY <1>1 DEF n
  <2>4. q \in Nat /\ q + Len(EncodeValue(v)) = p + Len(f[j]) /\ q + Len(EncodeValue(v)) <= end
    <3>1. Len(f[j - 1]) \in Nat /\ Len(f[j]) = Len(f[j - 1]) + Len(ps[j]) /\ p + Len(f[j]) <= end /\ Len(f[j]) \in Nat
      BY <1>7, <2>1
    <3>2. Len(ps[j]) \in Nat
      BY <1>1, LenProperties, <2>3, EncodeValueType DEF Name
    <3> DEFINE x == Len(f[j - 1])
               y == Len(EncodeValue(v))
               z == Len(f[j])
    <3>3. x \in Nat /\ y \in Nat /\ z = x + y /\ p + z <= end
      BY <2>3, <3>1, <3>2
    <3> HIDE DEF x, y, z, v
    <3>4. p + x \in Nat /\ p + x + y = p + z /\ p + x + y <= end
      BY <3>3
    <3> QED
      BY <3>4 DEF x, y, z
  <2>5. At(bytes, q, EncodeValue(v))
    BY <1>3, <2>3
  <2>6. before \in Lists /\ Push(before, field, v) = Grown(j)
    <3>1. CASE j = 1
      <4>1. before = l
        BY <3>1
      <4>2. SubSeq(vs, 1, j) = Append(SubSeq(vs, 1, j - 1), v) /\ SubSeq(vs, 1, j - 1) \in Seq(Value) /\ Len(SubSeq(vs, 1, j - 1)) = j - 1
        BY <1>8
      <4>5. SubSeq(vs, 1, j - 1) = <<>>
        BY <3>1, <4>2, EmptySeq
      <4>6. Append(<<>>, v) = <<v>>
        OBVIOUS
      <4>3. SubSeq(vs, 1, j) = <<v>>
        BY <4>2, <4>5, <4>6
      <4> HIDE DEF v
      <4>4. Push(l, field, v) = Append(l, [field |-> field, values |-> <<v>>])
        BY <2>3, PushNew
      <4> QED
        BY <4>1, <4>3, <4>4
    <3>2. CASE j # 1
      <4> DEFINE s == SubSeq(vs, 1, j - 1)
      <4>1. before = Append(l, [field |-> field, values |-> s])
        BY <3>2
      <4>5. s \in Seq(Value) /\ Len(s) = j - 1 /\ SubSeq(vs, 1, j) = Append(s, v)
        BY <1>8
      <4>6. Len(s) # 0
        BY <3>2, <4>5
      <4>2. s \in Seq(Value) /\ s # <<>> /\ SubSeq(vs, 1, j) = Append(s, v)
        BY <4>5, <4>6, EmptySeq
      <4> HIDE DEF s, v
      <4>3. Append(l, [field |-> field, values |-> s]) \in Lists
            /\ Push(Append(l, [field |-> field, values |-> s]), field, v) = Append(l, [field |-> field, values |-> Append(s, v)])
        BY <2>3, <4>2, PushLast
      <4> QED
        BY <4>1, <4>2, <4>3
    <3> QED
      BY <3>1, <3>2
  <2> HIDE DEF before, v, q
  <2>7. NextValue(bytes, Ok(q, before), end, field) = Ok(q + Len(EncodeValue(v)), Push(before, field, v))
    <3>1. /\ bytes \in Name /\ end \in Nat /\ end <= Len(bytes) /\ field \in Name
          /\ q \in Nat /\ before \in Lists /\ v \in Value /\ Len(v.name) \in U32 /\ Len(v.version) \in U32
          /\ At(bytes, q, EncodeValue(v)) /\ q + Len(EncodeValue(v)) <= end
      BY <2>3, <2>4, <2>5, <2>6
    <3> QED
      BY ONLY <3>1, NextValueAtEncoded
  <2>8. g[j] = Ok(p + Len(f[j]), Grown(j))
    BY <1>6, <2>2, <2>4, <2>6, <2>7
  <2> QED
    BY <2>1, <2>8
<1> HIDE DEF S
<1>11. 0..n \subseteq S
  BY <1>1, <1>9, <1>10, InductionUpTo
<1>12. g[n] = Ok(p + Len(f[n]), Grown(n))
  BY <1>1, <1>11 DEF S
<1>13. SubSeq(vs, 1, n) = vs
  BY SubSeqFull DEF n
<1> QED
  BY <1>1, <1>2, <1>5, <1>12, <1>13 DEF c, ps, n

(* One field that was written is read, with its values.                     *)
LEMMA NextFieldAtEncoded ==
  ASSUME NEW bytes \in Name, NEW end \in Nat, end <= Len(bytes), NEW p \in Nat, NEW l \in Lists,
         NEW g \in GroupType, g.values # <<>>, \A i \in 1..Len(l) : l[i].field # g.field, ShortGroup(g),
         At(bytes, p, EncodeField(g)), p + Len(EncodeField(g)) <= end
  PROVE  NextField(bytes, Ok(p, l), end) = Ok(p + Len(EncodeField(g)), Append(l, g))
<1> DEFINE a == EncodeName(g.field)
           b == EncodeU32(Len(g.values))
           c == FlattenSeq(ValuePieces(g.values))
           q == p + Len(a)
           r == q + Len(b)
           s == p + Len(EncodeField(g))
<1>1. g.field \in Name /\ g.values \in Seq(Value) /\ Len(g.values) \in U32 /\ Len(g.field) \in U32 /\ g = [field |-> g.field, values |-> g.values]
  BY EncodeFieldType DEF ShortGroup, GroupType
<1>2. a \in Name /\ b \in Name /\ c \in Name /\ Len(a) \in Nat /\ Len(b) \in Nat /\ Len(c) \in Nat
  <2>1. a \in Name /\ c \in Name
    BY <1>1, EncodeNameType, EncodeFieldType
  <2>2. b \in Name
    BY <1>1, EncodeU32Type DEF U32
  <2> HIDE DEF a, b, c
  <2> QED
    BY <2>1, <2>2, LenProperties DEF Name
<1>3. EncodeField(g) = (a \o b) \o c /\ Len(EncodeField(g)) = Len(a) + Len(b) + Len(c)
  BY EncodeFieldType
<1> HIDE DEF a, b, c
<1>4. q \in Nat /\ r \in Nat /\ s = r + Len(c) /\ q <= end /\ r <= end /\ s <= end /\ s \in Nat
  BY <1>2, <1>3
<1>5. At(bytes, p, a) /\ At(bytes, q, b) /\ At(bytes, r, c)
  <2>1. (a \o b) \in Name /\ Len(a \o b) = Len(a) + Len(b)
    BY <1>2, ConcatProperties DEF Name
  <2>2. At(bytes, p, a \o b) /\ At(bytes, p + Len(a \o b), c)
    BY <1>2, <1>3, <2>1, AtConcat
  <2>3. At(bytes, p, a) /\ At(bytes, q, b)
    BY <1>2, <2>2, AtConcat
  <2>4. p + Len(a \o b) = r
    BY <1>2, <2>1
  <2> QED
    BY <2>2, <2>3, <2>4
<1> HIDE DEF s
<1>6. ReadName(bytes, p, end) = Ok(q, g.field)
  BY <1>1, <1>4, <1>5, ReadNameAtEncoded DEF a
<1> HIDE DEF q
<1>7. ReadU32(bytes, q) = Ok(r, Len(g.values))
  BY <1>1, <1>4, <1>5, ReadU32AtEncoded DEF b
<1> HIDE DEF r
<1>8. ParseValues(bytes, Ok(r, l), end, g.field, Len(g.values)) = Ok(s, Append(l, g))
  <2> DEFINE vs == g.values
             k == g.field
  <2>1. /\ bytes \in Name /\ end \in Nat /\ end <= Len(bytes) /\ r \in Nat /\ l \in Lists /\ k \in Name
        /\ (\A i \in 1..Len(l) : l[i].field # k) /\ vs \in Seq(Value) /\ vs # <<>>
        /\ (\A j \in 1..Len(vs) : Len(vs[j].name) \in U32 /\ Len(vs[j].version) \in U32)
        /\ At(bytes, r, FlattenSeq(ValuePieces(vs))) /\ r + Len(FlattenSeq(ValuePieces(vs))) <= end
    BY <1>1, <1>4, <1>5 DEF c, ShortGroup
  <2>2. g = [field |-> k, values |-> vs] /\ s = r + Len(FlattenSeq(ValuePieces(vs)))
    BY <1>1, <1>4 DEF c
  <2> HIDE DEF vs, k
  <2>3. ParseValues(bytes, Ok(r, l), end, k, Len(vs)) = Ok(r + Len(FlattenSeq(ValuePieces(vs))), Append(l, [field |-> k, values |-> vs]))
    BY ONLY <2>1, ValuesComeBack
  <2> QED
    BY <2>2, <2>3 DEF vs, k
<1> DEFINE sofar == Ok(p, l)
           field == ReadName(bytes, sofar.pos, end)
           count == ReadU32(bytes, field.pos)
<1>9. sofar.ok /\ sofar.pos = p /\ sofar.val = l
  BY DEF Ok
<1>10. field.ok /\ field.pos = q /\ field.val = g.field
  BY <1>6, <1>9 DEF Ok
<1>11. count.ok /\ count.pos = r /\ count.val = Len(g.values)
  BY <1>7, <1>10 DEF Ok
<1>12. NextField(bytes, sofar, end) =
         IF sofar.ok /\ field.ok /\ count.ok THEN ParseValues(bytes, Ok(count.pos, sofar.val), end, field.val, count.val) ELSE Fail
  BY DEF NextField
<1> HIDE DEF sofar, field, count
<1>13. NextField(bytes, sofar, end) = Ok(s, Append(l, g))
  BY <1>8, <1>9, <1>10, <1>11, <1>12
<1> QED
  BY <1>13 DEF sofar, s

(* The groups of a list up to one of them.                                  *)
LEMMA ListsGrow ==
  ASSUME NEW l \in Lists, NEW i \in 1..Len(l)
  PROVE  /\ SubSeq(l, 1, i - 1) \in Lists /\ SubSeq(l, 1, i) = Append(SubSeq(l, 1, i - 1), l[i])
         /\ Len(SubSeq(l, 1, i - 1)) = i - 1
         /\ \A j \in 1..Len(SubSeq(l, 1, i - 1)) : SubSeq(l, 1, i - 1)[j].field # l[i].field
<1> DEFINE m == SubSeq(l, 1, i - 1)
<1>1. l \in Seq(GroupType) /\ Len(l) \in Nat
  BY ListsAt
<1>2. m \in Seq(GroupType) /\ Len(m) = i - 1 /\ (\A j \in 1..(i - 1) : m[j] = l[j]) /\ SubSeq(l, 1, i) = Append(m, l[i])
  BY <1>1, SubSeqGrows
<1> HIDE DEF m
<1>3. \A j \in 1..(i - 1) : j \in 1..Len(l) /\ j # i
  BY <1>1
<1>4. \A j \in 1..(i - 1) : Len(m[j].values) # 0 /\ m[j].field # l[i].field
  <2> SUFFICES ASSUME NEW j \in 1..(i - 1) PROVE Len(m[j].values) # 0 /\ m[j].field # l[i].field
    OBVIOUS
  <2>1. m[j] = l[j] /\ j \in 1..Len(l) /\ j # i
    BY <1>2, <1>3
  <2>2. Len(l[j].values) # 0 /\ l[j].field # l[i].field
    BY <2>1 DEF Lists
  <2> QED
    BY <2>1, <2>2
<1>5. ASSUME NEW j \in 1..(i - 1), NEW k \in 1..(i - 1), m[j].field = m[k].field PROVE j = k
  <2>1. l[j].field = l[k].field /\ j \in 1..Len(l) /\ k \in 1..Len(l)
    BY <1>2, <1>3, <1>5
  <2> QED
    BY <2>1 DEF Lists
<1>6. m \in Lists
  BY <1>2, <1>4, <1>5 DEF Lists
<1> QED
  BY <1>2, <1>4, <1>6 DEF m

(* All fields come back, in their order.                                    *)
LEMMA FieldsComeBack ==
  ASSUME NEW bytes \in Name, NEW end \in Nat, end <= Len(bytes), NEW p \in Nat, NEW l \in Lists, Short(l),
         At(bytes, p, FlattenSeq(FieldPieces(l))), p + Len(FlattenSeq(FieldPieces(l))) <= end
  PROVE  ParseFields(bytes, p, end, Len(l)) = Ok(p + Len(FlattenSeq(FieldPieces(l))), l)
<1> DEFINE ps == FieldPieces(l)
           n == Len(l)
           c == FlattenSeq(ps)
<1>1. ps \in Seq(Name) /\ Len(ps) = n /\ n \in Nat /\ (\A i \in 1..n : l[i] \in GroupType /\ ps[i] = EncodeField(l[i])) /\ l \in Seq(GroupType)
  BY ListsAt, FieldPiecesType
<1>a. At(bytes, p, c) /\ p + Len(c) <= end
  OBVIOUS
<1> HIDE DEF ps, n
<1>2. PICK f : UpTo(f, ps) /\ c = f[Len(ps)]
  BY <1>1, Flattened
<1> HIDE DEF c
<1>3. \A j \in 1..n : At(bytes, p + Len(f[j - 1]), ps[j])
  BY <1>1, <1>2, <1>a, UpToAt
<1>5. PICK g : FieldsOf(g, bytes, p, end, n) /\ ParseFields(bytes, p, end, n) = g[n]
  BY <1>1, FieldsParsed
<1>6. g[0] = Ok(p, <<>>) /\ \A j \in 1..n : g[j] = NextField(bytes, g[j - 1], end)
  BY <1>5 DEF FieldsOf
<1>7. Len(f[0]) = 0 /\ (\A j \in 1..n : Len(f[j]) = Len(f[j - 1]) + Len(ps[j]) /\ Len(ps[j]) \in Nat)
      /\ \A j \in 0..n : Len(f[j]) \in Nat /\ p + Len(f[j]) <= end
  <2>1. Len(f[0]) = 0 /\ (\A j \in 1..n : Len(f[j]) = Len(f[j - 1]) + Len(ps[j]) /\ Len(ps[j]) \in Nat)
        /\ \A j \in 0..n : Len(f[j]) \in Nat /\ Len(f[j]) <= Len(c)
    BY <1>1, <1>2, UpToLengths
  <2>3. Len(c) \in Nat
    <3>1. n \in 0..n
      BY <1>1
    <3> QED
      BY <1>1, <1>2, <2>1, <3>1
  <2>4. ASSUME NEW j \in 0..n PROVE Len(f[j]) \in Nat /\ p + Len(f[j]) <= end
    <3> DEFINE x == Len(f[j])
               y == Len(c)
    <3>1. x \in Nat /\ x <= y /\ y \in Nat /\ p + y <= end
      BY <1>a, <2>1, <2>3
    <3> HIDE DEF x, y
    <3>2. x \in Nat /\ p + x <= end
      BY <3>1
    <3> QED
      BY <3>2 DEF x
  <2> QED
    BY <2>1, <2>4
<1> DEFINE S == {j \in 0..n : g[j] = Ok(p + Len(f[j]), SubSeq(l, 1, j))}
<1>9. 0 \in S
  <2>1. SubSeq(l, 1, 0) = <<>>
    BY <1>1, SubSeqEmpty
  <2>2. 0 \in 0..n /\ p + Len(f[0]) = p
    BY <1>1, <1>7
  <2> QED
    BY <1>6, <2>1, <2>2
<1>10. ASSUME NEW j \in 1..n, j - 1 \in S PROVE j \in S
  <2> DEFINE before == SubSeq(l, 1, j - 1)
             h == l[j]
             q == p + Len(f[j - 1])
  <2>1. j - 1 \in 0..n /\ j \in 0..n
    BY <1>1
  <2>2. g[j - 1] = Ok(q, before)
    BY <1>10
  <2>3. h \in GroupType /\ ps[j] = EncodeField(h) /\ h.values # <<>> /\ ShortGroup(h)
    <3>1. h \in GroupType /\ ps[j] = EncodeField(h)
      BY <1>1
    <3>2. Len(h.values) # 0
      BY DEF n, Lists
    <3>3. ShortGroup(h)
      BY DEF n, Short, ShortGroup
    <3> QED
      BY <3>1, <3>2, <3>3, EmptySeq
  <2>4. q \in Nat /\ q + Len(EncodeField(h)) = p + Len(f[j]) /\ q + Len(EncodeField(h)) <= end
    <3> DEFINE x == Len(f[j - 1])
               y == Len(ps[j])
               z == Len(f[j])
    <3>3. x \in Nat /\ y \in Nat /\ z = x + y /\ p + z <= end
      BY <1>7, <2>1
    <3> HIDE DEF x, y, z, h
    <3>4. p + x \in Nat /\ p + x + y = p + z /\ p + x + y <= end
      BY <3>3
    <3> QED
      BY <2>3, <3>4 DEF x, y, z
  <2>5. At(bytes, q, EncodeField(h))
    BY <1>3, <2>3
  <2>6. before \in Lists /\ SubSeq(l, 1, j) = Append(before, h) /\ \A i \in 1..Len(before) : before[i].field # h.field
    BY ListsGrow DEF n
  <2> HIDE DEF before, h, q
  <2>7. NextField(bytes, Ok(q, before), end) = Ok(q + Len(EncodeField(h)), Append(before, h))
    <3>1. /\ bytes \in Name /\ end \in Nat /\ end <= Len(bytes)
          /\ q \in Nat /\ before \in Lists /\ h \in GroupType /\ h.values # <<>> /\ (\A i \in 1..Len(before) : before[i].field # h.field)
          /\ ShortGroup(h) /\ At(bytes, q, EncodeField(h)) /\ q + Len(EncodeField(h)) <= end
      BY <2>3, <2>4, <2>5, <2>6
    <3> QED
      BY ONLY <3>1, NextFieldAtEncoded
  <2>8. g[j] = Ok(p + Len(f[j]), SubSeq(l, 1, j))
    BY <1>6, <2>2, <2>4, <2>6, <2>7
  <2> QED
    BY <2>1, <2>8
<1> HIDE DEF S
<1>11. 0..n \subseteq S
  BY <1>1, <1>9, <1>10, InductionUpTo
<1>12. g[n] = Ok(p + Len(f[n]), SubSeq(l, 1, n))
  BY <1>1, <1>11 DEF S
<1>13. SubSeq(l, 1, n) = l
  BY <1>1, SubSeqFull DEF n
<1> QED
  BY <1>1, <1>2, <1>5, <1>12, <1>13 DEF c, ps, n

(* What was written of a list is read as that list.                         *)
LEMMA ProducersComeBack ==
  ASSUME NEW bytes \in Name, NEW start \in Nat, NEW l \in Lists, Short(l), At(bytes, start, Content(l))
  PROVE  ParseProducers(bytes, start, start + Len(Content(l))) = Ok(start + Len(Content(l)), l)
<1> DEFINE b == EncodeU32(Len(l))
           c == FlattenSeq(FieldPieces(l))
           q == start + Len(b)
           end == start + Len(Content(l))
<1>1. b \in Name /\ c \in Name /\ Len(b) \in Nat /\ Len(c) \in Nat /\ Len(Content(l)) = Len(b) + Len(c) /\ Content(l) = b \o c
  BY ContentType, LenProperties DEF Content, Name
<1>2. Len(l) \in U32
  BY DEF Short
<1> HIDE DEF b, c
<1>3. At(bytes, start, b) /\ At(bytes, q, c)
  BY <1>1, AtConcat
<1>4. q \in Nat /\ end \in Nat /\ end = q + Len(c) /\ end <= Len(bytes)
  BY <1>1 DEF At
<1>5. ReadU32(bytes, start) = Ok(q, Len(l))
  BY <1>2, <1>3, ReadU32AtEncoded DEF b
<1> HIDE DEF q, end
<1>6. ParseFields(bytes, q, end, Len(l)) = Ok(end, l)
  BY <1>3, <1>4, FieldsComeBack DEF c
<1> DEFINE count == ReadU32(bytes, start)
           fields == ParseFields(bytes, count.pos, end, count.val)
<1>7. count.ok /\ count.pos = q /\ count.val = Len(l)
  BY <1>5 DEF Ok
<1>8. fields = Ok(end, l) /\ fields.ok /\ fields.pos = end
  BY <1>6, <1>7 DEF Ok
<1>9. ParseProducers(bytes, start, end) = IF count.ok /\ fields.ok /\ fields.pos = end THEN fields ELSE Fail
  BY DEF ParseProducers
<1> HIDE DEF count, fields
<1>10. ParseProducers(bytes, start, end) = Ok(end, l)
  BY <1>7, <1>8, <1>9
<1> QED
  BY <1>10 DEF end

(* A section ends after it starts, and within the file; so does a place.    *)
LEMMA SectionAtType ==
  ASSUME NEW bytes \in Name, NEW pos \in Nat, SectionAt(bytes, pos).ok
  PROVE  LET section == SectionAt(bytes, pos) IN
         /\ section.pos \in Nat /\ pos < section.pos /\ section.pos <= Len(bytes)
         /\ section = Ok(section.pos, section.val)
         /\ section.val # <<>> => \E c \in Nat : pos < c /\ c <= section.pos /\ section.val = <<pos, c, section.pos>>
<1> DEFINE len == ReadU32(bytes, pos + 1)
           end == len.pos + len.val
           name == ReadName(bytes, len.pos, end)
           section == SectionAt(bytes, pos)
<1>1. section = IF ~len.ok \/ end > Len(bytes) THEN Fail
                ELSE IF bytes[pos + 1] # 0 THEN Ok(end, <<>>)
                ELSE IF ~name.ok THEN Fail
                ELSE Ok(end, IF name.val = ProducersName THEN <<pos, name.pos, end>> ELSE <<>>)
  BY DEF SectionAt
<1>2. len.ok /\ ~(end > Len(bytes))
  BY <1>1 DEF Fail
<1>3. len.pos \in Nat /\ pos + 1 < len.pos /\ len.val \in Nat
  BY <1>2, ReadU32Type DEF U32
<1> HIDE DEF len
<1>4. Len(bytes) \in Nat
  BY LenProperties DEF Name
<1>5. end \in Nat /\ pos < end /\ end <= Len(bytes)
  BY <1>2, <1>3, <1>4
<1> HIDE DEF end
<1>6. CASE bytes[pos + 1] # 0
  <2>1. section = Ok(end, <<>>)
    BY <1>1, <1>2, <1>6
  <2>2. section.pos = end /\ section.val = <<>>
    BY <2>1 DEF Ok
  <2> QED
    BY <1>5, <2>1, <2>2
<1>7. CASE bytes[pos + 1] = 0
  <2>1. name.ok /\ section = Ok(end, IF name.val = ProducersName THEN <<pos, name.pos, end>> ELSE <<>>)
    BY <1>1, <1>2, <1>7 DEF Fail
  <2>2. name.pos \in Nat /\ len.pos < name.pos /\ name.pos <= end
    BY <1>3, <1>5, <2>1, ReadNameType
  <2> HIDE DEF name
  <2>3. pos < name.pos
    BY <1>3, <2>2
  <2>4. section.pos = end /\ section.val = (IF name.val = ProducersName THEN <<pos, name.pos, end>> ELSE <<>>)
    BY <2>1 DEF Ok
  <2> HIDE DEF section
  <2>5. section.pos = end /\ section = Ok(section.pos, section.val) /\ (section.val # <<>> => section.val = <<pos, name.pos, section.pos>>)
    BY <2>1, <2>4
  <2> QED
    BY <1>5, <2>2, <2>3, <2>5 DEF section
<1> QED
  BY <1>6, <1>7

(* A section that ends within the limit is seen the same in both files.    *)
LEMMA SectionAtSame ==
  ASSUME NEW bytes \in Name, NEW other \in Name, NEW pos \in Nat, NEW limit \in Nat, Same(bytes, other, limit),
         SectionAt(bytes, pos).ok, SectionAt(bytes, pos).pos <= limit
  PROVE  SectionAt(other, pos) = SectionAt(bytes, pos)
<1> DEFINE len == ReadU32(bytes, pos + 1)
           end == len.pos + len.val
           name == ReadName(bytes, len.pos, end)
           section == SectionAt(bytes, pos)
<1>1. section = IF ~len.ok \/ end > Len(bytes) THEN Fail
                ELSE IF bytes[pos + 1] # 0 THEN Ok(end, <<>>)
                ELSE IF ~name.ok THEN Fail
                ELSE Ok(end, IF name.val = ProducersName THEN <<pos, name.pos, end>> ELSE <<>>)
  BY DEF SectionAt
<1>2. len.ok /\ ~(end > Len(bytes)) /\ section.pos = end /\ (bytes[pos + 1] = 0 => name.ok)
  <2> HIDE DEF len, name, end
  <2> QED
    BY <1>1 DEF Fail, Ok
<1>3. len.pos \in Nat /\ pos + 1 < len.pos /\ len.val \in Nat
  BY <1>2, ReadU32Type DEF U32
<1>4. Len(bytes) \in Nat /\ Len(other) \in Nat /\ limit <= Len(bytes) /\ limit <= Len(other)
  BY LenProperties DEF Name, Same
<1>5. end \in Nat /\ len.pos <= limit /\ end <= limit /\ ~(end > Len(other)) /\ pos + 1 \in 1..limit
  <2> HIDE DEF len
  <2> QED
    BY <1>2, <1>3, <1>4
<1>6. ReadU32(other, pos + 1) = len
  BY <1>2, <1>3, <1>5, ReadU32Same
<1>7. other[pos + 1] = bytes[pos + 1]
  BY <1>5 DEF Same
<1>8. bytes[pos + 1] = 0 => ReadName(other, len.pos, end) = name
  <2> HIDE DEF len, end
  <2> QED
    BY <1>2, <1>3, <1>5, ReadNameSame
<1>9. SectionAt(other, pos) =
        LET oname == ReadName(other, len.pos, end) IN
                IF ~len.ok \/ end > Len(other) THEN Fail
                ELSE IF other[pos + 1] # 0 THEN Ok(end, <<>>)
                ELSE IF ~oname.ok THEN Fail
                ELSE Ok(end, IF oname.val = ProducersName THEN <<pos, oname.pos, end>> ELSE <<>>)
  BY <1>6 DEF SectionAt
<1> HIDE DEF len, name, end
<1>10. CASE bytes[pos + 1] # 0
  BY <1>1, <1>2, <1>5, <1>7, <1>9, <1>10
<1>11. CASE bytes[pos + 1] = 0
  BY <1>1, <1>2, <1>5, <1>7, <1>8, <1>9, <1>11
<1> QED
  BY <1>10, <1>11

(* The section that is written is found where it is.                        *)
LEMMA SectionAtWritten ==
  ASSUME NEW bytes \in Name, NEW pos \in Nat, NEW l \in Lists, IsU32(Len(EncodePayload(l))),
         At(bytes, pos, EncodeProducersSection(l))
  PROVE  /\ EncodeProducersSection(l) \in Name /\ Len(EncodeProducersSection(l)) \in Nat \ {0}
         /\ \E c \in Nat : LET end == pos + Len(EncodeProducersSection(l)) IN
              /\ SectionAt(bytes, pos) = Ok(end, <<pos, c, end>>)
              /\ At(bytes, c, Content(l)) /\ end = c + Len(Content(l))
<1> DEFINE a == <<0>>
           m == Len(EncodePayload(l))
           b == EncodeU32(m)
           d == EncodeName(ProducersName)
           e == Content(l)
           w == EncodeProducersSection(l)
           end == pos + Len(w)
<1>1. m \in U32 /\ m \in Nat /\ d \in Name /\ EncodePayload(l) = d \o e /\ EncodePayload(l) \in Name /\ m = Len(d) + Len(e) /\ e \in Name /\ Len(e) \in Nat
  BY PayloadIs, ContentType DEF U32
<1>2. a \in Name /\ Len(a) = 1 /\ a[1] = 0
  BY DEF Name, Byte
<1>3. b \in Name /\ Len(b) \in Nat
  BY <1>1, EncodeU32Type
<1>4. w = (a \o b) \o EncodePayload(l)
  BY DEF EncodeProducersSection
<1>5. Len(d) \in Nat
  BY <1>1, LenProperties DEF Name
<1> HIDE DEF a, b, d, e, w
<1>6. a \o b \in Name /\ Len(a \o b) = 1 + Len(b)
  <2>1. a \in Seq(Byte) /\ b \in Seq(Byte)
    BY <1>2, <1>3 DEF Name
  <2>2. a \o b \in Seq(Byte) /\ Len(a \o b) = Len(a) + Len(b)
    BY <2>1, ConcatProperties
  <2> QED
    BY <1>2, <2>2 DEF Name
<1>7. w \in Name /\ Len(w) = 1 + Len(b) + m
  BY <1>1, <1>4, <1>6, ConcatProperties DEF Name
<1> HIDE DEF m
<1>8. Len(w) \in Nat \ {0}
  BY <1>1, <1>3, <1>7
<1>9. At(bytes, pos, a) /\ At(bytes, pos + 1, b) /\ At(bytes, pos + 1 + Len(b), d) /\ At(bytes, pos + 1 + Len(b) + Len(d), e) /\ end <= Len(bytes)
  <2>1. At(bytes, pos, w)
    BY DEF w
  <2>2. At(bytes, pos, a \o b) /\ At(bytes, pos + Len(a \o b), d \o e)
    BY <1>1, <1>4, <1>6, <2>1, AtConcat
  <2>3. At(bytes, pos, a) /\ At(bytes, pos + Len(a), b)
    BY <1>2, <1>3, <2>2, AtConcat
  <2>4. pos + Len(a \o b) = pos + 1 + Len(b) /\ pos + Len(a) = pos + 1 /\ pos + 1 + Len(b) \in Nat
    BY <1>2, <1>3, <1>6
  <2>5. At(bytes, pos + 1 + Len(b), d \o e)
    BY <2>2, <2>4
  <2>6. At(bytes, pos + 1 + Len(b), d) /\ At(bytes, pos + 1 + Len(b) + Len(d), e)
    BY <1>1, <2>4, <2>5, AtConcat
  <2>7. end <= Len(bytes)
    BY <2>1 DEF At
  <2> QED
    BY <2>3, <2>4, <2>6, <2>7
<1> DEFINE q == pos + 1 + Len(b)
           c == q + Len(d)
<1>10. q \in Nat /\ c \in Nat /\ end \in Nat /\ end = q + m /\ end = c + Len(e) /\ c <= end
  BY <1>1, <1>3, <1>5, <1>7
<1>11. ReadU32(bytes, pos + 1) = Ok(q, m)
  <2>1. ReadU32(bytes, pos + 1) = Ok(pos + 1 + Len(b), m)
    BY <1>1, <1>9, ReadU32AtEncoded DEF b
  <2> QED
    BY <2>1
<1>12. bytes[pos + 1] = 0
  <2>1. 1 \in 1..Len(a)
    BY <1>2
  <2>2. bytes[pos + 1] = a[1]
    BY <1>9, <2>1 DEF At
  <2> QED
    BY <1>2, <2>2
<1> HIDE DEF q, end
<1>13. ReadName(bytes, q, end) = Ok(c, ProducersName)
  <2>1. ProducersName \in Name /\ Len(ProducersName) = 1
    BY DEF ProducersName, Name, Byte
  <2>2. Len(ProducersName) \in U32
    <3>1. 1 \in U32
      BY SMT DEF U32, IsU32
    <3> QED
      BY <2>1, <3>1
  <2>3. At(bytes, q, d) /\ q + Len(d) <= end
    BY <1>9, <1>10 DEF q
  <2> QED
    BY <1>10, <2>1, <2>2, <2>3, ReadNameAtEncoded DEF d
<1> HIDE DEF c
<1> DEFINE len == ReadU32(bytes, pos + 1)
           stop == len.pos + len.val
           name == ReadName(bytes, len.pos, stop)
<1>14. len.ok /\ len.pos = q /\ stop = end
  BY <1>10, <1>11 DEF Ok
<1>15. name.ok /\ name.pos = c /\ name.val = ProducersName
  BY <1>13, <1>14 DEF Ok
<1>16. SectionAt(bytes, pos) =
                IF ~len.ok \/ stop > Len(bytes) THEN Fail
                ELSE IF bytes[pos + 1] # 0 THEN Ok(stop, <<>>)
                ELSE IF ~name.ok THEN Fail
                ELSE Ok(stop, IF name.val = ProducersName THEN <<pos, name.pos, stop>> ELSE <<>>)
  BY DEF SectionAt
<1>17. ~(end > Len(bytes))
  <2>1. Len(bytes) \in Nat
    BY LenProperties DEF Name
  <2> QED
    BY <1>9, <1>10, <2>1
<1> HIDE DEF len, stop, name
<1>18. SectionAt(bytes, pos) = Ok(end, <<pos, c, end>>)
  BY <1>12, <1>14, <1>15, <1>16, <1>17
<1>19. At(bytes, c, e)
  BY <1>9 DEF c, q
<1> QED
  BY <1>7, <1>8, <1>10, <1>18, <1>19 DEF w, e, end

-----------------------------------------------------------------------------
(* Induction from a number down: what every number is in when all above    *)
(* are.                                                                    *)
LEMMA InductionDown ==
  ASSUME NEW n \in Nat, NEW S, n \in S, \A i \in 0..(n - 1) : ((i + 1)..n \subseteq S) => i \in S
  PROVE  0..n \subseteq S
<1> DEFINE T == {k \in Nat : (n - k)..n \cap Nat \subseteq S}
<1>1. 0 \in T
  <2>1. \A i \in (n - 0)..n : i = n
    OBVIOUS
  <2> QED
    BY <2>1
<1>2. ASSUME NEW k \in T \cap Nat PROVE k + 1 \in T
  <2> DEFINE i == n - (k + 1)
  <2>1. k \in Nat /\ i + 1 = n - k /\ i \in Int
    OBVIOUS
  <2>2. CASE i \in Nat
    <3>1. i \in 0..(n - 1)
      BY <2>1, <2>2
    <3>2. (n - k)..n \subseteq S
      <4>1. (n - k)..n \subseteq Nat
        BY <2>1, <2>2
      <4> QED
        BY <4>1
    <3>3. i \in S
      BY <2>1, <3>1, <3>2
    <3>4. \A j \in i..n : j = i \/ j \in (n - k)..n
      BY <2>1
    <3> QED
      BY <3>2, <3>3, <3>4
  <2>3. CASE i \notin Nat
    <3>1. \A j \in i..n \cap Nat : j \in (n - k)..n
      BY <2>1, <2>3
    <3> QED
      BY <3>1
  <2> QED
    BY <2>2, <2>3
<1> HIDE DEF T
<1>3. Nat \subseteq T
  BY <1>1, <1>2, SetInduction
<1>4. n \in T
  BY <1>3
<1>5. 0..n \subseteq (n - n)..n \cap Nat
  OBVIOUS
<1> QED
  BY <1>4, <1>5 DEF T

(* The walk over the sections of a file, from each of its places.           *)
Ahead(h, bytes, pos) ==
  IF pos = Len(bytes) THEN Ok(pos, <<>>)
  ELSE IF SectionAt(bytes, pos).ok /\ SectionAt(bytes, pos).val = <<>> THEN h[SectionAt(bytes, pos).pos] ELSE SectionAt(bytes, pos)

(* The walk is a function that is of itself what find_producers_section    *)
(* does.                                                                   *)
Walk(h, bytes) == h = [pos \in 0..Len(bytes) |-> Ahead(h, bytes, pos)]

(* There is one, for every section ends behind its start.                  *)
LEMMA WalkExists == ASSUME NEW bytes \in Name PROVE \E h : Walk(h, bytes)
<1> DEFINE n == Len(bytes)
           S == {i \in 0..n : \E f : f = [pos \in i..n |-> Ahead(f, bytes, pos)]}
<1>1. n \in Nat
  BY LenProperties DEF Name
<1>2. n \in S
  <2> DEFINE f == [pos \in n..n |-> Ok(pos, <<>>)]
  <2>1. \A pos \in n..n : pos = n
    BY <1>1
  <2>2. f = [pos \in n..n |-> Ahead(f, bytes, pos)]
    BY <2>1 DEF Ahead
  <2> HIDE DEF f
  <2> QED
    BY <1>1, <2>2
<1>3. ASSUME NEW i \in 0..(n - 1), (i + 1)..n \subseteq S PROVE i \in S
  <2>1. i + 1 \in S /\ i \in 0..n /\ i # n
    BY <1>1, <1>3
  <2>2. PICK f : f = [pos \in (i + 1)..n |-> Ahead(f, bytes, pos)]
    BY <2>1
  <2> DEFINE g == [pos \in i..n |-> IF pos = i THEN Ahead(f, bytes, i) ELSE f[pos]]
  <2>3. \A pos \in (i + 1)..n : pos \in i..n /\ pos # i
    BY <1>1
  <2>4. \A pos \in (i + 1)..n : g[pos] = f[pos]
    BY <2>3
  <2>5. ASSUME NEW pos \in i..n PROVE Ahead(g, bytes, pos) = Ahead(f, bytes, pos)
    <3>1. CASE pos # n /\ SectionAt(bytes, pos).ok /\ SectionAt(bytes, pos).val = <<>>
      <4> DEFINE next == SectionAt(bytes, pos).pos
      <4>1. next \in Nat /\ pos < next /\ next <= n
        BY <3>1, <1>1, SectionAtType
      <4> HIDE DEF next, g
      <4>2. next \in (i + 1)..n
        BY <1>1, <4>1
      <4>3. g[next] = f[next]
        BY <2>4, <4>2
      <4> QED
        BY <3>1, <4>3 DEF Ahead, next
    <3>2. CASE ~(pos # n /\ SectionAt(bytes, pos).ok /\ SectionAt(bytes, pos).val = <<>>)
      <4> HIDE DEF g
      <4> QED
        BY <3>2 DEF Ahead
    <3> QED
      BY <3>1, <3>2
  <2>6. ASSUME NEW pos \in i..n PROVE (IF pos = i THEN Ahead(f, bytes, i) ELSE f[pos]) = Ahead(f, bytes, pos)
    <3>1. CASE pos = i
      BY <3>1
    <3>2. CASE pos # i
      <4>1. pos \in (i + 1)..n
        BY <1>1, <3>2
      <4>2. f[pos] = Ahead(f, bytes, pos)
        BY <2>2, <4>1
      <4> QED
        BY <3>2, <4>2
    <3> QED
      BY <3>1, <3>2
  <2>7. g = [pos \in i..n |-> Ahead(f, bytes, pos)]
    BY <2>6
  <2> HIDE DEF g
  <2>8. g = [pos \in i..n |-> Ahead(g, bytes, pos)]
    BY <2>5, <2>7
  <2> QED
    BY <2>1, <2>8
<1> HIDE DEF S
<1>4. 0..n \subseteq S
  BY <1>1, <1>2, <1>3, InductionDown
<1>5. 0 \in S
  BY <1>1, <1>4
<1> QED
  BY <1>5 DEF S, Walk

(* find_producers_section takes that walk.                                 *)
LEMMA FindFromIs ==
  ASSUME NEW bytes \in Name
  PROVE  \E h : Walk(h, bytes) /\ \A start \in 0..Len(bytes) : FindFrom(bytes, start) = h[start]
<1> DEFINE Step(g) == [pos \in 0..Len(bytes) |->
                         IF pos = Len(bytes) THEN Ok(pos, <<>>)
                         ELSE LET section == SectionAt(bytes, pos) IN
                              IF section.ok /\ section.val = <<>> THEN g[section.pos] ELSE section]
           h == CHOOSE g : g = Step(g)
<1>1. \A g : Walk(g, bytes) <=> g = Step(g)
  BY DEF Walk, Ahead
<1>2. \E g : g = Step(g)
  <2> HIDE DEF Step
  <2> QED
    BY <1>1, WalkExists
<1>3. h = Step(h)
  <2> HIDE DEF Step
  <2> QED
    BY <1>2
<1>4. \A start \in 0..Len(bytes) : FindFrom(bytes, start) = h[start]
  BY DEF FindFrom
<1> HIDE DEF Step, h
<1> QED
  BY <1>1, <1>3, <1>4

(* What the walk comes to: an error, the end of the file, or a place ahead. *)
LEMMA FindResult ==
  ASSUME NEW bytes \in Name, NEW h, Walk(h, bytes), NEW start \in 0..Len(bytes), h[start].ok
  PROVE  \/ h[start] = Ok(Len(bytes), <<>>)
         \/ \E s, c, e \in Nat : start <= s /\ s < c /\ c <= e /\ e <= Len(bytes) /\ h[start] = Ok(e, <<s, c, e>>)
<1> DEFINE n == Len(bytes)
           Fine(pos) == h[pos].ok =>
             \/ h[pos] = Ok(n, <<>>)
             \/ \E s, c, e \in Nat : pos <= s /\ s < c /\ c <= e /\ e <= n /\ h[pos] = Ok(e, <<s, c, e>>)
           S == {pos \in 0..n : Fine(pos)}
<1>1. n \in Nat /\ \A pos \in 0..n : h[pos] = Ahead(h, bytes, pos)
  BY LenProperties DEF Name, Walk
<1>2. n \in S
  BY <1>1 DEF Ahead
<1>3. ASSUME NEW i \in 0..(n - 1), (i + 1)..n \subseteq S PROVE i \in S
  <2>1. i \in 0..n /\ i \in Nat /\ i # n
    BY <1>1
  <2> DEFINE section == SectionAt(bytes, i)
  <2>2. h[i] = IF section.ok /\ section.val = <<>> THEN h[section.pos] ELSE section
    BY <1>1, <2>1 DEF Ahead
  <2>3. CASE ~section.ok
    BY <2>1, <2>2, <2>3
  <2>4. CASE section.ok /\ section.val = <<>>
    <3>1. section.pos \in Nat /\ i < section.pos /\ section.pos <= n
      BY <2>1, <2>4, SectionAtType
    <3>2. section.pos \in (i + 1)..n
      BY <1>1, <2>1, <3>1
    <3> DEFINE q == section.pos
    <3>3. Fine(q) /\ h[i] = h[q]
      BY <1>3, <2>2, <2>4, <3>2
    <3> HIDE DEF section, q
    <3>4. q \in Nat /\ i < q
      BY <3>1 DEF q
    <3>5. ASSUME h[q].ok, h[q] # Ok(n, <<>>)
          PROVE  \E s, c, e \in Nat : i <= s /\ s < c /\ c <= e /\ e <= n /\ h[q] = Ok(e, <<s, c, e>>)
      <4>1. PICK s, c, e \in Nat : q <= s /\ s < c /\ c <= e /\ e <= n /\ h[q] = Ok(e, <<s, c, e>>)
        BY <3>3, <3>5
      <4>2. i <= s
        BY <2>1, <3>4, <4>1
      <4> QED
        BY <4>1, <4>2
    <3>6. Fine(i)
      BY <3>3, <3>5
    <3> QED
      BY <2>1, <3>6
  <2>5. CASE section.ok /\ section.val # <<>>
    <3>1. PICK c \in Nat : i < c /\ c <= section.pos /\ section.val = <<i, c, section.pos>>
      BY <2>1, <2>5, SectionAtType
    <3>2. section.pos \in Nat /\ section.pos <= n /\ section = Ok(section.pos, section.val)
      BY <2>1, <2>5, SectionAtType
    <3>3. h[i] = section
      BY <2>2, <2>5
    <3> DEFINE e == section.pos
    <3>4. h[i] = Ok(e, <<i, c, e>>) /\ e \in Nat /\ e <= n /\ c <= e /\ i < c
      BY <3>1, <3>2, <3>3
    <3> HIDE DEF section, e
    <3>5. i <= i
      BY <2>1
    <3>6. Fine(i)
      BY <2>1, <3>4, <3>5
    <3> QED
      BY <2>1, <3>6
  <2> HIDE DEF section
  <2> QED
    BY <2>3, <2>4, <2>5
<1> HIDE DEF S
<1>4. 0..n \subseteq S
  BY <1>1, <1>2, <1>3, InductionDown
<1>5. start \in S
  BY <1>4
<1> QED
  BY <1>5 DEF S

(* Where the walk stops, and where a section is entered.                    *)
Stop(found) == IF found.val = <<>> THEN found.pos ELSE found.val[1]

(* The walk stops ahead of where it starts, within the file.               *)
LEMMA StopType ==
  ASSUME NEW bytes \in Name, NEW h, Walk(h, bytes), NEW start \in 0..Len(bytes), h[start].ok
  PROVE  Stop(h[start]) \in Nat /\ start <= Stop(h[start]) /\ Stop(h[start]) <= Len(bytes)
<1>1. Len(bytes) \in Nat /\ start \in Nat /\ start <= Len(bytes)
  BY LenProperties DEF Name
<1>2. CASE h[start] = Ok(Len(bytes), <<>>)
  BY <1>1, <1>2 DEF Stop, Ok
<1>3. CASE \E s, c, e \in Nat : start <= s /\ s < c /\ c <= e /\ e <= Len(bytes) /\ h[start] = Ok(e, <<s, c, e>>)
  <2>1. PICK s, c, e \in Nat : start <= s /\ s < c /\ c <= e /\ e <= Len(bytes) /\ h[start] = Ok(e, <<s, c, e>>)
    BY <1>3
  <2>2. h[start].val = <<s, c, e>> /\ <<s, c, e>> # <<>> /\ <<s, c, e>>[1] = s
    BY <2>1 DEF Ok
  <2>3. Stop(h[start]) = s
    BY <2>2 DEF Stop
  <2> QED
    BY <1>1, <2>1, <2>3
<1> QED
  BY <1>2, <1>3, FindResult

(* In a file that is the same up to there, the walk gets there too.         *)
LEMMA WalkOn ==
  ASSUME NEW bytes \in Name, NEW other \in Name, NEW h, NEW g, Walk(h, bytes), Walk(g, other),
         NEW start \in 0..Len(bytes), h[start].ok, Same(bytes, other, Stop(h[start]))
  PROVE  g[start] = g[Stop(h[start])]
<1> DEFINE n == Len(bytes)
           m == Len(other)
           Fine(pos) == h[pos].ok /\ Same(bytes, other, Stop(h[pos])) => g[pos] = g[Stop(h[pos])]
           S == {pos \in 0..n : Fine(pos)}
<1>1. n \in Nat /\ m \in Nat /\ (\A pos \in 0..n : h[pos] = Ahead(h, bytes, pos)) /\ \A pos \in 0..m : g[pos] = Ahead(g, other, pos)
  BY LenProperties DEF Name, Walk
<1>2. n \in S
  <2>1. n \in 0..n
    BY <1>1
  <2>2. h[n] = Ok(n, <<>>)
    BY <1>1, <2>1 DEF Ahead
  <2>3. Stop(h[n]) = n
    BY <2>2 DEF Stop, Ok
  <2> QED
    BY <2>1, <2>3
<1>3. ASSUME NEW i \in 0..(n - 1), (i + 1)..n \subseteq S PROVE i \in S
  <2>1. i \in 0..n /\ i \in Nat /\ i # n
    BY <1>1
  <2> DEFINE section == SectionAt(bytes, i)
  <2>2. h[i] = IF section.ok /\ section.val = <<>> THEN h[section.pos] ELSE section
    BY <1>1, <2>1 DEF Ahead
  <2>3. CASE ~section.ok
    BY <2>1, <2>2, <2>3
  <2>4. CASE section.ok /\ section.val = <<>>
    <3>1. section.pos \in Nat /\ i < section.pos /\ section.pos <= n
      BY <2>1, <2>4, SectionAtType
    <3> DEFINE q == section.pos
               s == Stop(h[q])
    <3>2. q \in (i + 1)..n /\ q \in 0..n
      BY <1>1, <2>1, <3>1
    <3>3. Fine(q) /\ h[i] = h[q]
      BY <1>3, <2>2, <2>4, <3>2
    <3>4. ASSUME h[i].ok, Same(bytes, other, Stop(h[i])) PROVE g[i] = g[Stop(h[i])]
      <4>1. h[q].ok /\ Stop(h[i]) = s /\ Same(bytes, other, s) /\ g[q] = g[s]
        BY <3>3, <3>4
      <4>2. s \in Nat /\ q <= s /\ s <= n
        <5> HIDE DEF q
        <5> QED
          BY <3>2, <4>1, StopType
      <4>3. s <= m
        BY <4>1 DEF Same
      <4>4. SectionAt(other, i) = section
        <5> HIDE DEF s
        <5> QED
          BY <2>1, <2>4, <4>1, <4>2, SectionAtSame
      <4> HIDE DEF s
      <4>5. i \in 0..m /\ i # m
        BY <1>1, <2>1, <3>1, <4>2, <4>3
      <4> HIDE DEF section
      <4>6. g[i] = g[section.pos]
        BY <1>1, <2>4, <4>4, <4>5 DEF Ahead
      <4> QED
        BY <4>1, <4>6
    <3> QED
      BY <2>1, <3>4
  <2>5. CASE section.ok /\ section.val # <<>>
    <3>1. PICK c \in Nat : i < c /\ c <= section.pos /\ section.val = <<i, c, section.pos>>
      BY <2>1, <2>5, SectionAtType
    <3>2. h[i] = section
      BY <2>2, <2>5
    <3> HIDE DEF section
    <3>3. section.val[1] = i
      BY <3>1
    <3>4. Stop(h[i]) = i
      BY <2>5, <3>2, <3>3 DEF Stop
    <3> QED
      BY <2>1, <3>4
  <2> HIDE DEF section
  <2> QED
    BY <2>3, <2>4, <2>5
<1> HIDE DEF S
<1>4. 0..n \subseteq S
  BY <1>1, <1>2, <1>3, InductionDown
<1>5. start \in S
  BY <1>4
<1> QED
  BY <1>5 DEF S

-----------------------------------------------------------------------------
(* Three pieces together, and each of them again.                           *)
LEMMA Spliced ==
  ASSUME NEW a \in Name, NEW b \in Name, NEW r \in Name
  PROVE  LET x == (a \o b) \o r IN
         /\ x \in Name /\ Len(x) = Len(a) + Len(b) + Len(r) /\ Len(a) \in Nat /\ Len(b) \in Nat /\ Len(r) \in Nat
         /\ Same(a, x, Len(a)) /\ At(x, Len(a), b)
         /\ SubSeq(x, 1, Len(a)) = a /\ SubSeq(x, Len(a) + Len(b) + 1, Len(x)) = r
<1> DEFINE y == a \o b
           x == y \o r
           p == Len(a) + Len(b)
<1>1. a \in Seq(Byte) /\ b \in Seq(Byte) /\ r \in Seq(Byte) /\ Len(a) \in Nat /\ Len(b) \in Nat /\ Len(r) \in Nat
  BY LenProperties DEF Name
<1>2. y \in Seq(Byte) /\ Len(y) = p /\ \A i \in 1..p : y[i] = IF i <= Len(a) THEN a[i] ELSE b[i - Len(a)]
  BY <1>1, ConcatProperties
<1> HIDE DEF y
<1>3. x \in Seq(Byte) /\ Len(x) = Len(y) + Len(r) /\ \A i \in 1..(Len(y) + Len(r)) : x[i] = IF i <= Len(y) THEN y[i] ELSE r[i - Len(y)]
  <2>1. y \in Seq(Byte) /\ r \in Seq(Byte)
    BY <1>1, <1>2
  <2> QED
    BY ONLY <2>1, ConcatProperties
<1> HIDE DEF x
<1>4. Len(x) = p + Len(r) /\ p \in Nat /\ Len(x) \in Nat
  BY <1>1, <1>2, <1>3
<1>5. \A i \in 1..Len(a) : x[i] = a[i]
  <2> SUFFICES ASSUME NEW i \in 1..Len(a) PROVE x[i] = a[i]
    OBVIOUS
  <2>1. i \in 1..p /\ i <= Len(a) /\ i <= Len(y) /\ i \in 1..(Len(y) + Len(r))
    BY <1>1, <1>2
  <2> QED
    BY <1>2, <1>3, <2>1
<1>6. \A i \in 1..Len(b) : x[Len(a) + i] = b[i]
  <2> SUFFICES ASSUME NEW i \in 1..Len(b) PROVE x[Len(a) + i] = b[i]
    OBVIOUS
  <2> DEFINE j == Len(a) + i
  <2>1. j \in 1..p /\ ~(j <= Len(a)) /\ j <= Len(y) /\ j \in 1..(Len(y) + Len(r)) /\ j - Len(a) = i
    BY <1>1, <1>2
  <2> HIDE DEF j
  <2>2. x[j] = b[j - Len(a)]
    BY <1>2, <1>3, <2>1
  <2> QED
    BY <2>1, <2>2 DEF j
<1>7. \A i \in 1..Len(r) : x[p + i] = r[i]
  <2> SUFFICES ASSUME NEW i \in 1..Len(r) PROVE x[p + i] = r[i]
    OBVIOUS
  <2> DEFINE j == p + i
  <2>1. ~(j <= Len(y)) /\ j \in 1..(Len(y) + Len(r)) /\ j - Len(y) = i
    BY <1>1, <1>2
  <2> HIDE DEF j, p
  <2>2. x[j] = r[j - Len(y)]
    BY <1>3, <2>1
  <2> QED
    BY <2>1, <2>2 DEF j
<1>8. \A i \in 1..Len(x) : x[i] \in Byte
  BY <1>3, ElementOfSeq
<1>9. SubSeq(x, 1, Len(a)) = a
  <2> DEFINE s == SubSeq(x, 1, Len(a))
  <2>1. 1 \in Int /\ Len(a) \in Int /\ \A i \in 1..Len(a) : x[i] \in Byte
    <3>1. \A i \in 1..Len(a) : i \in 1..Len(x)
      BY <1>1, <1>4
    <3> QED
      BY <1>1, <1>8, <3>1
  <2>2. s \in Seq(Byte) /\ Len(s) = (IF 1 <= Len(a) THEN Len(a) - 1 + 1 ELSE 0) /\ \A i \in 1..(Len(a) - 1 + 1) : s[i] = x[1 + i - 1]
    BY <1>3, <2>1, SubSeqProperties
  <2> HIDE DEF s
  <2>3. Len(s) = Len(a) /\ \A i \in 1..Len(a) : s[i] = x[i]
    BY <1>1, <2>2
  <2>4. \A i \in 1..Len(a) : s[i] = a[i]
    BY <1>5, <2>3
  <2>5. s = a
    BY <1>1, <2>2, <2>3, <2>4, SeqEqual
  <2> QED
    BY <2>5 DEF s
<1>10. SubSeq(x, p + 1, Len(x)) = r
  <2> DEFINE s == SubSeq(x, p + 1, Len(x))
  <2>1. p + 1 \in Int /\ Len(x) \in Int /\ \A i \in (p + 1)..Len(x) : x[i] \in Byte
    <3>1. \A i \in (p + 1)..Len(x) : i \in 1..Len(x)
      BY <1>4
    <3> QED
      BY <1>4, <1>8, <3>1
  <2> HIDE DEF p
  <2>2. s \in Seq(Byte) /\ Len(s) = (IF p + 1 <= Len(x) THEN Len(x) - (p + 1) + 1 ELSE 0)
        /\ \A i \in 1..(Len(x) - (p + 1) + 1) : s[i] = x[(p + 1) + i - 1]
    BY <1>3, <2>1, SubSeqProperties
  <2> HIDE DEF s
  <2>3. Len(s) = Len(r)
    BY <1>1, <1>4, <2>2
  <2>4. ASSUME NEW i \in 1..Len(r) PROVE s[i] = r[i]
    <3>1. i \in 1..(Len(x) - (p + 1) + 1) /\ (p + 1) + i - 1 = p + i
      BY <1>1, <1>4
    <3>2. s[i] = x[p + i]
      BY <2>2, <3>1
    <3> QED
      BY <1>7, <3>2
  <2>5. s = r
    BY <1>1, <2>2, <2>3, <2>4, SeqEqual
  <2> QED
    BY <2>5 DEF s
<1>11. Same(a, x, Len(a)) /\ At(x, Len(a), b)
  <2>1. Len(a) <= Len(a) /\ Len(a) <= Len(x) /\ Len(a) + Len(b) <= Len(x)
    BY <1>1, <1>4
  <2> HIDE DEF p
  <2> QED
    BY <1>5, <1>6, <2>1 DEF Same, At
<1>12. x \in Name /\ Len(x) = Len(a) + Len(b) + Len(r)
  BY <1>3, <1>4 DEF Name
<1> QED
  BY <1>1, <1>9, <1>10, <1>11, <1>12 DEF x, y

(* An entry to be made, and whether a list has one of its field and name.  *)
EntryType == [field : Name, name : Name, version : Name]
Has(l, new) == \E i \in 1..Len(l) : l[i].field = new.field /\ \E j \in 1..Len(l[i].values) : l[i].values[j].name = new.name

(* An entry is added when it is not there, and then it is there.            *)
LEMMA MergeEntriesType ==
  ASSUME NEW l \in Lists, NEW new \in EntryType
  PROVE  LET m == MergeEntries(l, new) IN
         /\ m \in Lists /\ Listed(l) \subseteq Listed(m) /\ Listed(m) \subseteq Listed(l) \cup {new}
         /\ (\E e \in Listed(m) : e.field = new.field /\ e.name = new.name)
         /\ MergeEntries(m, new) = m
<1> DEFINE v == [name |-> new.name, version |-> new.version]
           p == Push(l, new.field, v)
           m == MergeEntries(l, new)
<1>1. ASSUME NEW k \in Lists PROVE MergeEntries(k, new) = IF Has(k, new) THEN k ELSE Push(k, new.field, v)
  <2>1. DOMAIN k = 1..Len(k) /\ \A i \in 1..Len(k) : DOMAIN k[i].values = 1..Len(k[i].values)
    BY ListsAt
  <2>2. (\E i \in DOMAIN k : k[i].field = new.field /\ \E j \in DOMAIN k[i].values : k[i].values[j].name = new.name) <=> Has(k, new)
    BY <2>1 DEF Has
  <2> QED
    BY <2>2 DEF MergeEntries
<1>2. ASSUME NEW k \in Lists PROVE Has(k, new) <=> \E e \in Listed(k) : e.field = new.field /\ e.name = new.name
  <2>1. \A field, value : TheEntry(field, value).field = field /\ TheEntry(field, value).name = value.name
    BY DEF TheEntry
  <2>2. ASSUME Has(k, new) PROVE \E e \in Listed(k) : e.field = new.field /\ e.name = new.name
    <3>1. PICK i \in 1..Len(k) : k[i].field = new.field /\ \E j \in 1..Len(k[i].values) : k[i].values[j].name = new.name
      BY <2>2 DEF Has
    <3>2. PICK j \in 1..Len(k[i].values) : k[i].values[j].name = new.name
      BY <3>1
    <3> DEFINE e == TheEntry(k[i].field, k[i].values[j])
    <3>3. e \in Listed(k)
      BY ListedIs
    <3>4. e.field = new.field /\ e.name = new.name
      BY <2>1, <3>1, <3>2
    <3> QED
      BY <3>3, <3>4
  <2>3. ASSUME NEW e \in Listed(k), e.field = new.field, e.name = new.name PROVE Has(k, new)
    <3>0. PICK i \in 1..Len(k) : \E j \in 1..Len(k[i].values) : e = TheEntry(k[i].field, k[i].values[j])
      BY ListedIs
    <3>1. PICK j \in 1..Len(k[i].values) : e = TheEntry(k[i].field, k[i].values[j])
      BY <3>0
    <3>2. k[i].field = new.field /\ k[i].values[j].name = new.name
      BY <2>1, <2>3, <3>1
    <3> QED
      BY <3>2 DEF Has
  <2> QED
    BY <2>2, <2>3
<1>3. new.field \in Name /\ v \in Value /\ TheEntry(new.field, v) = new
  BY DEF EntryType, Value, TheEntry
<1> HIDE DEF v
<1>4. p \in Lists /\ Listed(p) = Listed(l) \cup {new}
  BY <1>3, PushType
<1> HIDE DEF p
<1>5. CASE Has(l, new)
  <2>1. m = l
    BY <1>1, <1>5
  <2> QED
    BY <1>2, <1>5, <2>1
<1>6. CASE ~Has(l, new)
  <2>1. m = p
    BY <1>1, <1>6 DEF p
  <2>2. new \in Listed(p)
    BY <1>4
  <2>3. Has(p, new)
    BY <1>2, <1>4, <2>2
  <2>4. MergeEntries(p, new) = p
    BY <1>1, <1>4, <2>3
  <2> QED
    BY <1>4, <2>1, <2>2, <2>4
<1> QED
  BY <1>5, <1>6

(* A file is what is ahead of the place that is found, and what is behind.  *)
Parts(bytes, found, a, r) ==
  /\ a \in Name /\ r \in Name /\ 8 <= Len(a)
  /\ Same(a, bytes, Len(a))
  /\ \A x \in Name : Replaced(bytes, found.val, x) = (a \o x) \o r
  /\ found.val # <<>> => \E c, e \in Nat : found.val = <<Len(a), c, e>> /\ Len(a) < c /\ c <= e /\ e <= Len(bytes)

(* What is found in a file that starts the same, when there is a producers  *)
(* section in that place.                                                   *)
FoundIn(a) ==
  \A other \in Name :
    Same(a, other, Len(a)) /\ Len(a) # Len(other) /\ SectionAt(other, Len(a)).ok /\ SectionAt(other, Len(a)).val # <<>>
      => FindProducersSection(other) = SectionAt(other, Len(a))

(* Of every file in which find_producers_section returns, there are such   *)
(* parts.                                                                  *)
LEMMA FoundParts ==
  ASSUME NEW bytes \in Name, FindProducersSection(bytes).ok
  PROVE  \E a, r \in Name : Parts(bytes, FindProducersSection(bytes), a, r) /\ FoundIn(a)
<1> DEFINE found == FindProducersSection(bytes)
           n == Len(bytes)
<1>1. n \in Nat
  BY LenProperties DEF Name
<1>2. n >= 8 /\ SubSeq(bytes, 1, 8) = Header /\ found = FindFrom(bytes, 8)
  <2>1. ~(n < 8 \/ SubSeq(bytes, 1, 8) # Header)
    BY DEF FindProducersSection, Fail
  <2>2. found = FindFrom(bytes, 8)
    BY <2>1 DEF FindProducersSection
  <2> HIDE DEF found
  <2> QED
    BY <1>1, <2>1, <2>2
<1>3. PICK h : Walk(h, bytes) /\ \A start \in 0..n : FindFrom(bytes, start) = h[start]
  BY FindFromIs
<1>4. 8 \in 0..n /\ found = h[8]
  BY <1>1, <1>2, <1>3
<1> DEFINE s == Stop(found)
           a == SubSeq(bytes, 1, s)
<1>5. found.ok
  OBVIOUS
<1> HIDE DEF found
<1>6. s \in Nat /\ 8 <= s /\ s <= n
  BY <1>3, <1>4, <1>5, StopType
<1>7. \/ found = Ok(n, <<>>)
      \/ \E t, c, e \in Nat : 8 <= t /\ t < c /\ c <= e /\ e <= n /\ found = Ok(e, <<t, c, e>>)
  <2>1. bytes \in Name /\ Walk(h, bytes) /\ 8 \in 0..Len(bytes) /\ h[8].ok
    BY <1>3, <1>4, <1>5
  <2> DEFINE start == 8
  <2>2. bytes \in Name /\ Walk(h, bytes) /\ start \in 0..Len(bytes) /\ h[start].ok
    BY <2>1
  <2> HIDE DEF start
  <2>3. \/ h[start] = Ok(Len(bytes), <<>>)
        \/ \E t, c, e \in Nat : start <= t /\ t < c /\ c <= e /\ e <= Len(bytes) /\ h[start] = Ok(e, <<t, c, e>>)
    BY ONLY <2>2, FindResult
  <2> QED
    BY <1>4, <2>3 DEF start
<1>8. a \in Name /\ Len(a) = s /\ Same(a, bytes, s)
  <2> HIDE DEF s
  <2>1. Same(bytes, bytes, n)
    BY <1>1 DEF Same
  <2>2. SubSeq(bytes, 1, s) \in Name /\ Len(SubSeq(bytes, 1, s)) = (IF 1 <= s THEN (s - 1) + 1 ELSE 0)
    <3>1. 1 \in Nat \ {0}
      OBVIOUS
    <3> QED
      BY <1>1, <1>6, <2>1, <3>1, SubSeqSame
  <2>3. Len(a) = s
    BY <1>6, <2>2
  <2>4. \A i \in 1..s : bytes[i] \in Byte
    <3>1. \A i \in 1..s : i \in 1..n
      BY <1>1, <1>6
    <3> QED
      BY <3>1, ElementOfSeq DEF Name
  <2>5. \A i \in 1..(s - 1 + 1) : a[i] = bytes[1 + i - 1]
    <3>1. bytes \in Seq(Byte) /\ 1 \in Int /\ s \in Int
      BY <1>6 DEF Name
    <3> QED
      BY <2>4, <3>1, SubSeqProperties
  <2> HIDE DEF a
  <2>6. \A i \in 1..s : a[i] = bytes[i]
    BY <1>6, <2>5
  <2> QED
    BY <1>6, <2>2, <2>3, <2>6 DEF Same, a
<1>9. FoundIn(a)
  <2> SUFFICES ASSUME NEW other \in Name, Same(a, other, s), s # Len(other), SectionAt(other, s).ok, SectionAt(other, s).val # <<>>
               PROVE  FindProducersSection(other) = SectionAt(other, s)
    BY <1>8 DEF FoundIn
  <2>1. Len(other) \in Nat /\ s <= Len(other)
    BY LenProperties DEF Name, Same
  <2>2. Same(bytes, other, s)
    BY <1>8 DEF Same
  <2>3. PICK g : Walk(g, other) /\ \A start \in 0..Len(other) : FindFrom(other, start) = g[start]
    BY FindFromIs
  <2>4. g[8] = g[s]
    BY <1>3, <1>4, <1>5, <2>2, <2>3, WalkOn
  <2> HIDE DEF s
  <2>5. s \in 0..Len(other) /\ 8 \in 0..Len(other) /\ ~(Len(other) < 8)
    BY <1>6, <2>1
  <2>6. g[s] = SectionAt(other, s)
    <3>1. g[s] = Ahead(g, other, s)
      BY <2>3, <2>5 DEF Walk
    <3> QED
      BY <3>1 DEF Ahead
  <2>7. SubSeq(other, 1, 8) = Header
    <3>1. 1 \in Nat \ {0} /\ 8 \in Nat
      OBVIOUS
    <3>2. SubSeq(other, 1, 8) = SubSeq(bytes, 1, 8)
      BY <1>6, <2>2, <3>1, SubSeqSame
    <3> QED
      BY <1>2, <3>2
  <2>8. FindProducersSection(other) = FindFrom(other, 8)
    BY <2>5, <2>7 DEF FindProducersSection
  <2> QED
    BY <2>3, <2>4, <2>5, <2>6, <2>8
<1>10. CASE found = Ok(n, <<>>)
  <2>1. found.val = <<>> /\ found.pos = n
    BY <1>10 DEF Ok
  <2>2. s = n
    BY <2>1 DEF Stop
  <2>3. a = bytes
    BY <2>2, SubSeqFull DEF Name
  <2>4. <<>> \in Name
    BY DEF Name
  <2> HIDE DEF a, s
  <2>5. ASSUME NEW x \in Name PROVE Replaced(bytes, found.val, x) = (a \o x) \o <<>>
    <3>1. Replaced(bytes, found.val, x) = a \o x
      BY <2>1, <2>3 DEF Replaced
    <3>2. a \o x \in Seq(Byte)
      BY <1>8, ConcatProperties DEF Name
    <3> QED
      BY <3>1, <3>2, ConcatEmptySeq
  <2>6. Parts(bytes, found, a, <<>>)
    BY <1>6, <1>8, <2>1, <2>4, <2>5 DEF Parts
  <2> QED
    BY <1>8, <1>9, <2>4, <2>6 DEF found
<1>11. CASE \E t, c, e \in Nat : 8 <= t /\ t < c /\ c <= e /\ e <= n /\ found = Ok(e, <<t, c, e>>)
  <2>1. PICK t, c, e \in Nat : 8 <= t /\ t < c /\ c <= e /\ e <= n /\ found = Ok(e, <<t, c, e>>)
    BY <1>11
  <2>2. found.val = <<t, c, e>> /\ found.val # <<>> /\ found.val[1] = t /\ found.val[3] = e
    BY <2>1 DEF Ok
  <2>3. s = t
    BY <2>2 DEF Stop
  <2> DEFINE r == SubSeq(bytes, e + 1, n)
  <2>4. r \in Name
    <3>1. Same(bytes, bytes, n) /\ e + 1 \in Nat \ {0}
      BY <1>1, <2>1 DEF Same
    <3> QED
      BY <1>1, <3>1, SubSeqSame
  <2>5. \A x \in Name : Replaced(bytes, found.val, x) = (a \o x) \o r
    BY <2>2, <2>3 DEF Replaced
  <2> HIDE DEF a, s, r
  <2>6. Parts(bytes, found, a, r)
    BY <1>6, <1>8, <2>1, <2>2, <2>3, <2>4, <2>5 DEF Parts
  <2> QED
    BY <1>8, <1>9, <2>4, <2>6 DEF found
<1> QED
  BY <1>7, <1>10, <1>11

(* What is written of a list is a sequence of bytes.                       *)
LEMMA SectionType ==
  ASSUME NEW l \in Lists
  PROVE  EncodeProducersSection(l) \in Name
<1> DEFINE d == <<0>>
           e == EncodeU32(Len(EncodePayload(l)))
           f == EncodePayload(l)
<1>1. f \in Name /\ Len(f) \in Nat
  BY PayloadIs
<1>2. e \in Name
  BY <1>1, EncodeU32Type
<1>3. d \in Name
  BY DEF Name, Byte
<1>4. d \in Seq(Byte) /\ e \in Seq(Byte) /\ f \in Seq(Byte)
  BY <1>1, <1>2, <1>3 DEF Name
<1>5. EncodeProducersSection(l) = (d \o e) \o f
  BY DEF EncodeProducersSection
<1> HIDE DEF d, e, f
<1>6. d \o e \in Seq(Byte)
  BY <1>4, ConcatProperties
<1>7. (d \o e) \o f \in Seq(Byte)
  BY <1>4, <1>6, ConcatProperties
<1> QED
  BY <1>5, <1>7 DEF Name

(* A file in which the section is found, with l listed in it.               *)
Finds(file, l, a, r) ==
  LET placed == FindProducersSection(file) IN
  /\ file \in Name /\ placed.ok /\ placed.val # <<>>
  /\ Parsed(file, placed).ok /\ Parsed(file, placed).val = l
  /\ \A x \in Name : Replaced(file, placed.val, x) = (a \o x) \o r

(* In the file that is made the section is found again, with what is listed *)
(* in it, and the parts around it are the same.                             *)
LEMMA OnceFound ==
  ASSUME NEW a \in Name, NEW r \in Name, FoundIn(a), NEW l \in Lists, IsU32(Len(EncodePayload(l)))
  PROVE  Finds((a \o EncodeProducersSection(l)) \o r, l, a, r)
<1> DEFINE b == EncodeProducersSection(l)
           s == Len(a)
           once == (a \o b) \o r
           placed == FindProducersSection(once)
<1>1. b \in Name /\ Len(b) \in Nat \ {0}
  <2>1. EncodeProducersSection(l) \in Name
    BY SectionType
  <2>2. At(b, 0, b)
    <3>1. Len(b) \in Nat
      BY <2>1, LenProperties DEF Name
    <3> HIDE DEF b
    <3> QED
      BY <3>1 DEF At
  <2>3. 0 \in Nat
    OBVIOUS
  <2> HIDE DEF b
  <2>4. b \in Name
    BY <2>1 DEF b
  <2>5. Len(EncodeProducersSection(l)) \in Nat \ {0}
    BY <2>2, <2>3, <2>4, SectionAtWritten DEF b
  <2> QED
    BY <2>4, <2>5 DEF b
<1> HIDE DEF b
<1>2. /\ once \in Name /\ Len(once) = s + Len(b) + Len(r) /\ s \in Nat /\ Len(b) \in Nat /\ Len(r) \in Nat
      /\ Same(a, once, s) /\ At(once, s, b)
      /\ SubSeq(once, 1, s) = a /\ SubSeq(once, s + Len(b) + 1, Len(once)) = r
  <2>2. a \in Name /\ b \in Name /\ r \in Name
    BY <1>1
  <2>3. /\ once \in Name /\ Len(once) = Len(a) + Len(b) + Len(r) /\ Len(a) \in Nat /\ Len(b) \in Nat /\ Len(r) \in Nat
        /\ Same(a, once, Len(a)) /\ At(once, Len(a), b)
        /\ SubSeq(once, 1, Len(a)) = a /\ SubSeq(once, Len(a) + Len(b) + 1, Len(once)) = r
    BY ONLY <2>2, Spliced
  <2> HIDE DEF once
  <2> QED
    BY <2>3
<1> HIDE DEF once
<1> HIDE DEF s
<1> DEFINE end == s + Len(b)
<1>3. PICK c \in Nat : SectionAt(once, s) = Ok(end, <<s, c, end>>) /\ At(once, c, Content(l)) /\ end = c + Len(Content(l))
  <2>1. \E c \in Nat : LET e == s + Len(EncodeProducersSection(l)) IN
              /\ SectionAt(once, s) = Ok(e, <<s, c, e>>)
              /\ At(once, c, Content(l)) /\ e = c + Len(Content(l))
    <3>1. At(once, s, EncodeProducersSection(l)) /\ once \in Name /\ s \in Nat /\ l \in Lists /\ IsU32(Len(EncodePayload(l)))
      BY <1>2 DEF b
    <3> QED
      BY ONLY <3>1, SectionAtWritten
  <2> QED
    BY <2>1 DEF b
<1>4. s # Len(once)
  <2> DEFINE y == Len(once)
             z == Len(b)
             w == Len(r)
  <2>1. y = s + z + w /\ s \in Nat /\ z \in Nat \ {0} /\ w \in Nat
    BY <1>1, <1>2
  <2> HIDE DEF y, z, w
  <2>2. s # y
    BY <2>1
  <2> QED
    BY <2>2 DEF y
<1> HIDE DEF end
<1>5. placed = Ok(end, <<s, c, end>>)
  <2>1. SectionAt(once, s).ok /\ SectionAt(once, s).val # <<>>
    BY <1>3 DEF Ok
  <2>2. placed = SectionAt(once, s)
    BY <1>2, <1>4, <2>1 DEF FoundIn, s
  <2> QED
    BY <1>3, <2>2
<1>6. placed.ok /\ placed.val = <<s, c, end>> /\ placed.val # <<>> /\ placed.val[1] = s /\ placed.val[2] = c /\ placed.val[3] = end
  BY <1>5 DEF Ok
<1> HIDE DEF placed
<1>7. Parsed(once, placed) = Ok(end, l)
  <2>1. Short(l)
    BY WrittenIsShort
  <2>2. ParseProducers(once, c, c + Len(Content(l))) = Ok(c + Len(Content(l)), l)
    BY <1>2, <1>3, <2>1, ProducersComeBack
  <2>3. ParseProducers(once, c, end) = Ok(end, l)
    BY <1>3, <2>2
  <2> QED
    BY <1>6, <2>3 DEF Parsed
<1>8. Parsed(once, placed).ok /\ Parsed(once, placed).val = l
  BY <1>7 DEF Ok
<1>9. ASSUME NEW x \in Name PROVE Replaced(once, placed.val, x) = (a \o x) \o r
  <2>1. Replaced(once, placed.val, x) = (SubSeq(once, 1, s) \o x) \o SubSeq(once, end + 1, Len(once))
    BY <1>6 DEF Replaced
  <2> QED
    BY <1>2, <2>1 DEF end
<1> QED
  BY <1>2, <1>6, <1>8, <1>9 DEF placed, once, b, Finds

(* Whatever the file is, and whatever is entered in it.                     *)
LEMMA MergeIsCleanAlways ==
  ASSUME NEW bytes \in Name, NEW new \in EntryType
  PROVE  /\ MergeIsClean(bytes, new)
         /\ MergeProducersSection(bytes, new).ok => MergeProducersSection(bytes, new).val \in Name
<1> DEFINE found == FindProducersSection(bytes)
           old == Parsed(bytes, found)
           l == MergeEntries(old.val, new)
           merged == MergeProducersSection(bytes, new)
           once == merged.val
<1> SUFFICES ASSUME merged.ok
             PROVE  /\ KeepsTheRest(bytes, found, once, FindProducersSection(once), new)
                    /\ MergeProducersSection(once, new) = merged
                    /\ once \in Name
  BY DEF MergeIsClean, IsClean
<1>1. merged = IF found.ok /\ old.ok THEN Merged(bytes, found.val, l) ELSE Fail
  BY DEF MergeProducersSection, MergedAt
<1>2. found.ok /\ old.ok /\ merged = Merged(bytes, found.val, l)
  <2> HIDE DEF found, old, l
  <2>1. merged.ok
    OBVIOUS
  <2> HIDE DEF merged
  <2> QED
    BY <1>1, <2>1 DEF Fail
<1>3. PICK a \in Name, r \in Name : Parts(bytes, found, a, r) /\ FoundIn(a)
  BY <1>2, FoundParts
<1>4. old.val \in Lists
  <2>1. CASE found.val = <<>>
    <3>1. old.val = <<>>
      BY <2>1 DEF Parsed, Ok
    <3>2. <<>> \in Lists
      BY DEF Lists
    <3> QED
      BY <3>1, <3>2
  <2>2. CASE found.val # <<>>
    <3>1. PICK c \in Nat, e \in Nat : found.val = <<Len(a), c, e>> /\ e <= Len(bytes)
      BY <1>3, <2>2 DEF Parts
    <3>2. old = ParseProducers(bytes, c, e)
      <4>1. found.val[2] = c /\ found.val[3] = e
        BY <3>1
      <4> QED
        BY <2>2, <4>1 DEF Parsed
    <3>3. ParseProducers(bytes, c, e) \in Results
      BY <3>1, ParseProducersType
    <3> HIDE DEF old
    <3> QED
      BY <1>2, <3>2, <3>3, ResultsAre
  <2> QED
    BY <2>1, <2>2
<1> HIDE DEF old
<1>5. /\ l \in Lists /\ Listed(old.val) \subseteq Listed(l) /\ Listed(l) \subseteq Listed(old.val) \cup {new}
      /\ (\E e \in Listed(l) : e.field = new.field /\ e.name = new.name)
      /\ MergeEntries(l, new) = l
  BY <1>4, MergeEntriesType
<1> HIDE DEF l
<1> DEFINE b == EncodeProducersSection(l)
<1>6. merged = IF IsU32(Len(EncodePayload(l))) THEN Ok(0, Replaced(bytes, found.val, b)) ELSE Fail
  BY <1>2 DEF Merged
<1>a. merged.ok
  OBVIOUS
<1> HIDE DEF merged, b
<1>7. IsU32(Len(EncodePayload(l))) /\ merged = Ok(0, Replaced(bytes, found.val, b))
  BY <1>6, <1>a DEF Fail
<1>8. once = Replaced(bytes, found.val, b) /\ merged = Ok(0, once)
  BY <1>7 DEF Ok
<1>9. b \in Name
  BY <1>5, SectionType DEF b
<1>10. once = (a \o b) \o r
  BY <1>3, <1>8, <1>9 DEF Parts
<1> HIDE DEF once
<1> DEFINE placed == FindProducersSection(once)
<1>11. /\ once \in Name /\ placed.ok /\ placed.val # <<>>
       /\ Parsed(once, placed).ok /\ Parsed(once, placed).val = l
       /\ \A x \in Name : Replaced(once, placed.val, x) = (a \o x) \o r
  <2>1. once = (a \o EncodeProducersSection(l)) \o r
    BY <1>10 DEF b
  <2>2. Finds((a \o EncodeProducersSection(l)) \o r, l, a, r)
    BY <1>3, <1>5, <1>7, OnceFound
  <2>3. Finds(once, l, a, r)
    BY <2>1, <2>2
  <2> QED
    BY <2>3 DEF Finds
<1> HIDE DEF found
<1>12. <<>> \in Name
  BY DEF Name
<1>13. Replaced(once, placed.val, <<>>) = Replaced(bytes, found.val, <<>>)
  BY <1>3, <1>11, <1>12 DEF Parts
<1>14. MergeProducersSection(once, new) = MergedAt(once, placed, new)
  BY DEF MergeProducersSection
<1> HIDE DEF placed
<1>15. KeepsTheRest(bytes, found, once, placed, new)
  BY <1>5, <1>11, <1>13 DEF KeepsTheRest, old
<1>16. MergeProducersSection(once, new) = merged
  <2>1. MergedAt(once, placed, new) = Merged(once, placed.val, l)
    BY <1>5, <1>11 DEF MergedAt
  <2>2. Merged(once, placed.val, l) = Ok(0, Replaced(once, placed.val, b))
    BY <1>7 DEF Merged, b
  <2>3. Replaced(once, placed.val, b) = once
    BY <1>9, <1>10, <1>11
  <2> QED
    BY <1>8, <1>14, <2>1, <2>2, <2>3
<1> QED
  BY <1>11, <1>15, <1>16 DEF placed

(* What append_u32_leb128 writes of a length, read_u32_leb128 reads back.   *)
THEOREM LengthsRoundTrip == \A n \in Nat : IsU32(n) => U32RoundTrips(n)
<1> SUFFICES ASSUME NEW n \in U32 PROVE U32RoundTrips(n)
  BY DEF U32
<1>1. EncodeU32(n) \in Name
  BY EncodeU32Type DEF U32
<1>2. At(EncodeU32(n), 0, EncodeU32(n))
  <2> DEFINE b == EncodeU32(n)
  <2>1. Len(b) \in Nat
    BY <1>1, LenProperties DEF Name
  <2> HIDE DEF b
  <2>2. At(b, 0, b)
    BY <2>1 DEF At
  <2> QED
    BY <2>2 DEF b
<1>3. ReadU32(EncodeU32(n), 0) = Ok(0 + Len(EncodeU32(n)), n)
  BY <1>1, <1>2, ReadU32AtEncoded
<1>4. 0 + Len(EncodeU32(n)) = Len(EncodeU32(n))
  <2>1. Len(EncodeU32(n)) \in Nat
    BY <1>1, LenProperties DEF Name
  <2> QED
    BY <2>1
<1> QED
  BY <1>3, <1>4 DEF U32RoundTrips

(* What encode_producers_section writes of a list, parse_producers reads    *)
(* back, entry for entry and in the same order, wherever it is in a file.   *)
THEOREM ProducersRoundTrip ==
  ASSUME NEW bytes \in Name, NEW start \in Nat, NEW l \in Lists, IsU32(Len(EncodePayload(l))), At(bytes, start, Content(l))
  PROVE  ParseProducers(bytes, start, start + Len(Content(l))) = Ok(start + Len(Content(l)), l)
BY WrittenIsShort, ProducersComeBack

(* Entering a tool in the producers section is clean for every file and     *)
(* every entry.                                                             *)
THEOREM MergesAreClean == \A bytes \in Name, new \in EntryType : MergeIsClean(bytes, new)
BY MergeIsCleanAlways

-----------------------------------------------------------------------------
(* worker-build's own entry is one.                                        *)
LEMMA SdkType == ASSUME NEW v \in Name PROVE Sdk(v) \in EntryType
BY DEF Sdk, SdkField, EntryType, Name, Byte

(* A file with a section behind it is a file.                              *)
LEMMA ReplacedFile == ASSUME NEW s \in Name, NEW t \in Name PROVE s \o t \in Name
BY ConcatProperties DEF Name

(* One field with values is a list.                                        *)
LEMMA GroupsOne ==
  ASSUME NEW b \in Byte, NEW names \in Seq(Byte), Len(names) # 0
  PROVE  Group(b, names) \in GroupType /\ Len(Group(b, names).values) # 0 /\ Group(b, names).field = <<b>> /\ <<Group(b, names)>> \in Lists
<1> DEFINE g == Group(b, names)
           vs == [i \in DOMAIN names |-> [name |-> <<names[i]>>, version |-> <<49>>]]
<1>1. DOMAIN names = 1..Len(names) /\ Len(names) \in Nat /\ \A i \in 1..Len(names) : names[i] \in Byte
  BY LenProperties, ElementOfSeq
<1>2. \A x \in Byte : <<x>> \in Name
  BY DEF Name
<1>3. 49 \in Byte
  BY DEF Byte
<1>4. \A i \in 1..Len(names) : [name |-> <<names[i]>>, version |-> <<49>>] \in Value
  BY <1>1, <1>2, <1>3 DEF Value
<1>5. vs \in Seq(Value) /\ Len(vs) = Len(names)
  BY <1>1, <1>4
<1>6. g = [field |-> <<b>>, values |-> vs]
  BY DEF Group
<1> HIDE DEF vs, g
<1>7. g \in GroupType /\ g.field = <<b>> /\ g.values = vs
  BY <1>2, <1>5, <1>6 DEF GroupType
<1>8. <<g>> \in Seq(GroupType) /\ Len(<<g>>) = 1 /\ <<g>>[1] = g
  BY <1>7
<1>9. \A i \in 1..1 : i = 1
  OBVIOUS
<1>10. <<g>> \in Lists
  BY <1>5, <1>7, <1>8, <1>9 DEF Lists
<1> QED
  BY <1>5, <1>7, <1>10 DEF g

(* Two different fields with values are a list.                            *)
LEMMA GroupsTwo ==
  ASSUME NEW b \in Byte, NEW names \in Seq(Byte), Len(names) # 0, NEW c \in Byte, NEW more \in Seq(Byte), Len(more) # 0, b # c
  PROVE  <<Group(b, names), Group(c, more)>> \in Lists
<1> DEFINE g == Group(b, names)
           h == Group(c, more)
           l == <<g, h>>
<1>1. g \in GroupType /\ Len(g.values) # 0 /\ g.field = <<b>>
  BY GroupsOne
<1>2. h \in GroupType /\ Len(h.values) # 0 /\ h.field = <<c>>
  BY GroupsOne
<1> HIDE DEF g, h
<1>3. l \in Seq(GroupType) /\ Len(l) = 2 /\ l[1] = g /\ l[2] = h
  BY <1>1, <1>2
<1>4. <<b>> # <<c>>
  OBVIOUS
<1>5. \A i \in 1..2 : i = 1 \/ i = 2
  OBVIOUS
<1> HIDE DEF l
<1>6. \A i \in 1..2 : Len(l[i].values) # 0
  BY <1>1, <1>2, <1>3, <1>5
<1>7. \A i, j \in 1..2 : l[i].field = l[j].field => i = j
  BY <1>1, <1>2, <1>3, <1>4, <1>5
<1>8. l \in Lists
  BY <1>3, <1>6, <1>7 DEF Lists
<1> QED
  BY <1>8 DEF l, g, h

(* The sections that other tools add are of bytes.                         *)
LEMMA SectionsType == Sections \subseteq Name
<1>1. Long \in Name
  <2>1. <<0, 130, 1>> \in Name /\ <<65>> \in Name /\ [i \in 1..128 |-> 7] \in Name
    BY DEF Name, Byte
  <2>2. EncodeName(<<65>>) \in Name
    BY <2>1, EncodeNameType
  <2> QED
    BY <2>1, <2>2, ReplacedFile DEF Long
<1>2. Code \in Name /\ CutShort \in Name
  BY DEF Code, CutShort, Name, Byte
<1>3. <<82>> \in Seq(Byte) /\ <<97>> \in Seq(Byte) /\ <<119>> \in Seq(Byte) /\ 108 \in Byte /\ 115 \in Byte
      /\ Len(<<82>>) # 0 /\ Len(<<97>>) # 0 /\ Len(<<119>>) # 0 /\ 115 # 108
  BY DEF Byte
<1>4. Producers(<<Group(108, <<82>>)>>) \in Name /\ Producers(<<Group(115, <<119>>)>>) \in Name
  BY <1>3, GroupsOne, SectionType DEF Producers
<1>5. Producers(<<Group(115, <<97>>), Group(108, <<82>>)>>) \in Name /\ Producers(<<Group(108, <<82>>), Group(115, <<119>>)>>) \in Name
  BY <1>3, GroupsTwo, SectionType DEF Producers
<1>6. ASSUME NEW n \in 1..30 PROVE Many(n) \in Name
  <2> DEFINE names == [i \in 1..n |-> 10 + i]
  <2>1. names \in Seq(Byte) /\ Len(names) # 0
    BY DEF Byte
  <2> HIDE DEF names
  <2>2. <<Group(108, names)>> \in Lists
    BY <1>3, <2>1, GroupsOne
  <2> QED
    BY <2>2, SectionType DEF Many, Producers, names
<1>7. Many(27) \in Name /\ Many(28) \in Name /\ Many(30) \in Name
  BY <1>6
<1> QED
  BY <1>1, <1>2, <1>4, <1>5, <1>7 DEF Sections

(* Of the specification: the file is always one of bytes, and what is       *)
(* entered in it is entered cleanly.                                        *)
IsFile == wasm \in Name

(* However many sections other tools add, before and after worker-build     *)
(* enters itself, and however often it does: all other bytes of the file    *)
(* stay, and the section is found and read back.                            *)
THEOREM FilesStayWhole == ProducersSpec => []FileStaysWhole
<1>1. ProducersInit => IsFile
  <2>1. <<0, 97>> \in Name
    BY DEF Name, Byte
  <2>2. 0 \in Byte /\ 97 \in Byte /\ 115 \in Byte /\ 109 \in Byte /\ 1 \in Byte
    BY DEF Byte
  <2>3. Header \in Seq(Byte)
    <3> HIDE DEF Byte
    <3> QED
      BY <2>2 DEF Header
  <2> QED
    BY <2>1, <2>3 DEF ProducersInit, IsFile, Name
<1>2. IsFile /\ [ProducersNext]_producersVars => IsFile'
  <2> SUFFICES ASSUME IsFile, [ProducersNext]_producersVars PROVE wasm' \in Name
    BY DEF IsFile
  <2>1. ASSUME NEW s \in Sections, AddSection(s) PROVE wasm' \in Name
    <3>1. s \in Name /\ wasm' = wasm \o s
      BY <2>1, SectionsType DEF AddSection
    <3> QED
      BY <3>1, ReplacedFile DEF IsFile
  <2>2. ASSUME NEW v \in Releases, Inject(v) PROVE wasm' \in Name
    <3> DEFINE merged == MergeProducersSection(wasm, Sdk(v))
    <3>1. merged.ok => merged.val \in Name
      BY ReleasesAssumption, SdkType, MergeIsCleanAlways DEF IsFile
    <3>2. IF merged.ok THEN wasm' = merged.val ELSE wasm' = NoFile
      BY <2>2 DEF Inject
    <3> HIDE DEF merged
    <3>3. NoFile \in Name
      BY DEF NoFile, Name
    <3> QED
      BY <3>1, <3>2, <3>3
  <2>3. CASE UNCHANGED producersVars
    BY <2>3 DEF producersVars, IsFile
  <2> QED
    BY <2>1, <2>2, <2>3 DEF ProducersNext
<1>3. IsFile => FileStaysWhole
  <2> SUFFICES ASSUME IsFile
               PROVE  /\ \A v \in Releases : MergeIsClean(wasm, Sdk(v))
                      /\ \A n \in Sizes \cup {Len(wasm)} : IsU32(n) => U32RoundTrips(n)
    BY DEF FileStaysWhole
  <2>1. \A v \in Releases : MergeIsClean(wasm, Sdk(v))
    BY ReleasesAssumption, SdkType, MergeIsCleanAlways DEF IsFile
  <2>2. Sizes \cup {Len(wasm)} \subseteq Nat
    BY SizesAssumption, LenProperties DEF IsFile, Name
  <2> QED
    BY <2>1, <2>2, LengthsRoundTrip
<1> QED
  BY <1>1, <1>2, <1>3, PTL DEF ProducersSpec
=============================================================================
