----------------------------- MODULE Base64Proofs -----------------------------
(***************************************************************************)
(* Every blob of every length arrives as it was sent.                      *)
(***************************************************************************)
EXTENDS Base64, FiniteSetTheorems, SequenceTheorems, TLAPS

(* Six bits, and what four times six or three times eight of them hold. *)
IsSextet(v) == v \in Int /\ 0 <= v /\ v <= 63
IsNumber(n) == n \in Int /\ 0 <= n /\ n <= 16777215

LEMMA ByteBounds ==
    ASSUME NEW b \in Byte
    PROVE  b \in Int /\ 0 <= b /\ b <= 255
BY SMT DEF Byte

(* The alphabet has no character twice, and '=' is not one of them. *)
LEMMA ValOfTable ==
    ASSUME NEW i, IsSextet(i)
    PROVE  /\ Table(i) \in Int /\ Table(i) # Pad
           /\ Val(Table(i)) = i
BY SMT DEF Table, Val, Pad, IsSextet

LEMMA ValOfPad == Val(Pad) = -1
BY SMT DEF Val, Pad

LEMMA SextetsOfNumber ==
    ASSUME NEW n, IsNumber(n)
    PROVE  /\ \A j \in 0..3 : IsSextet(Sextet(n, j))
           /\ Pack(Sextet(n, 0), Sextet(n, 1), Sextet(n, 2), Sextet(n, 3)) = n
BY SMTT(60) DEF Sextet, Pack, IsSextet, IsNumber

LEMMA BytesOfNumber ==
    ASSUME NEW a \in Byte, NEW b \in Byte, NEW c \in Byte
    PROVE  LET n == Join(a, b, c) IN
           /\ IsNumber(n)
           /\ ByteOf(n, 0) = a /\ ByteOf(n, 1) = b /\ ByteOf(n, 2) = c
           /\ c = 0 => Sextet(n, 3) = 0
           /\ b = 0 /\ c = 0 => Sextet(n, 2) = 0
<1> DEFINE n == Join(a, b, c)
<1>1. /\ a \in Int /\ 0 <= a /\ a <= 255
      /\ b \in Int /\ 0 <= b /\ b <= 255
      /\ c \in Int /\ 0 <= c /\ c <= 255
  BY ByteBounds
<1>2. IsNumber(n)
  BY <1>1, SMT DEF IsNumber, Join
<1>3. ByteOf(n, 0) = a /\ ByteOf(n, 1) = b /\ ByteOf(n, 2) = c
  BY <1>1, SMTT(30) DEF Join, ByteOf
<1>4. c = 0 => Sextet(n, 3) = 0
  BY <1>1, SMTT(30) DEF Sextet, Join
<1>5. b = 0 /\ c = 0 => Sextet(n, 2) = 0
  BY <1>1, SMTT(30) DEF Sextet, Join
<1> QED BY <1>2, <1>3, <1>4, <1>5

LEMMA Division ==
    ASSUME NEW g \in Nat
    PROVE  /\ \A j \in 0..3 : (4 * g + j) \div 4 = g /\ (4 * g + j) % 4 = j
           /\ \A j \in 0..2 : (3 * g + j) \div 3 = g /\ (3 * g + j) % 3 = j
BY SMT

LEMMA GroupsCover ==
    ASSUME NEW len \in Nat
    PROVE  /\ Groups(len) \in Nat
           /\ 3 * Groups(len) >= len
           /\ \A g \in 0..(Groups(len) - 1) : 3 * g < len
BY SMT DEF Groups

-----------------------------------------------------------------------------
LEMMA AtIsByte ==
    ASSUME NEW data \in Seq(Byte), NEW i \in Nat \ {0}
    PROVE  /\ At(data, i) \in Byte
           /\ i <= Len(data) => At(data, i) = data[i]
           /\ i > Len(data)  => At(data, i) = 0
<1>1. 0 \in Byte
  BY SMT DEF Byte
<1>2. i <= Len(data) => data[i] \in Byte
  BY SMT
<1> QED BY <1>1, <1>2, SMT DEF At

(* The number of a group holds its bytes. *)
LEMMA NumberOfGroup ==
    ASSUME NEW data \in Seq(Byte), NEW g \in Nat
    PROVE  LET n == Number(data, g) IN
           /\ IsNumber(n)
           /\ \A b \in 0..2 : ByteOf(n, b) = At(data, 3 * g + b + 1)
           /\ \A j \in {2, 3} : 3 * g + j > Len(data) => Sextet(n, j) = 0
<1> DEFINE a == At(data, 3 * g + 1)
           b == At(data, 3 * g + 2)
           c == At(data, 3 * g + 3)
           n == Number(data, g)
<1>1. /\ 3 * g + 1 \in Nat \ {0} /\ 3 * g + 2 \in Nat \ {0}
      /\ 3 * g + 3 \in Nat \ {0}
  BY SMT
<1>2. a \in Byte /\ b \in Byte /\ c \in Byte
  BY <1>1, AtIsByte
<1>3. n = Join(a, b, c)
  BY DEF Number
<1>4. /\ 3 * g + 3 > Len(data) => c = 0
      /\ 3 * g + 2 > Len(data) => b = 0 /\ c = 0
  <2>1. Len(data) \in Nat
    BY LenProperties
  <2>2. 3 * g + 2 > Len(data) => 3 * g + 3 > Len(data)
    BY <2>1, SMT
  <2> QED BY <1>1, <2>2, AtIsByte
<1>5. 3 * g + 0 + 1 = 3 * g + 1 /\ 3 * g + 1 + 1 = 3 * g + 2
      /\ 3 * g + 2 + 1 = 3 * g + 3
  BY SMT
<1> HIDE DEF a, b, c, n
<1>6. /\ IsNumber(n)
      /\ ByteOf(n, 0) = a /\ ByteOf(n, 1) = b /\ ByteOf(n, 2) = c
      /\ c = 0 => Sextet(n, 3) = 0
      /\ b = 0 /\ c = 0 => Sextet(n, 2) = 0
  BY <1>2, <1>3, BytesOfNumber
<1>7. ASSUME NEW i \in 0..2
      PROVE  ByteOf(n, i) = At(data, 3 * g + i + 1)
  BY <1>5, <1>6, i = 0 \/ i = 1 \/ i = 2 DEF a, b, c
<1> QED BY <1>4, <1>6, <1>7 DEF n

-----------------------------------------------------------------------------
(* The text of data, character by character. *)
LEMMA TextOfBlob ==
    ASSUME NEW data \in Seq(Byte)
    PROVE  LET text == encode_base64(data)
               G == Groups(Len(data))
           IN /\ G \in Nat /\ Len(text) = 4 * G
              /\ \A g \in 0..(G - 1), j \in 0..3 :
                    Char(text, g, j) = IF Padded(Len(data), g, j) THEN Pad
                                       ELSE Table(Sextet(Number(data, g), j))
<1> DEFINE text == encode_base64(data)
           G == Groups(Len(data))
<1>1. Len(data) \in Nat
  BY LenProperties
<1>2. G \in Nat
  BY <1>1, GroupsCover
<1> DEFINE Of(k) == LET g == (k - 1) \div 4
                        j == (k - 1) % 4
                    IN IF Padded(Len(data), g, j) THEN Pad
                       ELSE Table(Sextet(Number(data, g), j))
<1>3. text = [k \in 1..(4 * G) |-> Of(k)]
  BY DEF encode_base64
<1>4. 4 * G \in Nat
  BY <1>2, SMT
<1> HIDE DEF Of, text, G
<1>5. Len(text) = 4 * G
  BY <1>3, <1>4, SMT
<1>6. ASSUME NEW g \in 0..(G - 1), NEW j \in 0..3
      PROVE  Char(text, g, j) = IF Padded(Len(data), g, j) THEN Pad
                                ELSE Table(Sextet(Number(data, g), j))
  <2>1. g \in Nat /\ 4 * g + j + 1 \in 1..(4 * G)
    BY <1>2, SMT
  <2>2. (4 * g + j + 1) - 1 = 4 * g + j
    BY <2>1, SMT
  <2>3. (4 * g + j) \div 4 = g /\ (4 * g + j) % 4 = j
    BY <2>1, Division
  <2>4. Char(text, g, j) = Of(4 * g + j + 1)
    BY <1>3, <2>1 DEF Char
  <2> QED BY <2>2, <2>3, <2>4 DEF Of
<1> QED BY <1>2, <1>5, <1>6 DEF text, G

(* The receiver sees the same number in every group. *)
LEMMA GroupArrives ==
    ASSUME NEW data \in Seq(Byte), NEW g \in 0..(Groups(Len(data)) - 1)
    PROVE  LET text == encode_base64(data) IN
           /\ GroupOk(text, g)
           /\ GroupNumber(text, g) = Number(data, g)
<1> DEFINE text == encode_base64(data)
           n == Number(data, g)
<1>1. Len(data) \in Nat /\ g \in Nat
  BY LenProperties, GroupsCover, SMT
<1>2. ASSUME NEW j \in 0..3
      PROVE  Char(text, g, j) = IF Padded(Len(data), g, j) THEN Pad
                                ELSE Table(Sextet(n, j))
  BY TextOfBlob
<1>3. /\ IsNumber(n)
      /\ \A j \in {2, 3} : 3 * g + j > Len(data) => Sextet(n, j) = 0
  BY <1>1, NumberOfGroup
<1>4. /\ \A j \in 0..3 : IsSextet(Sextet(n, j))
      /\ Pack(Sextet(n, 0), Sextet(n, 1), Sextet(n, 2), Sextet(n, 3)) = n
  <2> HIDE DEF n
  <2> QED BY <1>3, SextetsOfNumber
<1> HIDE DEF text, n
<1>5. ASSUME NEW j \in 0..3, ~Padded(Len(data), g, j)
      PROVE  /\ Char(text, g, j) # Pad
             /\ Val(Char(text, g, j)) = Sextet(n, j)
  BY <1>2, <1>4, <1>5, ValOfTable
<1>6. ASSUME NEW j \in 0..3, Padded(Len(data), g, j)
      PROVE  /\ j \in {2, 3} /\ Char(text, g, j) = Pad
             /\ Sextet(n, j) = 0
  <2>1. Char(text, g, j) = Pad
    BY <1>2, <1>6
  <2>2. j \in {2, 3} /\ 3 * g + j > Len(data)
    BY <1>1, <1>6, SMT DEF Padded
  <2> QED BY <1>3, <2>1, <2>2
<1>7. ASSUME NEW j \in 0..3
      PROVE  Digit(text, g, j) = Sextet(n, j)
  BY <1>5, <1>6 DEF Digit
<1>8. ASSUME NEW j \in 0..3
      PROVE  \/ Val(Char(text, g, j)) # -1
             \/ j \in {2, 3} /\ Char(text, g, j) = Pad
  <2>1. CASE ~Padded(Len(data), g, j)
    <3>1. IsSextet(Sextet(n, j)) /\ Val(Char(text, g, j)) = Sextet(n, j)
      BY <1>4, <1>5, <2>1
    <3> QED BY <3>1, SMT DEF IsSextet
  <2>2. CASE Padded(Len(data), g, j)
    BY <1>6, <2>2
  <2> QED BY <2>1, <2>2
<1>9. ~(Char(text, g, 2) = Pad /\ Char(text, g, 3) # Pad)
  <2>1. Padded(Len(data), g, 2) => Padded(Len(data), g, 3)
    BY <1>1, SMT DEF Padded
  <2>2. 2 \in 0..3 /\ 3 \in 0..3
    BY SMT
  <2> QED BY <1>5, <1>6, <2>1, <2>2
<1>10. GroupOk(text, g)
  BY <1>8, <1>9 DEF GroupOk
<1>11. GroupNumber(text, g) = n
  <2>1. /\ Digit(text, g, 0) = Sextet(n, 0) /\ Digit(text, g, 1) = Sextet(n, 1)
        /\ Digit(text, g, 2) = Sextet(n, 2) /\ Digit(text, g, 3) = Sextet(n, 3)
    BY <1>7, SMT
  <2> QED BY <1>4, <2>1 DEF GroupNumber
<1> QED BY <1>10, <1>11 DEF text, n

-----------------------------------------------------------------------------
(* The bytes the text yields are numbered 1 to Len(data). *)
LEMMA SlotsOfText ==
    ASSUME NEW data \in Seq(Byte)
    PROVE  Slots(encode_base64(data)) = 1..Len(data)
<1> DEFINE text == encode_base64(data)
           G == Groups(Len(data))
<1>1. /\ Len(data) \in Nat /\ G \in Nat /\ 3 * G >= Len(data)
      /\ \A g \in 0..(G - 1) : 3 * g < Len(data)
  BY LenProperties, GroupsCover
<1>2. /\ Len(text) = 4 * G
      /\ \A g \in 0..(G - 1), j \in 0..3 :
            Char(text, g, j) = IF Padded(Len(data), g, j) THEN Pad
                               ELSE Table(Sextet(Number(data, g), j))
  BY TextOfBlob
<1> HIDE DEF text, G
<1>3. Len(text) \div 4 = G
  BY <1>1, <1>2, SMT
<1>4. ASSUME NEW g \in 0..(G - 1), NEW b \in 0..2
      PROVE  (b = 0 \/ Char(text, g, b + 1) # Pad) <=> 3 * g + b + 1 <= Len(data)
  <2>1. CASE b = 0
    BY <1>1, <2>1, SMT
  <2>2. CASE b # 0
    <3>1. b + 1 \in 0..3 /\ b + 1 >= 2 /\ g \in Nat
      BY <1>1, <2>2, SMT
    <3>2. Padded(Len(data), g, b + 1) <=> ~(3 * g + b + 1 <= Len(data))
      BY <1>1, <3>1, SMT DEF Padded
    <3>3. IsSextet(Sextet(Number(data, g), b + 1))
      <4>1. IsNumber(Number(data, g))
        BY <3>1, NumberOfGroup
      <4> QED BY <3>1, <4>1, SextetsOfNumber
    <3>4. Table(Sextet(Number(data, g), b + 1)) # Pad
      BY <3>3, ValOfTable
    <3>5. Char(text, g, b + 1) # Pad <=> ~Padded(Len(data), g, b + 1)
      BY <1>2, <3>1, <3>4
    <3> QED BY <2>2, <3>2, <3>5
  <2> QED BY <2>1, <2>2
<1>5. ASSUME NEW s \in 1..(3 * G)
      PROVE  s \in Slots(text) <=> s \in 1..Len(data)
  <2> DEFINE g == (s - 1) \div 3
             b == (s - 1) % 3
  <2>1. g \in 0..(G - 1) /\ b \in 0..2 /\ 3 * g + b + 1 = s
    BY <1>1, SMT
  <2>2. s \in Slots(text) <=> (b = 0 \/ Char(text, g, b + 1) # Pad)
    BY <1>3 DEF Slots
  <2> HIDE DEF g, b
  <2>3. s \in Slots(text) <=> s <= Len(data)
    BY <1>4, <2>1, <2>2
  <2> QED BY <1>1, <2>3, SMT
<1>6. Slots(text) \subseteq 1..(3 * G)
  BY <1>3 DEF Slots
<1>7. 1..Len(data) \subseteq 1..(3 * G)
  BY <1>1, SMT
<1> QED BY <1>5, <1>6, <1>7 DEF text

LEMMA NthOfInterval ==
    ASSUME NEW n \in Nat, NEW i \in 1..n
    PROVE  Nth(1..n, i) = i
<1>1. ASSUME NEW s \in 1..n
      PROVE  Cardinality({r \in 1..n : r <= s}) = s
  <2>1. {r \in 1..n : r <= s} = 1..s
    BY SMT
  <2>2. Cardinality(1..s) = s
    <3>1. 1 \in Int /\ s \in Int /\ (IF 1 > s THEN 0 ELSE s - 1 + 1) = s
      BY SMT
    <3> QED BY <3>1, FS_Interval
  <2> QED BY <2>1, <2>2
<1>2. Nth(1..n, i) = CHOOSE s \in 1..n : s = i
  BY <1>1 DEF Nth
<1> QED BY <1>2

(* Whatever the bytes of a blob and however many, its text is one that
   decode_base64 accepts, and decode_base64 makes the same bytes of it. *)
THEOREM EveryBlobArrives ==
    ASSUME NEW data \in Seq(Byte)
    PROVE  /\ Decodable(encode_base64(data))
           /\ decode_base64(encode_base64(data)) = data
<1> DEFINE text == encode_base64(data)
           G == Groups(Len(data))
           L == Len(data)
<1>1. /\ L \in Nat /\ G \in Nat /\ 3 * G >= L
  BY LenProperties, GroupsCover
<1>2. Len(text) = 4 * G /\ Slots(text) = 1..L
  BY TextOfBlob, SlotsOfText
<1>3. ASSUME NEW g \in 0..(G - 1)
      PROVE  GroupOk(text, g) /\ GroupNumber(text, g) = Number(data, g)
  BY GroupArrives
<1> HIDE DEF text, G, L
<1>4. Decodable(text)
  <2>1. Len(text) % 4 = 0 /\ Len(text) \div 4 = G
    BY <1>1, <1>2, SMT
  <2> QED BY <1>3, <2>1 DEF Decodable
<1>5. ASSUME NEW s \in 1..L
      PROVE  SlotByte(text, s) = data[s]
  <2> DEFINE g == (s - 1) \div 3
             b == (s - 1) % 3
  <2>1. g \in 0..(G - 1) /\ b \in 0..2 /\ 3 * g + b + 1 = s
    BY <1>1, SMT
  <2>2. g \in Nat /\ s \in Nat \ {0} /\ s <= L
    BY <1>1, <2>1, SMT
  <2>3. SlotByte(text, s) = ByteOf(GroupNumber(text, g), b)
    BY DEF SlotByte
  <2> HIDE DEF g, b
  <2>4. ByteOf(Number(data, g), b) = At(data, 3 * g + b + 1)
    BY <2>1, <2>2, NumberOfGroup
  <2> QED BY <1>3, <2>1, <2>2, <2>3, <2>4, AtIsByte DEF L
<1>6. Cardinality(Slots(text)) = L
  <2>1. 1 \in Int /\ L \in Int /\ (IF 1 > L THEN 0 ELSE L - 1 + 1) = L
    BY <1>1, SMT
  <2> QED BY <1>2, <2>1, FS_Interval
<1>7. decode_base64(text) = [i \in 1..L |-> data[i]]
  <2>1. decode_base64(text) = [i \in 1..L |-> SlotByte(text, Nth(1..L, i))]
    BY <1>2, <1>6 DEF decode_base64
  <2>2. ASSUME NEW i \in 1..L
        PROVE  SlotByte(text, Nth(1..L, i)) = data[i]
    BY <1>1, <1>5, NthOfInterval
  <2> QED BY <2>1, <2>2
<1>8. data = [i \in 1..L |-> data[i]]
  BY DEF L
<1> QED BY <1>4, <1>7, <1>8 DEF text
===============================================================================
