-------------------------------- MODULE Base64 --------------------------------
(***************************************************************************)
(* Bytes as text (protocol/src/lib.rs): a blob crosses the socket inside a *)
(* JSON string, encoded by the shim and decoded by the broker, and the     *)
(* other way round for a column.  Characters are their ASCII codes.        *)
(***************************************************************************)
EXTENDS Integers, Sequences, FiniteSets

Byte == 0..255
Pad  == 61          \* '='

(* TABLE: A-Z, a-z, 0-9, '+', '/'; and back, where -1 is an error. *)
Table(i) == IF i < 26 THEN 65 + i
            ELSE IF i < 52 THEN 71 + i
            ELSE IF i < 62 THEN i - 4
            ELSE IF i = 62 THEN 43 ELSE 47

Val(c) == IF 65 <= c /\ c <= 90 THEN c - 65
          ELSE IF 97 <= c /\ c <= 122 THEN c - 71
          ELSE IF 48 <= c /\ c <= 57 THEN c + 4
          ELSE IF c = 43 THEN 62 ELSE IF c = 47 THEN 63 ELSE -1

-----------------------------------------------------------------------------
(* Three bytes, as the number n, are four characters of six bits each; bytes
   past the end count as 0. *)
Groups(len) == (len + 2) \div 3

At(data, i) == IF i <= Len(data) THEN data[i] ELSE 0

Join(a, b, c) == 65536 * a + 256 * b + c

Number(data, g) ==
    Join(At(data, 3 * g + 1), At(data, 3 * g + 2), At(data, 3 * g + 3))

ByteOf(n, b) == IF b = 0 THEN (n \div 65536) % 256
                ELSE IF b = 1 THEN (n \div 256) % 256 ELSE n % 256

Sextet(n, j) == IF j = 0 THEN (n \div 262144) % 64
                ELSE IF j = 1 THEN (n \div 4096) % 64
                ELSE IF j = 2 THEN (n \div 64) % 64 ELSE n % 64

(* Mutation of Padded: two bytes get two '='. *)
PaddedTwice(len, g, j) == j >= 2 /\ (3 * g + j > len \/ 3 * g + 3 > len)

(* One byte left over leaves two characters to fill, two leave one. *)
Padded(len, g, j) == j >= 2 /\ 3 * g + j > len

encode_base64(data) ==
    [k \in 1..(4 * Groups(Len(data))) |->
        LET g == (k - 1) \div 4
            j == (k - 1) % 4
        IN IF Padded(Len(data), g, j) THEN Pad ELSE Table(Sextet(Number(data, g), j))]

-----------------------------------------------------------------------------
(* The characters of group g of a text, and the number they stand for. *)
Char(text, g, j) == text[4 * g + j + 1]

Digit(text, g, j) == IF Char(text, g, j) = Pad THEN 0 ELSE Val(Char(text, g, j))

GroupOk(text, g) ==
    /\ ~(Char(text, g, 2) = Pad /\ Char(text, g, 3) # Pad)
    /\ \A j \in 0..3 : \/ Val(Char(text, g, j)) # -1
                       \/ j \in {2, 3} /\ Char(text, g, j) = Pad

Decodable(text) ==
    /\ Len(text) % 4 = 0
    /\ \A g \in 0..(Len(text) \div 4 - 1) : GroupOk(text, g)

Pack(a, b, c, d) == 262144 * a + 4096 * b + 64 * c + d

GroupNumber(text, g) == Pack(Digit(text, g, 0), Digit(text, g, 1),
                             Digit(text, g, 2), Digit(text, g, 3))

(* A group yields three bytes, less one for every '='.  Slots number all the
   bytes a text could yield from 1; Slots(text) are the ones it does. *)
SlotByte(text, s) ==
    ByteOf(GroupNumber(text, (s - 1) \div 3), (s - 1) % 3)

Slots(text) ==
    {s \in 1..(3 * (Len(text) \div 4)) :
        LET g == (s - 1) \div 3
            b == (s - 1) % 3
        IN b = 0 \/ Char(text, g, b + 1) # Pad}

Nth(S, i) == CHOOSE s \in S : Cardinality({r \in S : r <= s}) = i

decode_base64(text) ==
    [i \in 1..Cardinality(Slots(text)) |-> SlotByte(text, Nth(Slots(text), i))]
=============================================================================
