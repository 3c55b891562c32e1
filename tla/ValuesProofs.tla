----------------------------- MODULE ValuesProofs -----------------------------
(***************************************************************************)
(* The way of a value from sqlite3_bind to sqlite3_column and back, for    *)
(* every number of parameters and every set of values.                     *)
(***************************************************************************)
EXTENDS Values, Base64Proofs, FiniteSetTheorems

LEMMA ValueFacts ==
    /\ Params \in Nat \ {0} /\ Null \in Value
    /\ Ulps \subseteq Nat
    /\ \A x \in Value :
          /\ x \in [type: {"null", "int", "real", "text", "blob"}, v: Seq(Int)]
          /\ x.type = "null" => x = Null
          /\ x.type = "int"  => Len(x.v) = 1
          /\ x.type = "real" => x.v = <<>> \/ x.v \in Int \X Ulps
          /\ x.type = "text" => x.v \in Seq(TextByte)
          /\ x.type = "blob" => x.v \in Seq(Byte)
BY ValuesAssumptions

LEMMA NullFacts ==
    Null.type = "null" /\ Null.v = <<>> /\ CellOf(Null) = Null /\ SqlOf(Null) = Null
    /\ RowCell(Null) = Null
BY DEF Null, CellOf, SqlOf, RowCell

(* The one parameter of an index, if it is carried. *)
LEMMA PositionFacts ==
    ASSUME ValuesIInv, NEW i \in Int
    PROVE  /\ Position(i) = 0 \/ Position(i) \in DOMAIN params
           /\ Position(i) = 0 <=> \A k \in DOMAIN params : params[k].index # i
           /\ Position(i) # 0 => params[Position(i)].index = i
<1> DEFINE I == {k \in 1..Len(params) : params[k].index = i}
<1>1. Position(i) = IF I # {} THEN Min(I) ELSE 0
  BY DEF Position, SelectInSeq
<1>2. DOMAIN params = 1..Len(params) /\ Len(params) \in Nat
  BY DEF ValuesIInv
<1>3. CASE I = {}
  BY <1>1, <1>2, <1>3
<1>4. CASE I # {}
  <2>1. PICK k \in I : TRUE
    BY <1>4
  <2>2. I = {k}
    BY <1>2, <2>1 DEF ValuesIInv, CarriedOnce
  <2>3. k \in Int /\ k > 0
    BY <1>2, <2>1
  <2>4. Min({k}) = k
    BY <2>3 DEF Min
  <2>5. Position(i) = k
    BY <1>1, <1>4, <2>2, <2>4
  <2> QED
    BY <1>2, <2>1, <2>3, <2>5
<1> QED
  BY <1>3, <1>4

-----------------------------------------------------------------------------
(* What becomes of a plain value. *)
LEMMA PlainText ==
    ASSUME NEW s \in Seq(Int), \A i \in DOMAIN s : s[i] # 0 /\ ~Broken(s[i])
    PROVE  UpToNul(s) = s /\ sql_from(s) = s /\ cstring_lossy(s) = s
<1>1. {i \in 1..Len(s) : s[i] = 0} = {}
  OBVIOUS
<1>2. UpToNul(s) = s
  BY <1>1 DEF UpToNul, SelectInSeq
<1>3. s = [i \in DOMAIN s |-> s[i]]
  OBVIOUS
<1>4. FromUtf8Lossy(s) = s
  BY <1>3 DEF FromUtf8Lossy
<1>5. cstring_lossy(s) = s
  BY <1>3 DEF cstring_lossy
<1> QED
  BY <1>2, <1>4, <1>5 DEF sql_from

LEMMA Blob ==
    ASSUME NEW x \in Value, x.type = "blob"
    PROVE  /\ x.v \in Seq(Byte)
           /\ Decodable(encode_base64(x.v)) /\ decode_base64(encode_base64(x.v)) = x.v
BY ValueFacts, EveryBlobArrives

(* JSON leaves the type of a cell, and what is no real altogether. *)
LEMMA OverJson ==
    ASSUME NEW t, NEW w, NEW c \in FromJson([type |-> t, v |-> w])
    PROVE  /\ c = [type |-> t, v |-> c.v]
           /\ t # "real" => c = [type |-> t, v |-> w]
<1> DEFINE cell == [type |-> t, v |-> w]
<1>1. CASE Long(cell)
  BY <1>1 DEF FromJson, Long
<1>2. CASE ~Long(cell)
  BY <1>2 DEF FromJson
<1> QED
  BY <1>1, <1>2

(* So do sqlite3_bind and the row, but for the blob that becomes NULL. *)
LEMMA ThroughSqlite ==
    ASSUME NEW t, NEW w, NEW c, c = RowCell(SqlOf([type |-> t, v |-> w]))
    PROVE  /\ c = [type |-> c.type, v |-> c.v]
           /\ t = "real" => c.type = "real"
           /\ t # "blob" => c.type # "blob"
<1>1. CASE t = "blob"
  BY <1>1 DEF SqlOf, RowCell, Null
<1>2. CASE t # "blob"
  BY <1>2 DEF SqlOf, RowCell
<1> QED
  BY <1>1, <1>2

LEMMA CellFacts ==
    ASSUME NEW x \in Value
    PROVE  CellOf(x) = [type |-> x.type, v |-> CellOf(x).v]
<1>1. x \in [type: {"null", "int", "real", "text", "blob"}, v: Seq(Int)]
      /\ x = [type |-> x.type, v |-> x.v]
  BY ValueFacts
<1> QED
  BY <1>1 DEF CellOf

LEMMA PlainConverted ==
    ASSUME NEW x \in Value, Plain(x)
    PROVE  RowCell(SqlOf(CellOf(x))) = CellOf(x)
<1>1. x \in [type: {"null", "int", "real", "text", "blob"}, v: Seq(Int)]
  BY ValueFacts
<1>2. CASE x.type \in {"null", "int", "real"}
  BY <1>1, <1>2 DEF CellOf, SqlOf, RowCell
<1>3. CASE x.type = "text"
  <2>1. \A i \in DOMAIN x.v : x.v[i] # 0 /\ ~Broken(x.v[i])
    BY <1>3 DEF Plain
  <2>2. x.v \in Seq(Int)
    BY <1>1
  <2>3. sql_from(x.v) = x.v /\ UpToNul(x.v) = x.v
    BY <2>1, <2>2, PlainText
  <2>4. [x EXCEPT !.v = x.v] = x
    BY <1>1
  <2> QED
    BY <1>3, <2>3, <2>4 DEF CellOf, SqlOf, RowCell
<1>4. CASE x.type = "blob"
  <2> DEFINE e == encode_base64(x.v)
  <2>1. decode_base64(e) = x.v /\ x.v # <<>>
    BY <1>4, Blob DEF Plain
  <2>2. CellOf(x) = [x EXCEPT !.v = e]
    BY <1>4 DEF CellOf
  <2>3. CellOf(x).type = "blob" /\ CellOf(x).v = e
    BY <1>1, <1>4, <2>2
  <2>4. SqlOf(CellOf(x)) = [CellOf(x) EXCEPT !.v = x.v]
    BY <2>1, <2>3 DEF SqlOf
  <2>5. SqlOf(CellOf(x)) = x
    BY <1>1, <2>2, <2>4
  <2> QED
    BY <1>4, <2>2, <2>5 DEF RowCell
<1> QED
  BY <1>1, <1>2, <1>3, <1>4

(* JSON, twice, leaves a plain value alone: it is no long real. *)
LEMMA PlainArrives ==
    ASSUME NEW x \in Value, Plain(x)
    PROVE  Returned(CellOf(x)) = {CellOf(x)}
<1>1. x = [type |-> x.type, v |-> x.v] /\ CellOf(x).type = x.type
  BY ValueFacts, CellFacts
<1>2. FromJson(CellOf(x)) = {CellOf(x)}
  <2>1. CASE x.type = "real"
    BY <2>1 DEF CellOf, Plain, FromJson
  <2>2. CASE x.type # "real"
    BY <1>1, <2>2 DEF FromJson, Long
  <2> QED
    BY <2>1, <2>2
<1>3. Returned(CellOf(x)) = FromJson(RowCell(SqlOf(CellOf(x))))
  BY <1>2 DEF Returned
<1> QED
  BY <1>2, <1>3, PlainConverted

LEMMA LongArrives ==
    ASSUME NEW x \in Value, Long(x), NEW r \in Returned(CellOf(x))
    PROVE  r.type = "real"
<1>1. x.type = "real" /\ CellOf(x) = [type |-> "real", v |-> CellOf(x).v]
  BY CellFacts DEF Long
<1>2. PICK c \in FromJson(CellOf(x)) : r \in FromJson(RowCell(SqlOf(c)))
  BY DEF Returned
<1>3. c = [type |-> "real", v |-> c.v]
  BY <1>1, <1>2, OverJson
<1> DEFINE d == RowCell(SqlOf(c))
<1>4. d = [type |-> "real", v |-> d.v]
  BY <1>3, ThroughSqlite
<1> HIDE DEF d
<1>5. r \in FromJson(d)
  BY <1>2 DEF d
<1> QED
  BY <1>4, <1>5, OverJson

(* A blob on a row has the bytes of the blob that was held. *)
LEMMA BlobArrives ==
    ASSUME NEW x \in Value, NEW r \in Returned(CellOf(x)), r.type = "blob"
    PROVE  blob_bytes(r.v) \in Seq(Byte)
<1>1. CellOf(x) = [type |-> x.type, v |-> CellOf(x).v]
  BY CellFacts
<1>2. PICK c \in FromJson(CellOf(x)) : r \in FromJson(RowCell(SqlOf(c)))
  BY DEF Returned
<1> DEFINE d == RowCell(SqlOf(c))
<1>3. c = [type |-> x.type, v |-> c.v] /\ (x.type # "real" => c = CellOf(x))
  BY <1>1, <1>2, OverJson
<1>4. d = [type |-> d.type, v |-> d.v] /\ (x.type # "blob" => d.type # "blob")
  BY <1>3, ThroughSqlite
<1> HIDE DEF d
<1>5. r \in FromJson(d)
  BY <1>2 DEF d
<1>6. r.type = d.type /\ (d.type # "real" => r = d)
  BY <1>4, <1>5, OverJson
<1>7. x.type = "blob" /\ r = d
  BY <1>4, <1>6
<1> DEFINE e == encode_base64(x.v)
<1>8. CellOf(x) = [type |-> "blob", v |-> e] /\ c = CellOf(x)
      /\ decode_base64(e) = x.v /\ Decodable(e) /\ x.v \in Seq(Byte)
  BY <1>1, <1>3, <1>7, Blob DEF CellOf
<1>9. x.v # <<>>
  <2> SUFFICES ASSUME x.v = <<>> PROVE FALSE
    OBVIOUS
  <2>1. SqlOf(c) = Null
    BY <1>8 DEF SqlOf
  <2> QED
    BY <1>7, <2>1, NullFacts DEF d
<1>10. r = CellOf(x)
  BY <1>7, <1>9, PlainArrives DEF Plain
<1> QED
  BY <1>8, <1>10 DEF blob_bytes

(* ... and what its column shows. *)
LEMMA PlainShows ==
    ASSUME NEW x \in Value, Plain(x), NEW i \in 1..Params, cell_at(i) = CellOf(x)
    PROVE  Shown(i) = x
<1>1. /\ x \in [type: {"null", "int", "real", "text", "blob"}, v: Seq(Int)]
      /\ x = [type |-> x.type, v |-> x.v]
  BY ValueFacts
<1>2. CASE x.type = "null"
  <2>1. cell_at(i).type = "null" /\ x.v = <<>>
    BY <1>2, ValueFacts, NullFacts
  <2> QED
    BY <1>1, <1>2, <2>1 DEF Shown, ColumnType
<1>3. CASE x.type \in {"int", "real"}
  <2>1. cell_at(i) = x
    BY <1>3 DEF CellOf
  <2>2. CASE x.type = "int"
    <3>1. x.v = <<x.v[1]>>
      BY <1>1, <2>2, ValueFacts
    <3> QED
      BY <1>1, <2>1, <2>2, <3>1 DEF Shown, ColumnType, ColumnInt64
  <2>3. CASE x.type = "real"
    BY <1>1, <2>1, <2>3 DEF Shown, ColumnType, ColumnDouble
  <2> QED
    BY <1>3, <2>2, <2>3
<1>4. CASE x.type = "text"
  <2>1. \A j \in DOMAIN x.v : x.v[j] # 0 /\ ~Broken(x.v[j])
    BY <1>4 DEF Plain
  <2>2. sql_from(x.v) = x.v /\ cstring_lossy(x.v) = x.v
    BY <1>1, <2>1, PlainText
  <2>3. cell_at(i) = x
    BY <1>1, <1>4, <2>2 DEF CellOf
  <2>4. ColumnText(i).v = x.v
    BY <1>4, <2>2, <2>3 DEF ColumnText, TextOf, Pointer
  <2> QED
    BY <1>1, <1>4, <2>3, <2>4 DEF Shown, ColumnType
<1>5. CASE x.type = "blob"
  <2> DEFINE e == encode_base64(x.v)
  <2>1. Decodable(e) /\ decode_base64(e) = x.v /\ x.v # <<>>
    BY <1>5, Blob DEF Plain
  <2>2. cell_at(i) = [x EXCEPT !.v = e]
    BY <1>5 DEF CellOf
  <2>3. cell_at(i).type = "blob" /\ cell_at(i).v = e
    BY <1>1, <1>5, <2>2
  <2>4. blob_bytes(e) = x.v
    BY <2>1 DEF blob_bytes
  <2>5. ColumnBlob(i).v = x.v
    BY <2>1, <2>3, <2>4 DEF ColumnBlob, Pointer
  <2> QED
    BY <1>1, <1>5, <2>3, <2>5 DEF Shown, ColumnType
<1> QED
  BY <1>1, <1>2, <1>3, <1>4, <1>5

-----------------------------------------------------------------------------
(* The parameters as a sequence. *)
Param == [index: 1..(Params + 1), value: {CellOf(x) : x \in Value}]

LEMMA Upserted ==
    ASSUME ValuesIInv, NEW i \in 1..(Params + 1), NEW x \in Value,
           NEW new, new = upsert_param(i, CellOf(x))
    PROVE  /\ new \in Seq(Param)
           /\ \A k, l \in DOMAIN new : new[k].index = new[l].index => k = l
           /\ \E k \in DOMAIN new : new[k].index = i
           /\ \A k \in DOMAIN new :
                 IF new[k].index = i THEN new[k].value = CellOf(x)
                 ELSE k \in DOMAIN params /\ new[k] = params[k]
           /\ \A k \in DOMAIN params : \E l \in DOMAIN new : new[l].index = params[k].index
<1> DEFINE p == [index |-> i, value |-> CellOf(x)]
<1>1. /\ params \in Seq(Param) /\ Len(params) \in Nat
      /\ DOMAIN params = 1..Len(params) /\ i \in Int
  BY ValueFacts DEF ValuesIInv, Param
<1>2. p \in Param /\ p.index = i /\ p.value = CellOf(x)
  BY DEF Param
<1>3. CASE Position(i) = 0
  <2>1. new = Append(params, p)
    BY <1>3 DEF upsert_param
  <2>2. \A k \in DOMAIN params : params[k].index # i
    BY <1>1, <1>3, PositionFacts
  <2> HIDE DEF p
  <2>3. /\ new \in Seq(Param) /\ Len(new) = Len(params) + 1
        /\ DOMAIN new = 1..(Len(params) + 1)
        /\ \A k \in DOMAIN params : new[k] = params[k]
        /\ new[Len(params) + 1] = p
    BY <1>1, <1>2, <2>1
  <2>4. \A k \in DOMAIN new : k \in DOMAIN params \/ k = Len(params) + 1
    BY <1>1, <2>3
  <2>5. Len(params) + 1 \in DOMAIN new /\ \A k \in DOMAIN params : k \in DOMAIN new
    BY <1>1, <2>3
  <2> QED
    BY <1>2, <2>2, <2>3, <2>4, <2>5 DEF ValuesIInv, CarriedOnce
<1>4. CASE Position(i) # 0
  <2> DEFINE j == Position(i)
  <2>1. new = [params EXCEPT ![j].value = CellOf(x)]
    BY <1>4 DEF upsert_param
  <2>2. j \in DOMAIN params /\ params[j].index = i
    BY <1>1, <1>4, PositionFacts
  <2> HIDE DEF j
  <2>3. params[j] \in Param
    BY <1>1, <2>2
  <2>4. /\ DOMAIN new = DOMAIN params /\ new[j] = [params[j] EXCEPT !.value = CellOf(x)]
        /\ \A k \in DOMAIN params : k # j => new[k] = params[k]
    BY <1>1, <2>1, <2>2
  <2>5. new[j] \in Param /\ new[j].index = i /\ new[j].value = CellOf(x)
    BY <2>2, <2>3, <2>4 DEF Param
  <2>6. new \in Seq(Param)
    <3>1. \A k \in DOMAIN params : new[k] \in Param
      BY <1>1, <2>4, <2>5
    <3>2. new = [k \in 1..Len(params) |-> new[k]]
      BY <1>1, <2>1
    <3> QED
      BY <1>1, <3>1, <3>2
  <2>7. \A k \in DOMAIN params : params[k].index = i => k = j
    BY <2>2 DEF ValuesIInv, CarriedOnce
  <2>8. \A k \in DOMAIN params : new[k].index = params[k].index
    BY <2>2, <2>4, <2>5
  <2>9. \A k, l \in DOMAIN new : new[k].index = new[l].index => k = l
    BY <2>4, <2>8 DEF ValuesIInv, CarriedOnce
  <2>10. \A k \in DOMAIN new : IF new[k].index = i THEN new[k].value = CellOf(x)
                               ELSE k \in DOMAIN params /\ new[k] = params[k]
    BY <2>4, <2>5, <2>7, <2>8
  <2> QED
    BY <2>2, <2>4, <2>5, <2>6, <2>8, <2>9, <2>10
<1> QED
  BY <1>3, <1>4

(* Parameters that are carried once are at most as many as there are indices. *)
LEMMA FewParams ==
    ASSUME NEW s \in Seq(Param), \A k, l \in DOMAIN s : s[k].index = s[l].index => k = l
    PROVE  Len(s) <= Params + 1
<1> DEFINE f == [k \in 1..Len(s) |-> s[k].index]
<1>1. /\ Len(s) \in Nat /\ DOMAIN s = 1..Len(s) /\ Params + 1 \in Nat
      /\ \A k \in 1..Len(s) : s[k].index \in 1..(Params + 1)
  <2>1. Params \in Nat
    BY ValueFacts
  <2>2. \A k \in 1..Len(s) : s[k] \in Param
    OBVIOUS
  <2>3. \A q \in Param : q.index \in 1..(Params + 1)
    BY DEF Param
  <2>4. Len(s) \in Nat /\ DOMAIN s = 1..Len(s)
    BY LenProperties
  <2> QED
    BY <2>1, <2>2, <2>3, <2>4
<1>2. f \in Injection(1..Len(s), 1..(Params + 1))
  BY <1>1 DEF Injection, IsInjective
<1> DEFINE n == Params + 1
<1>3. /\ IsFiniteSet(1..n) /\ Cardinality(1..n) = n
      /\ Cardinality(1..Len(s)) = Len(s)
  <2>1. n \in Nat /\ n >= 1 /\ Len(s) \in Nat
    BY <1>1, ValueFacts
  <2> HIDE DEF n
  <2>2. IsFiniteSet(1..n) /\ Cardinality(1..n) = IF 1 > n THEN 0 ELSE n - 1 + 1
    BY <2>1, FS_Interval
  <2>3. Cardinality(1..Len(s)) = IF 1 > Len(s) THEN 0 ELSE Len(s) - 1 + 1
    BY <2>1, FS_Interval
  <2> QED
    BY <2>1, <2>2, <2>3
<1> HIDE DEF f
<1>4. Cardinality(1..Len(s)) <= Cardinality(1..(Params + 1))
  BY <1>2, <1>3, FS_Injection
<1> QED
  BY <1>3, <1>4

-----------------------------------------------------------------------------
LEMMA HeldFacts ==
    ASSUME ValuesIInv
    PROVE  /\ \A i \in 1..Params : held[i] \in Value /\ asked[i] \in Value
           /\ params \in Seq(Param)
           /\ \A k \in DOMAIN params : params[k] \in Param
<1>1. \A i \in 1..Params : held[i] \in Value /\ asked[i] \in Value
  BY DEF ValuesIInv, ValuesTypeOK
<1>2. params \in Seq(Param)
  BY DEF ValuesIInv, Param
<1> QED
  BY <1>1, <1>2

LEMMA BindKeeps ==
    ASSUME ValuesIInv, NEW i \in 1..(Params + 1), NEW x \in Value, Bind(i, x)
    PROVE  ValuesIInv'
<1>1. /\ params' = upsert_param(i, CellOf(x)) /\ at = "ready"
      /\ held' = (IF i <= Params THEN [held EXCEPT ![i] = x] ELSE held)
      /\ UNCHANGED <<at, asked, row, session>>
  BY DEF Bind
<1>2. /\ params' \in Seq(Param) /\ CarriedOnce'
      /\ \E k \in DOMAIN params' : params'[k].index = i
      /\ \A k \in DOMAIN params' :
            IF params'[k].index = i THEN params'[k].value = CellOf(x)
            ELSE k \in DOMAIN params /\ params'[k] = params[k]
      /\ \A k \in DOMAIN params : \E l \in DOMAIN params' : params'[l].index = params[k].index
  BY <1>1, Upserted DEF CarriedOnce
<1>3. Params \in Nat /\ i \in Nat /\ \A k \in DOMAIN params : params[k].index \in Int
  BY ValueFacts, HeldFacts DEF Param
<1>4. \A j \in 1..Params : held'[j] = IF j = i THEN x ELSE held[j]
  BY <1>1, <1>3 DEF ValuesIInv, ValuesTypeOK
<1>5. ValuesTypeOK'
  <2>1. held' \in [1..Params -> Value]
    BY <1>1, <1>3 DEF ValuesIInv, ValuesTypeOK
  <2>2. Len(params') <= Params + 1
    BY <1>2, FewParams DEF CarriedOnce
  <2> QED
    BY <1>1, <2>1, <2>2 DEF ValuesIInv, ValuesTypeOK
<1>6. CarriesTheHeld'
  <2>1. ASSUME NEW k \in DOMAIN params', params'[k].index <= Params
        PROVE  params'[k].value = CellOf(held'[params'[k].index])
    <3>1. params'[k] \in Param
      BY <1>2
    <3>2. params'[k].index \in 1..Params
      BY <1>3, <2>1, <3>1 DEF Param
    <3>3. CASE params'[k].index = i
      BY <1>2, <1>4, <3>2, <3>3
    <3>4. CASE params'[k].index # i
      <4>1. k \in DOMAIN params /\ params'[k] = params[k]
        BY <1>2, <3>4
      <4>2. params[k].value = CellOf(held[params[k].index])
        BY <2>1, <4>1 DEF ValuesIInv, CarriesTheHeld
      <4> QED
        BY <1>4, <3>2, <3>4, <4>1, <4>2
    <3> QED
      BY <3>3, <3>4
  <2>2. ASSUME NEW j \in 1..Params, \A k \in DOMAIN params' : params'[k].index # j
        PROVE  held'[j] = Null
    <3>1. j # i /\ \A k \in DOMAIN params : params[k].index # j
      BY <1>2, <2>2
    <3> QED
      BY <1>4, <3>1 DEF ValuesIInv, CarriesTheHeld
  <2> QED
    BY <2>1, <2>2 DEF CarriesTheHeld
<1>7. RowOfTheAsked'
  BY <1>1 DEF RowOfTheAsked
<1> QED
  BY <1>2, <1>5, <1>6, <1>7 DEF ValuesIInv, Param

LEMMA ClearKeeps ==
    ASSUME ValuesIInv, ClearBindings
    PROVE  ValuesIInv'
<1>1. /\ params' = <<>> /\ held' = [i \in 1..Params |-> Null]
      /\ UNCHANGED <<at, asked, row, session>>
  BY DEF ClearBindings
<1>2. params' \in Seq(Param) /\ DOMAIN params' = {} /\ Len(params') <= Params + 1
  BY <1>1, ValueFacts
<1>3. held' \in [1..Params -> Value] /\ \A i \in 1..Params : held'[i] = Null
  BY <1>1, ValueFacts
<1> QED
  BY <1>1, <1>2, <1>3
     DEF ValuesIInv, ValuesTypeOK, CarriedOnce, CarriesTheHeld, RowOfTheAsked, Param

LEMMA ResetKeeps ==
    ASSUME ValuesIInv, Reset
    PROVE  ValuesIInv'
<1>1. /\ asked' = [i \in 1..Params |-> Null] /\ at' = "ready"
      /\ UNCHANGED <<held, params, session>>
  BY DEF Reset
<1>2. asked' \in [1..Params -> Value]
  BY <1>1, ValueFacts
<1> QED
  BY <1>1, <1>2
     DEF ValuesIInv, ValuesTypeOK, CarriedOnce, CarriesTheHeld, RowOfTheAsked

(* What is carried for a parameter is the cell of what is held for it. *)
LEMMA CarriedIsHeld ==
    ASSUME ValuesIInv, NEW i \in 1..Params
    PROVE  Carried(i) = CellOf(held[i])
<1>1. i \in Int /\ i <= Params
  BY ValueFacts
<1>2. CASE Position(i) = 0
  <2>1. held[i] = Null
    BY <1>1, <1>2, PositionFacts DEF ValuesIInv, CarriesTheHeld
  <2> QED
    BY <1>2, <2>1, NullFacts DEF Carried
<1>3. CASE Position(i) # 0
  <2>1. Position(i) \in DOMAIN params /\ params[Position(i)].index = i
    BY <1>1, <1>3, PositionFacts
  <2>2. params[Position(i)].value = CellOf(held[i])
    BY <1>1, <2>1 DEF ValuesIInv, CarriesTheHeld
  <2> QED
    BY <1>3, <2>2 DEF Carried
<1> QED
  BY <1>2, <1>3

LEMMA StepKeeps ==
    ASSUME ValuesIInv, StepRuns \/ StepOn
    PROVE  ValuesIInv'
<1>1. UNCHANGED <<held, params>> /\ at' \in {"row", "done", "error"}
      /\ session' \in {"open", "dropped"} /\ asked' \in [1..Params -> Value]
  BY DEF StepRuns, StepOn, ValuesIInv, ValuesTypeOK
<1>2. RowOfTheAsked'
  <2> SUFFICES ASSUME at' = "row"
               PROVE  /\ DOMAIN row' = 1..Params
                      /\ \A i \in 1..Params : row'[i] \in Returned(CellOf(asked'[i]))
    BY DEF RowOfTheAsked
  <2>1. row' \in Rows /\ asked' = held
    BY DEF StepRuns, StepOn
  <2>2. DOMAIN row' = 1..Params /\ \A i \in 1..Params : row'[i] \in Returned(Carried(i))
    BY <2>1 DEF Rows
  <2> QED
    BY <2>1, <2>2, CarriedIsHeld
<1> QED
  BY <1>1, <1>2 DEF ValuesIInv, ValuesTypeOK, CarriedOnce, CarriesTheHeld

(* What is carried to the broker is what the application holds, whatever it
   bound, cleared and bound again (upsert_param, step_stmt, bind_all). *)
THEOREM ValuesInductive == Spec => []ValuesIInv
<1>1. Init => ValuesIInv
  <2> SUFFICES ASSUME Init PROVE ValuesIInv
    OBVIOUS
  <2>1. /\ params \in Seq(Param) /\ DOMAIN params = {} /\ Len(params) <= Params + 1
        /\ at = "ready" /\ session = "open"
    BY ValueFacts DEF Init
  <2>2. /\ held \in [1..Params -> Value] /\ asked \in [1..Params -> Value]
        /\ \A i \in 1..Params : held[i] = Null
    BY ValueFacts DEF Init
  <2> QED
    BY <2>1, <2>2
       DEF ValuesIInv, ValuesTypeOK, CarriedOnce, CarriesTheHeld, RowOfTheAsked, Param
<1>2. ValuesIInv /\ [Next]_vars => ValuesIInv'
  <2>1. CASE UNCHANGED vars
    BY <2>1 DEF vars, ValuesIInv, ValuesTypeOK, CarriedOnce, CarriesTheHeld,
       RowOfTheAsked
  <2> QED
    BY <2>1, BindKeeps, ClearKeeps, ResetKeeps, StepKeeps DEF Next
<1> QED
  BY <1>1, <1>2, PTL DEF Spec

(* A plain value is read as it was bound, type and content: the CString, the
   JSON cell, base64, sqlite3_bind, the row and the cache on its way take it
   for no other.  A real with more digits than the JSON parser reads exactly is
   none of these; it comes back as a real. *)
THEOREM PlainValuesArrive == Spec => []PlainValuesSurvive
<1>1. ValuesIInv => PlainValuesSurvive
  <2> SUFFICES ASSUME ValuesIInv, at = "row", NEW i \in 1..Params
               PROVE  /\ Plain(asked[i]) => Shown(i) = asked[i]
                      /\ Long(asked[i])  => ColumnType(i) = "real"
    BY DEF PlainValuesSurvive
  <2>1. asked[i] \in Value
    BY HeldFacts
  <2>2. cell_at(i) \in Returned(CellOf(asked[i]))
    BY DEF cell_at, ValuesIInv, RowOfTheAsked
  <2>3. ASSUME Plain(asked[i]) PROVE Shown(i) = asked[i]
    <3>1. cell_at(i) = CellOf(asked[i])
      BY <2>1, <2>2, <2>3, PlainArrives
    <3> QED
      BY <2>1, <2>3, <3>1, PlainShows
  <2>4. ASSUME Long(asked[i]) PROVE ColumnType(i) = "real"
    BY <2>1, <2>2, <2>4, LongArrives DEF ColumnType
  <2> QED
    BY <2>3, <2>4
<1> QED
  BY <1>1, ValuesInductive, PTL

(* The length of a String: no less than its characters, and that if none of
   them is the replacement character. *)
LEMMA Utf8Lengths ==
    ASSUME NEW s \in Seq(Int)
    PROVE  /\ LenUtf8(s) \in Nat /\ LenUtf8(s) >= Len(s)
           /\ (\A k \in DOMAIN s : s[k] # Replacement) => LenUtf8(s) = Len(s)
<1> DEFINE R == {k \in DOMAIN s : s[k] = Replacement}
<1>1. IsFiniteSet(R) /\ Len(s) \in Nat
  <2>1. DOMAIN s = 1..Len(s) /\ Len(s) \in Nat
    BY LenProperties
  <2>2. IsFiniteSet(1..Len(s))
    BY <2>1, FS_Interval
  <2> QED
    BY <2>1, <2>2, FS_Subset
<1>2. Cardinality(R) \in Nat
  BY <1>1, FS_CardinalityType
<1>3. LenUtf8(s) = Len(s) + 2 * Cardinality(R)
  BY DEF LenUtf8
<1>4. ASSUME \A k \in DOMAIN s : s[k] # Replacement PROVE LenUtf8(s) = Len(s)
  <2>1. R = {}
    BY <1>4
  <2>2. Cardinality(R) = 0
    BY <2>1, FS_EmptySet
  <2> HIDE DEF R
  <2> QED
    BY <1>1, <1>3, <2>2
<1>5. LenUtf8(s) \in Nat /\ LenUtf8(s) >= Len(s)
  <2> HIDE DEF R
  <2> QED
    BY <1>1, <1>2, <1>3
<1> QED
  BY <1>4, <1>5

(* The text made of bytes, and the bytes themselves as a String would count
   them. *)
LEMMA TextOfBytes ==
    ASSUME NEW s \in Seq(Byte), NEW text, text = cstring_lossy(FromUtf8Lossy(s))
    PROVE  /\ LenUtf8(s) = Len(s) /\ LenUtf8(text) \in Nat /\ LenUtf8(text) >= Len(s)
           /\ (\A k \in DOMAIN s : s[k] \in Ascii) => LenUtf8(text) = Len(s)
<1>1. /\ DOMAIN s = 1..Len(s) /\ Len(s) \in Nat /\ s \in Seq(Int)
      /\ \A k \in 1..Len(s) : s[k] \in Int /\ 0 <= s[k] /\ s[k] <= 255
  <2>1. DOMAIN s = 1..Len(s) /\ Len(s) \in Nat /\ \A k \in 1..Len(s) : s[k] \in Byte
    BY LenProperties, ElementOfSeq
  <2>2. \A b \in Byte : b \in Int /\ 0 <= b /\ b <= 255
    BY DEF Byte
  <2>3. s = [k \in 1..Len(s) |-> s[k]]
    BY <2>1
  <2>4. \A k \in 1..Len(s) : s[k] \in Int /\ 0 <= s[k] /\ s[k] <= 255
    BY <2>1, <2>2
  <2> QED
    BY <2>1, <2>3, <2>4
<1>2. \A k \in DOMAIN s : s[k] # Replacement
  <2> SUFFICES ASSUME NEW k \in 1..Len(s) PROVE s[k] # Replacement
    BY <1>1
  <2>1. s[k] \in Int /\ s[k] <= 255
    BY <1>1
  <2> QED
    BY <2>1 DEF Replacement
<1>3. LenUtf8(s) = Len(s)
  BY <1>1, <1>2, Utf8Lengths
<1> DEFINE l == FromUtf8Lossy(s)
<1>4. /\ DOMAIN l = 1..Len(s)
      /\ \A k \in 1..Len(s) : l[k] = IF Broken(s[k]) THEN Replacement ELSE s[k]
  BY <1>1 DEF FromUtf8Lossy
<1> HIDE DEF l
<1>5. text = [k \in 1..Len(s) |-> IF l[k] = 0 THEN 32 ELSE l[k]]
  BY <1>4 DEF cstring_lossy, l
<1>6. \A k \in 1..Len(s) : text[k] \in Int /\ (text[k] = Replacement => Broken(s[k]))
  BY <1>1, <1>2, <1>4, <1>5 DEF Replacement
<1>7. text \in Seq(Int) /\ Len(text) = Len(s) /\ DOMAIN text = 1..Len(s)
  BY <1>1, <1>5, <1>6
<1>8. LenUtf8(text) \in Nat /\ LenUtf8(text) >= Len(s)
  BY <1>7, Utf8Lengths
<1>9. ASSUME \A k \in DOMAIN s : s[k] \in Ascii PROVE LenUtf8(text) = Len(s)
  <2>1. \A k \in 1..Len(s) : ~Broken(s[k])
    <3>1. \A b \in Ascii : ~Broken(b)
      BY DEF Ascii, Broken
    <3> QED
      BY <1>1, <1>9, <3>1
  <2> QED
    BY <1>6, <1>7, <2>1, Utf8Lengths
<1> QED
  BY <1>3, <1>8, <1>9

(* Lengths fit pointers in every state, however sqlite3_column_bytes, _text
   and _blob came to their cell; the text of a blob may be longer, never
   shorter, and only where bytes of it are no ASCII. *)
THEOREM LengthsFit == Spec => []BytesFitThePointer
<1>1. ValuesIInv => BytesFitThePointer
  <2> SUFFICES ASSUME ValuesIInv, NEW i \in 1..Params
               PROVE  /\ ColumnBytes(i) = LenUtf8(ColumnBlob(i).v)
                      /\ \/ ColumnBytes(i) = LenUtf8(ColumnText(i).v)
                         \/ /\ ColumnBytes(i) < LenUtf8(ColumnText(i).v)
                            /\ ColumnType(i) = "blob"
                            /\ \E k \in DOMAIN ColumnBlob(i).v :
                                  ColumnBlob(i).v[k] \notin Ascii
    BY DEF BytesFitThePointer
  <2>1. LenUtf8(<<>>) = 0
    <3>1. {j \in DOMAIN <<>> : <<>>[j] = Replacement} = {}
      OBVIOUS
    <3> QED
      BY <3>1, FS_EmptySet DEF LenUtf8
  <2>2. CASE cell_at(i).type = "null"
    BY <2>1, <2>2 DEF ColumnBytes, ColumnText, ColumnBlob, NullPtr
  <2>3. CASE cell_at(i).type = "blob"
    <3> DEFINE b == blob_bytes(cell_at(i).v)
    <3>1. b \in Seq(Byte)
      <4>1. at = "row"
        BY <2>3, NullFacts DEF cell_at
      <4>2. asked[i] \in Value /\ cell_at(i) \in Returned(CellOf(asked[i]))
        BY <4>1, HeldFacts DEF cell_at, ValuesIInv, RowOfTheAsked
      <4> QED
        BY <2>3, <4>2, BlobArrives
    <3>2. ColumnBytes(i) = Len(b) /\ ColumnBlob(i).v = b
      BY <2>3 DEF ColumnBytes, ColumnBlob, Pointer, NullPtr
    <3>3. ColumnText(i).v = cstring_lossy(FromUtf8Lossy(b))
      BY <2>3 DEF ColumnText, TextOf, Pointer
    <3> HIDE DEF b
    <3>4. /\ LenUtf8(b) = Len(b) /\ LenUtf8(ColumnText(i).v) >= Len(b)
          /\ (\A k \in DOMAIN b : b[k] \in Ascii) => LenUtf8(ColumnText(i).v) = Len(b)
      BY <3>1, <3>3, TextOfBytes
    <3>5. CASE \A k \in DOMAIN b : b[k] \in Ascii
      BY <3>2, <3>4, <3>5
    <3>6. CASE \E k \in DOMAIN b : b[k] \notin Ascii
      <4> DEFINE n == LenUtf8(ColumnText(i).v)
      <4>1. n \in Int /\ Len(b) \in Int /\ n >= Len(b)
        BY <3>1, <3>3, <3>4, TextOfBytes, LenProperties
      <4> HIDE DEF n
      <4>2. Len(b) = n \/ Len(b) < n
        BY <4>1
      <4> QED
        BY <2>3, <3>2, <3>4, <3>6, <4>2 DEF ColumnType, n
    <3> QED
      BY <3>5, <3>6
  <2>4. CASE cell_at(i).type \notin {"null", "blob"}
    BY <2>4 DEF ColumnBytes, ColumnText, ColumnBlob, Pointer
  <2> QED
    BY <2>2, <2>3, <2>4
<1> QED
  BY <1>1, ValuesInductive, PTL

(* sqlite3_column_* after the last row, before the first and after an error
   show NULL, though ProxyStmt still has the rows. *)
THEOREM NothingOffTheRow == Spec => []NoValueOffTheRow
<1>1. NoValueOffTheRow
  <2> SUFFICES ASSUME at # "row", NEW i \in 1..Params
               PROVE  /\ ColumnType(i) = "null" /\ ColumnText(i).null /\ ColumnBlob(i).null
                      /\ ColumnInt64(i) = 0 /\ ColumnDouble(i) = <<0, 0>> /\ ColumnBytes(i) = 0
    BY DEF NoValueOffTheRow
  <2>1. cell_at(i).type = "null"
    BY NullFacts DEF cell_at
  <2> QED
    BY <2>1 DEF ColumnType, ColumnText, ColumnBlob, ColumnInt64, ColumnDouble,
       ColumnBytes, NullPtr
<1> QED
  BY <1>1, PTL
=============================================================================
