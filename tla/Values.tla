-------------------------------- MODULE Values --------------------------------
(***************************************************************************)
(* The values of a statement: bound by the application, carried to the     *)
(* broker in the request, bound there to SQLite, read back from the row,   *)
(* carried in the response and read by the application with the column     *)
(* accessors.  The statement is SELECT ?1, ?2, ..., which returns what     *)
(* SQLite was given.                                                       *)
(*                                                                         *)
(* v is a sequence for every type: of bytes for a text or a blob, of one   *)
(* number for an integer, empty for NULL and for a real that is not        *)
(* finite.  A finite real is <<h, u>>: h halves, a number of few digits,   *)
(* and u units in the last place beside it.  If u is not 0, it takes 17    *)
(* digits or so to write it.                                               *)
(***************************************************************************)
EXTENDS Base64, SequencesExt

CONSTANTS
    Params,     \* parameters of the statement
    Value,      \* what the application binds
    Ulps        \* the units in the last place that reals have

Null == [type |-> "null", v |-> <<>>]

(* The bytes of texts: of ASCII, and bytes that occur in no UTF-8. *)
Ascii     == 0..127
Broken(b) == b \in 248..255
TextByte  == Ascii \cup {b \in Byte : Broken(b)}

ASSUME ValuesAssumptions ==
    /\ Params \in Nat \ {0} /\ Null \in Value
    /\ Ulps \subseteq Nat
    /\ \A x \in Value :
          /\ x \in [type: {"null", "int", "real", "text", "blob"}, v: Seq(Int)]
          /\ x.type = "null" => x = Null
          /\ x.type = "int"  => Len(x.v) = 1
          /\ x.type = "real" => x.v = <<>> \/ x.v \in Int \X Ulps
          /\ x.type = "text" => x.v \in Seq(TextByte)
          /\ x.type = "blob" => x.v \in Seq(Byte)

VARIABLES
    held,       \* held[i]: what the application bound last
    params,     \* ProxyStmt.params
    at,         \* the statement: "ready", or what its last step returned
    asked,      \* held, when the row on hand was asked for
    row,        \* the row on hand
    session     \* the broker's session: "open" or "dropped"

vars == <<held, params, at, asked, row, session>>

-----------------------------------------------------------------------------
(* Where a String is made of bytes, one that occurs in no UTF-8 becomes the
   replacement character, three bytes long.  (A blob may also have bytes of
   longer characters; whether they are any is not looked at.) *)
Replacement == 65533

UpToNul(s) == LET nul == SelectInSeq(s, LAMBDA b : b = 0)
              IN IF nul = 0 THEN s ELSE SubSeq(s, 1, nul - 1)

FromUtf8Lossy(s) == [i \in DOMAIN s |-> IF Broken(s[i]) THEN Replacement ELSE s[i]]

sql_from(s) == FromUtf8Lossy(UpToNul(s))

(* Mutation of cstring_lossy: the text ends at a NUL. *)
cstring_lossy_cut(s) == UpToNul(s)

cstring_lossy(s) == [i \in DOMAIN s |-> IF s[i] = 0 THEN 32 ELSE s[i]]

LenUtf8(s) == Len(s) + 2 * Cardinality({i \in DOMAIN s : s[i] = Replacement})

(* Rust's Display of an i64 of one digit, and of an f64; the many digits after
   the point of a long one stand as two. *)
Digits(n)  == <<48 + n>>
Decimal(v) ==
    Digits(v[1] \div 2) \o
        CASE v[2] # 0     -> <<46, 48 + 5 * (v[1] % 2), 48 + v[2]>>
          [] v[1] % 2 = 1 -> <<46, 53>>
          [] OTHER        -> <<>>

(* str::parse of a whole number. *)
Parse(s) == IF Len(s) = 1 /\ s[1] \in 48..57 THEN s[1] - 48 ELSE 0

-----------------------------------------------------------------------------
(* sqlite3_bind_*: the cell that stands for a value. *)
CellOf(x) ==
    CASE x.type = "text" -> [x EXCEPT !.v = sql_from(x.v)]
      [] x.type = "blob" -> [x EXCEPT !.v = encode_base64(x.v)]
      [] OTHER -> x

Position(i) == SelectInSeq(params, LAMBDA p : p.index = i)

(* Mutation of upsert_param: the parameter is added. *)
upsert_param_add(i, cell) == Append(params, [index |-> i, value |-> cell])

(* Mutation of upsert_param: a parameter that is there stays. *)
upsert_param_keep(i, cell) ==
    IF Position(i) = 0 THEN Append(params, [index |-> i, value |-> cell]) ELSE params

upsert_param(i, cell) ==
    IF Position(i) = 0 THEN Append(params, [index |-> i, value |-> cell])
    ELSE [params EXCEPT ![Position(i)].value = cell]

(* An index past the last parameter is accepted here. *)
Bind(i, x) ==
    /\ at = "ready"
    /\ i > Params => x = Null
    /\ params' = upsert_param(i, CellOf(x))
    /\ held' = IF i <= Params THEN [held EXCEPT ![i] = x] ELSE held
    /\ UNCHANGED <<at, asked, row, session>>

ClearBindings ==
    /\ params' = <<>>
    /\ held' = [i \in 1..Params |-> Null]
    /\ UNCHANGED <<at, asked, row, session>>

Reset ==
    /\ at # "ready"
    /\ at' = "ready" /\ row' = <<>>
    /\ asked' = [i \in 1..Params |-> Null]
    /\ UNCHANGED <<held, params, session>>

-----------------------------------------------------------------------------
(* Finite, but of more digits than serde_json parses exactly (as the crate is
   used, without float_roundtrip): a significand from 2^53 on, or a power of
   ten beyond 22. *)
Long(cell) == cell.type = "real" /\ cell.v # <<>> /\ cell.v[2] # 0

(* What the other side may read for a cell.  A number that is not finite is
   written as null, which is no f64; a long one may become a neighbour. *)
FromJson(cell) ==
    IF cell.type = "real" /\ cell.v = <<>> THEN {}
    ELSE IF Long(cell) THEN {[cell EXCEPT !.v = <<@[1], u>>] : u \in Ulps}
    ELSE {cell}

(* bind_all; an empty blob is bound as a null pointer, which is NULL. *)
SqlOf(cell) ==
    IF cell.type # "blob" THEN cell
    ELSE IF decode_base64(cell.v) = <<>> THEN Null
    ELSE [cell EXCEPT !.v = decode_base64(cell.v)]

(* An index past the last parameter, or a blob that is not base64. *)
Bindable == \A k \in DOMAIN params :
    LET p == params[k] IN
    /\ p.index <= Params
    /\ p.value.type = "blob" => Decodable(p.value.v)

Carried(i) == IF Position(i) = 0 THEN Null ELSE params[Position(i)].value

(* read_row *)
RowCell(x) ==
    CASE x.type = "text" -> [x EXCEPT !.v = UpToNul(x.v)]
      [] x.type = "blob" -> [x EXCEPT !.v = encode_base64(x.v)]
      [] OTHER -> x

(* What may come back for a cell: the request, SQLite and the response. *)
Returned(cell) == UNION {FromJson(RowCell(SqlOf(c))) : c \in FromJson(cell)}

Rows ==
    {r \in [1..Params -> UNION {Returned(Carried(i)) : i \in 1..Params}] :
        \A i \in 1..Params : r[i] \in Returned(Carried(i))}

(* The broker takes a request it cannot read for the end of the client: it
   drops the session, after which every call fails. *)
StepRuns ==
    /\ at = "ready"
    /\ IF session = "dropped" \/ \E k \in DOMAIN params : FromJson(params[k].value) = {}
       THEN at' = "error" /\ session' = "dropped" /\ UNCHANGED row
       ELSE /\ at' = IF Bindable THEN "row" ELSE "error"
            /\ row' \in IF Bindable THEN Rows ELSE {row}
            /\ UNCHANGED session
    /\ asked' = held
    /\ UNCHANGED <<held, params>>

StepOn ==
    /\ at = "row" /\ at' = "done"
    /\ UNCHANGED <<held, params, asked, row, session>>

-----------------------------------------------------------------------------
(* sqlite3_column_*: nothing but on a row. *)
Pointer(v) == [null |-> FALSE, v |-> v]
NullPtr    == [null |-> TRUE, v |-> <<>>]

(* Mutation of cell_at: the row on hand, whatever the last step returned. *)
cell_at_always(i) == IF i \in DOMAIN row THEN row[i] ELSE Null

cell_at(i) == IF at = "row" THEN row[i] ELSE Null

blob_bytes(text) == IF Decodable(text) THEN decode_base64(text) ELSE <<>>

(* cache_row: the text of every cell. *)
TextOf(cell) ==
    CASE cell.type = "blob" -> cstring_lossy(FromUtf8Lossy(blob_bytes(cell.v)))
      [] cell.type = "int"  -> Digits(cell.v[1])
      [] cell.type = "real" -> Decimal(cell.v)
      [] OTHER -> cstring_lossy(cell.v)

ColumnType(i) == cell_at(i).type

ColumnInt64(i) ==
    LET c == cell_at(i) IN
    CASE c.type = "int"  -> c.v[1]
      [] c.type = "real" -> c.v[1] \div 2
      [] c.type = "text" -> Parse(c.v)
      [] OTHER -> 0

ColumnDouble(i) ==
    LET c == cell_at(i) IN
    CASE c.type = "real" -> c.v
      [] c.type = "int"  -> <<2 * c.v[1], 0>>
      [] c.type = "text" -> <<2 * Parse(c.v), 0>>
      [] OTHER -> <<0, 0>>

ColumnText(i) ==
    IF cell_at(i).type = "null" THEN NullPtr ELSE Pointer(TextOf(cell_at(i)))

ColumnBlob(i) ==
    LET c == cell_at(i) IN
    CASE c.type = "null" -> NullPtr
      [] c.type = "blob" -> IF blob_bytes(c.v) = <<>> THEN NullPtr
                            ELSE Pointer(blob_bytes(c.v))
      [] OTHER -> Pointer(TextOf(c))

(* Mutation of ColumnBytes: the length of the text, of a blob too. *)
ColumnBytesOfText(i) ==
    IF cell_at(i).type = "null" THEN 0 ELSE LenUtf8(TextOf(cell_at(i)))

ColumnBytes(i) ==
    LET c == cell_at(i) IN
    CASE c.type = "null" -> 0
      [] c.type = "blob" -> Len(blob_bytes(c.v))
      [] OTHER -> LenUtf8(TextOf(c))

-----------------------------------------------------------------------------
Init ==
    /\ held = [i \in 1..Params |-> Null] /\ asked = held
    /\ params = <<>> /\ at = "ready" /\ row = <<>>
    /\ session = "open"

Next ==
    \/ \E i \in 1..(Params + 1), x \in Value : Bind(i, x)
    \/ ClearBindings
    \/ Reset
    \/ StepRuns
    \/ StepOn

Spec == Init /\ [][Next]_vars

-----------------------------------------------------------------------------
(* The value a column shows, by the accessor of its type. *)
Shown(i) ==
    LET t == ColumnType(i) IN
    [type |-> t,
     v |-> CASE t = "null" -> <<>>
             [] t = "int"  -> <<ColumnInt64(i)>>
             [] t = "real" -> ColumnDouble(i)
             [] t = "text" -> ColumnText(i).v
             [] t = "blob" -> ColumnBlob(i).v]

(* Integers, finite reals of few digits, texts of valid UTF-8 without a NUL,
   blobs with bytes. *)
Plain(x) ==
    CASE x.type = "real" -> x.v # <<>> /\ ~Long(x)
      [] x.type = "text" -> \A i \in DOMAIN x.v : x.v[i] # 0 /\ ~Broken(x.v[i])
      [] x.type = "blob" -> x.v # <<>>
      [] OTHER -> TRUE

(* The state has its type, and a parameter is carried once. *)
ValuesTypeOK ==
    /\ held \in [1..Params -> Value] /\ asked \in [1..Params -> Value]
    /\ Len(params) <= Params + 1
    /\ at \in {"ready", "row", "done", "error"}
    /\ session \in {"open", "dropped"}

(* A plain value comes back as it was bound, type and content, however often
   the parameter was bound before and in whatever order: nothing on the way
   (CString, JSON, base64, sqlite3_bind, the row, the cache) takes one plain
   value for another.  A real of too many digits for the JSON parser, which may
   come back as its neighbour, at least comes back as a real. *)
PlainValuesSurvive ==
    at = "row" => \A i \in 1..Params :
        /\ Plain(asked[i]) => Shown(i) = asked[i]
        /\ Long(asked[i])  => ColumnType(i) = "real"

(* The length an application asks for goes with either pointer: what
   sqlite3_column_bytes says is as long as what sqlite3_column_blob points at,
   and sqlite3_column_text points at no less.  The text is longer only where
   the bytes of a blob were replaced to make it. *)
BytesFitThePointer ==
    \A i \in 1..Params :
        /\ ColumnBytes(i) = LenUtf8(ColumnBlob(i).v)
        /\ \/ ColumnBytes(i) = LenUtf8(ColumnText(i).v)
           \/ /\ ColumnBytes(i) < LenUtf8(ColumnText(i).v)
              /\ ColumnType(i) = "blob"
              /\ \E k \in DOMAIN ColumnBlob(i).v : ColumnBlob(i).v[k] \notin Ascii

(* Off a row there are no values, though the last row is still kept: no
   accessor shows a value of a row that has been passed. *)
NoValueOffTheRow ==
    at # "row" => \A i \in 1..Params :
        /\ ColumnType(i) = "null" /\ ColumnText(i).null /\ ColumnBlob(i).null
        /\ ColumnInt64(i) = 0 /\ ColumnDouble(i) = <<0, 0>> /\ ColumnBytes(i) = 0

(* The inductive invariant.  What is carried for a parameter is the cell of
   what is held for it; a parameter that is carried nowhere is NULL; the row
   on hand may come back for what was held when it was asked for. *)
CarriedOnce ==
    \A k, l \in DOMAIN params : params[k].index = params[l].index => k = l

CarriesTheHeld ==
    /\ \A k \in DOMAIN params :
          params[k].index <= Params => params[k].value = CellOf(held[params[k].index])
    /\ \A i \in 1..Params :
          (\A k \in DOMAIN params : params[k].index # i) => held[i] = Null

RowOfTheAsked ==
    at = "row" =>
        /\ DOMAIN row = 1..Params
        /\ \A i \in 1..Params : row[i] \in Returned(CellOf(asked[i]))

ValuesIInv ==
    /\ ValuesTypeOK
    /\ params \in Seq([index: 1..(Params + 1), value: {CellOf(x) : x \in Value}])
    /\ CarriedOnce /\ CarriesTheHeld /\ RowOfTheAsked
=============================================================================
