------------------------------ MODULE Messages ------------------------------
(***************************************************************************)
(* The payloads of the protocol (src/src/service/fr_messages.cpp): for     *)
(* every message the sequence of its fields, and how a field is written to *)
(* and read from a payload, on the bounded reader of                       *)
(* src/src/core_c/fr_buffer.c.                                             *)
(*                                                                         *)
(* Integers have the code's widths, 1, 2, 4 and 8 bytes, over bytes of     *)
(* fewer values (Radix instead of 256).  A string or a digest is the       *)
(* sequence of its bytes, an optional string a sequence of at most one.    *)
(***************************************************************************)
EXTENDS Integers, SequencesExt

CONSTANTS
  Radix,         \* values of a byte
  MaxStringLen,  \* kMaxStringLen
  DigestLen,     \* kDigestHexLen
  MaxBitmap,     \* the limit of the bitmap of QUERY_UPLOAD
  MaxItems       \* the limit of the lists

\* How many values 1, 2, 4 and 8 bytes have.
Radix2 == Radix * Radix
Radix4 == Radix2 * Radix2
Radix8 == Radix4 * Radix4
Values(w) == CASE w = 1 -> Radix [] w = 2 -> Radix2 [] w = 4 -> Radix4 [] w = 8 -> Radix8

ASSUME MessagesAssumption ==
  /\ {Radix, DigestLen, MaxStringLen, MaxBitmap, MaxItems} \subseteq Nat
  /\ Radix > 3 /\ MaxStringLen < Radix2 /\ MaxBitmap < Radix4 /\ 2 * MaxItems < Radix4
-----------------------------------------------------------------------------
(* fr_store_be and fr_load_be, the higher half first; the casts to and     *)
(* from signed integers.                                                   *)

Store2(v) == <<(v \div Radix) % Radix, v % Radix>>
Store4(v) == Store2(v \div Radix2) \o Store2(v % Radix2)
Store8(v) == Store4(v \div Radix4) \o Store4(v % Radix4)
StoreBE(v, w) ==
  CASE w = 1 -> <<v % Radix>> [] w = 2 -> Store2(v) [] w = 4 -> Store4(v) [] w = 8 -> Store8(v)
Load2(s, i) == s[i] * Radix + s[i + 1]
Load4(s, i) == Load2(s, i) * Radix2 + Load2(s, i + 2)
LoadBE(s) ==
  CASE Len(s) = 1 -> s[1] [] Len(s) = 2 -> Load2(s, 1) [] Len(s) = 4 -> Load4(s, 1)
    [] Len(s) = 8 -> Load4(s, 1) * Radix4 + Load4(s, 5)
ToUnsigned(v, w) == v % Values(w)
ToSigned(u, w) == IF u >= Values(w) \div 2 THEN u - Values(w) ELSE u

Width == [u8 |-> 1, flag |-> 1, version |-> 1, u32 |-> 4, i32 |-> 4, u64 |-> 8, i64 |-> 8]
-----------------------------------------------------------------------------
(* The fields of every message.                                            *)

Field(k) == [k |-> k, item |-> <<>>, max |-> 0]
ListOf(item, max) == [k |-> "list", item |-> item, max |-> max]

PROTOCOL_VERSION == 1
u8 == Field("u8")
u32 == Field("u32")
u64 == Field("u64")
i64 == Field("i64")
str == Field("str")
digest == Field("digest")
bool == Field("flag")
rest == Field("rest")
ref == <<str, str, str>>

hello_req == <<Field("version"), str>>
auth_req == <<str>>
auth_ok == <<str, u8>>
create_upload_req == ref \o <<u64, digest>>
create_upload_ok == <<str, u64, i64>>
put_chunk_req == <<str, u64, rest>>
put_chunk_ok == <<digest, bool>>
query_upload_ok == <<u8, u64, Field("bitmap")>>
commit_upload_ok == ref \o <<u64, digest>>
get_artifact_req == ref \o <<u64, u64>>
data == <<rest>>
get_artifact_ok == <<u64>>
list_artifacts_req == <<Field("optional"), Field("optional"), u32, u32>>
artifact_summary == ref \o <<u64, digest, str, i64>>
list_artifacts_ok == <<ListOf(artifact_summary, MaxItems)>>
\* (The limit of the manifest is larger than that of the other lists.)
show_artifact_ok ==
  ref \o <<u64, digest, u64, str, i64, str, ListOf(<<u32, u64, u64, digest>>, 2 * MaxItems)>>
status_ok == <<str, u64, u32, u32, u64, u64, u64, u8>>
delete_artifact_ok == <<i64>>
run_gc_req == <<bool>>
run_gc_ok == <<i64, i64, i64>>
user_add_req == <<str, u8>>
user_item == <<str, u8, bool, i64>>
user_list_ok == <<ListOf(user_item, MaxItems)>>
token_create_req == <<str, u32>>
token_create_ok == <<str>>
token_item == <<u64, str, i64, i64, bool>>
token_list_ok == <<ListOf(token_item, MaxItems)>>
session_item == <<str, str, u8>> \o ref \o <<u64, i64>>
session_list_ok == <<ListOf(session_item, MaxItems)>>
error_payload == <<Field("i32"), str>>

\* Requests that are read by a primitive in Dispatcher::dispatch_business.
one_string == <<str>>
one_id == <<u64>>
nothing == <<>>
-----------------------------------------------------------------------------
(* Writing: put_str and put_digest refuse a wrong length, and so does       *)
(* encode_query_upload_ok; nothing refuses a list that is too long.         *)

PutFlat(f, v) ==
  CASE f.k \in {"u8", "version", "u32", "u64"} -> StoreBE(v, Width[f.k])
    [] f.k \in {"i32", "i64"} -> StoreBE(ToUnsigned(v, Width[f.k]), Width[f.k])
    [] f.k = "flag" -> StoreBE(IF v THEN 1 ELSE 0, 1)
    [] f.k = "str" -> StoreBE(Len(v), 2) \o v
    [] f.k = "optional" -> IF v = <<>> THEN <<0>> ELSE <<1>> \o StoreBE(Len(v[1]), 2) \o v[1]
    [] f.k = "bitmap" -> StoreBE(Len(v), 4) \o v
    [] f.k \in {"digest", "rest"} -> v
Concat(fields, v) == FlattenSeq([i \in DOMAIN fields |-> PutFlat(fields[i], v[i])])
Put(f, v) ==
  IF f.k = "list" THEN StoreBE(Len(v), 4) \o FlattenSeq([i \in DOMAIN v |-> Concat(f.item, v[i])])
  ELSE PutFlat(f, v)
Encode(fields, v) == FlattenSeq([i \in DOMAIN fields |-> Put(fields[i], v[i])])

FitsFlat(f, v) ==
  CASE f.k = "str" -> Len(v) <= MaxStringLen
    [] f.k = "optional" -> v # <<>> => Len(v[1]) <= MaxStringLen
    [] f.k = "digest" -> Len(v) = DigestLen
    [] f.k = "bitmap" -> Len(v) <= MaxBitmap
    [] OTHER -> TRUE
Encodable(fields, v) ==
  \A i \in DOMAIN fields :
    IF fields[i].k = "list"
    THEN \A j \in DOMAIN v[i], n \in DOMAIN fields[i].item : FitsFlat(fields[i].item[n], v[i][j][n])
    ELSE FitsFlat(fields[i], v[i])

\* What a message is made of, and the values the members of its struct can have.
Byte == 0 .. Radix - 1
FlatFields == {Field(k) : k \in DOMAIN Width \cup {"str", "optional", "bitmap", "digest"}}
Fields(fields) ==
  /\ Len(fields) \in Nat /\ DOMAIN fields = 1 .. Len(fields)
  /\ \A i \in DOMAIN fields :
       \/ fields[i] \in FlatFields
       \/ fields[i] = rest /\ i = Len(fields)
       \/ /\ fields[i] = ListOf(fields[i].item, fields[i].max)
          /\ fields[i].item \in Seq(FlatFields) /\ fields[i].max \in 0 .. Radix4 - 1
FlatValue(f, v) ==
  CASE f.k \in {"u8", "u32", "u64"} -> v \in 0 .. Values(Width[f.k]) - 1
    [] f.k \in {"i32", "i64"} -> \E u \in 0 .. Values(Width[f.k]) - 1 : v = ToSigned(u, Width[f.k])
    [] f.k = "version" -> v = PROTOCOL_VERSION
    [] f.k = "flag" -> v \in BOOLEAN
    [] f.k = "optional" -> v \in Seq(Seq(Byte)) /\ Len(v) <= 1
    [] f.k \in {"str", "bitmap", "digest", "rest"} -> v \in Seq(Byte)
FlatValues(fields, v) ==
  v = [i \in DOMAIN fields |-> v[i]] /\ \A i \in DOMAIN fields : FlatValue(fields[i], v[i])
Value(f, v) ==
  IF f.k = "list"
  THEN \E n \in 0 .. f.max : v = [j \in 1 .. n |-> v[j]] /\ \A j \in 1 .. n : FlatValues(f.item, v[j])
  ELSE FlatValue(f, v)
ValuesOf(fields, v) ==
  v = [i \in DOMAIN fields |-> v[i]] /\ \A i \in DOMAIN fields : Value(fields[i], v[i])
-----------------------------------------------------------------------------
(* Reading: a reader is what is left of the payload and the values read so *)
(* far; protocol_error makes it fail for good.                             *)

Reader(bytes) == [ok |-> TRUE, left |-> bytes, vals |-> <<>>]
Failed(in) == [in EXCEPT !.ok = FALSE]
First(in, n) == SubSeq(in.left, 1, n)
Skipped(in, n) == [in EXCEPT !.left = SubSeq(@, n + 1, Len(@))]
Short(in, n) == ~ in.ok \/ n > Len(in.left)
\* fr_buf_reader_read of n bytes, and the value they are for the decoder.
Read(in, n, value) ==
  IF Short(in, n) THEN Failed(in) ELSE [Skipped(in, n) EXCEPT !.vals = Append(@, value)]
Unsigned(in, w) == Read(in, w, LoadBE(First(in, w)))
Signed(in, w) == Read(in, w, ToSigned(LoadBE(First(in, w)), w))
Flag(in) == Read(in, 1, LoadBE(First(in, 1)) # 0)

\* Mutant: the bytes that lack are left zero, as the string was made.
get_padded(in, w, max) ==
  LET n == LoadBE(First(in, w))
      padded == [Skipped(in, w) EXCEPT !.left = @ \o [i \in 1 .. n |-> 0]] IN
  IF Short(in, w) \/ n > max THEN Failed(in) ELSE Read(padded, n, First(padded, n))
\* A length of w bytes and as many bytes.
get_counted(in, w, max) ==
  LET n == LoadBE(First(in, w))
      behind == Skipped(in, w) IN
  IF Short(in, w) \/ n > max THEN Failed(in) ELSE Read(behind, n, First(behind, n))
get_str(in) == get_counted(in, 2, MaxStringLen)
get_optional(in) ==
  LET s == get_str(Skipped(in, 1)) IN
  IF Short(in, 1) \/ LoadBE(First(in, 1)) = 0 THEN Read(in, 1, <<>>)
  ELSE IF s.ok THEN [s EXCEPT !.vals = Append(in.vals, <<Last(@)>>)] ELSE s
\* decode_hello_req refuses any other version.
get_version(in) ==
  IF Short(in, 1) \/ LoadBE(First(in, 1)) # PROTOCOL_VERSION THEN Failed(in) ELSE Unsigned(in, 1)

GetFlat(in, f) ==
  CASE f.k \in {"u8", "u32", "u64"} -> Unsigned(in, Width[f.k])
    [] f.k \in {"i32", "i64"} -> Signed(in, Width[f.k])
    [] f.k = "version" -> get_version(in)
    [] f.k = "flag" -> Flag(in)
    [] f.k = "str" -> get_str(in)
    [] f.k = "optional" -> get_optional(in)
    [] f.k = "bitmap" -> get_counted(in, 4, MaxBitmap)
    [] f.k = "digest" -> Read(in, DigestLen, First(in, DigestLen))
    [] f.k = "rest" -> Read(in, Len(in.left), in.left)

\* The reader after each of the fields of an item, of the items of a list, and
\* of the fields of a message.
InItem(in, item) ==
  LET at[n \in 0 .. Len(item)] == IF n = 0 THEN in ELSE GetFlat(at[n - 1], item[n]) IN at
GetItem(in, item) ==
  LET r == InItem([in EXCEPT !.vals = <<>>], item)[Len(item)] IN
  [r EXCEPT !.vals = Append(in.vals, @)]
InList(in, item, count) ==
  LET at[n \in 0 .. count] == IF n = 0 THEN in ELSE GetItem(at[n - 1], item) IN at
get_list(in, f) ==
  LET n == LoadBE(First(in, 4))
      r == InList([Skipped(in, 4) EXCEPT !.vals = <<>>], f.item, n)[n] IN
  IF Short(in, 4) \/ n > f.max THEN Failed(in) ELSE [r EXCEPT !.vals = Append(in.vals, @)]
Get(in, f) == IF f.k = "list" THEN get_list(in, f) ELSE GetFlat(in, f)

\* A decoder: the values, if it did not fail; what is left over is ignored.
InMessage(in, fields) ==
  LET at[n \in 0 .. Len(fields)] == IF n = 0 THEN in ELSE Get(at[n - 1], fields[n]) IN at
Decode(fields, bytes) == InMessage(Reader(bytes), fields)[Len(fields)]
=============================================================================
