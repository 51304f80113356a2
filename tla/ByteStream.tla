----------------------------- MODULE ByteStream -----------------------------
(***************************************************************************)
(* core/bytestream.c as scripts reach it through tolua/bytestreamtolua.c:  *)
(* one stream, the values a script packs into it and the ones a script     *)
(* that knows the order unpacks.  The table bytestream_lib binds some      *)
(* names of writers to readers; what those writers do nobody can reach.    *)
(*                                                                         *)
(* A byte is a digit of base Radix, least significant first, and a byte 0  *)
(* ends a C string.  Numbers are integers: the bytes of a floating point   *)
(* number are those of the integer, which loses nothing of what its kind   *)
(* holds; what a kind does not hold is lost before, in the conversion.     *)
(***************************************************************************)
EXTENDS Integers, CStrings, SequencesExt, FiniteSetsExt

CONSTANTS
  Radix,      \* 256, the values of a byte
  InitSize,   \* CDF_BYTES_BUFFER_INIT_SIZE
  MaxKept,    \* BYTES_BUFFER_MAX_SIZE
  Lengths,    \* bound: the sizes scripts create streams with
  Numbers,    \* bound: the numbers they write
  Doubles,    \* the integers that a lua_Number, which is a double, can be
  Floats,     \* ... and those that a float can be
  nil,        \* Lua's nil
  Texts,      \* bound: the strings they write
  MaxCalls    \* bound: how many values they write

\* The place values of the bytes of a number.
Power[i \in 0 .. 8] == IF i = 0 THEN 1 ELSE Radix * Power[i - 1]

\* A conversion gives the nearest of the numbers that there are: of two as near,
\* one of them.
Distance(m, n) == IF m < n THEN n - m ELSE m - n
IsNearest(m, n, S) == m \in S /\ \A k \in S : Distance(m, n) <= Distance(k, n)
Nearest(n, S) == CHOOSE m \in S : IsNearest(m, n, S)

ASSUME ByteStreamAssumption ==
  /\ Radix \in Nat \ {0, 1} /\ InitSize \in Nat \ {0, 1} /\ MaxKept \in Nat
  /\ Lengths \subseteq Nat /\ Numbers \subseteq Int /\ MaxCalls \in Nat
  /\ Doubles \subseteq Int /\ Floats \subseteq Doubles
  /\ \A n \in Numbers : \E m \in Doubles : IsNearest(m, n, Doubles)
  /\ \A n \in Doubles : \E m \in Floats : IsNearest(m, n, Floats)
  /\ Texts \subseteq Seq(0 .. Radix - 1)
  /\ \A text \in Texts : 2 * Len(text) < Power[4]   \* an int holds the length
  /\ nil \notin Seq(0 .. Radix - 1)

VARIABLES
  bs,       \* the stream
  items,    \* what has been written
  taken,    \* how many of the items have been read
  result,   \* what the last reader returned, and the item it was to read
  outcome,  \* "running", or how the program ended
  calls,    \* how many values have been written
  odd       \* history: a call the reader cannot know of has changed the stream

byteVars == <<bs, items, taken, result, outcome, calls, odd>>

Width == [byte |-> 1, bool |-> 1, short |-> 2, int |-> 4, float |-> 4,
          double |-> 8, long64_t |-> 8, uint64_t |-> 8]
Scalars == DOMAIN Width
Signed == {"short", "int", "long64_t", "float", "double"}
Converted == {"double", "long64_t", "uint64_t"}  \* scripts hand these over as lua_Number
Lenient == {"int", "double"}       \* their calls return where the others abort
Arrays == Scalars \ {"byte"}       \* there are readers of arrays of these...
Writable == {"double", "long64_t", "uint64_t"}  \* ... and writers of these

NewStream(size) == [readOnly |-> FALSE, foreign |-> FALSE, gone |-> FALSE,
                    size |-> size, data |-> << >>, at |-> 0]

ByteInit ==
  /\ bs \in {NewStream(len) : len \in Lengths}
  /\ items = << >> /\ taken = 0 /\ result = nil
  /\ outcome = "running" /\ calls = 0 /\ odd = FALSE

-----------------------------------------------------------------------------
(* Numbers as bytes. *)

Packed(n, width) == [i \in 1 .. width |-> (n \div Power[i - 1]) % Radix]

Unpacked(kind, bytes) ==
  LET sum[i \in 0 .. Len(bytes)] ==
        IF i = 0 THEN 0 ELSE sum[i - 1] + bytes[i] * Power[i - 1]
      n == sum[Len(bytes)]
  IN IF kind \in Signed /\ 2 * n >= Power[Len(bytes)] THEN n - Power[Len(bytes)] ELSE n

\* The numbers a kind can hold.
Holds(kind, n) ==
  CASE kind = "bool" -> n \in {0, 1}
    [] kind \in Signed -> 2 * n >= -Power[Width[kind]] /\ 2 * n < Power[Width[kind]]
    [] OTHER -> n >= 0 /\ n < Power[Width[kind]]

\* What is left of a number when a script writes it as a kind: luaL_checknumber,
\* and the conversion to the kind.  (Out of the kind's range the conversion of a
\* double to an integer is undefined; the model writes what the kinds hold.)
Stored(kind, n) ==
  CASE kind = "float" -> Nearest(Nearest(n, Doubles), Floats)
    [] kind \in Converted -> Nearest(n, Doubles)
    [] OTHER -> n

\* The number that a reader hands to the script.
Pushed(kind, n) == IF kind \in Converted THEN Nearest(n, Doubles) ELSE n

PackedAll(kind, values) == FlattenSeq([i \in DOMAIN values |-> Packed(values[i], Width[kind])])

\* bytestream_writestring, which ends a string at its first byte 0.
PackedText(text) == Packed(StrLen(text), Width["int"]) \o CString(text)

-----------------------------------------------------------------------------
(* checkbufferoverflow *)

\* Faulty variant: the size is doubled when half of it would not be enough.
GrownOnce(size, required) == (IF size = 0 THEN InitSize ELSE size) + (size \div 2)

\* The size after the loop that adds a half until it is enough.
Grown(size, required) ==
  LET grow[i \in 0 .. required] ==
        IF i = 0 THEN IF size = 0 THEN InitSize ELSE size
        ELSE LET s == grow[i - 1] IN IF s < required THEN s + s \div 2 ELSE s
  IN grow[required]

\* Append bytes to a stream that may be written.  A buffer of one byte never gets
\* larger, and one that is a Lua string must be neither written nor reallocated.
Extended(bytes) ==
  LET required == Len(bs.data) + Len(bytes) IN
  IF bs.foreign /\ bytes # << >>
  THEN /\ outcome' = "undefined"
       /\ UNCHANGED bs
  ELSE IF bs.size >= required
  THEN /\ bs' = [bs EXCEPT !.data = @ \o bytes]
       /\ UNCHANGED outcome
  ELSE IF bs.size = 1
  THEN /\ outcome' = "endless"
       /\ UNCHANGED bs
  ELSE /\ bs' = [bs EXCEPT !.size = Grown(bs.size, required), !.data = @ \o bytes]
       /\ UNCHANGED outcome

Running == outcome = "running" /\ calls < MaxCalls
Written(item, bytes) ==
  /\ ~bs.readOnly
  /\ Extended(bytes)
  /\ items' = Append(items, item)
  /\ calls' = calls + 1
  /\ UNCHANGED <<taken, result, odd>>

-----------------------------------------------------------------------------
(* The writers. *)

WriteScalar(kind, n) ==
  /\ Running /\ Holds(kind, Stored(kind, n))
  /\ Written([kind |-> kind, value |-> <<n>>], Packed(Stored(kind, n), Width[kind]))

\* writedoublearray, writelong64_tarray and writeuint64_tarray: the count, then
\* the elements.  An empty table is refused.
WriteArray(kind, values) ==
  LET stored == [i \in DOMAIN values |-> Stored(kind, values[i])] IN
  /\ Running /\ values # << >> /\ \A i \in DOMAIN values : Holds(kind, stored[i])
  /\ Written([kind |-> kind, array |-> TRUE, value |-> values],
             Packed(Len(values), Width["int"]) \o PackedAll(kind, stored))

WriteString(text) ==
  /\ Running
  /\ Written([kind |-> "string", value |-> text], PackedText(text))

\* writestringarray.  When an element is no string, what is in front of it has
\* been written; the reader of such an array, or of one with an empty string, fails.
WriteStringArray(texts, stringsOnly) ==
  /\ Running /\ texts # << >> /\ ~bs.readOnly
  /\ Extended(Packed(Len(texts) + IF stringsOnly THEN 0 ELSE 1, Width["int"])
              \o FlattenSeq([i \in DOMAIN texts |-> PackedText(texts[i])]))
  /\ items' = Append(items, [kind |-> "strings", value |-> texts])
  /\ odd' = (odd \/ ~stringsOnly \/ \E i \in DOMAIN texts : CString(texts[i]) = << >>)
  /\ calls' = calls + 1
  /\ UNCHANGED <<taken, result>>

\* writebytearray, whose length the reader has to know.
WriteBytes(text) ==
  /\ Running
  /\ Written([kind |-> "bytes", value |-> text], text)

\* A call on a stream that is read only: most abort, and the others write nothing,
\* and say nothing of it.
WriteReadOnly(kind) ==
  /\ Running /\ bs.readOnly
  /\ outcome' = IF kind \in Scalars \ Lenient THEN "aborted" ELSE "running"
  /\ calls' = calls + 1
  /\ UNCHANGED <<bs, items, taken, result, odd>>

-----------------------------------------------------------------------------
(* The readers: what they return, how far they get, and whether they abort.  *)

Unread == Len(bs.data) - bs.at
Slice(at, n) == SubSeq(bs.data, at + 1, at + n)
Answer(value, at, ended) == [value |-> value, at |-> at, outcome |-> ended]

\* bytestream_readint, at a place.
IntAt(at) ==
  IF at + 4 > Len(bs.data) THEN [n |-> 0, at |-> at]
  ELSE [n |-> Unpacked("int", Slice(at, 4)), at |-> at + 4]

ReadScalar(kind) ==
  LET w == Width[kind] IN
  IF Unread < w
  THEN IF kind \in Lenient THEN Answer(<<0>>, bs.at, "running")
       ELSE Answer(nil, bs.at, "aborted")
  ELSE Answer(<<Pushed(kind, Unpacked(kind, Slice(bs.at, w)))>>, bs.at + w, "running")

\* The count is taken also when the elements are not all there.
ReadArray(kind) ==
  LET w == Width[kind]
      c == IntAt(bs.at)
  IN IF c.n <= 0 THEN Answer(nil, c.at, "running")
     ELSE IF c.at + c.n * w > Len(bs.data)
     THEN Answer(nil, c.at, IF kind = "short" THEN "aborted" ELSE "running")
     ELSE Answer([i \in 1 .. c.n |-> Pushed(kind, Unpacked(kind, Slice(c.at + (i - 1) * w, w)))],
                 c.at + c.n * w, "running")

\* Faulty variant: of a string that is not all there, nothing is taken.
TextAtStrict(at) ==
  LET c == IntAt(at) IN
  IF c.n <= 0 \/ c.at + c.n >= Len(bs.data) THEN [text |-> nil, at |-> c.at]
  ELSE [text |-> CString(Slice(c.at, c.n)), at |-> c.at + c.n]

\* bytestream_readstring, at a place: a string without bytes is none, and Lua gets
\* the bytes in front of the first 0.
TextAt(at) ==
  LET c == IntAt(at) IN
  IF c.n <= 0 \/ c.at + c.n > Len(bs.data) THEN [text |-> nil, at |-> c.at]
  ELSE [text |-> CString(Slice(c.at, c.n)), at |-> c.at + c.n]

\* readstringarray stops at the first string it cannot read, and then frees what
\* it has put into the table, which is Lua's.
ReadStringArray ==
  LET c == IntAt(bs.at)
      upto[i \in 0 .. c.n] ==
        IF i = 0 THEN [texts |-> << >>, at |-> c.at, failed |-> FALSE]
        ELSE LET u == upto[i - 1]
                 t == TextAt(u.at)
             IN IF u.failed THEN u
                ELSE [texts |-> IF t.text = nil THEN u.texts ELSE Append(u.texts, t.text),
                      at |-> t.at, failed |-> t.text = nil]
  IN IF c.n <= 0 THEN Answer(nil, c.at, "running")
     ELSE IF upto[c.n].failed
     THEN Answer(nil, upto[c.n].at, IF upto[c.n].texts = << >> THEN "running" ELSE "undefined")
     ELSE Answer(upto[c.n].texts, upto[c.n].at, "running")

\* readbytearray: no bytes are none.
ReadBytes(n) ==
  IF n <= 0 \/ n > Unread THEN Answer(nil, bs.at, "running")
  ELSE Answer(Slice(bs.at, n), bs.at + n, "running")

ReadItem(item) ==
  CASE item.kind = "string" ->
         Answer(TextAt(bs.at).text, TextAt(bs.at).at, "running")
    [] item.kind = "strings" -> ReadStringArray
    [] item.kind = "bytes" -> ReadBytes(Len(item.value))
    [] item.kind \in Scalars -> IF "array" \in DOMAIN item THEN ReadArray(item.kind) ELSE ReadScalar(item.kind)

\* What a reader does to the stream.  A stream over a string that Lua has freed
\* reads freed memory.
Takes(a) ==
  IF bs.gone
  THEN /\ outcome' = "undefined"
       /\ UNCHANGED bs
  ELSE /\ bs' = [bs EXCEPT !.at = a.at]
       /\ outcome' = a.outcome

\* The reader takes what was written next.
ReadNext ==
  /\ outcome = "running" /\ taken < Len(items)
  /\ LET item == items[taken + 1]
         a == ReadItem(item)
     IN /\ Takes(a)
        /\ result' = IF bs.gone THEN result ELSE [got |-> a.value, item |-> item]
  /\ taken' = taken + 1
  /\ UNCHANGED <<items, calls, odd>>

\* writeboolarray, writeshortarray, writeintarray and writefloatarray, which
\* bytestream_lib binds to the functions that read such arrays.
WriteBoundToRead(kind) ==
  /\ Running /\ kind \in Arrays \ Writable
  /\ Takes(ReadArray(kind))
  /\ odd' = TRUE
  /\ calls' = calls + 1
  /\ UNCHANGED <<items, taken, result>>

-----------------------------------------------------------------------------
(* The stream as a whole. *)

\* bytestream_clear; a stream that is read only stays as it is.  A large buffer is
\* freed, and when it is a Lua string it is not the stream's.
Clear ==
  /\ outcome = "running" /\ ~bs.readOnly /\ Len(bs.data) > 0
  /\ bs' = [bs EXCEPT !.data = << >>, !.at = 0, !.size = IF bs.size > MaxKept THEN 0 ELSE @]
  /\ outcome' = IF bs.foreign /\ bs.size > MaxKept THEN "undefined" ELSE "running"
  /\ items' = << >> /\ taken' = 0
  /\ UNCHANGED <<result, calls, odd>>

\* bytestream_reset
Reset ==
  /\ outcome = "running" /\ taken > 0
  /\ bs' = [bs EXCEPT !.at = 0]
  /\ taken' = 0
  /\ UNCHANGED <<items, result, outcome, calls, odd>>

\* A receiver gets the bytes as a Lua string (bytestream.createfrombuffer), and may
\* allow itself to write (bytestream_setreadonly).
Receive ==
  /\ outcome = "running" /\ ~bs.foreign /\ bs.at = 0
  /\ bs' = [bs EXCEPT !.readOnly = TRUE, !.foreign = TRUE, !.size = Len(bs.data)]
  /\ UNCHANGED <<items, taken, result, outcome, calls, odd>>

\* The stream keeps a pointer into the string, and nothing keeps the string: Lua
\* collects it when the script holds it no longer.
CollectString ==
  /\ outcome = "running" /\ bs.foreign /\ ~bs.gone
  /\ bs' = [bs EXCEPT !.gone = TRUE]
  /\ UNCHANGED <<items, taken, result, outcome, calls, odd>>

SetReadOnly(readOnly) ==
  /\ outcome = "running" /\ bs.readOnly # readOnly
  /\ bs' = [bs EXCEPT !.readOnly = readOnly]
  /\ UNCHANGED <<items, taken, result, outcome, calls, odd>>

Rows(S) == {<< >>} \cup {<<x>> : x \in S} \cup {<<x, y>> : x, y \in S}

ByteNext ==
  \/ \E kind \in Scalars, n \in Numbers : WriteScalar(kind, n)
  \/ \E kind \in Writable, values \in Rows(Numbers) : WriteArray(kind, values)
  \/ \E text \in Texts : WriteString(text) \/ WriteBytes(text)
  \/ \E texts \in Rows(Texts), stringsOnly \in BOOLEAN : WriteStringArray(texts, stringsOnly)
  \/ \E kind \in Scalars \cup {"string"} : WriteReadOnly(kind)
  \/ \E kind \in Arrays : WriteBoundToRead(kind)
  \/ ReadNext \/ Clear \/ Reset \/ Receive \/ CollectString
  \/ \E readOnly \in BOOLEAN : SetReadOnly(readOnly)

ByteSpec == ByteInit /\ [][ByteNext]_byteVars

-----------------------------------------------------------------------------
(* Properties *)

\* What has been written fits the buffer, whatever size the stream was created with
\* and however it has grown, and the place to read from is never behind the end.
\* (checkbufferoverflow, bytestream_clear)
BufferHolds ==
  /\ Len(bs.data) <= bs.size /\ bs.at \in 0 .. Len(bs.data)
  /\ \A i \in DOMAIN bs.data : bs.data[i] \in 0 .. Radix - 1
  /\ calls \in 0 .. MaxCalls /\ odd \in BOOLEAN

\* What is due to the script that reads an item: the numbers, as near as their kind
\* and lua_Number come to them; a string up to its first byte 0, and the bytes, but
\* nil for a string or an array of bytes in which there is nothing.
Due(item) ==
  CASE item.kind = "string" -> IF CString(item.value) = << >> THEN nil ELSE CString(item.value)
    [] item.kind = "bytes" -> IF item.value = << >> THEN nil ELSE item.value
    [] item.kind = "strings" -> [i \in DOMAIN item.value |-> CString(item.value[i])]
    [] item.kind \in Scalars -> [i \in DOMAIN item.value |-> Stored(item.kind, item.value[i])]

\* A script that reads in the order of the writes gets what is due for each item,
\* however the buffer has grown, and nothing of one item is lost on another: what
\* the conversions and the C strings lose is all that is.  No call ends the
\* program.  Excepted are the streams on which a name bound to the wrong function
\* has been called or an array with an element that is no string or an empty
\* string has been written, and for the program's end the streams that are read
\* only or over a Lua string.
\* (bytestream_readstring, bytestream_readlong64array and their like)
RoundTrip ==
  ~odd =>
    /\ result # nil => result.got = Due(result.item)
    /\ outcome \in {"aborted", "undefined"} => bs.readOnly \/ bs.foreign

=============================================================================
