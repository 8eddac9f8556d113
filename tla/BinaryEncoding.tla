--------------------------- MODULE BinaryEncoding ---------------------------
(***************************************************************************)
(* The position-based little-endian encoding of the built-in types, which  *)
(* every generated service type is made of.  The encoders themselves       *)
(* (encoding.rs, basic_types.rs, ...) are outside src/: this module        *)
(* follows the design text, section "Wire framing": numbers little-endian  *)
(* in their width, strings and arrays prefixed by an i32 length, -1 for    *)
(* null.                                                                   *)
(*                                                                         *)
(* A byte is a number in 0..255 and a stream a sequence of bytes.  A       *)
(* number is its value, a string or byte string an optional sequence of    *)
(* bytes, an array an optional sequence of elements.  A structure that is  *)
(* defined outside src/ (RequestHeader, NodeId, DiagnosticInfo, ...) is    *)
(* its own bytes, of which the first says how many follow: all that is     *)
(* asked of it is that its decoder knows where it ends.                    *)
(***************************************************************************)
EXTENDS Integers, Sequences, SequencesExt

\* widths in bytes of the types that are numbers
Width == [Boolean |-> 1, UInt32 |-> 4, StatusCode |-> 4, TimestampsToReturn |-> 4,
          MonitoringMode |-> 4, DateTime |-> 8]
Numeric == DOMAIN Width
Strings == {"UAString", "ByteString"}

\* Option<...>: None, and Some of a sequence
Null    == [null |-> TRUE,  items |-> <<>>]
Some(s) == [null |-> FALSE, items |-> s]

\* n bytes of v, least significant first; -1 is four times 255
RECURSIVE LittleEndian(_, _)
LittleEndian(v, n) ==
    IF n = 0 THEN <<>> ELSE <<v % 256>> \o LittleEndian(v \div 256, n - 1)

FromLittleEndian(bytes) == FoldRight(LAMBDA b, acc : b + 256 * acc, bytes, 0)

\* what a decoder returns: a value and the rest of the stream, or an error
Ok(v, rest) == [ok |-> TRUE, value |-> v, rest |-> rest]
Failed      == [ok |-> FALSE, value |-> 0, rest |-> <<>>]

----------------------------------------------------------------------------
(* One value *)

write_i32(n) == LittleEndian(n, 4)

\* an i32: the sign is the top bit of the last byte
read_i32(stream) ==
    LET bytes == SubSeq(stream, 1, 4)
    IN  CASE Len(stream) < 4         -> Failed
          [] bytes = write_i32(-1)   -> Ok(-1, SubSeq(stream, 5, Len(stream)))
          [] bytes[4] >= 128         -> Failed
          [] OTHER -> Ok(FromLittleEndian(bytes), SubSeq(stream, 5, Len(stream)))

byte_len(type, v) ==
    CASE type \in Numeric -> Width[type]
      [] type \in Strings -> 4 + Len(v.items)
      [] OTHER            -> Len(v)

encode(type, v) ==
    CASE type \in Numeric -> LittleEndian(v, Width[type])
      [] type \in Strings -> write_i32(IF v.null THEN -1 ELSE Len(v.items)) \o v.items
      [] OTHER            -> v

\* the first n bytes as a value made by make, if the stream has them
Take(stream, n, make(_)) ==
    IF n > Len(stream) THEN Failed
    ELSE Ok(make(SubSeq(stream, 1, n)), SubSeq(stream, n + 1, Len(stream)))

decode(type, stream) ==
    CASE type \in Numeric -> Take(stream, Width[type], FromLittleEndian)
      [] type \in Strings ->
            LET length == read_i32(stream)
            IN  CASE ~length.ok        -> Failed
                  [] length.value = -1 -> Ok(Null, length.rest)
                  [] OTHER             -> Take(length.rest, length.value, Some)
      [] OTHER ->
            IF stream = <<>> THEN Failed
            ELSE Take(stream, 1 + Head(stream), LAMBDA bytes : bytes)

----------------------------------------------------------------------------
(* Arrays *)

byte_len_array(type, array) ==
    4 + FoldLeft(LAMBDA sum, v : sum + byte_len(type, v), 0, array.items)

write_array(type, array) ==
    write_i32(IF array.null THEN -1 ELSE Len(array.items))
        \o FlattenSeq([i \in DOMAIN array.items |-> encode(type, array.items[i])])

\* n elements, one after the other
RECURSIVE ReadElements(_, _, _, _)
ReadElements(type, n, stream, items) ==
    IF n = 0 THEN Ok(Some(items), stream)
    ELSE LET element == decode(type, stream)
         IN  IF element.ok
             THEN ReadElements(type, n - 1, element.rest, Append(items, element.value))
             ELSE Failed

read_array(type, stream) ==
    LET length == read_i32(stream)
    IN  CASE ~length.ok        -> Failed
          [] length.value = -1 -> Ok(Null, length.rest)
          [] OTHER             -> ReadElements(type, length.value, length.rest, <<>>)

=============================================================================
