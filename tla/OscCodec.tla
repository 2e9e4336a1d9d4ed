------------------------------ MODULE OscCodec ------------------------------
(***************************************************************************)
(* Messages and bundles as datagrams: the python-osc package that both     *)
(* ends of the OSC socket use (osc_message_builder, osc_bundle_builder,    *)
(* osc_message, osc_bundle, parsing/osc_types).                            *)
(*                                                                         *)
(* A datagram is a sequence of bytes.  A byte of text is its character     *)
(* code.  A byte of a number is a digit to the base Radix, which is 256    *)
(* in the code; with a small Radix the limits of 32 and 64 bits can be     *)
(* passed.  Floats, doubles and time tags are taken as the bytes they are  *)
(* packed into; other senders may use doubles, colours and time tags,      *)
(* which this package reads but does not send.                             *)
(***************************************************************************)
EXTENDS Integers, Sequences, SequencesExt

CONSTANTS
    Radix,       \* values of a byte
    Undecodable  \* a byte that is not UTF-8 text

ASSUME RadixAssumption == Radix \in Nat \ {0, 1} /\ Undecodable \notin 0..127

\* Python values: None, booleans, int, float, str, bytes, 4-tuple (MIDI), list.
None == [py |-> "None"]
Bool(b) == [py |-> "bool", v |-> b]
PyInt(i) == [py |-> "int", v |-> i]
Float(bytes) == [py |-> "float", v |-> bytes]
Str(bytes) == [py |-> "str", v |-> bytes]
Bytes(bytes) == [py |-> "bytes", v |-> bytes]
Midi(ints) == [py |-> "tuple", v |-> ints]
TimeTag(bytes) == [py |-> "date and fraction", v |-> bytes]
List(values) == [py |-> "list", v |-> values]

IsText(bytes) == \A n \in DOMAIN bytes : bytes[n] # Undecodable

\* A result, or the exception raised instead: "BuildError", or on the way back
\* "ParseError", or a UnicodeDecodeError, which is none of the package's own.
Ok(v) == [error |-> "", v |-> v]
Raise(error) == [error |-> error, v |-> <<>>]
IsOk(r) == r.error = ""

\* The element of a singleton: The({F(x) : x \in {e}}) is F(e), with e evaluated once.
The(S) == CHOOSE x \in S : TRUE

-----------------------------------------------------------------------------
(* Writing *)

Zeros(n) == [k \in 1..n |-> 0]

WriteString(s) == s \o Zeros(4 - (Len(s) % 4))

Power(n) == Radix^n
Digits(i, n) == [k \in 1..n |-> (i \div Power(n - k)) % Radix]
Fits(i, n) == -(Power(n) \div 2) <= i /\ i < Power(n) \div 2

\* struct.pack of a signed integer of n bytes, in two's complement.
Pack(i, n) == IF Fits(i, n) THEN Ok(Digits(i, n)) ELSE Raise("BuildError")
WriteInt(i) == Pack(i, 4)
WriteInt64(i) == Pack(i, 8)
WriteMidi(ints) == Ok([n \in 1..4 |-> ints[n] % Radix])

WriteBlob(b) ==
    IF b = <<>> \/ ~Fits(Len(b), 4)
    THEN Raise("BuildError")
    ELSE Ok(Digits(Len(b), 4) \o b \o Zeros((-Len(b)) % 4))

\* The integers that need more than four bytes: bit_length() > 32.
IntTag(i) == IF i >= Power(4) \/ -i >= Power(4) THEN "h" ELSE "i"

\* _get_arg_type, without lists.
TagOf(value) ==
    CASE value.py = "str" -> "s"
      [] value.py = "bytes" -> "b"
      [] value.py = "bool" -> IF value.v THEN "T" ELSE "F"
      [] value.py = "int" -> IntTag(value.v)
      [] value.py = "float" -> "f"
      [] value.py = "tuple" -> "m"
      [] value.py = "None" -> "N"

\* add_arg: the type tags with their values, lists between brackets.
RECURSIVE Args(_)
Args(values) ==
    FlattenSeq([n \in DOMAIN values |->
        IF values[n].py = "list"
        THEN <<<<"[", None>>>> \o Args(values[n].v) \o <<<<"]", None>>>>
        ELSE <<<<TagOf(values[n]), values[n]>>>>])

WriteArg(tag, value) ==
    CASE tag = "s" -> Ok(WriteString(value.v))
      [] tag = "i" -> WriteInt(value.v)
      [] tag = "h" -> WriteInt64(value.v)
      [] tag = "f" -> Ok(value.v)
      [] tag = "b" -> WriteBlob(value.v)
      [] tag = "m" -> WriteMidi(value.v)
      [] OTHER -> Ok(<<>>)

TagCodes ==
    [T |-> 84, F |-> 70, N |-> 78, i |-> 105, h |-> 104, f |-> 102, d |-> 100, s |-> 115,
     b |-> 98, r |-> 114, m |-> 109, t |-> 116]
Code(tag) == IF tag = "[" THEN 91 ELSE IF tag = "]" THEN 93 ELSE TagCodes[tag]
Comma == 44
Slash == 47

\* OscMessageBuilder.build.
BuildMessage(address, values) ==
    The({LET written == [n \in DOMAIN args |-> WriteArg(args[n][1], args[n][2])]
             tags == [n \in DOMAIN args |-> Code(args[n][1])]
         IN  IF address = <<>> \/ \E n \in DOMAIN written : ~IsOk(written[n])
             THEN Raise("BuildError")
             ELSE Ok(WriteString(address) \o WriteString(<<Comma>> \o tags)
                      \o FlattenSeq([n \in DOMAIN written |-> written[n].v]))
         : args \in {Args(values)}})

BundlePrefix == <<35, 98, 117, 110, 100, 108, 101, 0>>
IsBundle(d) == IsPrefix(BundlePrefix, d)
TimeTagLen == 8

\* OscBundleBuilder.build, of datagrams that were built.
BuildBundle(timeTag, datagrams) ==
    IF \E n \in DOMAIN datagrams : ~Fits(Len(datagrams[n]), 4)
    THEN Raise("BuildError")
    ELSE Ok(BundlePrefix \o timeTag
             \o FlattenSeq([n \in DOMAIN datagrams |-> Digits(Len(datagrams[n]), 4) \o datagrams[n]]))

-----------------------------------------------------------------------------
(* Reading, from a place in the datagram: the value and the place after it *)

At(v, next) == Ok([v |-> v, next |-> next])
Slice(d, from, n) == SubSeq(d, from, IF from + n - 1 > Len(d) THEN Len(d) ELSE from + n - 1)
Left(d, from) == Len(d) - from + 1

\* Variant: a string whose length is a multiple of four ends there.
Padded_Short(n) == n + ((4 - (n % 4)) % 4)

\* The next multiple of four; a string whose length is one already has four zeros.
Padded(n) == n + (4 - (n % 4))

GetString(d, from) ==
    LET zeros == {n \in from..Len(d) : d[n] = 0}
    IN  IF zeros = {} THEN Raise("ParseError")
        ELSE LET n == (CHOOSE z \in zeros : \A y \in zeros : z <= y) - from
             IN  IF Padded(n) > Left(d, from) THEN Raise("ParseError")
                 ELSE IF ~IsText(Slice(d, from, Padded(n))) THEN Raise("UnicodeDecodeError")
                 ELSE At(SelectSeq(Slice(d, from, Padded(n)), LAMBDA c : c # 0), from + Padded(n))

\* A number of n bytes: unsigned, and signed.
Unsigned(bytes) == FoldLeft(LAMBDA sum, digit : sum * Radix + digit, 0, bytes)
Signed(bytes) ==
    LET u == Unsigned(bytes)
    IN  IF u < Power(Len(bytes)) \div 2 THEN u ELSE u - Power(Len(bytes))

GetBytes(d, from, n) ==
    IF Left(d, from) < n THEN Raise("ParseError") ELSE At(Slice(d, from, n), from + n)
SignedInt(bytes) == PyInt(Signed(bytes))
Colour(bytes) == PyInt(Unsigned(bytes))

\* The value of n bytes, in the way of its type.
ValueOf(type, bytes) ==
    CASE type = "int" -> SignedInt(bytes) [] type = "colour" -> Colour(bytes)
      [] type = "double" -> Float(bytes)  [] type = "time tag" -> TimeTag(bytes)
      [] type = "midi" -> Midi(bytes)
GetAs(type, d, from, n) ==
    The({IF IsOk(r) THEN At(ValueOf(type, r.v.v), from + n) ELSE r : r \in {GetBytes(d, from, n)}})

GetInt(d, from) == GetAs("int", d, from, 4)
GetInt64(d, from) == GetAs("int", d, from, 8)
GetRgba(d, from) == GetAs("colour", d, from, 4)
GetDouble(d, from) == GetAs("double", d, from, 8)
GetTimetag(d, from) == GetAs("time tag", d, from, 8)
GetMidi(d, from) == GetAs("midi", d, from, 4)

\* (Some senders leave out the last zeros of the last float.)
GetFloat(d, from) ==
    LET short == 4 - Len(Slice(d, from, 4))
    IN  At(Float(Slice(d, from, 4) \o Zeros(short)), from + 4)

GetBlob(d, from) ==
    The({IF ~IsOk(size) THEN size
         ELSE LET n == size.v.v.v
              IN  IF 4 + n > Left(d, from) THEN Raise("ParseError")
                  ELSE At(Bytes(Slice(d, from + 4, n)), from + 4 + n + ((-n) % 4))
         : size \in {GetInt(d, from)}})

Get(tag, d, from) ==
    CASE tag = Code("i") -> GetInt(d, from)
      [] tag = Code("h") -> GetInt64(d, from)
      [] tag = Code("f") -> GetFloat(d, from)
      [] tag = Code("d") -> GetDouble(d, from)
      [] tag = Code("s") ->
            The({IF IsOk(r) THEN At(Str(r.v.v), r.v.next) ELSE r : r \in {GetString(d, from)}})
      [] tag = Code("b") -> GetBlob(d, from)
      [] tag = Code("r") -> GetRgba(d, from)
      [] tag = Code("m") -> GetMidi(d, from)
      [] tag = Code("t") -> GetTimetag(d, from)
      [] tag = Code("T") -> At(Bool(TRUE), from)
      [] tag = Code("F") -> At(Bool(FALSE), from)
      [] tag = Code("N") -> At(None, from)

\* The parameters under construction, the innermost open list last.
CloseList(stack) ==
    LET outer == stack[Len(stack) - 1]
    IN  Append(SubSeq(stack, 1, Len(stack) - 2), Append(outer, List(Last(stack))))

Known == {TagCodes[tag] : tag \in DOMAIN TagCodes}

\* One type tag; one that is not known is passed over.
ReadParam(d, r, tag) ==
    IF ~IsOk(r) THEN r
    ELSE LET stack == r.v.v IN
         CASE tag = Code("[") -> At(Append(stack, <<>>), r.v.next)
           [] tag = Code("]") ->
                IF Len(stack) < 2 THEN Raise("ParseError") ELSE At(CloseList(stack), r.v.next)
           [] tag \in Known ->
                The({IF ~IsOk(value) THEN value
                     ELSE At(Append(Front(stack), Append(Last(stack), value.v.v)), value.v.next)
                     : value \in {Get(tag, d, r.v.next)}})
           [] OTHER -> r

\* The parameters, one type tag after the other.
ReadParams(d, tags, from) ==
    LET read[n \in 0..Len(tags)] ==
            IF n = 0 THEN At(<<<<>>>>, from)
            ELSE The({ReadParam(d, r, tags[n]) : r \in {read[n - 1]}})
    IN  read[Len(tags)]

WithoutComma(tags) == IF IsPrefix(<<Comma>>, tags) THEN Tail(tags) ELSE tags

\* OscMessage._parse_datagram.
ParseMessage(d) ==
    The({IF ~IsOk(address) THEN address
         ELSE IF Left(d, address.v.next) <= 0 THEN Ok([address |-> address.v.v, params |-> <<>>])
         ELSE The({IF ~IsOk(tags) THEN tags
                   ELSE The({IF ~IsOk(read) THEN read
                             ELSE IF Len(read.v.v) # 1 THEN Raise("ParseError")
                             ELSE Ok([address |-> address.v.v, params |-> read.v.v[1]])
                             : read \in {ReadParams(d, WithoutComma(tags.v.v), tags.v.next)}})
                   : tags \in {GetString(d, address.v.next)}})
         : address \in {GetString(d, 1)}})
OneMessage(d) == The({IF IsOk(m) THEN Ok(<<m.v>>) ELSE m : m \in {ParseMessage(d)}})

\* OscBundle: its messages in order, those of bundles inside it included.  A
\* ParseError of this class is not the one osc_server catches.
RECURSIVE ParseBundle(_), ParseContents(_, _)
ParseContent(d) ==
    IF IsBundle(d) THEN ParseBundle(d)
    ELSE IF IsPrefix(<<Slash>>, d) THEN OneMessage(d) ELSE Ok(<<>>)
ParseContents(d, from) ==
    IF Left(d, from) <= 0 THEN Ok(<<>>)
    ELSE The({IF ~IsOk(size) THEN Raise("bundle ParseError")
              ELSE The({IF this.error = "ParseError" THEN Raise("bundle ParseError")
                        ELSE IF ~IsOk(this) THEN this
                        ELSE The({IF IsOk(rest) THEN Ok(this.v \o rest.v) ELSE rest
                                  : rest \in {ParseContents(d, from + 4 + size.v.v.v)}})
                        : this \in {The({ParseContent(inner) : inner \in {Slice(d, from + 4, size.v.v.v)}})}})
              : size \in {GetInt(d, from)}})
ParseBundle(d) ==
    IF Left(d, Len(BundlePrefix) + 1) < TimeTagLen THEN Raise("bundle ParseError")
    ELSE ParseContents(d, Len(BundlePrefix) + TimeTagLen + 1)

\* What the server makes of a datagram.
Parse(d) ==
    IF IsBundle(d) THEN ParseBundle(d) ELSE OneMessage(d)
=============================================================================
