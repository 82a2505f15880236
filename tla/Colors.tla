------------------------------- MODULE Colors --------------------------------
(***************************************************************************)
(* Hex colours in the strings of a document and how they are presented     *)
(* (src/src/colors.rs).  A channel is a byte in the text and a number of   *)
(* type f32 between 0 and 1 in the protocol: m / 2^k, with m of 24 bits.   *)
(***************************************************************************)
EXTENDS Cursors

CONSTANT HexDigits  \* of the strings that begin with "#": the digits, or 16 for no digit

ASSUME HexDigitsType ==
    /\ DOMAIN HexDigits \subseteq Strings
    /\ \A s \in DOMAIN HexDigits : HexDigits[s] \in Seq(0..16)

-----------------------------------------------------------------------------
(* Arithmetic of f32, with rounding to the nearest and of ties to the even.*)

\* The quotient q, with the rest, times 1/unit, rounded.
Nearest(q, rest, unit) ==
    IF 2 * rest > unit \/ (2 * rest = unit /\ q % 2 = 1) THEN q + 1 ELSE q

\* The quotient and the rest of n * 2^k / d, for the k with 24 binary digits.
Division(n, d) ==
    LET step[i \in 0..31] ==
            IF i = 0 THEN [q |-> n \div d, rest |-> n % d, k |-> 0]
            ELSE LET last == step[i - 1]
                 IN  IF last.q >= 2^23 THEN last
                     ELSE [q |-> 2 * last.q + (2 * last.rest) \div d,
                           rest |-> (2 * last.rest) % d, k |-> i]
    IN  step[31]

Rounded(division, d) == [m |-> Nearest(division.q, division.rest, d), k |-> division.k]

Quotient(n, d) == IF n = 0 THEN [m |-> 0, k |-> 0] ELSE Rounded(Division(n, d), d)

\* f * 255, from its upper and its lower digits; no more than 24 digits are kept.
Times255(f) ==
    LET low   == 255 * (f.m % 256)
        upper == 255 * (f.m \div 256) + low \div 256
    IN  IF upper >= 2^23 THEN [m |-> Nearest(upper, low % 256, 256), k |-> f.k - 8]
        ELSE [m |-> Nearest(2 * upper + (low % 256) \div 128, low % 128, 128), k |-> f.k - 7]

\* as u8: the digits after the point are cut off.
AsByte(f) == IF f.m = 0 THEN 0 ELSE Min({255, f.m \div 2^f.k})

-----------------------------------------------------------------------------
\* Mutant of Channel: there are 256 bytes.
ChannelOf256(byte) == Quotient(byte, 256)

Channel(byte) == Quotient(byte, 255)

\* parse_hex_color: red, green, blue and alpha, or nothing.
ParseHexColor(hex) ==
    LET Short == [i \in DOMAIN hex |-> Channel(hex[i] * 17)]
        Long  == [i \in 1..(Len(hex) \div 2) |-> Channel(hex[2 * i - 1] * 16 + hex[2 * i])]
    IN  CASE 16 \in ToSet(hex) \/ Len(hex) \notin {3, 4, 6, 8} -> <<>>
          [] Len(hex) = 3 -> Append(Short, Channel(255))
          [] Len(hex) = 6 -> Append(Long, Channel(255))
          [] OTHER -> IF Len(hex) = 4 THEN Short ELSE Long

\* collect_colors: keys count as well.
DocumentColors(root) ==
    LET RECURSIVE Collect(_)
        Collect(path) ==
            LET node  == NodeAt(root, path)
                color == IF node.kind = "string" /\ node.tokens[1] \in DOMAIN HexDigits
                         THEN ParseHexColor(HexDigits[node.tokens[1]]) ELSE <<>>
            IN  IF node.kind = "string"
                THEN IF color = <<>> THEN {} ELSE {[on |-> path, color |-> color]}
                ELSE UNION {Collect(Append(path, i)) : i \in DOMAIN node.children}
    IN  Collect(<<>>)

\* The first of color_presentations, as digits; alpha is left out if it is 1.
HexPresentation(color) ==
    LET shown == IF color[4] = Channel(255) THEN SubSeq(color, 1, 3) ELSE color
        Hex(byte) == <<byte \div 16, byte % 16>>
    IN  FlattenSeq([i \in DOMAIN shown |-> Hex(AsByte(Times255(shown[i])))])
=============================================================================
