----------------------------- MODULE BinStream -----------------------------
(***************************************************************************)
(* The binary format of RiotBase (RB/cpp/RiotBase/System/BinStream.h):     *)
(* numbers of variable length, strings, and the identifiers made of them,  *)
(* as they are written in a queue of bytes and read from a string.         *)
(*                                                                         *)
(* A reader is a record: what is left to read, whether every read was      *)
(* possible (an impossible one empties the string), and what was read.     *)
(* Half is half the number of values of the type that is written or read:  *)
(* 128 for a byte, 2^63 for the largest.                                   *)
(***************************************************************************)
EXTENDS Integers, Sequences

-----------------------------------------------------------------------------
\* Writers

RECURSIVE LowFirst(_)
LowFirst(n) == IF n < 128 THEN <<n>> ELSE <<128 + (n % 128)>> \o LowFirst(n \div 128)

WriteUnsigned(n) == LowFirst(n)

\* - val of a type with Half negative values: the least one stays negative.
Opposite(v, half) == IF v = - half THEN v ELSE - v

\* The first byte holds the sign, whether there are others, and six bits.
WriteMagnitude(v, sign) ==
    IF v < 64 THEN <<(sign + v) % 256>> ELSE <<sign + 64 + (v % 64)>> \o LowFirst(v \div 64)
WriteSigned(v, half) ==
    IF half = 128 THEN <<v % 256>>      \* one byte, as it is
    ELSE IF v < 0 THEN WriteMagnitude(Opposite(v, half), 128) ELSE WriteMagnitude(v, 0)

SizeNeeded(n) ==
    LET res[k \in Nat] == IF k < 128 THEN 1 ELSE 1 + res[k \div 128] IN res[n]

\* sizeof( val ) bytes, the lowest first.
WriteLe(n, size) == [i \in 1 .. size |-> (n \div 2 ^ (8 * (i - 1))) % 256]

WriteString(s) == WriteUnsigned(Len(s)) \o s

-----------------------------------------------------------------------------
\* Readers

Reader(s) == [rest |-> s, ok |-> TRUE, args |-> <<>>]

\* ack_error: what is left is given up.
Failed(r) == [r EXCEPT !.rest = <<>>, !.ok = FALSE]
Value(r, v) == [r EXCEPT !.args = Append(@, v)]
Skip(r, n) == [r EXCEPT !.rest = SubSeq(@, n + 1, Len(@))]
LastOf(r) == r.args[Len(r.args)]
Dropped(r) == [r EXCEPT !.args = SubSeq(@, 1, Len(@) - 1)]

\* Reads fail, and give 0, when the string has ended.
ReadByte(r) == IF r.rest = <<>> THEN Value(Failed(r), 0) ELSE Value(Skip(r, 1), Head(r.rest))

\* The number that goes on after the bits read so far, `unit' being the
\* weight of the next byte.
RECURSIVE ReadMore(_, _, _)
ReadMore(r, res, unit) ==
    IF r.rest = <<>> THEN Value(Failed(r), res)
    ELSE IF Head(r.rest) < 128 THEN Value(Skip(r, 1), res + Head(r.rest) * unit)
    ELSE ReadMore(Skip(r, 1), res + (Head(r.rest) - 128) * unit, unit * 128)

ReadUnsigned(r) ==
    IF r.rest = <<>> THEN Value(Failed(r), 0)
    ELSE IF Head(r.rest) < 128 THEN Value(Skip(r, 1), Head(r.rest))
    ELSE ReadMore(Skip(r, 1), Head(r.rest) - 128, 128)

SkipUnsigned(r) == Dropped(ReadUnsigned(r))

\* The magnitude, whose first byte has six bits, and the sign.
ReadMagnitude(r) ==
    LET b == Head(r.rest) % 128
    IN  IF b < 64 THEN Value(Skip(r, 1), b) ELSE ReadMore(Skip(r, 1), b - 64, 64)
Negated(r) == Value(Dropped(r), - LastOf(r))
ReadSigned(r, half) ==
    IF r.rest = <<>> THEN Value(Failed(r), 0)
    ELSE IF Head(r.rest) < 128 THEN ReadMagnitude(r)
    ELSE IF half = 128 THEN Value(Skip(r, 1), Head(r.rest) - 256)  \* never over 127: below 64
    ELSE Negated(ReadMagnitude(r))

\* The readers that also count down the bytes they read.
ReadUnsignedWithin(r, l) == [r |-> ReadUnsigned(r), l |-> l - (Len(r.rest) - Len(ReadUnsigned(r).rest))]
ReadSignedWithin(r, l, half) ==
    [r |-> ReadSigned(r, half), l |-> l - (Len(r.rest) - Len(ReadSigned(r, half).rest))]

\* read_le goes on with zeros when the string has ended.
ReadLe(r, size) ==
    LET n == IF Len(r.rest) < size THEN Len(r.rest) ELSE size
        sum[i \in 0 .. n] == IF i = 0 THEN 0 ELSE sum[i - 1] + r.rest[i] * 2 ^ (8 * (i - 1))
    IN  Value(IF n < size THEN Failed(r) ELSE Skip(r, size), sum[n])

\* A string is given without a copy: it is a part of the one that is read.
TakeString(r, n) ==
    IF ~ r.ok \/ n > Len(r.rest) THEN Value(Failed(r), <<>>)
    ELSE Value(Skip(r, n), SubSeq(r.rest, 1, n))
ReadString(r) == LET q == ReadUnsigned(r) IN TakeString(Dropped(q), LastOf(q))

\* read_CbString( max_size ): a longer string is an error.
ReadStringUpTo(r, max) ==
    LET q == ReadUnsigned(r)
    IN  IF LastOf(q) > max THEN Value(Failed(Dropped(q)), <<>>) ELSE TakeString(Dropped(q), LastOf(q))

-----------------------------------------------------------------------------
\* What is made of numbers

\* A device is its identifier of 8 bytes; 2 are enough here.
DevSize == 2
WriteDev(dev) == WriteLe(dev, DevSize)
ReadDev(r) == ReadLe(r, DevSize)

\* An object or a user is a number and the device that made it; 0 has none.
WriteInode(i) == WriteUnsigned(i.num) \o (IF i.num = 0 THEN <<>> ELSE WriteDev(i.dev))
ReadInode(r) ==
    LET q == ReadUnsigned(r)
        n == LastOf(q)
        d == ReadDev(Dropped(q))
    IN  IF n = 0 THEN Value(Dropped(q), [num |-> 0, dev |-> 0])
        ELSE Value(Dropped(d), [num |-> n, dev |-> LastOf(d)])

\* Reads n pairs of a device and a number; stops at the first one that fails.
RECURSIVE ReadEntries(_, _, _)
ReadEntries(r, n, clock) ==
    IF n = 0 THEN Value(r, clock)
    ELSE LET d == ReadDev(r)
             k == ReadUnsigned(Dropped(d))
         IN  IF ~ k.ok THEN Value(Dropped(k), clock)
             ELSE ReadEntries(Dropped(k), n - 1, [x \in DOMAIN clock \cup {LastOf(d)} |->
                                IF x = LastOf(d) THEN LastOf(k) ELSE clock[x]])

\* A clock; the merges that follow are always empty in this code.
ReadClock(r) ==
    LET n == ReadUnsigned(r)
        e == ReadEntries(Dropped(n), LastOf(n), [d \in {} |-> 0])
        m == ReadUnsigned(e)
    IN  Dropped(m)
=============================================================================
