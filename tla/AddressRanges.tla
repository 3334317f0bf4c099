---------------------------- MODULE AddressRanges ----------------------------
(***************************************************************************)
(* The texts of addresses and ports: how they are read into a range, how   *)
(* the range becomes a diagram, and how it is displayed.  Numbers are      *)
(* unsigned integers of Width bits, 32 or 128 in the code, 16 for ports.   *)
(*                                                                         *)
(* A text is a record: what inet_pton and str2num read is a number.        *)
(***************************************************************************)
EXTENDS Integers, FiniteSets

CONSTANTS
    Width,          \* bits of a number
    ShortDisplay    \* 1024: shorter ranges are displayed as lower+size

ASSUME RangesAssumption == Width \in Nat \ {0} /\ ShortDisplay \in Nat

MaxValue == 2^Width - 1
Values == 0 .. MaxValue
FullRange == [lower |-> 0, upper |-> MaxValue]
RangeOf(lower, upper) == [lower |-> lower, upper |-> upper]
Refused == [lower |-> -1, upper |-> -1]

Wrapped(n) == n % 2^Width
Complement(n) == MaxValue - n
Bits(n) == {i \in 0 .. (Width - 1) : (n \div 2^i) % 2 = 1}

(***************************************************************************)
(* Reading an address.                                                     *)
(***************************************************************************)
PrefixMask(bits) == IF bits < Width THEN Complement(MaxValue \div 2^bits) ELSE MaxValue

HostBitsSet(network, mask) == ~(Bits(network) \subseteq Bits(mask))

\* A variant with a mistake: the sum that wraps around is not looked at.
BugNetworkRange(network, mask, strict) ==
    IF strict /\ HostBitsSet(network, mask) THEN Refused
    ELSE RangeOf(network, Wrapped(network + Complement(mask)))

NetworkRange(network, mask, strict) ==
    LET upper == Wrapped(network + Complement(mask)) IN
    IF (strict /\ HostBitsSet(network, mask)) \/ upper < network
    THEN Refused
    ELSE RangeOf(network, upper)

ReadAddress(text, strict) ==
    CASE text.form = "single" -> RangeOf(text.low, text.low)
      [] text.form = "prefix" -> IF text.high > Width THEN Refused
                                 ELSE NetworkRange(text.low, PrefixMask(text.high), strict)
      [] text.form = "mask"   -> NetworkRange(text.low, text.high, strict)
      [] text.form = "range"  -> IF text.low > text.high THEN Refused
                                 ELSE RangeOf(text.low, text.high)
      [] OTHER -> Refused     \* "offset" is only displayed, "all" is for ports

\* Reading the ports of a protocol.
ReadPorts(text) ==
    CASE text.form = "all"    -> FullRange
      [] text.form = "single" -> RangeOf(text.low, text.low)
      [] text.form = "range"  -> IF text.low > text.high THEN Refused
                                 ELSE RangeOf(text.low, text.high)
      [] OTHER -> Refused

(***************************************************************************)
(* The range.                                                              *)
(***************************************************************************)
IsSingleton(range) == range.lower = range.upper

\* A variant with a mistake: the difference is taken for the size.
BugIsPowerOf2(range) ==
    LET diff == range.upper - range.lower IN
    diff = 0 \/ diff = MaxValue \/ Bits(diff) \cap Bits(diff - 1) = {}

IsPowerOf2(range) ==
    LET diff == range.upper - range.lower IN
    diff = 0 \/ diff = MaxValue \/ Bits(diff + 1) \cap Bits(diff) = {}

Diagram(range) ==
    CASE range = FullRange -> Values
      [] range # FullRange /\ IsSingleton(range) -> {range.lower}
      [] OTHER -> {n \in Values : range.lower <= n /\ n <= range.upper}

(***************************************************************************)
(* Displaying the range.                                                   *)
(***************************************************************************)
Text(form, low, high) == [form |-> form, low |-> low, high |-> high]

DisplayAddress(range) ==
    LET diff == range.upper - range.lower IN
    CASE IsSingleton(range) -> Text("single", range.lower, 0)
      [] ~IsSingleton(range) /\ IsPowerOf2(range) ->
            Text("prefix", range.lower, Width - Cardinality(Bits(diff)))
      [] ~IsPowerOf2(range) /\ diff < ShortDisplay -> Text("offset", range.lower, diff)
      [] OTHER -> Text("range", range.lower, range.upper)

DisplayPorts(range) ==
    IF IsSingleton(range) THEN Text("single", range.lower, 0)
                          ELSE Text("range", range.lower, range.upper)

-----------------------------------------------------------------------------
VARIABLES
    kind,       \* "address" or "ports"
    text,       \* what is written
    strict,     \* the strict_ip_parser option
    step,       \* "written", "read", "displayed"
    range,      \* what was read
    shown       \* what is displayed

vars == <<kind, text, strict, step, range, shown>>

Texts ==
    {Text("all", 0, 0)}
    \cup {Text("single", low, 0) : low \in Values}
    \cup {Text("prefix", low, bits) : low \in Values, bits \in 0 .. (Width + 1)}
    \cup {Text(form, low, high) : form \in {"mask", "range"}, low \in Values, high \in Values}

Init ==
    /\ kind \in {"address", "ports"}
    /\ text \in Texts
    /\ strict \in BOOLEAN
    /\ step = "written"
    /\ range = Refused
    /\ shown = text

Read ==
    /\ step = "written"
    /\ step' = "read"
    /\ range' = IF kind = "address" THEN ReadAddress(text, strict) ELSE ReadPorts(text)
    /\ UNCHANGED <<kind, text, strict, shown>>

Display ==
    /\ step = "read" /\ range # Refused
    /\ step' = "displayed"
    /\ shown' = IF kind = "address" THEN DisplayAddress(range) ELSE DisplayPorts(range)
    /\ UNCHANGED <<kind, text, strict, range>>

Next == Read \/ Display

Spec == Init /\ [][Next]_vars

-----------------------------------------------------------------------------
(***************************************************************************)
(* The reference: the addresses a text stands for, counted one by one and  *)
(* without wrapping, whether they exist or not.                            *)
(***************************************************************************)
Meant ==
    LET Block(size) == {text.low + k : k \in 0 .. (size - 1)} IN
    CASE text.form = "all"    -> IF kind = "ports" THEN Values ELSE {}
      [] text.form = "single" -> {text.low}
      [] text.form = "range"  -> text.low .. text.high
      [] kind = "ports" /\ text.form \in {"prefix", "mask"} -> {}
      [] kind = "address" /\ text.form = "mask" -> Block(2^Width - text.high)
      [] kind = "address" /\ text.form = "prefix" ->
            IF text.high > Width THEN {} ELSE Block(2^(Width - text.high))

Aligned ==
    CASE text.form = "prefix" -> text.low % 2^(Width - text.high) = 0
      [] text.form = "mask" -> \A i \in 0 .. (Width - 1) :
            (text.low \div 2^i) % 2 <= (text.high \div 2^i) % 2
      [] OTHER -> TRUE

(***************************************************************************)
(* A text is read as the addresses it stands for, or refused: it never     *)
(* wraps around to low addresses, at 0 and at the last address neither.    *)
(***************************************************************************)
ReadsWhatIsMeant ==
    step # "written" =>
        IF Meant # {} /\ Meant \subseteq Values /\ (strict /\ kind = "address" => Aligned)
        THEN range # Refused /\ Diagram(range) = Meant
        ELSE range = Refused

(***************************************************************************)
(* What is displayed can be typed back and means the same, but for the     *)
(* short form, that the parser refuses.  It takes the parser that is not   *)
(* strict: a subnet is recognised by its size, aligned or not.             *)
(***************************************************************************)
DisplayReadsBack ==
    step = "displayed" =>
        IF kind = "ports" THEN ReadPorts(shown) = range
        ELSE ReadAddress(shown, FALSE) = IF shown.form = "offset" THEN Refused ELSE range
=============================================================================
