------------------------------ MODULE GccUnits ------------------------------
(***************************************************************************)
(* Arithmetic of the webrtc unit types (Timestamp, TimeDelta, DataRate)    *)
(* and of the C++ integer conversions the congestion controller uses.      *)
(* Time is in milliseconds and rates in kbps; the infinities are the       *)
(* "unset" sentinels of the unit types, and arithmetic on them saturates   *)
(* the way webrtc's unit operators do (release build).                    *)
(***************************************************************************)
EXTENDS Integers

PlusInfinity  == 1000000000
MinusInfinity == -PlusInfinity

IsFinite(x)   == x \notin {PlusInfinity, MinusInfinity}
IsInfinite(x) == ~IsFinite(x)

(* a - b for unit values: an infinite operand wins (TimeDelta::operator-). *)
Sub(a, b) ==
  IF a = PlusInfinity \/ b = MinusInfinity THEN PlusInfinity
  ELSE IF a = MinusInfinity \/ b = PlusInfinity THEN MinusInfinity
  ELSE a - b

Min2(a, b) == IF a <= b THEN a ELSE b
Max2(a, b) == IF a >= b THEN a ELSE b

(* webrtc::BandwidthUsage, the overuse detector's verdict. *)
Normal == "kBwNormal"
Overusing == "kBwOverusing"
Underusing == "kBwUnderusing"
BandwidthUsage == {Normal, Overusing, Underusing}

(* C++ integer division truncates toward zero. *)
TruncDiv(a, b) == IF (a >= 0) = (b > 0) THEN a \div b ELSE -((-a) \div b)

(* Assignment of an integer to a uint8_t keeps the low 8 bits. *)
ToUint8(x) == x % 256
=============================================================================
