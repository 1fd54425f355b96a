-------------------------------- MODULE Attr --------------------------------
(***************************************************************************)
(* Attributes (attr.c) and what iRODS makes of them: the attributes in      *)
(* replies, the access level a mode is turned into by SETATTR, and the mode *)
(* an access level is turned into when a collection is listed.              *)
(*                                                                         *)
(* A mode is its three digits <<owner, group, other>>; the bits above them  *)
(* play no part.                                                            *)
(***************************************************************************)
EXTENDS Integers, Sequences, FiniteSets

Digit == 0..7
Mode == Digit \X Digit \X Digit
Bit(digit, b) == (digit \div b) % 2 = 1
R == 4
W == 2
X == 1

\* 0 none, 1 read, 2 write, 3 own: the digits are looked at from the last to the
\* first; write without read in any of them decides, otherwise the last digit
\* looked at that grants something.
permission(mode) ==
    LET granting == {i \in 1..3 : mode[i] # 0}
        first == CHOOSE i \in granting : \A j \in granting : i <= j
    IN  IF \E i \in 1..3 : mode[i] \in {2, 3} THEN 2
        ELSE IF granting = {} THEN 0
        ELSE IF mode[first] \in {6, 7} THEN 3 ELSE 1

Levels == {"null", "read", "write", "own"}

AccessLevel(mode) ==
    CASE permission(mode) = 1 -> "read"
      [] permission(mode) = 2 -> "write"
      [] permission(mode) = 3 -> "own"
      [] OTHER -> "null"

\* The chmod of a listed object.
ModeOf(level) ==
    CASE level = "own" -> <<6, 0, 0>>
      [] level = "write" -> <<2, 0, 0>>
      [] level = "read" -> <<4, 0, 0>>
      [] OTHER -> <<0, 0, 0>>

----------------------------------------------------------------------------
(* Attributes in replies.  A stat buffer is [kind, mode, ino, size]; owners,     *)
(* devices and times are left out.                                              *)

NoAttr == [follow |-> FALSE]

is_reg(st) == st.kind = "reg"

\* Executable files are shown as readable if the server was told so.
shown_mode(mode) ==
    [i \in 1..3 |-> IF Bit(mode[i], X) /\ ~Bit(mode[i], R) THEN mode[i] + R ELSE mode[i]]

get_post_buf(st, readable_executables) ==
    [follow |-> TRUE, kind |-> st.kind, fileid |-> st.ino, size |-> st.size,
     mode |-> IF readable_executables /\ is_reg(st) THEN shown_mode(st.mode) ELSE st.mode]

\* The attributes of what is at a path (its stat buffer, if there is something),
\* unless it is not what the request began with.
get_post_ll(there, ino, readable_executables) ==
    IF \E st \in there : st.ino = ino
    THEN get_post_buf(CHOOSE st \in there : TRUE, readable_executables)
    ELSE NoAttr
=============================================================================
