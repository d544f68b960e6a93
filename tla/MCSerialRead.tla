---------------------------- MODULE MCSerialRead ----------------------------
(* No time at all, as service() asks for, some, the most, and forever; the *)
(* clock wraps around within a read.                                       *)
EXTENDS SerialRead

MCTimeouts == {0, 1, 3, Infinite - 1, Infinite}
=============================================================================
