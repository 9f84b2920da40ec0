------------------------------ MODULE Decimal ------------------------------
(***************************************************************************)
(* Numbers in text: `port = port * 10 + digit', as geminon, the URL parser *)
(* and getaddrinfo() read a port.                                          *)
(***************************************************************************)
EXTENDS Integers, Sequences

(* What a sequence of digits is worth. *)
Value(digits) ==
  LET v[n \in 0..Len(digits)] == IF n = 0 THEN 0 ELSE 10 * v[n - 1] + digits[n]
  IN v[Len(digits)]
=============================================================================
